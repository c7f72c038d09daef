---------------------------- MODULE AsyncRuntime ----------------------------
(***************************************************************************)
(* The async runtime that codegen.rs puts into every generated program: a  *)
(* queue of jobs, at most max_workers worker threads that are started on   *)
(* demand and sleep on one condition variable, join handles that are one-  *)
(* shot channels, and awaits that, on a worker, run queued jobs on top of  *)
(* the waiting one instead of blocking (try_run_one).                      *)
(*                                                                         *)
(* A task's body is the sequence of runtime calls it makes; the values it  *)
(* computes are abstracted to whether there is one.  A thread is a stack   *)
(* of frames, the last one running.  Deadlines pass when Expire says so.   *)
(***************************************************************************)
EXTENDS Naturals, Sequences

CONSTANTS Task,      \* the tasks of the program, Main excluded
          Main,      \* the main function, which runs on the main thread
          Programs,  \* what may be run: [body, handles, canceled, max_workers]
          MaxWorkers \* the largest max_workers of a program

VARIABLES program,  \* the one that runs
          jobs,     \* AxiomRuntimePoolState.jobs
          workers,  \* AxiomRuntimePoolState.workers
          asleep,   \* the workers that wait on the condition variable
          stack,    \* each thread's frames, the running one last
          active,   \* each thread's AXIOM_RUNTIME_WORKER_ACTIVE
          timers,   \* the threads with a pending timer-wheel request
          entry,    \* how each task was handed to the pool
          result,   \* what each task's one-shot channel holds
          status    \* of the process

vars == <<program, jobs, workers, asleep, stack, active, timers, entry, result, status>>

Worker == 1..MaxWorkers
Thread == {Main} \cup Worker
Op == {"spawn", "join", "timeout", "sleep", "panic"}
Instr == [op : Op, of : Task \cup {Main}]
Frame == [task : Task \cup {Main}, pc : Nat \ {0}, previous : BOOLEAN, helping : BOOLEAN, due : BOOLEAN]

\* The join handles task s has spawned for itself before its k-th call
Spawned(p, s, k) == {p.body[s][j].of : j \in {i \in 1..k - 1 : p.body[s][i].op = "spawn"}}
Held(p, s, k) == p.handles[s] \cup Spawned(p, s, k)
Starts(i) == i.op \in {"spawn", "timeout"}

\* What the language makes of task and handle values, which are moved: a task is
\* started by one call, a handle is joined by a task that spawned it or was given
\* it when it was started, and no cycle of tasks holds each other's handles.
IsProgram(p) ==
  /\ p.body \in [Task \cup {Main} -> Seq(Instr)] /\ p.handles \in [Task \cup {Main} -> SUBSET Task]
  /\ p.canceled \subseteq Task /\ p.max_workers \in 1..MaxWorkers
  /\ p.handles[Main] = {}
  /\ \A s \in Task \cup {Main} : \A k \in DOMAIN p.body[s] :
       LET i == p.body[s][k] IN
         /\ Starts(i) \/ i.op = "join" => i.of \in Task
         /\ i.op = "join" => i.of \in Held(p, s, k)
         /\ Starts(i) => p.handles[i.of] \subseteq Held(p, s, k)
         /\ \A r \in Task \cup {Main} : \A l \in DOMAIN p.body[r] :
              Starts(i) /\ Starts(p.body[r][l]) /\ p.body[r][l].of = i.of => r = s /\ l = k
  /\ \A S \in (SUBSET Task) \ {{}} : \E t \in S : \A k \in DOMAIN p.body[t] :
       p.body[t][k].op = "join" => p.body[t][k].of \notin S

Sound == MaxWorkers \in Nat /\ Main \notin Task \cup Nat /\ \A p \in Programs : IsProgram(p)

ASSUME ProgramsAreSound == Sound

NewFrame(t, previous) ==
  [task |-> t, pc |-> 1, previous |-> previous, helping |-> FALSE, due |-> FALSE]

Init ==
  /\ program \in Programs
  /\ jobs = <<>> /\ workers = 0 /\ asleep = {} /\ timers = {}
  /\ stack = [th \in Thread |-> IF th = Main THEN <<NewFrame(Main, FALSE)>> ELSE <<>>]
  /\ active = [th \in Thread |-> FALSE]
  /\ entry = [t \in Task |-> "none"]
  /\ result = [t \in Task |-> "empty"]
  /\ status = "running"

-----------------------------------------------------------------------------
Top(th) == stack[th][Len(stack[th])]
Running(th) == status = "running" /\ stack[th] # <<>>
AtEnd(f) == f.pc > Len(program.body[f.task])
Instruction(f) == program.body[f.task][f.pc]
\* axiom_await refuses a canceled task before its body has started.
Canceled(f) == f.pc = 1 /\ f.task \in program.canceled
At(th, op) ==
  Running(th) /\ ~Canceled(Top(th)) /\ ~AtEnd(Top(th)) /\ Instruction(Top(th)).op = op
Awaited(f) == Instruction(f).of

SetTop(th, f) == stack' = [stack EXCEPT ![th][Len(stack[th])] = f]
Advance(th) ==
  SetTop(th, [Top(th) EXCEPT !.pc = @ + 1, !.helping = FALSE, !.due = FALSE])

\* AxiomRuntimePool::schedule, under the pool's mutex
Schedule_NoNotify(u) ==
  /\ jobs' = Append(jobs, u)
  /\ workers' = IF workers < program.max_workers THEN workers + 1 ELSE workers
  /\ UNCHANGED asleep

Schedule(u) ==
  /\ jobs' = Append(jobs, u)
  /\ workers' = IF workers < program.max_workers THEN workers + 1 ELSE workers
  /\ IF asleep = {} THEN UNCHANGED asleep
     ELSE \E w \in asleep : asleep' = asleep \ {w}

\* The popped job becomes the thread's running frame; AxiomRuntimeWorkerGuard
\* remembers the flag it found and sets it.
RunPopped_Peeked(th, below) ==
  /\ stack' = [stack EXCEPT ![th] = Append(below, NewFrame(jobs[1], active[th]))]
  /\ active' = [active EXCEPT ![th] = TRUE]
  /\ jobs' \in {jobs, Tail(jobs)}

RunPopped(th, below) ==
  /\ jobs' = Tail(jobs)
  /\ stack' = [stack EXCEPT ![th] = Append(below, NewFrame(jobs[1], active[th]))]
  /\ active' = [active EXCEPT ![th] = TRUE]

\* The guard's drop
Restore_Cleared(f) == FALSE
Restore(f) == f.previous

\* The job's closure returns or is caught by catch_unwind.
Leave(th, outcome) ==
  LET f == Top(th) IN
    /\ stack' = [stack EXCEPT ![th] = SubSeq(@, 1, Len(@) - 1)]
    /\ active' = [active EXCEPT ![th] = Restore(f)]
    /\ IF f.task = Main
       THEN status' = outcome /\ UNCHANGED result
       ELSE result' = [result EXCEPT ![f.task] = outcome] /\ UNCHANGED status
    /\ UNCHANGED <<program, jobs, workers, asleep, timers, entry>>

-----------------------------------------------------------------------------
(* The calls a task makes                                                  *)

\* axiom_async_spawn
Spawn(th) ==
  /\ At(th, "spawn")
  /\ LET u == Awaited(Top(th)) IN
       Schedule(u) /\ entry' = [entry EXCEPT ![u] = "spawn"]
  /\ Advance(th)
  /\ UNCHANGED <<program, active, timers, result, status>>

\* axiom_async_timeout up to its loop: a canceled task is not even started.
StartTimeout(th) ==
  /\ At(th, "timeout")
  /\ LET u == Awaited(Top(th)) IN
       /\ entry[u] = "none"
       /\ IF u \in program.canceled
          THEN Advance(th) /\ UNCHANGED <<jobs, workers, asleep, entry>>
          ELSE /\ Schedule(u)
               /\ entry' = [entry EXCEPT ![u] = "timeout"]
               /\ UNCHANGED stack
  /\ UNCHANGED <<program, active, timers, result, status>>

\* A frame that polls a channel: axiom_runtime_recv, or the loop of
\* axiom_async_timeout.
Polling(th) ==
  \/ At(th, "join")
  \/ At(th, "timeout") /\ entry[Awaited(Top(th))] # "none"

\* try_recv finds the value.
Receive(th) ==
  /\ Polling(th) /\ ~Top(th).helping
  /\ result[Awaited(Top(th))] = "value"
  /\ Advance(th)
  /\ UNCHANGED <<program, jobs, workers, asleep, active, timers, entry, result, status>>

\* try_recv finds nothing and the deadline has passed: the await yields None.
GiveUp(th) ==
  /\ Polling(th) /\ ~Top(th).helping
  /\ Instruction(Top(th)).op = "timeout" /\ Top(th).due
  /\ result[Awaited(Top(th))] = "empty"
  /\ Advance(th)
  /\ UNCHANGED <<program, jobs, workers, asleep, active, timers, entry, result, status>>

\* try_recv finds nothing; only a worker goes on to try_run_one.
Poll(th) ==
  /\ Polling(th) /\ ~Top(th).helping /\ ~Top(th).due
  /\ result[Awaited(Top(th))] = "empty"
  /\ active[th]
  /\ SetTop(th, [Top(th) EXCEPT !.helping = TRUE])
  /\ UNCHANGED <<program, jobs, workers, asleep, active, timers, entry, result, status>>

\* try_run_one, or a short sleep when there is no job
Help(th) ==
  /\ Polling(th) /\ Top(th).helping
  /\ LET below == [stack[th] EXCEPT ![Len(stack[th])].helping = FALSE] IN
       IF jobs = <<>>
       THEN stack' = [stack EXCEPT ![th] = below] /\ UNCHANGED <<jobs, active>>
       ELSE RunPopped(th, below)
  /\ UNCHANGED <<program, workers, asleep, timers, entry, result, status>>

\* axiom_timer_sleep_ms: the request goes to the timer wheel, whose thread
\* answers when it is due; the sleeper blocks and does not help.
Sleep(th) ==
  /\ At(th, "sleep") /\ ~Top(th).helping
  /\ timers' = timers \cup {th}
  /\ SetTop(th, [Top(th) EXCEPT !.helping = TRUE])
  /\ UNCHANGED <<program, jobs, workers, asleep, active, entry, result, status>>

Fire(th) ==
  /\ status = "running" /\ th \in timers
  /\ timers' = timers \ {th}
  /\ UNCHANGED <<program, jobs, workers, asleep, stack, active, entry, result, status>>

Slept(th) ==
  /\ At(th, "sleep") /\ Top(th).helping /\ th \notin timers
  /\ Advance(th)
  /\ UNCHANGED <<program, jobs, workers, asleep, active, timers, entry, result, status>>

\* Time passes the deadline of a timed await, wherever on a stack it is.
Expire(th, i) ==
  /\ status = "running"
  /\ LET f == stack[th][i] IN
       /\ ~AtEnd(f) /\ Instruction(f).op = "timeout"
       /\ entry[Awaited(f)] # "none" /\ ~f.due
  /\ stack' = [stack EXCEPT ![th][i].due = TRUE]
  /\ UNCHANGED <<program, jobs, workers, asleep, active, timers, entry, result, status>>

\* The body has returned and the value is sent.
Return(th) == Running(th) /\ ~Canceled(Top(th)) /\ AtEnd(Top(th)) /\ Leave(th, "value")

\* The body panics: by itself, because the task was canceled, or because what
\* it awaits has panicked.  A spawned task's sender is dropped, a timed task
\* sends Panicked.
Raise(th) ==
  /\ \/ Running(th) /\ Canceled(Top(th))
     \/ At(th, "panic")
     \/ Polling(th) /\ ~Top(th).helping /\ result[Awaited(Top(th))] = "panicked"
  /\ Leave(th, "panicked")

-----------------------------------------------------------------------------
(* The loop of a worker thread                                             *)

Idle(w) == status = "running" /\ w <= workers /\ stack[w] = <<>> /\ w \notin asleep

TakeJob(w) ==
  /\ Idle(w) /\ jobs # <<>>
  /\ RunPopped(w, <<>>)
  /\ UNCHANGED <<program, workers, asleep, timers, entry, result, status>>

WaitForJob(w) ==
  /\ Idle(w) /\ jobs = <<>>
  /\ asleep' = asleep \cup {w}
  /\ UNCHANGED <<program, jobs, workers, stack, active, timers, entry, result, status>>

\* The condition variable may wake a worker nobody notified.
SpuriousWakeup(w) ==
  /\ status = "running" /\ w \in asleep
  /\ asleep' = asleep \ {w}
  /\ UNCHANGED <<program, jobs, workers, stack, active, timers, entry, result, status>>

Exited == status # "running" /\ UNCHANGED vars

ThreadStep(th) ==
  \/ Spawn(th) \/ StartTimeout(th) \/ Receive(th) \/ GiveUp(th) \/ Poll(th) \/ Help(th)
  \/ Sleep(th) \/ Slept(th) \/ Return(th) \/ Raise(th)
WorkerStep(w) == TakeJob(w) \/ WaitForJob(w)
Elapse(th) == Fire(th) \/ \E i \in DOMAIN stack[th] : Expire(th, i)

Next ==
  \/ \E th \in Thread : ThreadStep(th) \/ Elapse(th)
  \/ \E w \in Worker : WorkerStep(w) \/ SpuriousWakeup(w)
  \/ Exited

\* The operating system runs every thread that can run, and time passes.
Fairness ==
  /\ \A th \in Thread : WF_vars(ThreadStep(th)) /\ WF_vars(Elapse(th))
  /\ \A w \in Worker : WF_vars(WorkerStep(w))

Spec == Init /\ [][Next]_vars
FairSpec == Spec /\ Fairness

-----------------------------------------------------------------------------
TypeOK ==
  /\ jobs \in Seq(Task) /\ workers \in 0..program.max_workers
  /\ asleep \subseteq 1..workers
  /\ stack \in [Thread -> Seq(Frame)] /\ active \in [Thread -> BOOLEAN]
  /\ timers \subseteq Thread
  /\ entry \in [Task -> {"none", "spawn", "timeout"}]
  /\ result \in [Task -> {"empty", "value", "panicked"}]
  /\ status \in {"running", "value", "panicked"}

\* The places a task is at: in the queue, which has number 0, or on the stack of
\* some thread.
Queued(t) == {<<0, i>> : i \in {j \in DOMAIN jobs : jobs[j] = t}}
Frames(t) == UNION {{<<th, i>> : i \in {j \in DOMAIN stack[th] : stack[th][j].task = t}} : th \in Thread}
Places(t) == Queued(t) \cup Frames(t)
Pending(t) == entry[t] # "none" /\ result[t] = "empty"

\* A task handed to the pool is in the queue, or on one stack, or has its
\* outcome: no job is lost or run twice, whichever of the workers and the
\* helping awaits takes it.
OneHolder ==
  \A t \in Task :
    IF Pending(t) THEN \E p \in Places(t) : Places(t) = {p} ELSE Places(t) = {}

\* What the pool, the stacks and the join handles say of the tasks is well formed
\* and agrees.
WellFormed == TypeOK /\ OneHolder

\* While a job is queued some worker is awake, so the queue is looked at
\* again without another call of schedule.
QueueIsServed == jobs # <<>> => \E w \in 1..workers : w \notin asleep

\* The threads that can do nothing but poll for another task's outcome
Waits(th) == Polling(th) /\ result[Awaited(Top(th))] = "empty"
Buried(t) == \E th \in Thread : \E i \in 1..Len(stack[th]) - 1 : stack[th][i].task = t
Deadlocked ==
  /\ Running(Main) /\ timers = {}
  /\ jobs # <<>> => \A w \in 1..workers :
       w \in asleep \/ (stack[w] # <<>> /\ ~active[w])
  /\ \A th \in Thread : stack[th] # <<>> => Waits(th) /\ Instruction(Top(th)).op = "join"

\* If the runtime hangs, it is because an await ran a job on top of a frame
\* that the job itself waits for: no hang comes from the pool running out of
\* workers or from a wakeup that was missed.
HangsOnlyByBurial ==
  Deadlocked => \E th \in Thread : stack[th] # <<>> /\ Buried(Awaited(Top(th)))

\* Every join handle is joined by the task that spawned it.
Indices(s, op, t) == {i \in DOMAIN s : s[i].op = op /\ s[i].of = t}
Structured ==
  \A s \in Task \cup {Main} : \A t \in Task :
    Indices(program.body[s], "join", t) # {} => Indices(program.body[s], "spawn", t) # {}

\* With any number of workers, one included, a program whose handles stay
\* with the spawning task runs to its end: an await that helps never waits,
\* directly or through others, for the frame it helps on top of.
Terminates == Structured => <>(status # "running")

=============================================================================
