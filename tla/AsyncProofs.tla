---------------------------- MODULE AsyncProofs ----------------------------
(***************************************************************************)
(* For every set of programs and every number of workers: no job is lost   *)
(* or run twice, the queue is always served, and a hang is a burial.  The  *)
(* inductive invariant says where each task is, which join handles a frame *)
(* may hold, and that what a frame is about to spawn was not started yet.  *)
(* The steps fall into a few kinds: a call goes on, a task is started, a   *)
(* job is taken from the queue, a frame ends, a worker sleeps or wakes.    *)
(***************************************************************************)
EXTENDS AsyncRuntime, TLAPS

\* The calls of a frame's task.
Body(f) == program.body[f.task]

\* No task is at two places.
Apart ==
  /\ \A i, j \in DOMAIN jobs : jobs[i] = jobs[j] => i = j
  /\ \A th, tg \in Thread : \A i \in DOMAIN stack[th], j \in DOMAIN stack[tg] :
       stack[th][i].task = stack[tg][j].task => th = tg /\ i = j
  /\ \A th \in Thread : \A i \in DOMAIN stack[th], j \in DOMAIN jobs : stack[th][i].task # jobs[j]

\* A task is at a place as long as it is pending.
Placed ==
  /\ \A i \in DOMAIN jobs : Pending(jobs[i])
  /\ \A th \in Thread : \A i \in DOMAIN stack[th] : stack[th][i].task # Main => Pending(stack[th][i].task)
  /\ \A t \in Task : entry[t] = "none" => result[t] = "empty"
  /\ \A t \in Task : Pending(t) =>
       \/ \E i \in DOMAIN jobs : jobs[i] = t
       \/ \E th \in Thread : \E i \in DOMAIN stack[th] : stack[th][i].task = t

\* A worker that runs something has its flag set, and will have it set again when
\* it is back in a frame below.
Flags ==
  \A w \in Worker :
    /\ stack[w] # <<>> => active[w]
    /\ \A i \in DOMAIN stack[w] : i > 1 => stack[w][i].previous

\* A task's handles are handles of tasks that were started.
Handles ==
  /\ \A i \in DOMAIN jobs : \A t \in program.handles[jobs[i]] : entry[t] # "none"
  /\ \A th \in Thread : \A i \in DOMAIN stack[th] :
       \A t \in Held(program, stack[th][i].task, stack[th][i].pc) : entry[t] # "none"

\* The k-th call of s is still to come.
Ahead(s, k) ==
  \/ s \in Task /\ entry[s] = "none"
  \/ \E i \in DOMAIN jobs : jobs[i] = s
  \/ \E th \in Thread : \E i \in DOMAIN stack[th] : stack[th][i].task = s /\ stack[th][i].pc <= k

\* What a call to come will spawn was not started yet.
Fresh ==
  \A s \in Task \cup {Main} : \A k \in DOMAIN program.body[s] :
    program.body[s][k].op = "spawn" /\ Ahead(s, k) => entry[program.body[s][k].of] = "none"

\* g is f, perhaps after a call other than spawn.
Later(f, g) ==
  /\ g \in Frame /\ g.task = f.task /\ g.previous = f.previous
  /\ \/ g.pc = f.pc
     \/ g.pc = f.pc + 1 /\ f.pc \in DOMAIN Body(f) /\ Body(f)[f.pc].op # "spawn"

\* The inductive invariant.
IInv ==
  /\ program \in Programs /\ TypeOK /\ Apart /\ Placed /\ Flags /\ Handles /\ Fresh /\ QueueIsServed

-----------------------------------------------------------------------------
\* The program that runs is one the language allows.
LEMMA ProgramTypes ==
  ASSUME program \in Programs
  PROVE  /\ IsProgram(program) /\ MaxWorkers \in Nat /\ Main \notin Task /\ Main \notin Nat
         /\ program.body \in [Task \cup {Main} -> Seq(Instr)]
         /\ program.handles \in [Task \cup {Main} -> SUBSET Task]
         /\ program.max_workers \in Nat /\ program.max_workers >= 1 /\ program.max_workers <= MaxWorkers
         /\ program.handles[Main] = {}
  <1>1. IsProgram(program) /\ MaxWorkers \in Nat /\ Main \notin Task /\ Main \notin Nat
    BY ProgramsAreSound DEF Sound
  <1>2. program.max_workers \in 1..MaxWorkers
    BY <1>1 DEF IsProgram
  <1>3. program.max_workers \in Nat /\ program.max_workers >= 1 /\ program.max_workers <= MaxWorkers
    BY <1>1, <1>2
  <1>4. /\ program.body \in [Task \cup {Main} -> Seq(Instr)]
        /\ program.handles \in [Task \cup {Main} -> SUBSET Task] /\ program.handles[Main] = {}
    BY Zenon, <1>1 DEF IsProgram
  <1> QED BY <1>1, <1>3, <1>4

\* What a call names.
LEMMA CallTypes ==
  ASSUME program \in Programs, NEW s \in Task \cup {Main}, NEW k \in DOMAIN program.body[s]
  PROVE  /\ k \in Nat /\ k >= 1 /\ program.body[s][k] \in Instr
         /\ Starts(program.body[s][k]) \/ program.body[s][k].op = "join" => program.body[s][k].of \in Task
         /\ program.body[s][k].op = "join" => program.body[s][k].of \in Held(program, s, k)
         /\ Starts(program.body[s][k]) =>
              program.handles[program.body[s][k].of] \subseteq Held(program, s, k)
  <1>1. IsProgram(program) /\ program.body[s] \in Seq(Instr)
    BY ProgramTypes
  <1>2. k \in Nat /\ k >= 1 /\ program.body[s][k] \in Instr
    BY <1>1
  <1> QED BY <1>1, <1>2 DEF IsProgram

\* A task is started by one call of the program.
LEMMA StartedOnce ==
  ASSUME program \in Programs, NEW s \in Task \cup {Main}, NEW k \in DOMAIN program.body[s],
         NEW r \in Task \cup {Main}, NEW l \in DOMAIN program.body[r],
         Starts(program.body[s][k]), Starts(program.body[r][l]),
         program.body[r][l].of = program.body[s][k].of
  PROVE  r = s /\ l = k
  BY ProgramTypes DEF IsProgram

\* The running frame of a thread.
LEMMA TopTypes ==
  ASSUME TypeOK, NEW th \in Thread, stack[th] # <<>>
  PROVE  /\ stack[th] \in Seq(Frame) /\ Len(stack[th]) \in Nat /\ Len(stack[th]) >= 1
         /\ Len(stack[th]) \in DOMAIN stack[th] /\ Top(th) \in Frame
         /\ Top(th) = stack[th][Len(stack[th])]
  <1>1. stack[th] \in Seq(Frame)
    BY DEF TypeOK
  <1> QED BY <1>1 DEF Top

\* The call a frame makes.
LEMMA InstructionTypes ==
  ASSUME program \in Programs, NEW f \in Frame, ~AtEnd(f)
  PROVE  /\ f.task \in Task \cup {Main} /\ f.pc \in DOMAIN program.body[f.task]
         /\ Instruction(f) = program.body[f.task][f.pc] /\ Instruction(f) \in Instr
  <1>1. f.task \in Task \cup {Main} /\ f.pc \in Nat \ {0}
    BY DEF Frame
  <1>2. program.body[f.task] \in Seq(Instr)
    BY <1>1, ProgramTypes
  <1>3. f.pc \in DOMAIN program.body[f.task]
    BY <1>1, <1>2 DEF AtEnd
  <1> QED BY <1>1, <1>2, <1>3 DEF Instruction

\* A call hands out a handle only if it is a spawn.
LEMMA HeldAfter ==
  ASSUME NEW s, NEW k \in Nat
  PROVE  /\ Held(program, s, k) \subseteq Held(program, s, k + 1)
         /\ Held(program, s, k + 1) \subseteq Held(program, s, k) \cup {program.body[s][k].of}
         /\ program.body[s][k].op # "spawn" => Held(program, s, k + 1) \subseteq Held(program, s, k)
  <1>1. \A i : i \in 1..(k + 1) - 1 <=> i \in 1..k - 1 \/ (i = k /\ k # 0)
    OBVIOUS
  <1> QED BY <1>1 DEF Held, Spawned

\* A frame that goes on without a spawn gets no handle.
LEMMA LaterHolds ==
  ASSUME NEW f \in Frame, NEW g, Later(f, g)
  PROVE  /\ Held(program, g.task, g.pc) \subseteq Held(program, f.task, f.pc)
         /\ f.pc \in Nat /\ g.pc \in Nat /\ g.pc >= f.pc
  <1>1. f.pc \in Nat /\ g.pc \in Nat
    BY DEF Later, Frame
  <1> QED BY <1>1, HeldAfter DEF Later, Body

\* Calls that start no task and end none.
LEMMA TurnKeeps ==
  ASSUME IInv, NEW th \in Thread, NEW s \in Seq(Frame), Len(s) = Len(stack[th]),
         \A i \in 1..Len(s) : Later(stack[th][i], s[i]),
         stack' = [stack EXCEPT ![th] = s],
         UNCHANGED <<program, jobs, workers, asleep, active, entry, result, status>>, timers' \subseteq Thread
  PROVE  IInv'
  <1>1. stack \in [Thread -> Seq(Frame)]
    BY DEF IInv, TypeOK
  <1>2. stack' \in [Thread -> Seq(Frame)]
    BY <1>1
  <1>3. ASSUME NEW tg \in Thread
        PROVE  /\ DOMAIN stack'[tg] = DOMAIN stack[tg]
               /\ \A i \in DOMAIN stack[tg] : stack[tg][i] \in Frame /\ Later(stack[tg][i], stack'[tg][i])
    <2>1. stack[tg] \in Seq(Frame)
      BY <1>1
    <2>2. \A i \in DOMAIN stack[tg] : stack[tg][i] \in Frame
      BY <2>1
    <2>3. CASE tg = th
      BY <1>1, <2>1, <2>2, <2>3
    <2>4. CASE tg # th
      BY <1>1, <2>2, <2>4 DEF Later
    <2> QED BY <2>3, <2>4
  <1>4. TypeOK'
    BY <1>2 DEF IInv, TypeOK
  <1>5. \A tg \in Thread : \A i \in DOMAIN stack[tg] :
          stack'[tg][i].task = stack[tg][i].task /\ stack'[tg][i].previous = stack[tg][i].previous
    BY <1>3 DEF Later
  <1>6. Apart'
    BY <1>3, <1>5 DEF IInv, Apart
  <1>7. Placed'
    BY <1>3, <1>5 DEF IInv, Placed, Pending
  <1>8. Flags'
    <2>1. ASSUME NEW w \in Worker, stack'[w] # <<>>
          PROVE  stack[w] # <<>>
      BY <1>1, <2>1 DEF Worker, Thread
    <2> QED BY <1>3, <1>5, <2>1 DEF IInv, Flags, Worker, Thread
  <1>9. Handles'
    BY Zenon, <1>3, LaterHolds DEF IInv, Handles
  <1>10. Fresh'
    <2>1. ASSUME NEW r \in Task \cup {Main}, NEW k \in Nat, Ahead(r, k)' PROVE Ahead(r, k)
      BY <1>3, <1>5, <2>1, LaterHolds DEF Ahead
    <2>2. \A r \in Task \cup {Main} : \A k \in DOMAIN program.body[r] : k \in Nat
      BY CallTypes DEF IInv
    <2> QED BY Zenon, <2>1, <2>2 DEF IInv, Fresh
  <1>11. QueueIsServed'
    BY DEF IInv, QueueIsServed
  <1> QED BY <1>4, <1>6, <1>7, <1>8, <1>9, <1>10, <1>11 DEF IInv

\* schedule starts a worker or wakes one up.
LEMMA ScheduleServes ==
  ASSUME IInv, program' = program, NEW u \in Task, Schedule(u)
  PROVE  /\ jobs' = Append(jobs, u) /\ jobs' \in Seq(Task) /\ QueueIsServed'
         /\ workers' \in 0..program.max_workers /\ asleep' \subseteq 1..workers'
  <1>1. /\ jobs \in Seq(Task) /\ workers \in 0..program.max_workers /\ asleep \subseteq 1..workers
        /\ program.max_workers \in Nat /\ program.max_workers >= 1
    BY ProgramTypes DEF IInv, TypeOK
  <1>2. jobs' = Append(jobs, u) /\ jobs' \in Seq(Task)
    BY <1>1 DEF Schedule
  <1>3. workers' = (IF workers < program.max_workers THEN workers + 1 ELSE workers)
    BY DEF Schedule
  <1>4. (asleep' = asleep /\ asleep = {}) \/ \E w \in asleep : asleep' = asleep \ {w}
    BY DEF Schedule
  <1>5. workers' \in 0..program.max_workers /\ workers' >= workers /\ workers' >= 1
    BY <1>1, <1>3
  <1>6. asleep' \subseteq 1..workers'
    <2>1. 1..workers \subseteq 1..workers'
      BY <1>1, <1>5
    <2> QED BY Zenon, <1>1, <1>4, <2>1
  <1>7. \E w \in 1..workers' : w \notin asleep'
    <2>1. CASE asleep' = {}
      <3>1. 1 \in 1..workers'
        BY <1>1, <1>5
      <3> QED BY <2>1, <3>1
    <2>2. CASE \E w \in asleep : asleep' = asleep \ {w}
      BY <1>1, <1>5, <2>2
    <2> QED BY <1>4, <2>1, <2>2
  <1> QED BY <1>2, <1>5, <1>6, <1>7 DEF QueueIsServed

\* A call that starts a task: spawn, or the beginning of a timed await.
LEMMA StartKeeps ==
  ASSUME IInv, NEW th \in Thread, NEW f, NEW u, NEW g \in Frame,
         stack[th] # <<>>, f = Top(th), f.pc \in DOMAIN Body(f), Starts(Body(f)[f.pc]),
         u = Body(f)[f.pc].of, entry[u] = "none",
         Schedule(u), entry' = [entry EXCEPT ![u] = Body(f)[f.pc].op],
         g.task = f.task, g.previous = f.previous,
         g.pc = IF Body(f)[f.pc].op = "spawn" THEN f.pc + 1 ELSE f.pc,
         stack' = [stack EXCEPT ![th] = [stack[th] EXCEPT ![Len(stack[th])] = g]],
         UNCHANGED <<program, active, timers, result, status>>
  PROVE  IInv'
  <1> DEFINE n == Len(stack[th])
             op == Body(f)[f.pc].op
  <1>1. /\ stack \in [Thread -> Seq(Frame)] /\ f \in Frame /\ stack[th] \in Seq(Frame)
        /\ n \in Nat /\ n >= 1 /\ f = stack[th][n] /\ n \in DOMAIN stack[th]
    BY Zenon, TopTypes DEF IInv, TypeOK
  <1>2. f.task \in Task \cup {Main} /\ f.pc \in Nat /\ Main \notin Task
    <2>1. Main \notin Task
      BY ProgramTypes DEF IInv
    <2> QED BY <1>1, <2>1 DEF Frame
  <1>3. u \in Task /\ program.handles[u] \subseteq Held(program, f.task, f.pc) /\ op \in {"spawn", "timeout"}
    BY Zenon, <1>2, CallTypes DEF IInv, Body, Starts
  <1>4. /\ jobs' = Append(jobs, u) /\ jobs' \in Seq(Task) /\ QueueIsServed'
        /\ workers' \in 0..program.max_workers /\ asleep' \subseteq 1..workers'
    BY <1>3, ScheduleServes
  <1>5. entry' \in [Task -> {"none", "spawn", "timeout"}] /\ entry'[u] # "none"
        /\ \A t \in Task : t # u => entry'[t] = entry[t]
    BY Zenon, <1>3 DEF IInv, TypeOK
  <1>6. stack' \in [Thread -> Seq(Frame)]
    BY <1>1
  <1>7. /\ \A tg \in Thread : DOMAIN stack'[tg] = DOMAIN stack[tg]
        /\ \A tg \in Thread : \A i \in DOMAIN stack[tg] :
             tg # th \/ i # n => stack'[tg][i] = stack[tg][i]
        /\ stack'[th][n] = g
    BY Zenon, <1>1
  <1>8. \A tg \in Thread : \A i \in DOMAIN stack[tg] :
          stack'[tg][i].task = stack[tg][i].task /\ stack'[tg][i].previous = stack[tg][i].previous
    BY <1>1, <1>7
  <1>9. /\ jobs \in Seq(Task) /\ DOMAIN jobs' = DOMAIN jobs \cup {Len(jobs) + 1}
        /\ \A i \in DOMAIN jobs : jobs'[i] = jobs[i] /\ i # Len(jobs) + 1
        /\ jobs'[Len(jobs) + 1] = u
    <2>1. jobs \in Seq(Task)
      BY DEF IInv, TypeOK
    <2> QED BY <1>4, <2>1
  <1>10. /\ \A i \in DOMAIN jobs : jobs[i] # u
         /\ \A tg \in Thread : \A i \in DOMAIN stack[tg] : stack[tg][i].task # u
    <2>1. Main \notin Task
      BY ProgramTypes DEF IInv
    <2> QED BY <1>3, <2>1 DEF IInv, Placed, Pending
  <1>11. TypeOK'
    BY Zenon, <1>4, <1>5, <1>6 DEF IInv, TypeOK
  <1>12. Apart'
    BY <1>7, <1>8, <1>9, <1>10 DEF IInv, Apart
  <1>13. Placed'
    <2>1. \A t \in Task : t # u => (Pending(t)' <=> Pending(t))
      BY Zenon, <1>5 DEF Pending
    <2>2. Pending(u)' /\ \A t \in Task : entry'[t] = "none" => result'[t] = "empty"
      BY <1>3, <1>5 DEF IInv, Placed, Pending
    <2>3. (\A i \in DOMAIN jobs : Pending(jobs[i]))'
      <3>1. \A i \in DOMAIN jobs : jobs[i] \in Task /\ Pending(jobs[i])
        BY <1>9 DEF IInv, Placed
      <3>2. \A i \in DOMAIN jobs : entry'[jobs[i]] # "none" /\ result'[jobs[i]] = "empty"
        BY <1>10, <2>1, <3>1 DEF Pending
      <3>3. entry'[u] # "none" /\ result'[u] = "empty"
        BY <2>2 DEF Pending
      <3> QED BY <1>9, <3>2, <3>3 DEF Pending
    <2>4. (\A tg \in Thread : \A i \in DOMAIN stack[tg] :
             stack[tg][i].task # Main => Pending(stack[tg][i].task))'
      <3> SUFFICES ASSUME NEW tg \in Thread, NEW i \in DOMAIN stack[tg], stack[tg][i].task # Main
                   PROVE  entry'[stack[tg][i].task] # "none" /\ result'[stack[tg][i].task] = "empty"
        BY <1>7, <1>8 DEF Pending
      <3>1. stack[tg][i].task \in Task
        <4>1. stack[tg][i] \in Frame
          BY <1>1
        <4> QED BY Zenon, <4>1 DEF Frame
      <3>2. Pending(stack[tg][i].task) /\ stack[tg][i].task # u
        BY <1>10 DEF IInv, Placed
      <3> QED BY Zenon, <2>1, <3>1, <3>2 DEF Pending
    <2>5. ASSUME NEW t \in Task, Pending(t)'
          PROVE  \/ \E i \in DOMAIN jobs' : jobs'[i] = t
                 \/ \E tg \in Thread : \E i \in DOMAIN stack'[tg] : stack'[tg][i].task = t
      <3>1. CASE t = u
        BY Zenon, <1>9, <3>1
      <3>2. CASE t # u
        BY <1>7, <1>8, <1>9, <2>1, <2>5, <3>2 DEF IInv, Placed
      <3> QED BY <3>1, <3>2
    <2> QED BY <2>2, <2>3, <2>4, <2>5 DEF Placed
  <1>14. Flags'
    <2> SUFFICES ASSUME NEW w \in Worker
                 PROVE  /\ stack'[w] # <<>> => active'[w]
                        /\ \A i \in DOMAIN stack'[w] : i > 1 => stack'[w][i].previous
      BY Zenon DEF Flags
    <2>1. w \in Thread /\ stack[w] \in Seq(Frame) /\ stack'[w] \in Seq(Frame)
      BY <1>1, <1>6 DEF Thread
    <2>2. stack'[w] # <<>> => stack[w] # <<>>
      BY <1>7, <2>1
    <2> QED BY <1>7, <1>8, <2>1, <2>2 DEF IInv, Flags
  <1>15. Handles'
    <2>1. \A t \in Held(program, f.task, f.pc) : entry'[t] # "none"
      BY <1>1, <1>2, <1>5 DEF IInv, Handles
    <2>2. ASSUME NEW tg \in Thread, NEW i \in DOMAIN stack'[tg],
                 NEW t \in Held(program, stack'[tg][i].task, stack'[tg][i].pc)
          PROVE  entry'[t] # "none"
      <3>1. CASE tg = th /\ i = n
        <4>1. t \in Held(program, f.task, f.pc) \cup {u}
          <5>1. t \in Held(program, f.task, g.pc)
            BY <1>7, <2>2, <3>1
          <5>2. Held(program, f.task, f.pc + 1) \subseteq Held(program, f.task, f.pc) \cup {u}
            BY Zenon, <1>2, HeldAfter DEF Body
          <5>3. g.pc = f.pc \/ g.pc = f.pc + 1
            OBVIOUS
          <5> QED BY Zenon, <5>1, <5>2, <5>3
        <4> QED BY <1>5, <2>1, <4>1
      <3>2. CASE tg # th \/ i # n
        BY <1>5, <1>7, <2>2, <3>2 DEF IInv, Handles
      <3> QED BY <3>1, <3>2
    <2>3. ASSUME NEW i \in DOMAIN jobs', NEW t \in program.handles[jobs'[i]] PROVE entry'[t] # "none"
      <3>1. CASE i = Len(jobs) + 1
        BY <1>3, <1>9, <2>1, <2>3, <3>1
      <3>2. CASE i \in DOMAIN jobs
        BY <1>5, <1>9, <2>3, <3>2 DEF IInv, Handles
      <3> QED BY <1>9, <2>3, <3>1, <3>2
    <2> QED BY Zenon, <2>2, <2>3 DEF Handles
  <1>16. Fresh'
    <2> SUFFICES ASSUME NEW s \in Task \cup {Main}, NEW k \in DOMAIN program.body[s],
                        program.body[s][k].op = "spawn", Ahead(s, k)'
                 PROVE  entry'[program.body[s][k].of] = "none"
      BY Zenon DEF Fresh
    <2>1. k \in Nat /\ program.body[s][k].of \in Task
      BY Zenon, CallTypes DEF IInv, Starts
    <2>2. Ahead(s, k)
      <3>1. CASE s \in Task /\ entry'[s] = "none"
        BY Zenon, <1>5, <3>1 DEF Ahead
      <3>2. CASE \E i \in DOMAIN jobs' : jobs'[i] = s
        BY Zenon, <1>3, <1>9, <3>2 DEF Ahead
      <3>3. CASE \E tg \in Thread : \E i \in DOMAIN stack'[tg] :
                   stack'[tg][i].task = s /\ stack'[tg][i].pc <= k
        <4>1. PICK tg \in Thread : \E i \in DOMAIN stack'[tg] :
                stack'[tg][i].task = s /\ stack'[tg][i].pc <= k
          BY <3>3
        <4>2. PICK i \in DOMAIN stack[tg] : stack'[tg][i].task = s /\ stack'[tg][i].pc <= k
          BY Zenon, <1>7, <4>1
        <4>3. stack[tg][i].task = s /\ stack[tg][i].pc <= k
          BY <1>1, <1>2, <1>7, <2>1, <4>2
        <4> QED BY <4>2, <4>3 DEF Ahead
      <3> QED BY Zenon, <3>1, <3>2, <3>3 DEF Ahead
    <2>3. entry[program.body[s][k].of] = "none"
      BY Zenon, <2>2 DEF IInv, Fresh
    <2>4. CASE program.body[s][k].of # u
      BY Zenon, <1>5, <2>1, <2>3, <2>4
    <2>5. CASE program.body[s][k].of = u
      <3>1. s = f.task /\ k = f.pc
        <4>1. /\ f.pc \in DOMAIN program.body[f.task] /\ Starts(program.body[f.task][f.pc])
              /\ program.body[s][k].of = program.body[f.task][f.pc].of /\ program \in Programs
          BY Zenon, <2>5 DEF Body, IInv
        <4>2. Starts(program.body[s][k])
          BY DEF Starts
        <4> QED BY <1>2, <4>1, <4>2, StartedOnce
      <3>2. op = "spawn" /\ g.pc = f.pc + 1
        BY Zenon, <3>1 DEF Body
      <3>3. s \in Task => entry'[s] # "none"
        <4>2. stack[th][n].task = s /\ (s \in Task => s # Main)
          BY <1>1, <1>2, <3>1
        <4>3. s \in Task => Pending(s)
          <5> HIDE DEF n
          <5> QED BY Zenon, <1>1, <4>2 DEF IInv, Placed
        <4>4. s \in Task => entry[s] # "none"
          BY <4>3 DEF Pending
        <4> QED BY Zenon, <1>5, <4>4
      <3>4. \A i \in DOMAIN jobs' : jobs'[i] # s
        <4>1. stack[th][n].task = s
          BY Zenon, <1>1, <3>1
        <4> HIDE DEF n
        <4>2. \A i \in DOMAIN jobs : jobs[i] # s
          <5>1. \A i \in DOMAIN stack[th] : \A j \in DOMAIN jobs : stack[th][i].task # jobs[j]
            BY DEF IInv, Apart
          <5>2. n \in DOMAIN stack[th]
            BY Zenon, <1>1
          <5> QED BY Zenon, <4>1, <5>1, <5>2
        <4>3. u # s
          BY Zenon, <1>1, <1>10, <4>1
        <4>4. \A i \in DOMAIN jobs' : jobs'[i] = u \/ \E j \in DOMAIN jobs : jobs'[i] = jobs[j]
          BY Zenon, <1>9
        <4> QED BY Zenon, <4>2, <4>3, <4>4
      <3>5. ASSUME NEW tg \in Thread, NEW i \in DOMAIN stack'[tg], stack'[tg][i].task = s
            PROVE  stack'[tg][i].pc > k
        <4>1. tg = th /\ i = n
          <5>1. i \in DOMAIN stack[tg] /\ stack[tg][i].task = stack[th][n].task
            <6>1. i \in DOMAIN stack[tg]
              BY Zenon, <1>7, <3>5
            <6>2. stack'[tg][i].task = stack[tg][i].task
              BY Zenon, <1>8, <6>1
            <6>3. stack[th][n].task = s
              BY Zenon, <1>1, <3>1
            <6> QED BY Zenon, <3>5, <6>1, <6>2, <6>3
          <5> QED BY <1>1, <5>1 DEF IInv, Apart
        <4> QED BY <1>2, <1>7, <3>1, <3>2, <4>1
      <3>6. \A tg \in Thread : \A i \in DOMAIN stack'[tg] : stack'[tg][i].pc \in Nat
        <4>1. \A tg \in Thread : \A i \in DOMAIN stack'[tg] : stack'[tg][i] \in Frame
          BY <1>6
        <4> QED BY Zenon, <4>1 DEF Frame
      <3>7. ~(\E tg \in Thread : \E i \in DOMAIN stack'[tg] :
                stack'[tg][i].task = s /\ stack'[tg][i].pc <= k)
        BY <2>1, <3>5, <3>6
      <3> QED BY Zenon, <3>3, <3>4, <3>7 DEF Ahead
    <2> QED BY Zenon, <2>4, <2>5
  <1> QED BY <1>4, <1>11, <1>12, <1>13, <1>14, <1>15, <1>16 DEF IInv

\* A thread, idle or waiting, takes the first job of the queue.
LEMMA PopKeeps ==
  ASSUME IInv, NEW th \in Thread, NEW below \in Seq(Frame), Len(below) = Len(stack[th]),
         \A i \in 1..Len(below) : Later(stack[th][i], below[i]),
         jobs # <<>>, RunPopped(th, below),
         UNCHANGED <<program, workers, asleep, timers, entry, result, status>>
  PROVE  IInv'
  <1> DEFINE n == Len(stack[th])
             t == jobs[1]
             f == NewFrame(t, active[th])
  <1>1. /\ stack \in [Thread -> Seq(Frame)] /\ stack[th] \in Seq(Frame) /\ n \in Nat
        /\ jobs \in Seq(Task) /\ active \in [Thread -> BOOLEAN]
    BY DEF IInv, TypeOK
  <1>2. /\ t \in Task /\ 1 \in DOMAIN jobs /\ jobs' = Tail(jobs) /\ jobs' \in Seq(Task)
        /\ \A i \in DOMAIN jobs' : jobs'[i] = jobs[i + 1] /\ i + 1 \in DOMAIN jobs /\ i \in Nat /\ i >= 1
        /\ \A i \in DOMAIN jobs : i # 1 => \E j \in DOMAIN jobs' : jobs'[j] = jobs[i]
    <2>1. jobs' = Tail(jobs) /\ Len(jobs) \in Nat /\ Len(jobs) >= 1
      BY <1>1 DEF RunPopped
    <2>2. t \in Task /\ 1 \in DOMAIN jobs /\ jobs' \in Seq(Task) /\ Len(jobs') = Len(jobs) - 1
      BY <1>1, <2>1
    <2>3. \A i \in DOMAIN jobs' : jobs'[i] = jobs[i + 1] /\ i + 1 \in DOMAIN jobs /\ i \in Nat /\ i >= 1
      BY <1>1, <2>1, <2>2
    <2>4. ASSUME NEW i \in DOMAIN jobs, i # 1 PROVE \E j \in DOMAIN jobs' : jobs'[j] = jobs[i]
      <3>1. i - 1 \in DOMAIN jobs' /\ jobs'[i - 1] = jobs[i]
        BY <1>1, <2>1, <2>2, <2>4
      <3> QED BY <3>1
    <2> QED BY <2>1, <2>2, <2>3, <2>4
  <1>3. f \in Frame /\ f.task = t /\ f.pc = 1 /\ f.previous = active[th]
    BY <1>1, <1>2 DEF NewFrame, Frame
  <1>4. stack' = [stack EXCEPT ![th] = Append(below, f)] /\ active' = [active EXCEPT ![th] = TRUE]
    BY DEF RunPopped
  <1>5. stack' \in [Thread -> Seq(Frame)] /\ active' \in [Thread -> BOOLEAN]
    BY <1>1, <1>3, <1>4
  <1>6. /\ DOMAIN stack'[th] = DOMAIN stack[th] \cup {n + 1} /\ stack'[th][n + 1] = f
        /\ n + 1 \notin DOMAIN stack[th]
        /\ \A i \in DOMAIN stack[th] : stack'[th][i] = below[i] /\ Later(stack[th][i], stack'[th][i])
        /\ \A tg \in Thread : tg # th => stack'[tg] = stack[tg]
    BY <1>1, <1>3, <1>4
  <1>7. \A tg \in Thread : /\ DOMAIN stack[tg] \subseteq DOMAIN stack'[tg]
                          /\ \A i \in DOMAIN stack[tg] : Later(stack[tg][i], stack'[tg][i])
    <2>1. \A tg \in Thread : \A i \in DOMAIN stack[tg] : stack[tg][i] \in Frame
      BY <1>1
    <2> QED BY <1>6, <2>1 DEF Later
  <1>8. \A tg \in Thread : \A i \in DOMAIN stack[tg] :
          stack'[tg][i].task = stack[tg][i].task /\ stack'[tg][i].previous = stack[tg][i].previous
    BY <1>7 DEF Later
  <1>9. \A tg \in Thread : \A i \in DOMAIN stack'[tg] : i \in DOMAIN stack[tg] \/ (tg = th /\ i = n + 1)
    BY Zenon, <1>6
  <1>10. /\ \A tg \in Thread : \A i \in DOMAIN stack[tg] : stack[tg][i].task # t
         /\ \A i \in DOMAIN jobs' : jobs'[i] # t
    <2>1. \A i \in DOMAIN jobs : i # 1 => jobs[i] # t
      BY <1>2 DEF IInv, Apart
    <2>2. \A i \in DOMAIN jobs' : i + 1 # 1
      BY <1>2
    <2> QED BY <1>2, <2>1, <2>2 DEF IInv, Apart
  <1>11. TypeOK'
    BY <1>2, <1>5 DEF IInv, TypeOK
  <1>12. Apart'
    <2>1. \A i, j \in DOMAIN jobs' : jobs'[i] = jobs'[j] => i = j
      BY <1>2 DEF IInv, Apart
    <2>2. ASSUME NEW tg \in Thread, NEW tk \in Thread, NEW i \in DOMAIN stack'[tg], NEW j \in DOMAIN stack'[tk],
                 stack'[tg][i].task = stack'[tk][j].task
          PROVE  tg = tk /\ i = j
      BY <1>3, <1>6, <1>8, <1>9, <1>10, <2>2 DEF IInv, Apart
    <2>3. \A tg \in Thread : \A i \in DOMAIN stack'[tg], j \in DOMAIN jobs' : stack'[tg][i].task # jobs'[j]
      <3> SUFFICES ASSUME NEW tg \in Thread, NEW i \in DOMAIN stack'[tg], NEW j \in DOMAIN jobs'
                   PROVE  stack'[tg][i].task # jobs'[j]
        OBVIOUS
      <3>1. CASE i \in DOMAIN stack[tg]
        <4>1. stack'[tg][i].task = stack[tg][i].task
          BY <1>8, <3>1
        <4>2. j + 1 \in DOMAIN jobs /\ jobs'[j] = jobs[j + 1]
          BY Zenon, <1>2
        <4>3. stack[tg][i].task # jobs[j + 1]
          BY <3>1, <4>2 DEF IInv, Apart
        <4> QED BY <4>1, <4>2, <4>3
      <3>2. CASE tg = th /\ i = n + 1
        BY Zenon, <1>3, <1>6, <1>10, <3>2
      <3> QED BY Zenon, <1>9, <3>1, <3>2
    <2> QED BY <2>1, <2>2, <2>3 DEF Apart
  <1>13. Placed'
    <2>1. \A u \in Task : Pending(u)' <=> Pending(u)
      BY DEF Pending
    <2>2. Pending(t)
      BY Zenon, <1>2 DEF IInv, Placed
    <2>3. (\A i \in DOMAIN jobs : Pending(jobs[i]))'
      BY <1>2 DEF IInv, Placed, Pending
    <2>4. (\A tg \in Thread : \A i \in DOMAIN stack[tg] :
             stack[tg][i].task # Main => Pending(stack[tg][i].task))'
      BY <1>3, <1>6, <1>8, <1>9, <2>2 DEF IInv, Placed, Pending
    <2>5. ASSUME NEW u \in Task, Pending(u)'
          PROVE  \/ \E i \in DOMAIN jobs' : jobs'[i] = u
                 \/ \E tg \in Thread : \E i \in DOMAIN stack'[tg] : stack'[tg][i].task = u
      <3>1. CASE u = t
        BY <1>3, <1>6, <3>1
      <3>2. CASE u # t /\ \E i \in DOMAIN jobs : jobs[i] = u
        BY <1>2, <3>2
      <3>3. CASE \E tg \in Thread : \E i \in DOMAIN stack[tg] : stack[tg][i].task = u
        BY <1>7, <1>8, <3>3
      <3> QED BY Zenon, <2>1, <2>5, <3>1, <3>2, <3>3 DEF IInv, Placed
    <2>6. \A u \in Task : entry'[u] = "none" => result'[u] = "empty"
      BY DEF IInv, Placed
    <2> QED BY <2>3, <2>4, <2>5, <2>6 DEF Placed
  <1>14. Flags'
    <2> SUFFICES ASSUME NEW w \in Worker
                 PROVE  /\ stack'[w] # <<>> => active'[w]
                        /\ \A i \in DOMAIN stack'[w] : i > 1 => stack'[w][i].previous
      BY DEF Flags
    <2>1. w \in Thread
      BY DEF Thread
    <2>2. CASE w # th
      BY Zenon, <1>1, <1>4, <1>6, <2>1, <2>2 DEF IInv, Flags
    <2>3. CASE w = th
      <3>1. active'[w]
        BY <1>1, <1>4, <2>1, <2>3
      <3>2. ASSUME NEW i \in DOMAIN stack[w], i > 1 PROVE stack'[w][i].previous
        BY <1>8, <2>1, <3>2 DEF IInv, Flags
      <3>3. n + 1 > 1 => f.previous
        <4>1. n + 1 > 1 => stack[w] # <<>>
          BY <1>1, <2>3
        <4> QED BY <1>3, <2>3, <4>1 DEF IInv, Flags
      <3> QED BY <1>6, <1>9, <2>1, <2>3, <3>1, <3>2, <3>3
    <2> QED BY <2>2, <2>3
  <1>15. Handles'
    <2>1. Held(program, t, 1) = program.handles[t]
      <3>1. 1..(1 - 1) = {}
        OBVIOUS
      <3> QED BY <3>1 DEF Held, Spawned
    <2>2. \A u \in program.handles[t] : entry[u] # "none"
      BY Zenon, <1>2 DEF IInv, Handles
    <2>3. ASSUME NEW tg \in Thread, NEW i \in DOMAIN stack'[tg],
                 NEW u \in Held(program, stack'[tg][i].task, stack'[tg][i].pc)
          PROVE  entry[u] # "none"
      <3>1. CASE i \in DOMAIN stack[tg]
        <4>1. stack[tg][i] \in Frame
          BY <1>1, <3>1
        <4>2. u \in Held(program, stack[tg][i].task, stack[tg][i].pc)
          BY Zenon, <1>7, <2>3, <3>1, <4>1, LaterHolds
        <4> QED BY Zenon, <3>1, <4>2 DEF IInv, Handles
      <3>2. CASE tg = th /\ i = n + 1
        BY <1>3, <1>6, <2>1, <2>2, <2>3, <3>2
      <3> QED BY Zenon, <1>9, <2>3, <3>1, <3>2
    <2>4. \A i \in DOMAIN jobs' : \A u \in program.handles[jobs'[i]] : entry[u] # "none"
      BY <1>2 DEF IInv, Handles
    <2> QED BY <2>3, <2>4 DEF Handles
  <1>16. Fresh'
    <2>1. ASSUME NEW r \in Task \cup {Main}, NEW k \in Nat, Ahead(r, k)' PROVE Ahead(r, k)
      <3>1. CASE r = t
        BY Zenon, <1>2, <3>1 DEF Ahead
      <3>2. CASE r # t
        <4>1. \A tg \in Thread : \A i \in DOMAIN stack'[tg] : stack'[tg][i].task = r => i \in DOMAIN stack[tg]
          BY <1>3, <1>6, <1>9, <3>2
        <4>2. \A tg \in Thread : \A i \in DOMAIN stack[tg] : stack[tg][i] \in Frame
          BY <1>1
        <4>3. \A tg \in Thread : \A i \in DOMAIN stack[tg] :
                stack'[tg][i].pc <= k => stack[tg][i].pc <= k
          BY <1>7, <4>2, LaterHolds
        <4>4. CASE r \in Task /\ entry'[r] = "none"
          BY <4>4 DEF Ahead
        <4>5. CASE \E i \in DOMAIN jobs' : jobs'[i] = r
          BY <1>2, <4>5 DEF Ahead
        <4>6. CASE \E tg \in Thread : \E i \in DOMAIN stack'[tg] :
                     stack'[tg][i].task = r /\ stack'[tg][i].pc <= k
          BY <1>8, <4>1, <4>3, <4>6 DEF Ahead
        <4> QED BY Zenon, <2>1, <4>4, <4>5, <4>6 DEF Ahead
      <3> QED BY <3>1, <3>2
    <2>2. \A r \in Task \cup {Main} : \A k \in DOMAIN program.body[r] : k \in Nat
      BY Zenon, CallTypes DEF IInv
    <2> QED BY Zenon, <2>1, <2>2 DEF IInv, Fresh
  <1>17. QueueIsServed'
    BY <1>2 DEF IInv, QueueIsServed
  <1> QED BY <1>11, <1>12, <1>13, <1>14, <1>15, <1>16, <1>17 DEF IInv

\* A job or the main function ends, and its frame is gone.
LEMMA LeaveKeeps ==
  ASSUME IInv, NEW th \in Thread, stack[th] # <<>>, NEW outcome \in {"value", "panicked"},
         Leave(th, outcome)
  PROVE  IInv'
  <1> DEFINE n == Len(stack[th])
             f == stack[th][n]
  <1>1. /\ stack \in [Thread -> Seq(Frame)] /\ stack[th] \in Seq(Frame) /\ n \in Nat /\ n >= 1
        /\ n \in DOMAIN stack[th] /\ f \in Frame /\ Top(th) = f /\ active \in [Thread -> BOOLEAN]
    BY TopTypes DEF IInv, TypeOK
  <1>2. f.task \in Task \cup {Main} /\ f.previous \in BOOLEAN
    BY <1>1 DEF Frame
  <1>3. /\ stack' = [stack EXCEPT ![th] = SubSeq(stack[th], 1, n - 1)]
        /\ active' = [active EXCEPT ![th] = f.previous]
        /\ f.task = Main => status' = outcome /\ result' = result
        /\ f.task # Main => result' = [result EXCEPT ![f.task] = outcome] /\ status' = status
        /\ UNCHANGED <<program, jobs, workers, asleep, timers, entry>>
    BY <1>1 DEF Leave, Restore
  <1>4. stack' \in [Thread -> Seq(Frame)] /\ active' \in [Thread -> BOOLEAN]
    <2>1. SubSeq(stack[th], 1, n - 1) \in Seq(Frame)
      BY <1>1
    <2> QED BY <1>1, <1>2, <1>3, <2>1
  <1>5. /\ \A i \in DOMAIN stack'[th] : i \in DOMAIN stack[th] /\ i # n
        /\ \A i \in DOMAIN stack[th] : i # n => i \in DOMAIN stack'[th]
        /\ \A i \in DOMAIN stack'[th] : stack'[th][i] = stack[th][i]
        /\ \A tg \in Thread : tg # th => stack'[tg] = stack[tg]
    <2>1. stack'[th] = SubSeq(stack[th], 1, n - 1)
      BY <1>1, <1>3
    <2> QED BY <1>1, <1>3, <2>1
  <1>6. \A tg \in Thread : \A i \in DOMAIN stack'[tg] :
          /\ i \in DOMAIN stack[tg] /\ stack'[tg][i] = stack[tg][i]
          /\ tg # th \/ i # n
    BY <1>5
  <1>7. \A tg \in Thread : \A i \in DOMAIN stack[tg] : tg # th \/ i # n => i \in DOMAIN stack'[tg]
    BY <1>5
  <1>8. result' \in [Task -> {"empty", "value", "panicked"}] /\ status' \in {"running", "value", "panicked"}
    BY Zenon, <1>2, <1>3 DEF IInv, TypeOK
  <1>9. TypeOK'
    BY Zenon, <1>3, <1>4, <1>8 DEF IInv, TypeOK
  <1>10. Apart'
    BY <1>3, <1>6 DEF IInv, Apart
  <1>11. Placed'
    <2>1. \A u \in Task : u # f.task => result'[u] = result[u]
      BY Zenon, <1>3 DEF IInv, TypeOK
    <2>2. f.task \in Task => entry[f.task] # "none" /\ result'[f.task] # "empty"
      <3>1. Main \notin Task
        BY ProgramTypes DEF IInv
      <3> QED BY <1>1, <1>3, <3>1 DEF IInv, Placed, Pending, TypeOK
    <2>3. \A i \in DOMAIN jobs : jobs[i] \in Task /\ jobs[i] # f.task
      <3>1. jobs \in Seq(Task)
        BY Zenon DEF IInv, TypeOK
      <3> QED BY <1>1, <3>1 DEF IInv, Apart
    <2>4. (\A i \in DOMAIN jobs : Pending(jobs[i]))'
      BY Zenon, <1>3, <2>1, <2>3 DEF IInv, Placed, Pending
    <2>5. ASSUME NEW tg \in Thread, NEW i \in DOMAIN stack'[tg], stack'[tg][i].task # Main
          PROVE  entry'[stack'[tg][i].task] # "none" /\ result'[stack'[tg][i].task] = "empty"
      <3>1. i \in DOMAIN stack[tg] /\ stack'[tg][i] = stack[tg][i] /\ (tg # th \/ i # n)
        BY <1>6
      <3>2. stack[tg][i] \in Frame
        BY <1>1, <3>1
      <3>3. stack[tg][i].task \in Task
        BY <2>5, <3>1, <3>2 DEF Frame
      <3>4. stack[tg][i].task # f.task
        BY <1>1, <3>1 DEF IInv, Apart
      <3> QED BY <1>3, <2>1, <2>5, <3>1, <3>3, <3>4 DEF IInv, Placed, Pending
    <2>6. \A u \in Task : entry'[u] = "none" => result'[u] = "empty"
      BY Zenon, <1>3, <2>1, <2>2 DEF IInv, Placed
    <2>7. ASSUME NEW u \in Task, Pending(u)'
          PROVE  \/ \E i \in DOMAIN jobs' : jobs'[i] = u
                 \/ \E tg \in Thread : \E i \in DOMAIN stack'[tg] : stack'[tg][i].task = u
      <3>1. u # f.task /\ Pending(u)
        BY <1>3, <2>1, <2>2, <2>7 DEF Pending
      <3>2. CASE \E i \in DOMAIN jobs : jobs[i] = u
        BY Zenon, <1>3, <3>2
      <3>3. CASE \E tg \in Thread : \E i \in DOMAIN stack[tg] : stack[tg][i].task = u
        BY <1>6, <1>7, <3>1, <3>3
      <3> QED BY Zenon, <3>1, <3>2, <3>3 DEF IInv, Placed
    <2>8. (\A tg \in Thread : \A i \in DOMAIN stack[tg] :
             stack[tg][i].task # Main => Pending(stack[tg][i].task))'
      BY <2>5 DEF Pending
    <2> QED BY <2>4, <2>6, <2>7, <2>8 DEF Placed
  <1>12. Flags'
    <2> SUFFICES ASSUME NEW w \in Worker
                 PROVE  /\ stack'[w] # <<>> => active'[w]
                        /\ \A i \in DOMAIN stack'[w] : i > 1 => stack'[w][i].previous
      BY DEF Flags
    <2>1. w \in Thread
      BY DEF Thread
    <2>2. \A i \in DOMAIN stack'[w] : i > 1 => stack'[w][i].previous
      BY Zenon, <1>6, <2>1 DEF IInv, Flags
    <2>3. CASE w # th
      BY Zenon, <1>1, <1>3, <1>5, <2>1, <2>2, <2>3 DEF IInv, Flags
    <2>4. CASE w = th
      <3>1. stack'[w] # <<>> => n > 1
        <4>1. n = 1 => SubSeq(stack[th], 1, n - 1) = <<>>
          BY <1>1
        <4> QED BY <1>1, <1>3, <2>4, <4>1
      <3>2. n > 1 => f.previous
        BY Zenon, <1>1, <2>4 DEF IInv, Flags
      <3> QED BY Zenon, <1>1, <1>3, <2>2, <2>4, <3>1, <3>2
    <2> QED BY <2>3, <2>4
  <1>13. Handles'
    BY <1>3, <1>6 DEF IInv, Handles
  <1>14. Fresh'
    <2>1. ASSUME NEW r \in Task \cup {Main}, NEW k \in Nat, Ahead(r, k)' PROVE Ahead(r, k)
      BY Zenon, <1>3, <1>6, <2>1 DEF Ahead
    <2>2. \A r \in Task \cup {Main} : \A k \in DOMAIN program.body[r] : k \in Nat
      BY CallTypes DEF IInv
    <2> QED BY Zenon, <1>3, <2>1, <2>2 DEF IInv, Fresh
  <1>15. QueueIsServed'
    BY <1>3 DEF IInv, QueueIsServed
  <1> QED BY Zenon, <1>3, <1>9, <1>10, <1>11, <1>12, <1>13, <1>14, <1>15 DEF IInv

\* Workers go to sleep and wake up.
LEMMA AsleepKeeps ==
  ASSUME IInv, asleep' \subseteq 1..workers, jobs = <<>> \/ asleep' \subseteq asleep,
         UNCHANGED <<program, jobs, workers, stack, active, timers, entry, result, status>>
  PROVE  IInv'
  <1>1. TypeOK' /\ QueueIsServed'
    BY Zenon DEF IInv, TypeOK, QueueIsServed
  <1>2. Apart' /\ Flags' /\ Handles'
    BY DEF IInv, Apart, Flags, Handles
  <1>3. Placed'
    BY Zenon DEF IInv, Placed, Pending
  <1>4. Fresh'
    BY DEF IInv, Fresh, Ahead
  <1> QED BY <1>1, <1>2, <1>3, <1>4 DEF IInv

\* The running frame of a thread goes on.
LEMMA SetTopKeeps ==
  ASSUME IInv, NEW th \in Thread, stack[th] # <<>>, NEW g, Later(Top(th), g), SetTop(th, g),
         UNCHANGED <<program, jobs, workers, asleep, active, entry, result, status>>, timers' \subseteq Thread
  PROVE  IInv'
  <1> DEFINE s == [stack[th] EXCEPT ![Len(stack[th])] = g]
  <1>1. /\ stack \in [Thread -> Seq(Frame)] /\ stack[th] \in Seq(Frame)
        /\ Len(stack[th]) \in DOMAIN stack[th] /\ Top(th) = stack[th][Len(stack[th])]
    BY Zenon, TopTypes DEF IInv, TypeOK
  <1>2. g \in Frame
    BY DEF Later
  <1>3. s \in Seq(Frame) /\ Len(s) = Len(stack[th])
    BY <1>1, <1>2
  <1>4. stack' = [stack EXCEPT ![th] = s]
    BY <1>1 DEF SetTop
  <1>5. \A i \in 1..Len(s) : Later(stack[th][i], s[i])
    <2>1. \A i \in 1..Len(s) : i # Len(stack[th]) => stack[th][i] \in Frame /\ s[i] = stack[th][i]
      BY <1>1, <1>3
    <2>2. s[Len(stack[th])] = g
      BY Zenon, <1>1
    <2>3. \A i \in 1..Len(s) : i # Len(stack[th]) => Later(stack[th][i], s[i])
      BY <2>1 DEF Later
    <2> QED BY <1>1, <2>2, <2>3
  <1> HIDE DEF s
  <1> QED BY Zenon, <1>3, <1>4, <1>5, TurnKeeps

\* The frame after its call.
LEMMA NextFrame ==
  ASSUME NEW f \in Frame, NEW g, g = [f EXCEPT !.pc = @ + 1, !.helping = FALSE, !.due = FALSE]
  PROVE  g \in Frame /\ g.task = f.task /\ g.previous = f.previous /\ g.pc = f.pc + 1
  <1>1. /\ f = [task |-> f.task, pc |-> f.pc, previous |-> f.previous, helping |-> f.helping, due |-> f.due]
        /\ f.task \in Task \cup {Main} /\ f.pc \in Nat \ {0} /\ f.previous \in BOOLEAN
    BY DEF Frame
  <1>2. g = [task |-> f.task, pc |-> f.pc + 1, previous |-> f.previous, helping |-> FALSE, due |-> FALSE]
    BY Zenon, <1>1
  <1>3. f.pc + 1 \in Nat \ {0}
    BY <1>1
  <1> QED BY Zenon, <1>1, <1>2, <1>3 DEF Frame

\* A call other than spawn is over.
LEMMA AdvanceKeeps ==
  ASSUME IInv, NEW th \in Thread, stack[th] # <<>>, ~AtEnd(Top(th)), Instruction(Top(th)).op # "spawn",
         Advance(th), UNCHANGED <<program, jobs, workers, asleep, active, timers, entry, result, status>>
  PROVE  IInv'
  <1> DEFINE f == Top(th)
             g == [f EXCEPT !.pc = @ + 1, !.helping = FALSE, !.due = FALSE]
  <1>1. f \in Frame /\ program \in Programs /\ timers' \subseteq Thread
    BY Zenon, TopTypes DEF IInv, TypeOK
  <1>2. /\ f.pc \in DOMAIN program.body[f.task] /\ Instruction(f) = program.body[f.task][f.pc]
    BY Zenon, <1>1, InstructionTypes
  <1>3. Later(f, g)
    <2>1. g \in Frame /\ g.task = f.task /\ g.previous = f.previous /\ g.pc = f.pc + 1
      BY Zenon, <1>1, NextFrame
    <2> QED BY <1>2, <2>1 DEF Later, Body
  <1>4. SetTop(th, g)
    BY DEF Advance
  <1> HIDE DEF g
  <1> QED BY <1>1, <1>3, <1>4, SetTopKeeps

\* axiom_async_spawn: the task was not started, as the frame is still before the
\* one call that starts it.
LEMMA SpawnKeeps ==
  ASSUME IInv, NEW th \in Thread, Spawn(th)
  PROVE  IInv'
  <1> DEFINE f == Top(th)
             u == Instruction(f).of
             g == [f EXCEPT !.pc = @ + 1, !.helping = FALSE, !.due = FALSE]
  <1>1. stack[th] # <<>> /\ ~AtEnd(f) /\ Instruction(f).op = "spawn"
    BY DEF Spawn, At, Running
  <1>2. /\ stack \in [Thread -> Seq(Frame)] /\ f \in Frame /\ program \in Programs
        /\ Len(stack[th]) \in DOMAIN stack[th] /\ f = stack[th][Len(stack[th])]
    BY Zenon, <1>1, TopTypes DEF IInv, TypeOK
  <1>3. /\ f.task \in Task \cup {Main} /\ f.pc \in DOMAIN program.body[f.task] /\ f.pc \in Nat
        /\ Instruction(f) = program.body[f.task][f.pc]
    BY Zenon, <1>1, <1>2, InstructionTypes DEF Frame
  <1>4. entry[u] = "none"
    <2>1. Ahead(f.task, f.pc)
      BY <1>2, <1>3 DEF Ahead
    <2> QED BY Zenon, <1>1, <1>3, <2>1 DEF IInv, Fresh
  <1>5. g \in Frame /\ g.task = f.task /\ g.previous = f.previous /\ g.pc = f.pc + 1
    BY Zenon, <1>2, NextFrame
  <1>6. stack' = [stack EXCEPT ![th] = [stack[th] EXCEPT ![Len(stack[th])] = g]]
    BY <1>2 DEF Spawn, Advance, SetTop
  <1>7. /\ Schedule(u) /\ entry' = [entry EXCEPT ![u] = "spawn"]
        /\ UNCHANGED <<program, active, timers, result, status>>
    BY Zenon DEF Spawn, Awaited
  <1>8. /\ f.pc \in DOMAIN Body(f) /\ u = Body(f)[f.pc].of /\ Body(f)[f.pc].op = "spawn"
        /\ Starts(Body(f)[f.pc])
    BY <1>1, <1>3 DEF Body, Starts
  <1> HIDE DEF f, u, g
  <1>9. g.pc = IF Body(f)[f.pc].op = "spawn" THEN f.pc + 1 ELSE f.pc
    BY <1>5, <1>8
  <1>10. f = Top(th)
    BY DEF f
  <1> QED BY Zenon, <1>1, <1>4, <1>5, <1>6, <1>7, <1>8, <1>9, <1>10, StartKeeps

\* axiom_async_timeout starts the task, or passes over a canceled one.
LEMMA StartTimeoutKeeps ==
  ASSUME IInv, NEW th \in Thread, StartTimeout(th)
  PROVE  IInv'
  <1> DEFINE f == Top(th)
             u == Instruction(f).of
  <1>1. stack[th] # <<>> /\ ~AtEnd(f) /\ Instruction(f).op = "timeout" /\ entry[u] = "none"
    BY Zenon DEF StartTimeout, At, Running, Awaited
  <1>2. CASE u \in program.canceled
    BY <1>1, <1>2, AdvanceKeeps DEF StartTimeout, Awaited
  <1>3. CASE u \notin program.canceled
    <2>1. /\ stack \in [Thread -> Seq(Frame)] /\ f \in Frame /\ program \in Programs /\ stack[th] \in Seq(Frame)
          /\ Len(stack[th]) \in DOMAIN stack[th] /\ f = stack[th][Len(stack[th])]
      BY Zenon, <1>1, TopTypes DEF IInv, TypeOK
    <2>2. /\ f.task \in Task \cup {Main} /\ f.pc \in DOMAIN program.body[f.task]
          /\ Instruction(f) = program.body[f.task][f.pc]
      BY <1>1, <2>1, InstructionTypes
    <2>3. stack' = [stack EXCEPT ![th] = [stack[th] EXCEPT ![Len(stack[th])] = f]]
      <3>1. stack' = stack
        BY <1>3 DEF StartTimeout, Awaited
      <3>2. [stack[th] EXCEPT ![Len(stack[th])] = f] = stack[th]
        BY <2>1
      <3> QED BY Zenon, <2>1, <3>1, <3>2
    <2>4. /\ Schedule(u) /\ entry' = [entry EXCEPT ![u] = "timeout"]
          /\ UNCHANGED <<program, active, timers, result, status>>
      BY Zenon, <1>3 DEF StartTimeout, Awaited
    <2>5. /\ f.pc \in DOMAIN Body(f) /\ u = Body(f)[f.pc].of /\ Body(f)[f.pc].op = "timeout"
          /\ Starts(Body(f)[f.pc])
      BY <1>1, <2>2 DEF Body, Starts
    <2> HIDE DEF f, u
    <2>6. f = Top(th)
      BY DEF f
    <2> QED BY Zenon, <1>1, <2>1, <2>3, <2>4, <2>5, <2>6, StartKeeps
  <1> QED BY Zenon, <1>2, <1>3

\* A frame whose flags alone change.
LEMMA FrameFlags ==
  ASSUME NEW f \in Frame, NEW b \in BOOLEAN
  PROVE  /\ Later(f, [f EXCEPT !.helping = b]) /\ Later(f, [f EXCEPT !.due = b])
         /\ Later(f, f)
  BY DEF Later, Frame

\* A thread some of whose frame's flags change.
LEMMA FlagsTurn ==
  ASSUME IInv, NEW th \in Thread, NEW n \in DOMAIN stack[th], NEW g, Later(stack[th][n], g),
         NEW s, s = [stack[th] EXCEPT ![n] = g]
  PROVE  s \in Seq(Frame) /\ Len(s) = Len(stack[th]) /\ \A i \in 1..Len(s) : Later(stack[th][i], s[i])
  <1>1. stack[th] \in Seq(Frame) /\ g \in Frame
    BY DEF IInv, TypeOK, Later
  <1>2. s \in Seq(Frame) /\ Len(s) = Len(stack[th]) /\ DOMAIN stack[th] = 1..Len(stack[th])
    BY <1>1
  <1>3. ASSUME NEW i \in 1..Len(s) PROVE Later(stack[th][i], s[i])
    <2>1. stack[th][i] \in Frame
      BY <1>1, <1>2
    <2>2. CASE i = n
      BY <1>1, <1>2, <2>2
    <2>3. CASE i # n
      <3>1. s[i] = stack[th][i]
        BY <1>1, <1>2, <2>3
      <3> QED BY Zenon, <2>1, <3>1, FrameFlags
    <2> QED BY <2>2, <2>3
  <1> QED BY <1>2, <1>3

\* try_run_one inside an await
LEMMA HelpKeeps ==
  ASSUME IInv, NEW th \in Thread, Help(th)
  PROVE  IInv'
  <1> DEFINE n == Len(stack[th])
             g == [stack[th][n] EXCEPT !.helping = FALSE]
             below == [stack[th] EXCEPT ![n] = g]
  <1>1. stack[th] # <<>>
    BY DEF Help, Polling, At, Running
  <1>2. n \in DOMAIN stack[th] /\ stack[th][n] \in Frame /\ stack[th] \in Seq(Frame)
    BY <1>1, TopTypes DEF IInv, TypeOK
  <1>3. Later(stack[th][n], g)
    BY Zenon, <1>2, FrameFlags
  <1>4. below \in Seq(Frame) /\ Len(below) = Len(stack[th]) /\ \A i \in 1..Len(below) : Later(stack[th][i], below[i])
    BY Zenon, <1>2, <1>3, FlagsTurn
  <1>5. [stack[th] EXCEPT ![Len(stack[th])].helping = FALSE] = below
    BY <1>2
  <1>6. /\ IF jobs = <<>> THEN stack' = [stack EXCEPT ![th] = below] /\ UNCHANGED <<jobs, active>>
           ELSE RunPopped(th, below)
        /\ UNCHANGED <<program, workers, asleep, timers, entry, result, status>>
    BY <1>5 DEF Help
  <1>7. timers' \subseteq Thread
    BY <1>6 DEF IInv, TypeOK
  <1> HIDE DEF below
  <1>8. CASE jobs = <<>>
    BY <1>4, <1>6, <1>7, <1>8, TurnKeeps
  <1>9. CASE jobs # <<>>
    BY <1>4, <1>6, <1>9, PopKeeps
  <1> QED BY <1>8, <1>9

\* A deadline passes.
LEMMA ExpireKeeps ==
  ASSUME IInv, NEW th \in Thread, NEW i \in DOMAIN stack[th], Expire(th, i)
  PROVE  IInv'
  <1> DEFINE g == [stack[th][i] EXCEPT !.due = TRUE]
             s == [stack[th] EXCEPT ![i] = g]
  <1>1. stack \in [Thread -> Seq(Frame)] /\ stack[th] \in Seq(Frame) /\ stack[th][i] \in Frame
    BY DEF IInv, TypeOK
  <1>2. Later(stack[th][i], g)
    BY Zenon, <1>1, FrameFlags
  <1>3. s \in Seq(Frame) /\ Len(s) = Len(stack[th]) /\ \A j \in 1..Len(s) : Later(stack[th][j], s[j])
    BY Zenon, <1>2, FlagsTurn
  <1>4. stack' = [stack EXCEPT ![th] = s]
    BY <1>1 DEF Expire
  <1>5. UNCHANGED <<program, jobs, workers, asleep, active, timers, entry, result, status>>
    BY DEF Expire
  <1>6. timers' \subseteq Thread
    BY Zenon, <1>5 DEF IInv, TypeOK
  <1> HIDE DEF s
  <1> QED BY Zenon, <1>3, <1>4, <1>5, <1>6, TurnKeeps

\* A call that waits, and the flags of the frame that makes it
LEMMA WaitKeeps ==
  ASSUME IInv, NEW th \in Thread, Poll(th) \/ Sleep(th)
  PROVE  IInv'
  <1> DEFINE g == [Top(th) EXCEPT !.helping = TRUE]
  <1>1. stack[th] # <<>>
    BY DEF Poll, Sleep, Polling, At, Running
  <1>2. Top(th) \in Frame
    BY <1>1, TopTypes DEF IInv
  <1>3. Later(Top(th), g)
    BY Zenon, <1>2, FrameFlags
  <1>4. SetTop(th, g) /\ UNCHANGED <<program, jobs, workers, asleep, active, entry, result, status>>
    BY DEF Poll, Sleep
  <1>5. timers' \subseteq Thread
    BY Zenon DEF IInv, TypeOK, Poll, Sleep
  <1> HIDE DEF g
  <1> QED BY <1>1, <1>3, <1>4, <1>5, SetTopKeeps

\* A call that waited has its answer.
LEMMA AnswerKeeps ==
  ASSUME IInv, NEW th \in Thread, Receive(th) \/ GiveUp(th) \/ Slept(th)
  PROVE  IInv'
  <1>1. stack[th] # <<>> /\ ~AtEnd(Top(th)) /\ Instruction(Top(th)).op # "spawn" /\ Advance(th)
    BY DEF Receive, GiveUp, Slept, Polling, At, Running
  <1>2. UNCHANGED <<program, jobs, workers, asleep, active, timers, entry, result, status>>
    BY DEF Receive, GiveUp, Slept
  <1> QED BY Zenon, <1>1, <1>2, AdvanceKeeps

\* The timer wheel answers.
LEMMA FireKeeps ==
  ASSUME IInv, NEW th \in Thread, Fire(th)
  PROVE  IInv'
  <1>1. TypeOK' /\ QueueIsServed'
    BY Zenon DEF IInv, TypeOK, QueueIsServed, Fire
  <1>2. Apart' /\ Flags' /\ Handles'
    BY DEF IInv, Apart, Flags, Handles, Fire
  <1>3. Placed'
    BY Zenon DEF IInv, Placed, Pending, Fire
  <1>4. Fresh'
    BY DEF IInv, Fresh, Ahead, Fire
  <1>5. program' \in Programs
    BY DEF IInv, Fire
  <1> QED BY <1>1, <1>2, <1>3, <1>4, <1>5 DEF IInv

\* A worker's loop takes a job.
LEMMA TakeJobKeeps ==
  ASSUME IInv, NEW w \in Worker, TakeJob(w)
  PROVE  IInv'
  <1>1. w \in Thread /\ stack[w] = <<>> /\ jobs # <<>> /\ RunPopped(w, <<>>)
    BY DEF TakeJob, Idle, Thread
  <1>2. <<>> \in Seq(Frame) /\ Len(<<>>) = Len(stack[w])
    BY <1>1
  <1>3. \A i \in 1..Len(<<>>) : Later(stack[w][i], <<>>[i])
    OBVIOUS
  <1>4. UNCHANGED <<program, workers, asleep, timers, entry, result, status>>
    BY DEF TakeJob
  <1> QED BY Zenon, <1>1, <1>2, <1>3, <1>4, PopKeeps

-----------------------------------------------------------------------------
\* A process starts with an empty pool and the main function's frame.
LEMMA InitHolds ==
  ASSUME Init
  PROVE  IInv
  <1>1. program \in Programs /\ Main \notin Task /\ Main \notin Nat /\ program.max_workers \in Nat
        /\ program.handles[Main] = {} /\ MaxWorkers \in Nat
    BY ProgramTypes DEF Init
  <1>2. /\ Main \in Thread /\ stack[Main] = <<NewFrame(Main, FALSE)>>
        /\ \A th \in Thread : th # Main => stack[th] = <<>>
        /\ \A w \in Worker : w \in Thread /\ w # Main
    <2>1. stack = [th \in Thread |-> IF th = Main THEN <<NewFrame(Main, FALSE)>> ELSE <<>>]
      BY DEF Init
    <2>2. Main \in Thread /\ \A w \in Worker : w \in Thread /\ w \in Nat
      BY <1>1 DEF Thread, Worker
    <2> QED BY Zenon, <1>1, <2>1, <2>2
  <1>3. /\ NewFrame(Main, FALSE) \in Frame /\ NewFrame(Main, FALSE).task = Main
        /\ NewFrame(Main, FALSE).pc = 1
    BY DEF NewFrame, Frame
  <1>4. \A th \in Thread : \A i \in DOMAIN stack[th] :
          th = Main /\ i = 1 /\ stack[th][i] = NewFrame(Main, FALSE)
    <2>1. DOMAIN <<>> = {}
      OBVIOUS
    <2>2. ASSUME NEW x PROVE (\A i \in DOMAIN <<x>> : i = 1) /\ <<x>>[1] = x
      OBVIOUS
    <2>3. (\A i \in DOMAIN stack[Main] : i = 1) /\ stack[Main][1] = NewFrame(Main, FALSE)
      BY <1>2, <2>2
    <2> QED BY Zenon, <1>2, <2>1, <2>3
  <1>5. stack \in [Thread -> Seq(Frame)]
    <2>1. ASSUME NEW x \in Frame PROVE <<x>> \in Seq(Frame)
      OBVIOUS
    <2>2. <<NewFrame(Main, FALSE)>> \in Seq(Frame)
      BY Zenon, <1>3, <2>1
    <2>3. <<>> \in Seq(Frame)
      OBVIOUS
    <2> QED BY Zenon, <2>2, <2>3 DEF Init
  <1>6. jobs = <<>> /\ workers = 0 /\ asleep = {} /\ \A t \in Task : entry[t] = "none" /\ result[t] = "empty"
    BY DEF Init
  <1>7. TypeOK
    <2>1. jobs \in Seq(Task) /\ workers \in 0..program.max_workers /\ asleep \subseteq 1..workers
      BY <1>1, <1>6
    <2> QED BY Zenon, <1>5, <2>1 DEF Init, TypeOK
  <1>8. \A i \in DOMAIN jobs : FALSE
    BY <1>6
  <1>14. Apart
    BY Zenon, <1>4, <1>8 DEF Apart
  <1>9. Placed
    BY Zenon, <1>3, <1>4, <1>6, <1>8 DEF Placed, Pending
  <1>10. Flags
    BY <1>2 DEF Flags
  <1>11. Handles
    <2>1. Held(program, Main, 1) = {}
      <3>1. 1..(1 - 1) = {}
        OBVIOUS
      <3> QED BY <1>1, <3>1 DEF Held, Spawned
    <2> QED BY Zenon, <1>3, <1>4, <1>8, <2>1 DEF Handles
  <1>12. Fresh
    <2>1. \A r \in Task \cup {Main} : \A k \in DOMAIN program.body[r] :
            program.body[r][k].op = "spawn" => program.body[r][k].of \in Task
      BY <1>1, CallTypes DEF Starts
    <2> QED BY Zenon, <1>6, <2>1 DEF Fresh
  <1>13. QueueIsServed
    BY <1>6 DEF QueueIsServed
  <1> QED BY Zenon, <1>1, <1>7, <1>9, <1>10, <1>11, <1>12, <1>13, <1>14 DEF IInv

\* One case for each action.
LEMMA StepKeeps ==
  ASSUME IInv, [Next]_vars
  PROVE  IInv'
  <1>1. ASSUME NEW th \in Thread, ThreadStep(th) PROVE IInv'
    <2>1. CASE Spawn(th)
      BY <2>1, SpawnKeeps
    <2>2. CASE StartTimeout(th)
      BY <2>2, StartTimeoutKeeps
    <2>3. CASE Receive(th) \/ GiveUp(th) \/ Slept(th)
      BY <2>3, AnswerKeeps
    <2>4. CASE Poll(th) \/ Sleep(th)
      BY <2>4, WaitKeeps
    <2>5. CASE Help(th)
      BY <2>5, HelpKeeps
    <2>6. CASE Return(th)
      BY <2>6, LeaveKeeps DEF Return, Running
    <2>7. CASE Raise(th)
      <3>1. stack[th] # <<>> /\ Leave(th, "panicked")
        BY <2>7 DEF Raise, Polling, At, Running
      <3> QED BY Zenon, <3>1, LeaveKeeps
    <2> QED BY <1>1, <2>1, <2>2, <2>3, <2>4, <2>5, <2>6, <2>7 DEF ThreadStep
  <1>2. ASSUME NEW th \in Thread, Elapse(th) PROVE IInv'
    BY <1>2, FireKeeps, ExpireKeeps DEF Elapse
  <1>3. ASSUME NEW w \in Worker, WorkerStep(w) PROVE IInv'
    <2>1. CASE TakeJob(w)
      BY <2>1, TakeJobKeeps
    <2>2. CASE WaitForJob(w)
      <3>1. asleep' \subseteq 1..workers /\ jobs = <<>>
        BY <2>2 DEF WaitForJob, Idle, Worker, IInv, TypeOK
      <3> QED BY <2>2, <3>1, AsleepKeeps DEF WaitForJob
    <2> QED BY <1>3, <2>1, <2>2 DEF WorkerStep
  <1>4. ASSUME NEW w \in Worker, SpuriousWakeup(w) PROVE IInv'
    <2>1. asleep' \subseteq 1..workers /\ asleep' \subseteq asleep
      BY <1>4 DEF SpuriousWakeup, IInv, TypeOK
    <2> QED BY <1>4, <2>1, AsleepKeeps DEF SpuriousWakeup
  <1>5. CASE UNCHANGED vars
    <2>1. asleep' \subseteq 1..workers /\ asleep' \subseteq asleep
      BY <1>5 DEF vars, IInv, TypeOK
    <2> QED BY <1>5, <2>1, AsleepKeeps DEF vars
  <1> QED BY <1>1, <1>2, <1>3, <1>4, <1>5 DEF Next, Exited

\* Every step of every thread keeps the invariant.
THEOREM Invariance == Spec => []IInv
  <1>1. Init => IInv
    BY InitHolds
  <1>2. IInv /\ [Next]_vars => IInv'
    BY Zenon, StepKeeps
  <1> QED BY <1>1, <1>2, PTL DEF Spec

\* A pending task has one place, and any other none.
LEMMA PlacesAgree ==
  ASSUME IInv
  PROVE  OneHolder
  <1> SUFFICES ASSUME NEW t \in Task
               PROVE  IF Pending(t) THEN \E p \in Places(t) : Places(t) = {p} ELSE Places(t) = {}
    BY Zenon DEF OneHolder
  <1>1. Main # t
    BY Zenon, ProgramTypes DEF IInv
  <1>2. CASE ~Pending(t)
    BY <1>1, <1>2 DEF IInv, Placed, Places, Queued, Frames
  <1>3. CASE \E i \in DOMAIN jobs : jobs[i] = t
    <2>1. PICK i \in DOMAIN jobs : jobs[i] = t
      BY <1>3
    <2>2. Queued(t) = {<<0, i>>}
      BY Zenon, <2>1 DEF IInv, Apart, Queued
    <2>3. Frames(t) = {}
      BY <2>1 DEF IInv, Apart, Frames
    <2>4. Pending(t)
      BY <2>1 DEF IInv, Placed
    <2> QED BY <2>2, <2>3, <2>4 DEF Places
  <1>4. CASE \E th \in Thread : \E i \in DOMAIN stack[th] : stack[th][i].task = t
    <2>1. PICK th \in Thread : \E i \in DOMAIN stack[th] : stack[th][i].task = t
      BY <1>4
    <2>2. PICK i \in DOMAIN stack[th] : stack[th][i].task = t
      BY Zenon, <2>1
    <2>3. Queued(t) = {}
      BY <2>2 DEF IInv, Apart, Queued
    <2>4. \A tg \in Thread : \A j \in DOMAIN stack[tg] : stack[tg][j].task = t => tg = th /\ j = i
      BY <2>2 DEF IInv, Apart
    <2>5. Frames(t) = {<<th, i>>}
      BY <2>2, <2>4 DEF Frames
    <2>6. Pending(t)
      BY <1>1, <2>2 DEF IInv, Placed
    <2> QED BY <2>3, <2>5, <2>6 DEF Places
  <1> QED BY <1>2, <1>3, <1>4 DEF IInv, Placed

\* schedule, try_run_one and the workers' loops: a task handed to the pool is
\* queued, or on one stack, or has its outcome, whichever thread takes it.
THEOREM NoJobIsLost == Spec => []WellFormed
  <1>1. IInv => WellFormed
    BY PlacesAgree DEF IInv, WellFormed
  <1> QED BY <1>1, Invariance, PTL

\* schedule's notify_one: while a job is queued some worker is awake, whoever
\* else took jobs, slept or woke up in between.
THEOREM NoWakeupIsMissed == Spec => []QueueIsServed
  <1>1. IInv => QueueIsServed
    BY Zenon DEF IInv
  <1> QED BY <1>1, Invariance, PTL

\* In a deadlock in which no awaited task is buried, what a thread awaits is what
\* another thread runs.
LEMMA AwaitedRuns ==
  ASSUME IInv, Deadlocked, NEW th \in Thread, stack[th] # <<>>, ~Buried(Awaited(Top(th)))
  PROVE  /\ Awaited(Top(th)) \in Task
         /\ \E tg \in Thread : stack[tg] # <<>> /\ Top(tg).task = Awaited(Top(th))
  <1> DEFINE f == Top(th)
             v == Awaited(f)
  <1>1. ~AtEnd(f) /\ Instruction(f).op = "join" /\ result[v] = "empty"
    BY Zenon DEF Deadlocked, Waits, Polling, At
  <1>2. f \in Frame /\ program \in Programs /\ Len(stack[th]) \in DOMAIN stack[th] /\ f = stack[th][Len(stack[th])]
    BY Zenon, TopTypes DEF IInv
  <1>3. /\ f.task \in Task \cup {Main} /\ f.pc \in DOMAIN program.body[f.task]
        /\ Instruction(f) = program.body[f.task][f.pc]
    BY <1>1, <1>2, InstructionTypes
  <1>4. v \in Task /\ v \in Held(program, f.task, f.pc)
    BY Zenon, <1>1, <1>2, <1>3, CallTypes DEF Awaited
  <1>5. entry[v] # "none"
    BY Zenon, <1>2, <1>4 DEF IInv, Handles
  <1>6. CASE \E i \in DOMAIN jobs : jobs[i] = v
    <2>1. jobs # <<>>
      <3>1. DOMAIN <<>> = {}
        OBVIOUS
      <3> QED BY Zenon, <1>6, <3>1
    <2>2. PICK w \in 1..workers : w \notin asleep
      BY Zenon, <2>1 DEF IInv, QueueIsServed
    <2>3. stack[w] # <<>> /\ ~active[w]
      BY Zenon, <2>1, <2>2 DEF Deadlocked
    <2>4. w \in Worker
      <3>1. workers \in 0..program.max_workers /\ program.max_workers \in Nat /\ program.max_workers <= MaxWorkers
            /\ MaxWorkers \in Nat
        BY Zenon, ProgramTypes DEF IInv, TypeOK
      <3> QED BY <2>2, <3>1 DEF Worker
    <2> QED BY Zenon, <2>3, <2>4 DEF IInv, Flags
  <1>7. CASE \E tg \in Thread : \E i \in DOMAIN stack[tg] : stack[tg][i].task = v
    <2>1. PICK tg \in Thread : \E i \in DOMAIN stack[tg] : stack[tg][i].task = v
      BY <1>7
    <2>2. PICK i \in DOMAIN stack[tg] : stack[tg][i].task = v
      BY <2>1
    <2>3. stack[tg] \in Seq(Frame)
      BY Zenon DEF IInv, TypeOK
    <2>4. stack[tg] # <<>> /\ i \in 1..Len(stack[tg])
      BY <2>3
    <2>5. i = Len(stack[tg])
      <3>1. i \notin 1..Len(stack[tg]) - 1
        BY Zenon, <2>2 DEF Buried
      <3> QED BY <2>3, <2>4, <3>1
    <2> QED BY <1>4, <2>2, <2>4, <2>5 DEF Top
  <1>8. Pending(v)
    BY Zenon, <1>1, <1>5 DEF Pending
  <1> QED BY Zenon, <1>4, <1>6, <1>7, <1>8 DEF IInv, Placed

\* The tasks on top would each await another one of them, but a program's
\* handles have no cycle.
LEMMA HangIsBurial ==
  ASSUME IInv
  PROVE  HangsOnlyByBurial
  <1> SUFFICES ASSUME Deadlocked, \A th \in Thread : stack[th] # <<>> => ~Buried(Awaited(Top(th)))
               PROVE  FALSE
    BY Zenon DEF HangsOnlyByBurial
  <1> DEFINE S == {u \in Task : \E th \in Thread : stack[th] # <<>> /\ Top(th).task = u}
  <1>1. ASSUME NEW th \in Thread, stack[th] # <<>> PROVE Awaited(Top(th)) \in S
    BY <1>1, AwaitedRuns
  <1>2. S \in (SUBSET Task) \ {{}}
    <2>1. Main \in Thread /\ stack[Main] # <<>>
      BY DEF Deadlocked, Running, Thread
    <2> QED BY Zenon, <1>1, <2>1
  <1>3. PICK t \in S : \A k \in DOMAIN program.body[t] :
          program.body[t][k].op = "join" => program.body[t][k].of \notin S
    <2>1. IsProgram(program)
      BY Zenon, ProgramTypes DEF IInv
    <2> HIDE DEF S
    <2> QED BY Zenon, <1>2, <2>1 DEF IsProgram
  <1>4. PICK th \in Thread : stack[th] # <<>> /\ Top(th).task = t
    BY Zenon, <1>3
  <1>5. ~AtEnd(Top(th)) /\ Instruction(Top(th)).op = "join"
    BY Zenon, <1>4 DEF Deadlocked, Waits, Polling, At
  <1>6. Top(th) \in Frame /\ program \in Programs
    BY Zenon, <1>4, TopTypes DEF IInv
  <1>7. Top(th).pc \in DOMAIN program.body[t] /\ Instruction(Top(th)) = program.body[t][Top(th).pc]
    BY Zenon, <1>4, <1>5, <1>6, InstructionTypes
  <1>8. Awaited(Top(th)) \notin S
    <2> HIDE DEF S
    <2> QED BY <1>3, <1>5, <1>7 DEF Awaited
  <1> QED BY Zenon, <1>1, <1>4, <1>8

\* axiom_runtime_recv: threads that all wait for ever do so because an await ran a
\* job on top of a frame that is waited for, with any number of workers.
THEOREM HangsAreBurials == Spec => []HangsOnlyByBurial
  <1>1. IInv => HangsOnlyByBurial
    BY HangIsBurial
  <1> QED BY <1>1, Invariance, PTL
=============================================================================
