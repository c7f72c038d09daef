------------------------- MODULE BoundedTestRunner -------------------------
(***************************************************************************)
(* How axiomc runs a test program under RunLimits                          *)
(* (project/bounded_test_runner.rs), and how a failed test is retried      *)
(* (run_test_case_with_retries in project.rs).  The runner polls the child *)
(* while two threads drain its output pipes and a third feeds its input;   *)
(* on the deadline, or on too much output, it signals the child's process  *)
(* group and waits for the threads.                                        *)
(*                                                                         *)
(* The program is the environment: it may write, read, close its pipes,    *)
(* fork one helper that inherits any of them, ignore SIGTERM, exit, or do  *)
(* none of these for ever.  Output and input are counted in units.         *)
(* TestInit, TestNext and TestSpec are the usual Init, Next and Spec,      *)
(* named so that BoundedProofs can extend this module together with        *)
(* BoundedExecutor.                                                        *)
(***************************************************************************)
EXTENDS Naturals, FiniteSets

CONSTANTS Modes,          \* what is run: "plain", "stdin" or "http"
          MaxOutputBytes, \* RunLimits.max_output_bytes
          Retries,        \* TestRetryPlan.retries
          PipeSize,       \* what an output pipe holds
          InputRoom,      \* what the input pipe holds
          InputSize,      \* the length of a test's stdin
          Closable,       \* bound: the pipes that a running process closes
          MaxWritten      \* bound: what a program writes in one attempt

ASSUME Limits ==
  /\ Modes \subseteq {"plain", "stdin", "http"}
  /\ {MaxOutputBytes, Retries, InputSize, MaxWritten} \subseteq Nat
  /\ {PipeSize, InputRoom} \subseteq Nat \ {0}

VARIABLES mode,      \* of the test
          pc,        \* of the runner
          attempt,   \* retry_seed.attempt
          result,    \* of the attempt, "none" until it is known
          early,     \* the service exited before it became ready
          expired,   \* Instant::now() >= deadline
          graceOver, \* Instant::now() >= grace_deadline
          state,     \* of each process
          group,     \* the processes of the child's process group
          open,      \* for each pipe, the processes that hold the program's end
          pipe,      \* what each output pipe holds
          written,   \* what each output pipe was given
          reader,    \* each capture thread: [got, captured, done]
          bytes,     \* output_bytes, which both threads add to
          stdin      \* the input pipe and its thread: [left, pipe, writer]

programVars == <<state, group, open, pipe, written>>
threadVars == <<reader, bytes>>
timeVars == <<expired, graceOver>>
testVars == <<mode, pc, attempt, result, early, timeVars, programVars, threadVars, stdin>>

Process == {"child", "helper"}
Stream == {"stdout", "stderr"}
Channel == {"stdin", "stdout", "stderr"}
Outcome == {"ok", "output_limit", "timed_out", "broken_pipe", "not_ready", "http_error"}
Total(f) == f["stdout"] + f["stderr"]
Alive(p) == state[p] = "running"

\* What an attempt starts from: nothing written, nothing read.
Idle == [got |-> 0, captured |-> 0, done |-> FALSE]
Nothing == [s \in Stream |-> 0]
Closed == [c \in Channel |-> {}]

TestInit ==
  /\ mode \in Modes
  /\ pc = "spawn" /\ attempt = 0 /\ result = "none" /\ early = FALSE
  /\ expired = FALSE /\ graceOver = FALSE
  /\ state = [p \in Process |-> "none"] /\ group = {} /\ open = Closed
  /\ pipe = Nothing /\ written = Nothing
  /\ reader = [s \in Stream |-> Idle] /\ bytes = 0
  /\ stdin = [left |-> 0, pipe |-> 0, writer |-> "done"]

-----------------------------------------------------------------------------
\* The runner.

\* spawn_bounded_child: the child leads a group of its own (setsid), a thread
\* drains each output pipe, and one feeds the input if the test has any;
\* without input, the child's stdin is no pipe (Stdio::null).
Spawn ==
  /\ pc = "spawn"
  /\ pc' = IF mode = "http" THEN "http_deadline" ELSE "poll_output"
  /\ result' = "none" /\ early' = FALSE /\ expired' = FALSE /\ graceOver' = FALSE
  /\ state' = [p \in Process |-> IF p = "child" THEN "running" ELSE "none"]
  /\ group' = {"child"}
  /\ open' = [c \in Channel |-> IF c = "stdin" /\ mode # "stdin" THEN {} ELSE {"child"}]
  /\ pipe' = Nothing /\ written' = Nothing
  /\ reader' = [s \in Stream |-> Idle] /\ bytes' = 0
  /\ stdin' = IF mode = "stdin" THEN [left |-> InputSize, pipe |-> 0, writer |-> "writing"]
                                ELSE [left |-> 0, pipe |-> 0, writer |-> "done"]
  /\ UNCHANGED <<mode, attempt>>

RunnerAlone == UNCHANGED <<mode, attempt, early, timeVars, programVars, threadVars, stdin>>
Goto(label) == pc' = label /\ UNCHANGED result /\ RunnerAlone
\* stop_bounded_child, and the error that is returned after it.
Stop(why) == pc' = "term" /\ result' = why /\ RunnerAlone

\* child.try_wait() returns a status: the child is reaped, or was before.
Exited == state["child"] \in {"zombie", "gone"}
Reap == state' = [state EXCEPT !["child"] = "gone"]

\* One turn of finish_bounded_child's loop, up to its sleep.
OutputExceeded == bytes > MaxOutputBytes
PollOutput ==
  /\ pc = "poll_output"
  /\ IF OutputExceeded THEN Stop("output_limit") ELSE Goto("poll_wait")
PollWait ==
  /\ pc = "poll_wait"
  /\ \/ ~Exited /\ Goto("poll_deadline")
     \/ /\ Exited /\ Reap /\ pc' = "join_stdout"
        /\ UNCHANGED <<mode, attempt, result, early, timeVars, group, open, pipe, written,
                       threadVars, stdin>>
PollDeadline ==
  /\ pc = "poll_deadline"
  /\ IF expired THEN Stop("timed_out") ELSE Goto("poll_output")

\* run_bounded_http_fixture_case: wait for the service, ask, check the body.
HttpDeadline ==
  /\ pc = "http_deadline"
  /\ IF expired THEN Stop("timed_out") ELSE Goto("http_wait")
HttpWait ==
  /\ pc = "http_wait"
  /\ \/ ~Exited /\ Goto("http_connect")
     \/ /\ Exited /\ Reap /\ early' = TRUE /\ pc' = "poll_output"
        /\ UNCHANGED <<mode, attempt, result, timeVars, group, open, pipe, written,
                       threadVars, stdin>>
HttpConnect ==
  /\ pc = "http_connect"
  /\ \/ Goto("http_deadline")
     \/ (\E p \in Process : Alive(p)) /\ Goto("http_request")
HttpRequest ==
  /\ pc = "http_request"
  /\ IF expired THEN Stop("timed_out") ELSE Stop("http_error") \/ Goto("http_response")
\* read_bounded_http_response_until, and the comparison of the body.
HttpResponse ==
  /\ pc = "http_response"
  /\ \/ expired /\ Stop("timed_out")
     \/ ~expired /\ (Stop("http_error") \/ Goto("poll_output"))

\* A signal to the process group ends its members, but for those that ignore it.
Signalled(ignoring) ==
  LET hit == {p \in group \ ignoring : Alive(p)} IN
  /\ state' = [p \in Process |-> IF p \notin hit THEN state[p]
                                 ELSE IF p = "child" THEN "zombie" ELSE "gone"]
  /\ open' = [c \in Channel |-> open[c] \ hit]
  /\ UNCHANGED <<mode, attempt, result, early, timeVars, group, pipe, written, threadVars,
                 stdin>>

\* terminate_bounded_child: SIGTERM, a grace period, then SIGKILL and wait().
Terminate ==
  /\ pc = "term" /\ pc' = "grace"
  /\ \E ignoring \in SUBSET Process : Signalled(ignoring)
Grace ==
  /\ pc = "grace"
  /\ \/ graceOver /\ Goto("kill")
     \/ /\ ~graceOver /\ Exited /\ Reap /\ pc' = "join_stdout"
        /\ UNCHANGED <<mode, attempt, result, early, timeVars, group, open, pipe, written,
                       threadVars, stdin>>
\* Mutant: the second signal can be ignored too.
Kill_Polite ==
  /\ pc = "kill" /\ pc' = "wait"
  /\ \E ignoring \in SUBSET Process : Signalled(ignoring)
Kill == pc = "kill" /\ pc' = "wait" /\ Signalled({})
Wait ==
  /\ pc = "wait" /\ Exited
  /\ Reap /\ pc' = "join_stdout"
  /\ UNCHANGED <<mode, attempt, result, early, timeVars, group, open, pipe, written,
                 threadVars, stdin>>

\* The joins, after a stop as after an exit; a join has no time limit.
Join ==
  \/ pc = "join_stdout" /\ reader["stdout"].done /\ Goto("join_stderr")
  \/ pc = "join_stderr" /\ reader["stderr"].done /\ Goto("join_stdin")
\* The end of finish_bounded_child; after a stop, the error is known already.
\* Mutant: the limit is not checked again after the joins.
TestVerdict_Unchecked ==
  IF result # "none" THEN result
  ELSE IF stdin.writer = "broken" THEN "broken_pipe"
  ELSE IF early THEN "not_ready" ELSE "ok"
TestVerdict ==
  IF result # "none" THEN result
  ELSE IF stdin.writer = "broken" THEN "broken_pipe"
  ELSE IF OutputExceeded THEN "output_limit"
  ELSE IF early THEN "not_ready" ELSE "ok"
End ==
  /\ pc = "join_stdin" /\ stdin.writer # "writing"
  /\ result' = TestVerdict
  \* A run that is ok may still not have printed what the test expects.
  /\ \/ result' = "ok" /\ pc' = "over"
     \/ pc' = "failed"
  /\ RunnerAlone
\* run_test_case_with_retries, after a case that is not ok.
Retry ==
  /\ pc = "failed"
  /\ IF attempt < Retries THEN attempt' = attempt + 1 /\ pc' = "spawn"
                          ELSE pc' = "over" /\ UNCHANGED attempt
  /\ UNCHANGED <<mode, result, early, timeVars, programVars, threadVars, stdin>>

Runner ==
  \/ Spawn \/ PollOutput \/ PollWait \/ PollDeadline
  \/ HttpDeadline \/ HttpWait \/ HttpConnect \/ HttpRequest \/ HttpResponse
  \/ Terminate \/ Grace \/ Kill \/ Wait \/ Join \/ End \/ Retry

-----------------------------------------------------------------------------
\* The threads.
ThreadAlone == UNCHANGED <<mode, pc, attempt, result, early, timeVars>>
Started == pc \notin {"spawn", "failed", "over"}

\* capture_bounded_stream: stream.read takes what the pipe holds ...
Read(s) ==
  /\ Started /\ ~reader[s].done /\ pipe[s] > 0 /\ reader[s].got = 0
  /\ reader' = [reader EXCEPT ![s].got = pipe[s]]
  /\ pipe' = [pipe EXCEPT ![s] = 0]
  /\ ThreadAlone /\ UNCHANGED <<state, group, open, written, bytes, stdin>>

\* ... fetch_add reserves a place for it, and what fits below the limit is kept.
Least(a, b) == IF a < b THEN a ELSE b
\* Mutant: each thread counts its own bytes only.
Kept_OwnCount(s) == Least(reader[s].got, MaxOutputBytes - reader[s].captured)
Kept(s) == IF bytes < MaxOutputBytes THEN Least(reader[s].got, MaxOutputBytes - bytes) ELSE 0
Count(s) ==
  /\ reader[s].got > 0
  /\ bytes' = bytes + reader[s].got
  /\ reader' = [reader EXCEPT ![s].captured = @ + Kept(s), ![s].got = 0]
  /\ ThreadAlone /\ UNCHANGED <<programVars, stdin>>

\* A read of nothing: every process has closed its end of this pipe.
AtEof(s) == pipe[s] = 0 /\ open[s] = {}
Eof(s) ==
  /\ Started /\ ~reader[s].done /\ reader[s].got = 0 /\ AtEof(s)
  /\ reader' = [reader EXCEPT ![s].done = TRUE]
  /\ ThreadAlone /\ UNCHANGED <<programVars, bytes, stdin>>

\* The thread of pipe.write_all(&input): it waits while the pipe is full, and
\* fails when nobody can read from it.
Feed ==
  /\ Started /\ stdin.writer = "writing"
  /\ \/ stdin.left = 0 /\ stdin' = [stdin EXCEPT !.writer = "done"]
     \/ /\ stdin.left > 0 /\ open["stdin"] # {} /\ stdin.pipe < InputRoom
        /\ stdin' = [stdin EXCEPT !.left = @ - 1, !.pipe = @ + 1]
     \/ stdin.left > 0 /\ open["stdin"] = {} /\ stdin' = [stdin EXCEPT !.writer = "broken"]
  /\ ThreadAlone /\ UNCHANGED <<programVars, threadVars>>

Capture(s) == Read(s) \/ Count(s) \/ Eof(s)

-----------------------------------------------------------------------------
\* The program and the clock.
ProgramAlone == UNCHANGED <<mode, pc, attempt, result, early, timeVars, threadVars>>

Write(p, s) ==
  /\ Started /\ Alive(p) /\ p \in open[s] /\ pipe[s] < PipeSize /\ Total(written) < MaxWritten
  /\ pipe' = [pipe EXCEPT ![s] = @ + 1] /\ written' = [written EXCEPT ![s] = @ + 1]
  /\ ProgramAlone /\ UNCHANGED <<state, group, open, stdin>>
Consume(p) ==
  /\ Started /\ Alive(p) /\ p \in open["stdin"] /\ stdin.pipe > 0
  /\ stdin' = [stdin EXCEPT !.pipe = @ - 1]
  /\ ProgramAlone /\ UNCHANGED programVars
\* A process closes a standard stream or redirects it.
Close(p, c) ==
  /\ Started /\ Alive(p) /\ p \in open[c]
  /\ open' = [open EXCEPT ![c] = @ \ {p}]
  /\ ProgramAlone /\ UNCHANGED <<state, group, pipe, written, stdin>>
\* The child forks a helper, which keeps some of the child's pipes, has others of
\* its own in their place, and stays in the group or leaves it (setsid).
Fork(kept, leaves) ==
  /\ Started /\ Alive("child") /\ state["helper"] = "none"
  /\ state' = [state EXCEPT !["helper"] = "running"]
  /\ open' = [c \in Channel |-> IF c \in kept /\ "child" \in open[c] THEN open[c] \cup {"helper"}
                                                                  ELSE open[c]]
  /\ group' = IF leaves THEN group ELSE group \cup {"helper"}
  /\ ProgramAlone /\ UNCHANGED <<pipe, written, stdin>>
Exit(p) ==
  /\ Started /\ Alive(p)
  /\ state' = [state EXCEPT ![p] = IF p = "child" THEN "zombie" ELSE "gone"]
  /\ open' = [c \in Channel |-> open[c] \ {p}]
  /\ ProgramAlone /\ UNCHANGED <<group, pipe, written, stdin>>
Program ==
  \/ \E p \in Process : Consume(p) \/ Exit(p)
  \/ \E p \in Process, s \in Stream : Write(p, s)
  \/ \E p \in Process, c \in Channel : c \in Closable /\ Close(p, c)
  \/ \E kept \in SUBSET Channel, leaves \in BOOLEAN : Fork(kept, leaves)

Deadline ==
  /\ Started /\ ~expired /\ expired' = TRUE
  /\ UNCHANGED <<mode, pc, attempt, result, early, graceOver, programVars, threadVars, stdin>>
GraceEnds ==
  /\ pc = "grace" /\ ~graceOver /\ graceOver' = TRUE
  /\ UNCHANGED <<mode, pc, attempt, result, early, expired, programVars, threadVars, stdin>>

TestNext == Runner \/ Feed \/ (\E s \in Stream : Capture(s)) \/ Program \/ Deadline \/ GraceEnds
TestSpec == TestInit /\ [][TestNext]_testVars
\* The runner, its threads and the clock go on; the program need not.
TestFairSpec ==
  /\ TestSpec /\ WF_testVars(Runner) /\ WF_testVars(Feed) /\ WF_testVars(Deadline) /\ WF_testVars(GraceEnds)
  /\ WF_testVars(Capture("stdout")) /\ WF_testVars(Capture("stderr"))

-----------------------------------------------------------------------------
Labels == {"spawn", "poll_output", "poll_wait", "poll_deadline", "http_deadline", "http_wait",
           "http_connect", "http_request", "http_response", "term", "grace", "kill", "wait",
           "join_stdout", "join_stderr", "join_stdin", "failed", "over"}

\* The types of the variables; a pipe never holds more than its size.
TestTypeOK ==
  /\ mode \in Modes /\ pc \in Labels /\ attempt \in 0..Retries
  /\ result \in Outcome \cup {"none"} /\ {early, expired, graceOver} \subseteq BOOLEAN
  /\ state \in [Process -> {"none", "running", "zombie", "gone"}]
  /\ group \subseteq Process /\ open \in [Channel -> SUBSET {p \in Process : Alive(p)}]
  /\ pipe \in [Stream -> 0..PipeSize] /\ written \in [Stream -> 0..MaxWritten]
  /\ reader \in [Stream -> [got : 0..PipeSize, captured : 0..MaxWritten, done : BOOLEAN]]
  /\ bytes \in 0..MaxWritten
  /\ stdin \in [left : 0..InputSize, pipe : 0..InputRoom, writer : {"writing", "done", "broken"}]

\* capture_bounded_stream: whatever the order of the two threads' fetch_adds,
\* together they keep exactly what arrived, up to max_output_bytes.
CapturesTheLimit ==
  reader["stdout"].captured + reader["stderr"].captured = Least(bytes, MaxOutputBytes)

\* finish_bounded_child and stop_bounded_child: whichever way an attempt ended,
\* the child was reaped and nobody can write to its output any more; one that is
\* reported as ok has returned every unit the program and its helper wrote to
\* either stream, and its whole input went into the pipe; too much output, a
\* timeout and a broken pipe are reported only if they happened, the last only
\* if input was left that nobody can read.
ReportIsTrue ==
  pc \in {"over", "failed"} =>
    /\ state["child"] = "gone" /\ \A s \in Stream : open[s] = {}
    /\ result = "ok" => (\A s \in Stream : reader[s].captured = written[s]) /\ stdin.left = 0
    /\ result = "output_limit" => Total(written) > MaxOutputBytes
    /\ result = "timed_out" => expired
    /\ result = "broken_pipe" => mode = "stdin" /\ stdin.left > 0 /\ open["stdin"] = {}

\* terminate_bounded_child: -child.id() names the child's group as long as the
\* child is not reaped, and the group is signalled only then, except when a
\* service that exited before it was ready had written too much.
SignalsOwnGroup ==
  [][(pc \in {"term", "kill"} /\ pc' # pc) => (state["child"] # "gone" \/ early)]_testVars

\* The runner waits for the thread of a pipe that only the helper has open: a
\* reader that gets no end of file, or a writer whose pipe is full.
Held ==
  \/ pc = "join_stdout" /\ open["stdout"] = {"helper"}
  \/ pc = "join_stderr" /\ open["stderr"] = {"helper"}
  \/ pc = "join_stdin" /\ open["stdin"] = {"helper"} /\ stdin.left > 0 /\ stdin.pipe = InputRoom

\* RunLimits.timeout: every attempt, and so the test, comes to an end, unless a
\* helper that outlives the child keeps open the very pipe whose thread is being
\* joined, does not close it, and if it is the input does not read it either.
EndsUnlessHeld == <>(pc = "over") \/ <>[]Held
=============================================================================
