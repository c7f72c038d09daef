--------------------------- MODULE Observability ----------------------------
(***************************************************************************)
(* ObservabilityRuntime of runtime_observability.rs: events are filtered,  *)
(* bounded by count and bytes, queued, drained to a sink that may fail,    *)
(* and flushed by a shutdown with a deadline.  An event is its sequence    *)
(* number and its size; sanitising and encoding are left out.  The calls   *)
(* take &mut self, so each is one step; how far the sink gets inside a     *)
(* call, and when the deadline is found passed, are choices of the step.   *)
(***************************************************************************)
EXTENDS Naturals, Sequences, FiniteSetsExt

CONSTANTS Target, Level,     \* what filters tell apart; Level is a set of naturals
          Size,              \* the encoded sizes of events, in bytes
          QueueCapacity, MaxQueuedBytes, MaxEventBytes,
          MaxAttempts        \* bound on the calls of emit

\* The upper limits of validate do not matter to the queue and are left out.
validate == QueueCapacity \in Nat \ {0} /\ MaxQueuedBytes \in Nat \ {0} /\ MaxEventBytes \in Nat \ {0}

ASSUME ConfigValid ==
  /\ validate
  /\ Size \subseteq Nat /\ Level \subseteq Nat /\ MaxAttempts \in Nat

VARIABLES overflow_policy, state, filter, next_sequence, queue, queued_bytes, counters,
          last_sink_failure,
          terminal,  \* terminal_flush_attempted and terminal_deadline_exceeded
          sink,      \* the sequence numbers the sink has acknowledged
          evicted    \* the accepted events that were evicted, for the accounting

vars == <<overflow_policy, state, filter, next_sequence, queue, queued_bytes, counters,
          last_sink_failure, terminal, sink, evicted>>
Filters == [Target -> Level]
Counter == {"attempted", "accepted", "filtered", "dropped", "rejected", "written",
            "sink_failures"}

Init ==
  /\ overflow_policy \in {"drop_newest", "drop_oldest"}
  /\ state = "running" /\ filter \in Filters /\ next_sequence = 1
  /\ queue = <<>> /\ queued_bytes = 0
  /\ counters = [c \in Counter |-> 0]
  /\ last_sink_failure = "none"
  /\ terminal = [flush_attempted |-> FALSE, deadline_exceeded |-> FALSE]
  /\ sink = <<>> /\ evicted = 0

Terminal == state \in {"flushed", "failed"}
Bytes(s) == MapThenSumSet(LAMBDA i : s[i].bytes, DOMAIN s)
Rest(k) == SubSeq(queue, k + 1, Len(queue))
Front(k) == SubSeq(queue, 1, k)
Count(cs) == counters' = [c \in Counter |-> IF c \in cs THEN counters[c] + 1 ELSE counters[c]]

\* queue_fits, for the queue without its first k events
Fits_Off_By_One(k, bytes) ==
  /\ Len(queue) - k <= QueueCapacity
  /\ queued_bytes - Bytes(Front(k)) + bytes <= MaxQueuedBytes

Fits(k, bytes) ==
  /\ Len(queue) - k < QueueCapacity
  /\ queued_bytes - Bytes(Front(k)) + bytes <= MaxQueuedBytes

-----------------------------------------------------------------------------
\* update_filter
UpdateFilter(f) ==
  /\ state = "running"
  /\ filter' = f
  /\ UNCHANGED <<overflow_policy, state, next_sequence, queue, queued_bytes, counters,
                 last_sink_failure, terminal, sink, evicted>>

\* The part of emit before a sequence number is taken: the runtime has
\* stopped, the filter excludes the event, or the request is not valid
\* (too many fields, another runtime's correlation context).
EmitRefused(target, level, valid) ==
  /\ \/ state # "running" /\ Count({"attempted", "rejected"})
     \/ state = "running" /\ level < filter[target] /\ Count({"attempted", "filtered"})
     \/ /\ state = "running" /\ level >= filter[target] /\ ~valid
        /\ Count({"attempted", "rejected"})
  /\ UNCHANGED <<overflow_policy, state, filter, next_sequence, queue, queued_bytes,
                 last_sink_failure, terminal, sink, evicted>>

\* A numbered event that no queue could take: too large (or not encodable,
\* which counts alike), larger than the whole queue may be, or refused by a
\* full queue under drop_newest.
Lost(bytes) ==
  \/ bytes > MaxEventBytes
  \/ bytes > MaxQueuedBytes
  \/ overflow_policy = "drop_newest" /\ ~Fits(0, bytes)

EmitLost(target, level, bytes) ==
  /\ state = "running" /\ level >= filter[target] /\ Lost(bytes)
  /\ next_sequence' = next_sequence + 1
  /\ Count({"attempted", IF bytes > MaxEventBytes THEN "rejected" ELSE "dropped"})
  /\ UNCHANGED <<overflow_policy, state, filter, queue, queued_bytes, last_sink_failure,
                 terminal, sink, evicted>>

\* The k events drop_oldest evicts: from the front, as few as make room.
Evicts(k, bytes) ==
  /\ k \in 0..Len(queue) /\ (Fits(k, bytes) \/ k = Len(queue))
  /\ \A j \in 0..(k - 1) : ~Fits(j, bytes)

EmitAccepted_Uncounted(target, level, bytes, k) ==
  /\ state = "running" /\ level >= filter[target] /\ ~Lost(bytes) /\ Evicts(k, bytes)
  /\ next_sequence' = next_sequence + 1
  /\ queue' = Append(Rest(k), [seq |-> next_sequence, bytes |-> bytes])
  /\ queued_bytes' = queued_bytes - Bytes(Front(k)) + bytes
  /\ counters' = [counters EXCEPT !.attempted = @ + 1, !.accepted = @ + 1]
  /\ evicted' = evicted + k
  /\ UNCHANGED <<overflow_policy, state, filter, last_sink_failure, terminal, sink>>

EmitAccepted(target, level, bytes, k) ==
  /\ state = "running" /\ level >= filter[target] /\ ~Lost(bytes) /\ Evicts(k, bytes)
  /\ next_sequence' = next_sequence + 1
  /\ queue' = Append(Rest(k), [seq |-> next_sequence, bytes |-> bytes])
  /\ queued_bytes' = queued_bytes - Bytes(Front(k)) + bytes
  /\ counters' = [counters EXCEPT !.attempted = @ + 1, !.accepted = @ + 1, !.dropped = @ + k]
  /\ evicted' = evicted + k
  /\ UNCHANGED <<overflow_policy, state, filter, last_sink_failure, terminal, sink>>

-----------------------------------------------------------------------------
\* The sink acknowledges the first k events, which leave the queue one by
\* one; latch_sink_failure keeps the first failure.
Written_Retried(k) ==
  /\ queue' = IF k = 1 /\ Len(queue) = 1 THEN queue ELSE Rest(k)
  /\ queued_bytes' = IF k = 1 /\ Len(queue) = 1 THEN queued_bytes
                     ELSE queued_bytes - Bytes(Front(k))
  /\ sink' = sink \o [i \in 1..k |-> queue[i].seq]

Written(k) ==
  /\ queue' = Rest(k)
  /\ queued_bytes' = queued_bytes - Bytes(Front(k))
  /\ sink' = sink \o [i \in 1..k |-> queue[i].seq]

Latch(k, failure) ==
  /\ state' = "failed"
  /\ last_sink_failure' = IF last_sink_failure = "none" THEN failure ELSE last_sink_failure
  /\ counters' = [counters EXCEPT !.written = @ + k,
                    !.sink_failures = IF last_sink_failure = "none" THEN @ + 1 ELSE @]

\* drain(max_events) that writes k events and stops: at its limit, at the end
\* of the queue, or because the next write fails.
DrainStops(max_events, k) ==
  /\ ~Terminal /\ (k = Len(queue) \/ k = max_events) /\ Written(k)
  /\ counters' = [counters EXCEPT !.written = @ + k]
  /\ UNCHANGED <<overflow_policy, state, filter, next_sequence, last_sink_failure, terminal,
                 evicted>>

DrainFails(max_events, k) ==
  /\ ~Terminal /\ k < max_events /\ k < Len(queue) /\ Written(k)
  /\ Latch(k, "write")
  /\ UNCHANGED <<overflow_policy, filter, next_sequence, terminal, evicted>>

\* shutdown: k events are written; then the next write fails, or the deadline
\* is found passed after the k-th, or everything is written and flushed.
Finish(flush_attempted, deadline_exceeded) ==
  terminal' = [flush_attempted |-> flush_attempted, deadline_exceeded |-> deadline_exceeded]

ShutdownWriteFails(k, late) ==
  /\ ~Terminal /\ k < Len(queue) /\ Written(k)
  /\ Latch(k, IF late THEN "timeout" ELSE "write") /\ Finish(FALSE, late)
  /\ UNCHANGED <<overflow_policy, filter, next_sequence, evicted>>

ShutdownLate(k) ==
  /\ ~Terminal /\ k > 0 /\ Written(k)
  /\ Latch(k, "timeout") /\ Finish(FALSE, TRUE)
  /\ UNCHANGED <<overflow_policy, filter, next_sequence, evicted>>

\* The flush was attempted; a passed deadline counts even if it succeeded.
ShutdownFlushFails(late) ==
  /\ ~Terminal /\ Written(Len(queue))
  /\ Latch(Len(queue), IF late THEN "timeout" ELSE "flush") /\ Finish(TRUE, late)
  /\ UNCHANGED <<overflow_policy, filter, next_sequence, evicted>>

ShutdownFlushed_Undrained(k) ==
  /\ ~Terminal /\ Written(k)
  /\ state' = "flushed" /\ Finish(TRUE, FALSE)
  /\ counters' = [counters EXCEPT !.written = @ + k]
  /\ UNCHANGED <<overflow_policy, filter, next_sequence, last_sink_failure, evicted>>

ShutdownFlushed(k) ==
  /\ ~Terminal /\ k = Len(queue) /\ Written(k)
  /\ state' = "flushed" /\ Finish(TRUE, FALSE)
  /\ counters' = [counters EXCEPT !.written = @ + k]
  /\ UNCHANGED <<overflow_policy, filter, next_sequence, last_sink_failure, evicted>>

\* drain and shutdown of a terminal runtime only report.
Reported == Terminal /\ UNCHANGED vars

-----------------------------------------------------------------------------
Emit(target, level) ==
  /\ counters.attempted < MaxAttempts
  /\ \/ \E valid \in BOOLEAN : EmitRefused(target, level, valid)
     \/ \E bytes \in Size :
          \/ EmitLost(target, level, bytes)
          \/ \E k \in 0..Len(queue) : EmitAccepted(target, level, bytes, k)

Drain(max_events) ==
  \E k \in 0..Len(queue) :
    k <= max_events /\ (DrainStops(max_events, k) \/ DrainFails(max_events, k))

Shutdown ==
  \/ \E k \in 0..Len(queue) :
       \/ \E late \in BOOLEAN : ShutdownWriteFails(k, late)
       \/ ShutdownLate(k) \/ ShutdownFlushed(k)
  \/ \E late \in BOOLEAN : ShutdownFlushFails(late)

Next ==
  \/ \E f \in Filters : UpdateFilter(f)
  \/ \E target \in Target, level \in Level : Emit(target, level)
  \/ \E max_events \in 0..QueueCapacity : Drain(max_events)
  \/ Shutdown \/ Reported

Spec == Init /\ [][Next]_vars

-----------------------------------------------------------------------------
TypeOK ==
  /\ overflow_policy \in {"drop_newest", "drop_oldest"}
  /\ state \in {"running", "flushed", "failed"} /\ filter \in Filters
  /\ next_sequence \in Nat \ {0} /\ queue \in Seq([seq : Nat, bytes : Size])
  /\ queued_bytes \in Nat /\ counters \in [Counter -> Nat] /\ evicted \in Nat
  /\ last_sink_failure \in {"none", "write", "flush", "timeout"}
  /\ terminal \in [flush_attempted : BOOLEAN, deadline_exceeded : BOOLEAN]
  /\ sink \in Seq(Nat)

\* queued_bytes is what the queue holds after any mix of evictions, drains
\* and failed writes, and the queue never exceeds either of its limits.
QueueBounded ==
  /\ TypeOK
  /\ queued_bytes = Bytes(queue) /\ queued_bytes <= MaxQueuedBytes
  /\ Len(queue) <= QueueCapacity

\* Every accepted event is acknowledged by the sink, still queued, or was
\* evicted; every attempt has one disposition, and an eviction shows as a
\* drop on top of the attempt it made room for.
Accounting ==
  /\ counters.accepted = counters.written + Len(queue) + evicted
  /\ counters.attempted + evicted =
       counters.accepted + counters.filtered + counters.rejected + counters.dropped
  /\ counters.written = Len(sink)
  /\ counters.sink_failures = IF last_sink_failure = "none" THEN 0 ELSE 1

\* The sink and the queue hold events in the order they were emitted, none
\* of them twice: no eviction or failed write reorders or repeats one.
Ordered ==
  LET all == sink \o [i \in DOMAIN queue |-> queue[i].seq] IN
    /\ \A i, j \in DOMAIN all : i < j => all[i] < all[j]
    /\ \A i \in DOMAIN all : all[i] < next_sequence

\* A runtime that reports Flushed has delivered everything it accepted and
\* did not evict, without a sink failure and within the deadline; and after
\* a missed deadline or a sink failure it is Failed, never Flushed.
FlushedMeansDelivered ==
  /\ state = "flushed" =>
       /\ queue = <<>> /\ last_sink_failure = "none"
       /\ terminal = [flush_attempted |-> TRUE, deadline_exceeded |-> FALSE]
       /\ Len(sink) = counters.accepted - evicted
  /\ (last_sink_failure # "none" \/ terminal.deadline_exceeded) <=> state = "failed"

\* A terminal runtime never writes, queues or changes its report again.
TerminalIsFinal ==
  [][Terminal => /\ UNCHANGED <<state, queue, sink, last_sink_failure, terminal, evicted>>
                 /\ counters'.written = counters.written]_vars
=============================================================================
