------------------------ MODULE ObservabilityProofs -------------------------
(***************************************************************************)
(* For every capacity, size and filter: the accounting of events, their    *)
(* order, what a flushed runtime has delivered, and that a terminal        *)
(* runtime is final.  queued_bytes only guards what is accepted, so no     *)
(* fact below depends on it.                                               *)
(***************************************************************************)
EXTENDS Observability, SequenceTheorems, TLAPS

Event == [seq : Nat, bytes : Size]

\* The part of the type invariant that the arguments below need.
Typed ==
  /\ state \in {"running", "flushed", "failed"}
  /\ next_sequence \in Nat /\ queue \in Seq(Event) /\ sink \in Seq(Nat)
  /\ counters \in [Counter -> Nat] /\ evicted \in Nat
  /\ last_sink_failure \in {"none", "write", "flush", "timeout"}
  /\ terminal \in [flush_attempted : BOOLEAN, deadline_exceeded : BOOLEAN]

\* Ordered, without the concatenation: the sink and the queue are increasing,
\* the sink is before the queue, and both are before the next number.
InOrder ==
  /\ \A i, j \in 1..Len(sink) : i < j => sink[i] < sink[j]
  /\ \A i, j \in 1..Len(queue) : i < j => queue[i].seq < queue[j].seq
  /\ \A i \in 1..Len(sink), j \in 1..Len(queue) : sink[i] < queue[j].seq
  /\ \A i \in 1..Len(sink) : sink[i] < next_sequence
  /\ \A i \in 1..Len(queue) : queue[i].seq < next_sequence

\* The sink has failed, or the deadline was missed, exactly when the runtime
\* is failed; a flushed runtime has an empty queue and attempted its flush.
Reports ==
  /\ last_sink_failure # "none" <=> state = "failed"
  /\ terminal.deadline_exceeded => state = "failed"
  /\ state = "flushed" => queue = <<>> /\ terminal.flush_attempted

IInv == Typed /\ InOrder /\ Accounting /\ Reports

\* What Written(k) does to the sink and the queue: the first k events move.
LEMMA WrittenMoves ==
  ASSUME Typed, NEW k \in 0..Len(queue), Written(k)
  PROVE  /\ queue' \in Seq(Event) /\ Len(queue') = Len(queue) - k
         /\ \A i \in 1..Len(queue') : queue'[i] = queue[i + k]
         /\ sink' \in Seq(Nat) /\ Len(sink') = Len(sink) + k
         /\ \A i \in 1..Len(sink) : sink'[i] = sink[i]
         /\ \A i \in 1..k : sink'[Len(sink) + i] = queue[i].seq
<1> DEFINE moved == [i \in 1..k |-> queue[i].seq]
<1>1. /\ queue \in Seq(Event) /\ sink \in Seq(Nat) /\ k \in Nat /\ k <= Len(queue)
      /\ Len(queue) \in Nat /\ Len(sink) \in Nat
  BY DEF Typed
<1>2. \A i \in 1..Len(queue) : queue[i] \in Event /\ queue[i].seq \in Nat
  <2>1. \A i \in 1..Len(queue) : queue[i] \in Event
    BY <1>1
  <2> QED BY <2>1 DEF Event
<1>3. moved \in Seq(Nat) /\ Len(moved) = k
  BY <1>1, <1>2
<1>4. queue' = SubSeq(queue, k + 1, Len(queue)) /\ sink' = sink \o moved
  BY DEF Written, Rest
<1> HIDE DEF moved
<1>5. queue' \in Seq(Event) /\ Len(queue') = Len(queue) - k
  BY <1>1, <1>4, <1>2
<1>6. \A i \in 1..Len(queue') : queue'[i] = queue[i + k]
  BY <1>1, <1>4, <1>5
<1>7. /\ sink' \in Seq(Nat) /\ Len(sink') = Len(sink) + k
      /\ \A i \in 1..Len(sink) : sink'[i] = sink[i]
      /\ \A i \in 1..k : sink'[Len(sink) + i] = moved[i]
  <2>1. /\ sink' \in Seq(Nat) /\ Len(sink') = Len(sink) + Len(moved)
        /\ \A i \in 1..(Len(sink) + Len(moved)) :
             sink'[i] = IF i <= Len(sink) THEN sink[i] ELSE moved[i - Len(sink)]
    BY Zenon, <1>1, <1>3, <1>4, ConcatProperties
  <2>2. ASSUME NEW i \in 1..Len(sink) PROVE sink'[i] = sink[i]
    <3>1. i \in 1..(Len(sink) + Len(moved)) /\ i <= Len(sink)
      BY <1>1, <1>3
    <3> QED BY <2>1, <3>1
  <2>3. ASSUME NEW i \in 1..k PROVE sink'[Len(sink) + i] = moved[i]
    <3>1. /\ Len(sink) + i \in 1..(Len(sink) + Len(moved)) /\ ~(Len(sink) + i <= Len(sink))
          /\ (Len(sink) + i) - Len(sink) = i
      BY <1>1, <1>3
    <3> QED BY <2>1, <3>1
  <2> QED BY <2>1, <2>2, <2>3, <1>3
<1>8. \A i \in 1..k : moved[i] = queue[i].seq
  BY DEF moved
<1> QED BY <1>5, <1>6, <1>7, <1>8

\* Moving events from the queue to the sink keeps them in order.
LEMMA WrittenInOrder ==
  ASSUME Typed, InOrder, NEW k \in 0..Len(queue), Written(k), UNCHANGED next_sequence
  PROVE  InOrder'
<1>1. /\ Len(queue) \in Nat /\ Len(sink) \in Nat /\ k \in Nat /\ k <= Len(queue)
      /\ \A i \in 1..Len(sink) : sink[i] \in Nat
  BY DEF Typed
<1>2. \A i \in 1..Len(queue) : queue[i].seq \in Nat
  <2>1. \A i \in 1..Len(queue) : queue[i] \in Event
    BY DEF Typed
  <2> QED BY <2>1 DEF Event
<1>3. /\ Len(queue') = Len(queue) - k
      /\ \A i \in 1..Len(queue') : queue'[i] = queue[i + k]
      /\ Len(sink') = Len(sink) + k
      /\ \A i \in 1..Len(sink) : sink'[i] = sink[i]
      /\ \A i \in 1..k : sink'[Len(sink) + i] = queue[i].seq
  BY Zenon, WrittenMoves
<1> DEFINE m == Len(sink)
           n == Len(queue)
           next == next_sequence
           out(i) == sink[i]
           new(i) == sink'[i]
           seq(i) == queue[i].seq
           left(i) == queue'[i].seq
<1>t. m \in Nat /\ n \in Nat /\ k \in 0..n
  BY <1>1
<1>4. /\ \A i \in 1..m : out(i) \in Nat /\ new(i) = out(i)
      /\ \A i \in 1..n : seq(i) \in Nat
      /\ \A i \in 1..k : new(m + i) = seq(i)
      /\ \A i \in 1..(n - k) : left(i) = seq(i + k)
  BY <1>1, <1>2, <1>3
<1>5. /\ \A i, j \in 1..m : i < j => out(i) < out(j)
      /\ \A i, j \in 1..n : i < j => seq(i) < seq(j)
      /\ \A i \in 1..m, j \in 1..n : out(i) < seq(j)
      /\ \A i \in 1..m : out(i) < next
      /\ \A i \in 1..n : seq(i) < next
  BY DEF InOrder
<1>6. Len(sink') = m + k /\ Len(queue') = n - k /\ next_sequence' = next
  BY <1>3
<1> HIDE DEF m, n, next, out, new, seq, left
<1>7. /\ \A i \in 1..(m + k) : i \in 1..m \/ (i - m \in 1..k /\ new(i) = seq(i - m))
      /\ \A i \in 1..(n - k) : i + k \in 1..n
      /\ \A i \in 1..k : i \in 1..n
  <2>1. ASSUME NEW i \in 1..(m + k), i \notin 1..m
        PROVE  i - m \in 1..k /\ m + (i - m) = i
    BY <1>t, <2>1
  <2>2. \A i \in 1..(n - k) : i + k \in 1..n
    BY <1>t
  <2> QED BY <1>t, <1>4, <2>1, <2>2
<1>8. \A i, j \in 1..(m + k) : i < j => new(i) < new(j)
  BY <1>t, <1>4, <1>5, <1>7
<1>9. \A i, j \in 1..(n - k) : i < j => left(i) < left(j)
  BY <1>t, <1>4, <1>5, <1>7
<1>10. ASSUME NEW i \in 1..(m + k), NEW j \in 1..(n - k) PROVE new(i) < left(j)
  <2>1. j + k \in 1..n /\ left(j) = seq(j + k)
    BY <1>4, <1>7
  <2>2. CASE i \in 1..m
    BY <1>4, <1>5, <2>1, <2>2
  <2>3. CASE i - m \in 1..k /\ new(i) = seq(i - m)
    <3>1. i - m \in 1..n /\ i - m < j + k
      BY <1>t, <1>7, <2>3
    <3> QED BY <1>5, <2>1, <2>3, <3>1
  <2> QED BY <1>7, <2>2, <2>3
<1>11. /\ \A i \in 1..(m + k) : new(i) < next
       /\ \A i \in 1..(n - k) : left(i) < next
  BY <1>t, <1>4, <1>5, <1>7
<1> QED BY <1>6, <1>8, <1>9, <1>10, <1>11 DEF InOrder, new, left, next

\* A later sequence number alone keeps the order.
LEMMA NumberedInOrder ==
  ASSUME Typed, InOrder, UNCHANGED <<queue, sink>>,
         next_sequence' \in Nat, next_sequence' >= next_sequence
  PROVE  InOrder'
<1>1. /\ Len(queue) \in Nat /\ Len(sink) \in Nat /\ next_sequence \in Nat
      /\ \A i \in 1..Len(sink) : sink[i] \in Nat
  BY DEF Typed
<1>2. \A i \in 1..Len(queue) : queue[i].seq \in Nat
  <2>1. \A i \in 1..Len(queue) : queue[i] \in Event
    BY DEF Typed
  <2> QED BY <2>1 DEF Event
<1> QED BY <1>1, <1>2 DEF InOrder

\* What accepting an event does to the queue: k events leave at the front,
\* one joins at the back.
LEMMA AcceptedMoves ==
  ASSUME Typed, NEW target, NEW level, NEW bytes \in Size, NEW k \in 0..Len(queue),
         EmitAccepted(target, level, bytes, k)
  PROVE  /\ queue' \in Seq(Event) /\ Len(queue') = Len(queue) - k + 1
         /\ \A i \in 1..(Len(queue) - k) : queue'[i] = queue[i + k]
         /\ queue'[Len(queue) - k + 1].seq = next_sequence
<1> DEFINE e == [seq |-> next_sequence, bytes |-> bytes]
           rest == SubSeq(queue, k + 1, Len(queue))
<1>1. /\ queue \in Seq(Event) /\ Len(queue) \in Nat /\ k \in Nat /\ k <= Len(queue)
      /\ next_sequence \in Nat
  BY DEF Typed
<1>2. e \in Event /\ e.seq = next_sequence
  BY <1>1 DEF Event
<1>3. queue' = Append(rest, e)
  BY DEF EmitAccepted, Rest
<1>4. \A i \in 1..Len(queue) : queue[i] \in Event
  BY <1>1
<1>5. rest \in Seq(Event) /\ Len(rest) = Len(queue) - k
  BY <1>1, <1>4
<1>6. \A i \in 1..(Len(queue) - k) : rest[i] = queue[i + k]
  BY <1>1, <1>5
<1> HIDE DEF e, rest
<1>7. /\ queue' \in Seq(Event) /\ Len(queue') = Len(rest) + 1
      /\ \A i \in 1..Len(rest) : queue'[i] = rest[i]
      /\ queue'[Len(rest) + 1] = e
  <2>1. Append(rest, e) \in Seq(Event) /\ Len(Append(rest, e)) = Len(rest) + 1
    BY <1>2, <1>5, AppendProperties
  <2>2. \A i \in 1..Len(rest) : Append(rest, e)[i] = rest[i]
    BY <1>2, <1>5, AppendProperties
  <2>3. Append(rest, e)[Len(rest) + 1] = e
    BY <1>2, <1>5, AppendProperties
  <2> QED BY <1>3, <2>1, <2>2, <2>3
<1> QED BY <1>1, <1>2, <1>5, <1>6, <1>7

\* An accepted event has the largest number and joins at the back.
LEMMA AcceptedInOrder ==
  ASSUME Typed, InOrder, NEW target, NEW level, NEW bytes \in Size, NEW k \in 0..Len(queue),
         EmitAccepted(target, level, bytes, k)
  PROVE  InOrder'
<1>1. /\ Len(queue) \in Nat /\ Len(sink) \in Nat /\ k \in Nat /\ k <= Len(queue)
      /\ next_sequence \in Nat /\ \A i \in 1..Len(sink) : sink[i] \in Nat
  BY DEF Typed
<1>2. \A i \in 1..Len(queue) : queue[i].seq \in Nat
  <2>1. \A i \in 1..Len(queue) : queue[i] \in Event
    BY DEF Typed
  <2> QED BY <2>1 DEF Event
<1>3. next_sequence' = next_sequence + 1 /\ sink' = sink
  BY DEF EmitAccepted
<1>4. /\ Len(queue') = Len(queue) - k + 1
      /\ \A i \in 1..(Len(queue) - k) : queue'[i] = queue[i + k]
      /\ queue'[Len(queue) - k + 1].seq = next_sequence
  BY Zenon, AcceptedMoves
<1> DEFINE m == Len(sink)
           n == Len(queue)
           next == next_sequence
           out(i) == sink[i]
           seq(i) == queue[i].seq
           new(i) == queue'[i].seq
<1>t. m \in Nat /\ n \in Nat /\ k \in 0..n /\ next \in Nat
  BY <1>1
<1>5. /\ \A i \in 1..m : out(i) \in Nat
      /\ \A i \in 1..n : seq(i) \in Nat
      /\ \A i \in 1..(n - k) : new(i) = seq(i + k)
      /\ new(n - k + 1) = next
  BY Zenon, <1>1, <1>2, <1>4
<1>6. /\ \A i, j \in 1..m : i < j => out(i) < out(j)
      /\ \A i, j \in 1..n : i < j => seq(i) < seq(j)
      /\ \A i \in 1..m, j \in 1..n : out(i) < seq(j)
      /\ \A i \in 1..m : out(i) < next
      /\ \A i \in 1..n : seq(i) < next
  BY DEF InOrder
<1>7. Len(queue') = n - k + 1 /\ next_sequence' = next + 1 /\ sink' = sink
  BY <1>3, <1>4
<1> HIDE DEF m, n, next, out, new, seq
<1>8. /\ \A i \in 1..(n - k + 1) : i \in 1..(n - k) \/ i = n - k + 1
      /\ \A i \in 1..(n - k) : i + k \in 1..n
  BY <1>t
<1>9. ASSUME NEW i \in 1..(n - k + 1), NEW j \in 1..(n - k + 1), i < j PROVE new(i) < new(j)
  <2>1. i \in 1..(n - k)
    BY <1>t, <1>9
  <2>2. i + k \in 1..n /\ new(i) = seq(i + k)
    BY <1>5, <1>8, <2>1
  <2>3. CASE j \in 1..(n - k)
    <3>1. j + k \in 1..n /\ new(j) = seq(j + k) /\ i + k < j + k
      BY <1>t, <1>5, <1>8, <1>9, <2>3
    <3> QED BY <1>6, <2>2, <3>1
  <2>4. CASE j = n - k + 1
    BY <1>5, <1>6, <2>2, <2>4
  <2> QED BY <1>8, <2>3, <2>4
<1>10. ASSUME NEW i \in 1..m, NEW j \in 1..(n - k + 1) PROVE out(i) < new(j)
  BY <1>5, <1>6, <1>8
<1>11. \A i \in 1..m : out(i) < next + 1
  BY <1>t, <1>5, <1>6
<1>12. ASSUME NEW i \in 1..(n - k + 1) PROVE new(i) < next + 1
  <2>1. CASE i \in 1..(n - k)
    <3>1. i + k \in 1..n /\ new(i) = seq(i + k)
      BY <1>5, <1>8, <2>1
    <3>2. new(i) \in Nat /\ new(i) < next
      BY <1>5, <1>6, <3>1
    <3> QED BY <1>t, <3>2
  <2>2. CASE i = n - k + 1
    BY <1>t, <1>5, <2>2
  <2> QED BY <1>8, <2>1, <2>2
<1> QED BY <1>6, <1>7, <1>9, <1>10, <1>11, <1>12 DEF InOrder, m, out, new

-----------------------------------------------------------------------------
\* Every counter is a natural number.
LEMMA CountersAreNats ==
  ASSUME counters \in [Counter -> Nat]
  PROVE  /\ counters.attempted \in Nat /\ counters.accepted \in Nat
         /\ counters.filtered \in Nat /\ counters.dropped \in Nat
         /\ counters.rejected \in Nat /\ counters.written \in Nat
         /\ counters.sink_failures \in Nat
BY DEF Counter

\* The counters after a call that counts itself as attempted and as c.
LEMMA Counted ==
  ASSUME counters \in [Counter -> Nat], NEW c \in {"filtered", "rejected", "dropped"},
         Count({"attempted", c})
  PROVE  /\ counters' \in [Counter -> Nat]
         /\ counters'.attempted = counters.attempted + 1
         /\ counters'.accepted = counters.accepted
         /\ counters'.written = counters.written
         /\ counters'.sink_failures = counters.sink_failures
         /\ counters'.filtered + counters'.rejected + counters'.dropped
              = counters.filtered + counters.rejected + counters.dropped + 1
<1>1. counters' = [d \in Counter |-> IF d \in {"attempted", c} THEN counters[d] + 1
                                                            ELSE counters[d]]
  BY DEF Count
<1>2. \A d \in Counter : counters[d] \in Nat
  OBVIOUS
<1>3. counters' \in [Counter -> Nat]
  BY <1>1, <1>2
<1>4. /\ counters'.attempted = counters.attempted + 1
      /\ counters'.accepted = counters.accepted
      /\ counters'.written = counters.written
      /\ counters'.sink_failures = counters.sink_failures
      /\ counters'.filtered = IF c = "filtered" THEN counters.filtered + 1 ELSE counters.filtered
      /\ counters'.rejected = IF c = "rejected" THEN counters.rejected + 1 ELSE counters.rejected
      /\ counters'.dropped = IF c = "dropped" THEN counters.dropped + 1 ELSE counters.dropped
  BY <1>1 DEF Counter
<1> QED BY <1>3, <1>4, CountersAreNats

\* emit that accepts nothing preserves the invariant.
LEMMA RefusedStep ==
  ASSUME IInv, NEW target, NEW level, NEW bytes, NEW valid,
         EmitRefused(target, level, valid) \/ EmitLost(target, level, bytes)
  PROVE  IInv'
<1>1. /\ UNCHANGED <<state, queue, sink, evicted, last_sink_failure, terminal>>
      /\ next_sequence' \in {next_sequence, next_sequence + 1}
      /\ \/ Count({"attempted", "filtered"}) \/ Count({"attempted", "rejected"})
         \/ Count({"attempted", "dropped"})
  <2>1. CASE EmitRefused(target, level, valid)
    BY <2>1 DEF EmitRefused
  <2>2. CASE EmitLost(target, level, bytes) /\ bytes > MaxEventBytes
    BY <2>2 DEF EmitLost
  <2>3. CASE EmitLost(target, level, bytes) /\ ~(bytes > MaxEventBytes)
    BY <2>3 DEF EmitLost
  <2> QED BY <2>1, <2>2, <2>3
<1>2. counters \in [Counter -> Nat] /\ next_sequence \in Nat /\ Len(queue) \in Nat
      /\ evicted \in Nat
  BY DEF IInv, Typed
<1>3. /\ counters' \in [Counter -> Nat]
      /\ counters'.attempted = counters.attempted + 1
      /\ counters'.accepted = counters.accepted
      /\ counters'.written = counters.written
      /\ counters'.sink_failures = counters.sink_failures
      /\ counters'.filtered + counters'.rejected + counters'.dropped
           = counters.filtered + counters.rejected + counters.dropped + 1
  BY <1>1, <1>2, Counted
<1>e. evicted' = evicted /\ sink' = sink /\ queue' = queue
      /\ last_sink_failure' = last_sink_failure
  BY <1>1
<1>4. next_sequence' \in Nat /\ next_sequence' >= next_sequence
  BY <1>1, <1>2
<1>5. Typed'
  BY <1>1, <1>3, <1>4 DEF IInv, Typed
<1>6. InOrder'
  BY <1>1, <1>4, NumberedInOrder DEF IInv
<1>7. Accounting'
  <2>1. counters' \in [Counter -> Nat] =>
          /\ counters'.filtered \in Nat /\ counters'.rejected \in Nat
          /\ counters'.dropped \in Nat
    BY DEF Counter
  <2>2. /\ counters.accepted = counters.written + Len(queue) + evicted
        /\ counters.attempted + evicted =
             counters.accepted + counters.filtered + counters.rejected + counters.dropped
        /\ counters.written = Len(sink)
        /\ counters.sink_failures = IF last_sink_failure = "none" THEN 0 ELSE 1
    BY DEF IInv, Accounting
  <2>3. counters'.accepted = counters'.written + Len(queue') + evicted'
    BY <1>e, <1>2, <1>3, <2>1, <2>2, CountersAreNats
  <2>4. counters'.attempted + evicted' =
          counters'.accepted + counters'.filtered + counters'.rejected + counters'.dropped
    <3> DEFINE a == counters.attempted
               b == counters.accepted
               f == counters.filtered
               r == counters.rejected
               d == counters.dropped
               fn == counters'.filtered
               rn == counters'.rejected
               dn == counters'.dropped
    <3>1. /\ a \in Nat /\ b \in Nat /\ f \in Nat /\ r \in Nat /\ d \in Nat
          /\ a + evicted = b + f + r + d
      BY <1>2, <2>2, CountersAreNats
    <3>2. /\ counters'.attempted = a + 1 /\ counters'.accepted = b
          /\ fn + rn + dn = f + r + d + 1 /\ fn \in Nat /\ rn \in Nat /\ dn \in Nat
      BY <1>3, <2>1
    <3> HIDE DEF a, b, f, r, d, fn, rn, dn
    <3>3. (a + 1) + evicted = b + fn + rn + dn
      BY <3>1, <3>2, <1>2
    <3> QED BY <3>2, <3>3, <1>e DEF fn, rn, dn
  <2>5. counters'.written = Len(sink')
    BY <1>e, <1>2, <1>3, <2>1, <2>2, CountersAreNats
  <2>6. counters'.sink_failures = IF last_sink_failure' = "none" THEN 0 ELSE 1
    BY <1>e, <1>2, <1>3, <2>1, <2>2, CountersAreNats
  <2> QED BY <2>3, <2>4, <2>5, <2>6 DEF Accounting
<1>8. Reports'
  BY <1>1 DEF IInv, Reports
<1> QED BY <1>5, <1>6, <1>7, <1>8 DEF IInv

\* An accepted event, with the evictions that made room for it.
LEMMA AcceptedStep ==
  ASSUME IInv, NEW target, NEW level, NEW bytes \in Size, NEW k \in 0..Len(queue),
         EmitAccepted(target, level, bytes, k)
  PROVE  IInv'
<1>1. /\ UNCHANGED <<state, sink, last_sink_failure, terminal>> /\ state = "running"
      /\ next_sequence' = next_sequence + 1 /\ evicted' = evicted + k
      /\ counters' = [counters EXCEPT !.attempted = @ + 1, !.accepted = @ + 1,
                                      !.dropped = @ + k]
  BY DEF EmitAccepted
<1>e. evicted' = evicted + k /\ sink' = sink /\ last_sink_failure' = last_sink_failure
  BY <1>1
<1>2. queue' \in Seq(Event) /\ Len(queue') = Len(queue) - k + 1
  BY AcceptedMoves DEF IInv
<1>3. /\ k \in Nat /\ Len(queue) \in Nat /\ Len(sink) \in Nat /\ evicted \in Nat
      /\ next_sequence \in Nat /\ counters \in [Counter -> Nat]
  BY DEF IInv, Typed
<1>d. counters' \in [Counter -> Nat]
  <2>1. /\ counters["attempted"] + 1 \in Nat /\ counters["accepted"] + 1 \in Nat
        /\ counters["dropped"] + k \in Nat
    BY <1>3 DEF Counter
  <2> QED BY Zenon, <1>1, <1>3, <2>1
<1>c. /\ counters'.attempted = counters.attempted + 1
      /\ counters'.accepted = counters.accepted + 1
      /\ counters'.dropped = counters.dropped + k
      /\ counters'.filtered = counters.filtered /\ counters'.rejected = counters.rejected
      /\ counters'.written = counters.written
      /\ counters'.sink_failures = counters.sink_failures
  BY <1>1, <1>3 DEF Counter
<1>4. Typed'
  <2>1. next_sequence' \in Nat /\ evicted' \in Nat
    BY <1>1, <1>3
  <2> QED BY <1>1, <1>2, <1>c, <1>d, <2>1 DEF IInv, Typed
<1>5. InOrder'
  BY AcceptedInOrder DEF IInv
<1>6. Accounting'
  <2>1. /\ counters.accepted = counters.written + Len(queue) + evicted
        /\ counters.attempted + evicted =
             counters.accepted + counters.filtered + counters.rejected + counters.dropped
        /\ counters.written = Len(sink)
        /\ counters.sink_failures = IF last_sink_failure = "none" THEN 0 ELSE 1
    BY DEF IInv, Accounting
  <2>2. counters'.accepted = counters'.written + Len(queue') + evicted'
    BY <1>e, <1>2, <1>3, <1>c, <2>1, CountersAreNats
  <2>3. counters'.attempted + evicted' =
          counters'.accepted + counters'.filtered + counters'.rejected + counters'.dropped
    <3> DEFINE a == counters.attempted
               b == counters.accepted
               f == counters.filtered
               r == counters.rejected
               d == counters.dropped
    <3>1. /\ a \in Nat /\ b \in Nat /\ f \in Nat /\ r \in Nat /\ d \in Nat
          /\ a + evicted = b + f + r + d
      BY <1>3, <2>1, CountersAreNats
    <3>2. /\ counters'.attempted = a + 1 /\ counters'.accepted = b + 1
          /\ counters'.filtered = f /\ counters'.rejected = r /\ counters'.dropped = d + k
      BY <1>c
    <3> HIDE DEF a, b, f, r, d
    <3>3. (a + 1) + (evicted + k) = (b + 1) + f + r + (d + k)
      BY <3>1, <1>3
    <3> QED BY <3>2, <3>3, <1>e
  <2>4. counters'.written = Len(sink')
    BY <1>e, <1>2, <1>3, <1>c, <2>1, CountersAreNats
  <2>5. counters'.sink_failures = IF last_sink_failure' = "none" THEN 0 ELSE 1
    BY <1>e, <1>2, <1>3, <1>c, <2>1, CountersAreNats
  <2> QED BY <2>2, <2>3, <2>4, <2>5 DEF Accounting
<1>7. Reports'
  BY <1>1 DEF IInv, Reports
<1> QED BY <1>4, <1>5, <1>6, <1>7 DEF IInv

\* A call that hands k events to the sink and does not fail.
LEMMA WrittenStep ==
  ASSUME IInv, NEW k \in 0..Len(queue), ~Terminal, Written(k),
         UNCHANGED <<next_sequence, evicted, last_sink_failure>>,
         counters' = [counters EXCEPT !.written = @ + k],
         \/ UNCHANGED <<state, terminal>>
         \/ state' = "flushed" /\ Finish(TRUE, FALSE) /\ k = Len(queue)
  PROVE  IInv'
<1>1. /\ queue' \in Seq(Event) /\ Len(queue') = Len(queue) - k
      /\ sink' \in Seq(Nat) /\ Len(sink') = Len(sink) + k
  BY WrittenMoves DEF IInv
<1>2. /\ k \in Nat /\ Len(queue) \in Nat /\ Len(sink) \in Nat /\ evicted \in Nat
      /\ counters \in [Counter -> Nat]
  BY DEF IInv, Typed
<1>d. counters' \in [Counter -> Nat]
  <2>1. counters["written"] + k \in Nat
    BY <1>2 DEF Counter
  <2> QED BY <1>2, <2>1
<1>c. /\ counters'.attempted = counters.attempted /\ counters'.accepted = counters.accepted
      /\ counters'.filtered = counters.filtered /\ counters'.rejected = counters.rejected
      /\ counters'.dropped = counters.dropped /\ counters'.written = counters.written + k
      /\ counters'.sink_failures = counters.sink_failures
  BY <1>2 DEF Counter
<1>3. Typed'
  <2>1. state' \in {"running", "flushed", "failed"}
    BY Zenon DEF IInv, Typed
  <2>2. terminal' \in [flush_attempted : BOOLEAN, deadline_exceeded : BOOLEAN]
    <3>1. CASE UNCHANGED terminal
      BY <3>1 DEF IInv, Typed
    <3>2. CASE Finish(TRUE, FALSE)
      BY <3>2 DEF Finish
    <3> QED BY Zenon, <3>1, <3>2
  <2> QED BY Zenon, <1>1, <1>d, <2>1, <2>2 DEF IInv, Typed
<1>4. InOrder'
  BY WrittenInOrder DEF IInv
<1>5. Accounting'
  <2>1. /\ counters.accepted = counters.written + Len(queue) + evicted
        /\ counters.attempted + evicted =
             counters.accepted + counters.filtered + counters.rejected + counters.dropped
        /\ counters.written = Len(sink)
        /\ counters.sink_failures = IF last_sink_failure = "none" THEN 0 ELSE 1
    BY DEF IInv, Accounting
  <2>2. counters'.accepted = counters'.written + Len(queue') + evicted'
    BY <1>1, <1>2, <1>c, <2>1, CountersAreNats
  <2>3. counters'.attempted + evicted' =
          counters'.accepted + counters'.filtered + counters'.rejected + counters'.dropped
    BY <1>1, <1>2, <1>c, <2>1, CountersAreNats
  <2>4. counters'.written = Len(sink')
    BY <1>1, <1>2, <1>c, <2>1, CountersAreNats
  <2>5. counters'.sink_failures = IF last_sink_failure' = "none" THEN 0 ELSE 1
    BY <1>1, <1>2, <1>c, <2>1, CountersAreNats
  <2> QED BY <2>2, <2>3, <2>4, <2>5 DEF Accounting
<1>6. k = Len(queue) => queue' = <<>>
  BY <1>1, <1>2, EmptySeq
<1>7. Reports'
  BY <1>6 DEF IInv, Typed, Reports, Terminal, Finish
<1> QED BY <1>3, <1>4, <1>5, <1>7 DEF IInv

\* A call that hands k events to the sink and latches a failure.
LEMMA FailedStep ==
  ASSUME IInv, NEW k \in 0..Len(queue), ~Terminal, Written(k),
         UNCHANGED <<next_sequence, evicted>>,
         NEW failure \in {"write", "flush", "timeout"}, Latch(k, failure),
         terminal' \in [flush_attempted : BOOLEAN, deadline_exceeded : BOOLEAN]
  PROVE  IInv'
<1>1. /\ queue' \in Seq(Event) /\ Len(queue') = Len(queue) - k
      /\ sink' \in Seq(Nat) /\ Len(sink') = Len(sink) + k
  BY WrittenMoves DEF IInv
<1>2. /\ k \in Nat /\ Len(queue) \in Nat /\ Len(sink) \in Nat /\ evicted \in Nat
      /\ counters \in [Counter -> Nat]
  BY DEF IInv, Typed
<1>3. last_sink_failure = "none"
  BY DEF IInv, Typed, Reports, Terminal
<1>4. /\ state' = "failed" /\ last_sink_failure' = failure
      /\ counters' = [counters EXCEPT !.written = @ + k, !.sink_failures = @ + 1]
  BY <1>3 DEF Latch
<1>e. last_sink_failure' # "none"
  BY <1>4
<1>d. counters' \in [Counter -> Nat]
  <2>1. counters["written"] + k \in Nat /\ counters["sink_failures"] + 1 \in Nat
    BY <1>2 DEF Counter
  <2> QED BY Zenon, <1>2, <1>4, <2>1
<1>c. /\ counters'.attempted = counters.attempted /\ counters'.accepted = counters.accepted
      /\ counters'.filtered = counters.filtered /\ counters'.rejected = counters.rejected
      /\ counters'.dropped = counters.dropped /\ counters'.written = counters.written + k
      /\ counters'.sink_failures = counters.sink_failures + 1
  BY <1>2, <1>4 DEF Counter
<1>5. Typed'
  BY <1>1, <1>2, <1>4, <1>c, <1>d DEF IInv, Typed
<1>6. InOrder'
  BY WrittenInOrder DEF IInv
<1>7. Accounting'
  <2>1. /\ counters.accepted = counters.written + Len(queue) + evicted
        /\ counters.attempted + evicted =
             counters.accepted + counters.filtered + counters.rejected + counters.dropped
        /\ counters.written = Len(sink)
        /\ counters.sink_failures = IF last_sink_failure = "none" THEN 0 ELSE 1
    BY DEF IInv, Accounting
  <2>2. counters'.accepted = counters'.written + Len(queue') + evicted'
    BY <1>1, <1>2, <1>3, <1>4, <1>c, <2>1, CountersAreNats
  <2>3. counters'.attempted + evicted' =
          counters'.accepted + counters'.filtered + counters'.rejected + counters'.dropped
    BY <1>1, <1>2, <1>3, <1>4, <1>c, <2>1, CountersAreNats
  <2>4. counters'.written = Len(sink')
    BY <1>1, <1>2, <1>3, <1>4, <1>c, <2>1, CountersAreNats
  <2>5. counters'.sink_failures = IF last_sink_failure' = "none" THEN 0 ELSE 1
    BY <1>3, <1>e, <1>c, <2>1
  <2> QED BY <2>2, <2>3, <2>4, <2>5 DEF Accounting
<1>8. Reports'
  BY <1>4 DEF Reports
<1> QED BY <1>5, <1>6, <1>7, <1>8 DEF IInv

\* A step that only changes the filter, or nothing.
LEMMA IdleStep ==
  ASSUME IInv, UNCHANGED <<state, next_sequence, queue, counters, last_sink_failure, terminal,
                           sink, evicted>>
  PROVE  IInv'
BY DEF IInv, Typed, InOrder, Accounting, Reports, Event

LEMMA StepInvariant ==
  ASSUME IInv, [Next]_vars PROVE IInv'
<1>1. CASE UNCHANGED vars
  BY <1>1, IdleStep DEF vars
<1>2. CASE \E f \in Filters : UpdateFilter(f)
  BY <1>2, IdleStep DEF UpdateFilter
<1>3. ASSUME NEW target \in Target, NEW level \in Level, Emit(target, level) PROVE IInv'
  <2>1. CASE \E valid \in BOOLEAN : EmitRefused(target, level, valid)
    BY <2>1, RefusedStep
  <2>2. CASE \E bytes \in Size : EmitLost(target, level, bytes)
    BY <2>2, RefusedStep
  <2>3. CASE \E bytes \in Size : \E k \in 0..Len(queue) : EmitAccepted(target, level, bytes, k)
    BY <2>3, AcceptedStep
  <2> QED BY <1>3, <2>1, <2>2, <2>3 DEF Emit
<1>4. ASSUME NEW max_events \in 0..QueueCapacity, NEW k \in 0..Len(queue),
             DrainStops(max_events, k)
      PROVE  IInv'
  BY <1>4, WrittenStep DEF DrainStops
<1>5. ASSUME NEW max_events \in 0..QueueCapacity, NEW k \in 0..Len(queue),
             DrainFails(max_events, k)
      PROVE  IInv'
  <2>1. terminal' \in [flush_attempted : BOOLEAN, deadline_exceeded : BOOLEAN]
    BY <1>5 DEF DrainFails, IInv, Typed
  <2> QED BY <1>5, <2>1, FailedStep DEF DrainFails
<1>6. ASSUME NEW k \in 0..Len(queue), NEW late \in BOOLEAN, ShutdownWriteFails(k, late)
      PROVE  IInv'
  <2>1. terminal' \in [flush_attempted : BOOLEAN, deadline_exceeded : BOOLEAN]
    BY <1>6 DEF ShutdownWriteFails, Finish
  <2>2. (IF late THEN "timeout" ELSE "write") \in {"write", "flush", "timeout"}
    OBVIOUS
  <2> QED BY <1>6, <2>1, <2>2, FailedStep DEF ShutdownWriteFails
<1>7. ASSUME NEW k \in 0..Len(queue), ShutdownLate(k) PROVE IInv'
  <2>1. terminal' \in [flush_attempted : BOOLEAN, deadline_exceeded : BOOLEAN]
    BY <1>7 DEF ShutdownLate, Finish
  <2> QED BY <1>7, <2>1, FailedStep DEF ShutdownLate
<1>8. ASSUME NEW k \in 0..Len(queue), ShutdownFlushed(k) PROVE IInv'
  BY Zenon, <1>8, WrittenStep DEF ShutdownFlushed
<1>9. ASSUME NEW late \in BOOLEAN, ShutdownFlushFails(late) PROVE IInv'
  <2>1. terminal' \in [flush_attempted : BOOLEAN, deadline_exceeded : BOOLEAN]
    BY <1>9 DEF ShutdownFlushFails, Finish
  <2>2. (IF late THEN "timeout" ELSE "flush") \in {"write", "flush", "timeout"}
    OBVIOUS
  <2>3. Len(queue) \in 0..Len(queue)
    BY DEF IInv, Typed
  <2> QED BY <1>9, <2>1, <2>2, <2>3, FailedStep DEF ShutdownFlushFails
<1>10. CASE Reported
  BY <1>10, IdleStep DEF Reported, vars
<1> QED
  BY <1>1, <1>2, <1>3, <1>4, <1>5, <1>6, <1>7, <1>8, <1>9, <1>10 DEF Next, Drain, Shutdown

LEMMA InitInvariant == Init => IInv
<1> SUFFICES ASSUME Init PROVE IInv
  OBVIOUS
<1>1. Typed
  BY DEF Init, Typed
<1>2. InOrder
  BY DEF Init, InOrder
<1>3. Accounting
  BY DEF Init, Accounting, Counter
<1>4. Reports
  BY DEF Init, Reports
<1> QED BY <1>1, <1>2, <1>3, <1>4 DEF IInv

\* The inductive invariant holds in every reachable state.
THEOREM Invariance == Spec => []IInv
<1>1. IInv /\ [Next]_vars => IInv'
  BY StepInvariant
<1> QED BY InitInvariant, <1>1, PTL DEF Spec

-----------------------------------------------------------------------------
\* For every configuration, each accepted event is written, queued or evicted,
\* and each call of emit has exactly one disposition.
THEOREM AccountingHolds == Spec => []Accounting
<1>1. IInv => Accounting
  BY DEF IInv
<1> QED BY Invariance, <1>1, PTL

\* For every configuration, the sink receives events in the order they were
\* emitted and none twice.
THEOREM OrderedHolds == Spec => []Ordered
<1>1. ASSUME IInv PROVE Ordered
  <2> DEFINE q == [i \in DOMAIN queue |-> queue[i].seq]
             all == sink \o q
  <2>1. queue \in Seq(Event) /\ sink \in Seq(Nat) /\ Len(queue) \in Nat /\ Len(sink) \in Nat
    BY <1>1 DEF IInv, Typed
  <2>2. \A i \in 1..Len(queue) : queue[i].seq \in Nat
    <3>1. \A i \in 1..Len(queue) : queue[i] \in Event
      BY <2>1
    <3> QED BY <3>1 DEF Event
  <2>3. q = [i \in 1..Len(queue) |-> queue[i].seq]
    BY <2>1
  <2>4. q \in Seq(Nat) /\ Len(q) = Len(queue) /\ \A i \in 1..Len(queue) : q[i] = queue[i].seq
    BY <2>1, <2>2, <2>3
  <2> HIDE DEF q
  <2>5. /\ all \in Seq(Nat) /\ Len(all) = Len(sink) + Len(queue)
        /\ \A i \in 1..(Len(sink) + Len(queue)) :
             all[i] = IF i <= Len(sink) THEN sink[i] ELSE q[i - Len(sink)]
    <3>1. /\ sink \o q \in Seq(Nat) /\ Len(sink \o q) = Len(sink) + Len(q)
          /\ \A i \in 1..(Len(sink) + Len(q)) :
               (sink \o q)[i] = IF i <= Len(sink) THEN sink[i] ELSE q[i - Len(sink)]
      BY Zenon, <2>1, <2>4, ConcatProperties
    <3> QED BY <3>1, <2>4
  <2>6. DOMAIN all = 1..(Len(sink) + Len(queue))
    BY <2>1, <2>5
  <2> DEFINE m == Len(sink)
             n == Len(queue)
             at(i) == all[i]
             out(i) == sink[i]
             seq(i) == queue[i].seq
  <2>7. ASSUME NEW i \in 1..(m + n)
        PROVE  \/ i \in 1..m /\ at(i) = out(i)
               \/ i - m \in 1..n /\ i > m /\ at(i) = seq(i - m)
    <3>1. CASE i <= m
      BY <2>1, <2>5, <3>1
    <3>2. CASE ~(i <= m)
      <4>1. i - m \in 1..n /\ i > m
        BY <2>1, <3>2
      <4> QED BY Zenon, <2>4, <2>5, <3>2, <4>1
    <3> QED BY Zenon, <3>1, <3>2
  <2>8. /\ \A i, j \in 1..m : i < j => out(i) < out(j)
        /\ \A i, j \in 1..n : i < j => seq(i) < seq(j)
        /\ \A i \in 1..m, j \in 1..n : out(i) < seq(j)
        /\ \A i \in 1..m : out(i) < next_sequence
        /\ \A i \in 1..n : seq(i) < next_sequence
    BY <1>1 DEF IInv, InOrder
  <2>9. m \in Nat /\ n \in Nat
    BY <2>1
  <2>10. DOMAIN all = 1..(m + n)
    BY <2>6
  <2>11. Ordered <=> /\ \A i, j \in DOMAIN all : i < j => at(i) < at(j)
                     /\ \A i \in DOMAIN all : at(i) < next_sequence
    BY DEF Ordered, q
  <2> HIDE DEF m, n, at, out, seq, all
  <2>12. ASSUME NEW i \in 1..(m + n), NEW j \in 1..(m + n), i < j PROVE at(i) < at(j)
    <3>1. CASE i \in 1..m /\ at(i) = out(i)
      BY <2>7, <2>8, <2>12, <3>1
    <3>2. CASE i - m \in 1..n /\ i > m /\ at(i) = seq(i - m)
      <4>1. j \notin 1..m /\ i - m < j - m
        BY <2>9, <2>12, <3>2
      <4> QED BY <2>7, <2>8, <3>2, <4>1
    <3> QED BY <2>7, <3>1, <3>2
  <2>13. ASSUME NEW i \in 1..(m + n) PROVE at(i) < next_sequence
    BY <2>7, <2>8
  <2> QED BY <2>10, <2>11, <2>12, <2>13
<1> QED BY Invariance, <1>1, PTL

\* For every configuration, Flushed means everything accepted and not evicted
\* was delivered in time, and a failure or a missed deadline means Failed.
THEOREM FlushedMeansDeliveredHolds == Spec => []FlushedMeansDelivered
<1>1. ASSUME IInv PROVE FlushedMeansDelivered
  <2>1. /\ last_sink_failure # "none" <=> state = "failed"
        /\ terminal.deadline_exceeded => state = "failed"
        /\ state = "flushed" => queue = <<>> /\ terminal.flush_attempted
    BY <1>1 DEF IInv, Reports
  <2>2. ASSUME state = "flushed"
        PROVE  terminal = [flush_attempted |-> TRUE, deadline_exceeded |-> FALSE]
    BY <1>1, <2>1, <2>2 DEF IInv, Typed
  <2>3. ASSUME state = "flushed" PROVE Len(sink) = counters.accepted - evicted
    <3>1. counters.accepted = counters.written + 0 + evicted /\ counters.written = Len(sink)
      BY <1>1, <2>1, <2>3 DEF IInv, Accounting
    <3>2. counters.written \in Nat /\ evicted \in Nat
      BY <1>1, CountersAreNats DEF IInv, Typed
    <3> QED BY <3>1, <3>2
  <2> QED BY <2>1, <2>2, <2>3 DEF FlushedMeansDelivered
<1> QED BY Invariance, <1>1, PTL

\* For every configuration, a terminal runtime never writes or queues again.
THEOREM TerminalIsFinalHolds == Spec => TerminalIsFinal
<1>1. ASSUME [Next]_vars, Terminal
      PROVE  /\ UNCHANGED <<state, queue, sink, last_sink_failure, terminal, evicted>>
             /\ counters'.written = counters.written
  <2>1. state # "running"
    BY <1>1 DEF Terminal
  <2>2. ASSUME NEW target, NEW level, NEW valid, EmitRefused(target, level, valid)
        PROVE  Count({"attempted", "rejected"})
    BY <2>1, <2>2 DEF EmitRefused
  <2>3. QED
    BY Zenon, <1>1, <2>1, <2>2 DEF Next, vars, UpdateFilter, Emit, EmitRefused, EmitLost,
       EmitAccepted, Count, Counter, Drain, DrainStops, DrainFails, Shutdown, ShutdownWriteFails, ShutdownLate,
       ShutdownFlushed, ShutdownFlushFails, Reported
<1> QED BY <1>1, PTL DEF Spec, TerminalIsFinal

\* enqueue with either overflow policy: for every configuration, the queue never
\* holds more events than queue_capacity.
THEOREM LengthIsBounded == Spec => [](Len(queue) <= QueueCapacity)
<1>1. Init => Len(queue) <= QueueCapacity
  BY ConfigValid DEF Init, validate
<1>2. ASSUME IInv, Len(queue) <= QueueCapacity, [Next]_vars PROVE Len(queue') <= QueueCapacity
  <2>1. Len(queue) \in Nat /\ QueueCapacity \in Nat /\ QueueCapacity > 0
    BY <1>2, ConfigValid DEF IInv, Typed, validate
  <2>2. ASSUME NEW target, NEW level, NEW bytes \in Size, NEW k \in 0..Len(queue),
               EmitAccepted(target, level, bytes, k)
        PROVE  Len(queue') <= QueueCapacity
    <3>1. Len(queue') = Len(queue) - k + 1
      BY <1>2, <2>2, AcceptedMoves DEF IInv
    <3>2. Len(queue) - k < QueueCapacity \/ k = Len(queue)
      BY <2>2 DEF EmitAccepted, Evicts, Fits
    <3> QED BY <2>1, <3>1, <3>2
  <2>3. ASSUME NEW k \in 0..Len(queue), Written(k) PROVE Len(queue') <= QueueCapacity
    <3>1. Len(queue') = Len(queue) - k
      BY <1>2, <2>3, WrittenMoves DEF IInv
    <3> QED BY <1>2, <2>1, <3>1
  <2>4. Len(queue) \in 0..Len(queue)
    BY <2>1
  <2>5. \/ UNCHANGED queue
        \/ \E k \in 0..Len(queue) : Written(k)
        \/ \E target \in Target, level \in Level, bytes \in Size : \E k \in 0..Len(queue) :
             EmitAccepted(target, level, bytes, k)
    BY Zenon, <1>2, <2>4 DEF Next, vars, UpdateFilter, Emit, EmitRefused, EmitLost, Drain, DrainStops, DrainFails,
       Shutdown, ShutdownWriteFails, ShutdownLate, ShutdownFlushed, ShutdownFlushFails, Reported
  <2> QED BY <1>2, <2>2, <2>3, <2>5
<1>3. IInv /\ Len(queue) <= QueueCapacity /\ [Next]_vars => (Len(queue) <= QueueCapacity)'
  BY <1>2
<1> QED BY <1>1, <1>3, Invariance, PTL DEF Spec
=============================================================================
