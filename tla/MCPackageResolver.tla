------------------------- MODULE MCPackageResolver --------------------------
(* Three packages with two versions each: 1.0.0 and 1.5.0 of the first     *)
(* two, 0.1.0 and 0.2.0 of the third.  Three families of inputs.           *)
EXTENDS PackageResolver, TLC

Caret(a, b) == [kind |-> "caret", version |-> <<a, b, 0>>]
Exact(a, b) == [kind |-> "exact", version |-> <<a, b, 0>>]
On(p, r) == [to |-> p, requirement |-> r]

R1 == <<1, <<1, 0, 0>>>>
R2 == <<1, <<1, 5, 0>>>>
S1 == <<2, <<1, 0, 0>>>>
S2 == <<2, <<1, 5, 0>>>>
T1 == <<3, <<0, 1, 0>>>>
T2 == <<3, <<0, 2, 0>>>>

Second == {{}, {On(2, Caret(1, 0))}, {On(2, Caret(1, 5))}, {On(2, Exact(1, 0))}}
Third == {{}, {On(3, Caret(0, 1))}, {On(3, Caret(0, 2))}}
Back == {{}, {On(1, Caret(1, 0))}, {On(2, Exact(1, 0))}}

Plain(d) == [yanked |-> FALSE, verdict |-> "trusted", dependencies |-> d]
Ample == [packages |-> 3, candidates |-> 6, attempts |-> 40, backtracks |-> 40, events |-> FALSE]
Answered == [p \in Package |-> "ok"]
Direct == {{On(1, Caret(1, 0))}, {On(1, Caret(1, 0)), On(2, Caret(1, 0))}}

Fresh(releases, roots) ==
  [releases |-> releases, roots |-> roots, answer |-> Answered, limits |-> Ample,
   mode |-> "fresh", target |-> None, locked |-> {}, frozen |-> {}]

\* Any graph, nothing locked.
Graphs ==
  {Fresh((R1 :> Plain(a \cup b)) @@ (R2 :> Plain(c \cup d)) @@ (S1 :> Plain(e)) @@ (S2 :> Plain(f))
           @@ (T1 :> Plain({})) @@ (T2 :> Plain(g)), roots) :
     a \in Second, b \in Third, c \in Second, d \in Third,
     e \in Third, f \in Third \cup {{On(1, Caret(1, 0))}}, g \in Back, roots \in Direct}

\* A lock of the first two packages, and yanked releases: a fetch from the
\* lock (with or without freezing it), an update of everything or of one direct
\* dependency.
Locking(dependencies, yanked, roots) ==
  LET graph == (R1 :> {On(2, Caret(1, 0))}) @@ (R2 :> dependencies) @@ (S1 :> {}) @@ (S2 :> {})
      input0 == Fresh([r \in {R1, R2, S1, S2} |->
                         [yanked |-> r \in yanked, verdict |-> "trusted", dependencies |-> graph[r]]],
                      roots)
      locks == {{r, s} : r \in {R1, R2}, s \in {S1, S2}}
      direct == {d.to : d \in roots} IN
  {[input0 EXCEPT !.mode = m, !.locked = l, !.target = t,
                  !.frozen = IF m = "locked" THEN l
                             ELSE IF t = None THEN {} ELSE {r \in l : r[1] # t}] :
     m \in {"locked", "update"}, l \in locks, t \in direct \cup {None}}
Locks ==
  UNION {Locking(d, y, roots) : d \in {{}, {On(2, Caret(1, 0))}, {On(2, Caret(1, 5))}},
                                y \in SUBSET {R1, R2, S1, S2}, roots \in Direct}
Replays ==
  {i \in Locks : i.mode = "update" \/ i.target = None}
    \cup {[i EXCEPT !.frozen = {}] : i \in {j \in Locks : j.mode = "locked" /\ j.target = None}}

\* The diamond of the resolver's test of backtracking, with a fault of the
\* source, with a limit that is met, or as an update of its first package.
Diamond ==
  Fresh((R1 :> Plain({On(3, Caret(0, 1))})) @@ (R2 :> Plain({On(3, Caret(0, 2))}))
          @@ (S1 :> Plain({On(3, Caret(0, 1))})) @@ (T1 :> Plain({})) @@ (T2 :> Plain({})),
        {On(1, Caret(1, 0)), On(2, Caret(1, 0))})
\* Every version of the second package is in conflict with the third, or in a
\* cycle with the first.
Twist ==
  Fresh((R1 :> Plain({On(3, Caret(0, 2))})) @@ (S1 :> Plain({})) @@ (S2 :> Plain({}))
          @@ (T2 :> Plain({On(2, Exact(1, 2))})), {On(1, Caret(1, 0)), On(2, Caret(1, 0))})
Ring ==
  Fresh((R1 :> Plain({On(2, Caret(1, 0))})) @@ (S1 :> Plain({On(1, Caret(1, 0))}))
          @@ (S2 :> Plain({On(1, Caret(1, 0))})), {On(1, Caret(1, 0))})
Faults ==
  {[Diamond EXCEPT !.releases[r].verdict = v] :
     r \in {R1, R2, S1, T1, T2}, v \in {"rejected", "mismatched"}}
  \cup {[Diamond EXCEPT !.answer[p] = a] : p \in Package, a \in {"failed", "invalid"}}
  \cup {[Diamond EXCEPT !.limits.packages = n] : n \in 0..3}
  \cup {[Diamond EXCEPT !.limits.candidates = n] : n \in 0..5}
  \cup {[Diamond EXCEPT !.limits.attempts = n] : n \in 0..8}
  \cup {[i EXCEPT !.limits.backtracks = n] : i \in {Diamond, Twist, Ring}, n \in 0..4}
  \cup {[Diamond EXCEPT !.limits.events = TRUE],
        [Diamond EXCEPT !.mode = "update", !.target = 1, !.locked = {R1, S1, T1}, !.frozen = {S1, T1}]}

MCInputs == Graphs \cup Replays \cup Faults
=============================================================================
