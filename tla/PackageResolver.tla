-------------------------- MODULE PackageResolver ---------------------------
(***************************************************************************)
(* resolve_packages (package_resolver.rs), the backtracking search for one *)
(* version of every package, and resolve_online (package_manager.rs), the  *)
(* source it verifies releases with and the checks of its result.  The     *)
(* recursion of solve is a stack of frames.  A behaviour starts from any   *)
(* of a set of inputs: catalogues, dependencies, a lock and a mode.        *)
(* The trace is reduced to its limit and to the one event that is read,    *)
(* and path dependencies, which constrain nothing, are left out.           *)
(***************************************************************************)
EXTENDS Naturals, Sequences, FiniteSets

CONSTANTS Package,  \* coordinates, numbered in their lexical order
          Root,     \* the project, as the origin of a dependency
          None,
          Inputs

VARIABLES input,     \* what the operation finds; it does not change
          pc,        \* "start", "solve", "next", "resolved" or "over"
          outcome,
          state,     \* SolverState: the constraints and the selected releases
          stack,     \* the calls of solve that are trying a candidate
          catalogs, verified, catalog_candidate_count, candidate_attempts, backtracks,
          mismatch,  \* the trace has a FrozenMismatch
          downloads, \* the releases whose artifacts the source holds
          discarded  \* the releases it has released (history)

counters == <<catalog_candidate_count, candidate_attempts, backtracks>>
vars == <<input, pc, outcome, state, stack, catalogs, verified, counters, mismatch, downloads,
          discarded>>

-----------------------------------------------------------------------------
\* Versions are <<major, minor, patch>>.
Version == Nat \X Nat \X Nat
Before(a, b) ==
  \/ a[1] < b[1]
  \/ a[1] = b[1] /\ a[2] < b[2]
  \/ a[1] = b[1] /\ a[2] = b[2] /\ a[3] < b[3]

Requirement == [kind : {"exact", "caret"}, version : Version]

\* VersionRequirement::matches
matches(r, c) ==
  LET v == r.version IN
  /\ ~Before(c, v)
  /\ \/ r.kind = "exact" /\ c = v
     \/ r.kind = "caret" /\ v[1] > 0 /\ c[1] = v[1]
     \/ r.kind = "caret" /\ v[1] = 0 /\ v[2] > 0 /\ c[1] = 0 /\ c[2] = v[2]
     \/ r.kind = "caret" /\ v[1] = 0 /\ v[2] = 0 /\ c[1] = 0 /\ c[2] = 0 /\ c[3] = v[3]

\* A release is <<package, version>>.
Dependency == [to : Package, requirement : Requirement]
Constraint == [from : Package \cup {Root}, to : Package, requirement : Requirement]
Release == Package \X Version
\* events: whether max_trace_events may run out; the events are not counted.
Limits == [packages : Nat, candidates : Nat, attempts : Nat, backtracks : Nat, events : BOOLEAN]

IsInput(i) ==
  /\ DOMAIN i.releases \subseteq Release /\ i.roots \subseteq Dependency
  /\ \A r \in DOMAIN i.releases :
       /\ i.releases[r].yanked \in BOOLEAN /\ i.releases[r].dependencies \subseteq Dependency
       /\ i.releases[r].verdict \in {"trusted", "rejected", "mismatched"}
  /\ i.answer \in [Package -> {"ok", "failed", "invalid"}] /\ i.limits \in Limits
  /\ i.mode \in {"fresh", "locked", "update"} /\ i.target \in Package \cup {None}
  /\ i.locked \subseteq Release /\ i.frozen \subseteq i.locked

ASSUME InputsAreInputs ==
  Package \subseteq Nat /\ Root \notin Package /\ None \notin Package
  /\ \A i \in Inputs : IsInput(i)

Candidates(p) == {r \in DOMAIN input.releases : r[1] = p}
From(origin, dependencies) ==
  {[from |-> origin, to |-> d.to, requirement |-> d.requirement] : d \in dependencies}
Targets(constraints) == {c.to : c \in constraints}
Packages(releases) == {r[1] : r \in releases}
\* The constraints that the project and a set of releases state.
Asked(releases) ==
  From(Root, input.roots)
    \cup UNION {From(r[1], input.releases[r].dependencies) : r \in releases}

\* dependency_path_exists
Closed(set, constraints) == \A c \in constraints : c.from \in set => c.to \in set
dependency_path_exists(constraints, start, goal) ==
  \A set \in SUBSET Package : start \in set /\ Closed(set, constraints) => goal \in set

\* The checks of a candidate before it is verified.
FrozenMismatch(r) == \E f \in input.frozen : f[1] = r[1] /\ f # r
ConstraintMismatch(r, constraints) ==
  \E c \in constraints : c.to = r[1] /\ ~matches(c.requirement, r[2])
Replayed(r) ==
  \/ input.mode = "locked" /\ r \in input.locked \cup input.frozen
  \/ input.mode = "update" /\ r \in input.frozen
Yanked(r) == input.releases[r].yanked /\ ~Replayed(r)
Admissible(r, constraints) ==
  ~FrozenMismatch(r) /\ ~ConstraintMismatch(r, constraints) /\ ~Yanked(r)

\* The order of the candidates of one package.
Pinned == IF input.mode = "locked" THEN input.locked ELSE {}
Preferred_Oldest(a, b) == Before(a[2], b[2])
Preferred(a, b) ==
  \/ a \in Pinned /\ b \notin Pinned
  \/ (a \in Pinned <=> b \in Pinned) /\ Before(b[2], a[2])
First(r, set) == r \in set /\ \A other \in set \ {r} : Preferred(r, other)

-----------------------------------------------------------------------------
Top == stack[Len(stack)]
Pop == SubSeq(stack, 1, Len(stack) - 1)
End(result) == pc' = "over" /\ outcome' = result
Empty == [constraints |-> {}, selected |-> {}]

Init ==
  /\ input \in Inputs /\ pc = "start" /\ outcome = None /\ state = Empty /\ stack = <<>>
  /\ catalogs = {} /\ verified = {} /\ mismatch = FALSE /\ downloads = {} /\ discarded = {}
  /\ catalog_candidate_count = 0 /\ candidate_attempts = 0 /\ backtracks = 0

\* resolve_packages, up to the first call of solve
resolve_packages ==
  /\ pc = "start"
  /\ LET l == input.limits
         constraints == From(Root, input.roots) IN
     \/ 0 \in {l.packages, l.candidates, l.attempts, l.backtracks} /\ End("invalid_request")
        /\ UNCHANGED state
     \/ /\ 0 \notin {l.packages, l.candidates, l.attempts, l.backtracks}
        /\ Cardinality(Targets(constraints)) > l.packages
        /\ End("budget") /\ UNCHANGED state
     \/ /\ 0 \notin {l.packages, l.candidates, l.attempts, l.backtracks}
        /\ Cardinality(Targets(constraints)) <= l.packages
        /\ state' = [constraints |-> constraints, selected |-> {}]
        /\ pc' = "solve" /\ UNCHANGED outcome
  /\ UNCHANGED <<input, stack, catalogs, verified, counters, mismatch, downloads, discarded>>

\* discard_candidate and backtrack, for a release that was selected
Discard(r) == downloads' = downloads \ {r} /\ discarded' = discarded \cup {r}
backtrack ==
  \/ backtracks >= input.limits.backtracks /\ End("budget") /\ UNCHANGED backtracks
  \/ /\ backtracks < input.limits.backtracks /\ backtracks' = backtracks + 1
     /\ pc' = "next" /\ UNCHANGED outcome

\* A call of solve returns None to the last of the frames.
ReturnNone_Kept(frames) ==
  /\ frames # <<>> /\ stack' = frames /\ state' = frames[Len(frames)].state
  /\ backtrack /\ UNCHANGED <<downloads, discarded>>

ReturnNone(frames) ==
  /\ frames # <<>> /\ stack' = frames /\ state' = frames[Len(frames)].state
  /\ Discard(frames[Len(frames)].tried) /\ backtrack

\* solve, up to its loop: a conflict with what is selected, the end of the
\* search, or the catalogue of the next package.
Broken(s) == {r \in s.selected : ConstraintMismatch(r, s.constraints)}
Open(s) == Targets(s.constraints) \ Packages(s.selected)

Conflicting ==
  /\ pc = "solve" /\ Broken(state) # {} /\ ReturnNone(stack)
  /\ UNCHANGED <<input, catalogs, verified, catalog_candidate_count, candidate_attempts, mismatch>>

Solved_Unchecked ==
  /\ pc = "solve" /\ Open(state) = {}
  /\ pc' = "resolved" /\ UNCHANGED <<input, outcome, state, stack, catalogs, verified, counters>>
  /\ UNCHANGED <<mismatch, downloads, discarded>>

Solved ==
  /\ pc = "solve" /\ Broken(state) = {} /\ Open(state) = {}
  /\ pc' = "resolved" /\ UNCHANGED <<input, outcome, state, stack, catalogs, verified, counters>>
  /\ UNCHANGED <<mismatch, downloads, discarded>>

catalog(p) ==
  /\ pc = "solve" /\ Broken(state) = {}
  /\ p \in Open(state) /\ \A q \in Open(state) : p <= q
  /\ LET count == catalog_candidate_count + IF p \in catalogs THEN 0 ELSE Cardinality(Candidates(p))
     IN
     \/ /\ p \notin catalogs /\ input.answer[p] # "ok" /\ End(input.answer[p])
        /\ UNCHANGED <<stack, catalogs, catalog_candidate_count>>
     \/ /\ p \in catalogs \/ input.answer[p] = "ok"
        /\ count > input.limits.candidates /\ End("budget")
        /\ UNCHANGED <<stack, catalogs, catalog_candidate_count>>
     \/ /\ p \in catalogs \/ input.answer[p] = "ok"
        /\ count <= input.limits.candidates
        /\ catalog_candidate_count' = count /\ catalogs' = catalogs \cup {p}
        /\ stack' = Append(stack, [package |-> p, state |-> state, left |-> Candidates(p),
                                   tried |-> None])
        /\ pc' = "next" /\ UNCHANGED outcome
  /\ UNCHANGED <<input, state, verified, candidate_attempts, backtracks, mismatch, downloads, discarded>>

-----------------------------------------------------------------------------
\* The loop of solve: the next candidate, within the budget of attempts.
Considered(r) == pc = "next" /\ stack # <<>> /\ First(r, Top.left)
Attempted(r) ==
  Considered(r) /\ candidate_attempts < input.limits.attempts
  /\ candidate_attempts' = candidate_attempts + 1
\* The frame on top has taken r from its candidates.
Taken(r) ==
  stack' = [stack EXCEPT ![Len(stack)] = [Top EXCEPT !.left = Top.left \ {r}, !.tried = r]]

bump_candidate_attempts(r) ==
  /\ Considered(r) /\ candidate_attempts >= input.limits.attempts /\ End("budget")
  /\ UNCHANGED <<input, state, stack, catalogs, verified, counters, mismatch, downloads, discarded>>

\* FrozenMismatch, ConstraintMismatch or Yanked
Reject(r) ==
  /\ Attempted(r) /\ ~Admissible(r, Top.state.constraints) /\ Taken(r)
  /\ mismatch' = (mismatch \/ FrozenMismatch(r))
  /\ UNCHANGED <<input, pc, outcome, state, catalogs, verified, catalog_candidate_count, backtracks,
                 downloads, discarded>>

\* verified_candidate: the source is asked once for every release.
verified_candidate(r) ==
  /\ Attempted(r) /\ Admissible(r, Top.state.constraints)
  /\ verified' = verified \cup {r}

\* ... and refuses it, or answers for another one
Refused(r) ==
  /\ verified_candidate(r) /\ input.releases[r].verdict = "rejected" /\ End("failed")
  /\ UNCHANGED <<input, state, stack, catalogs, catalog_candidate_count, backtracks, mismatch,
                 downloads, discarded>>

IdentityMismatch(r) ==
  /\ verified_candidate(r) /\ input.releases[r].verdict = "mismatched" /\ Taken(r) /\ Discard(r)
  /\ UNCHANGED <<input, pc, outcome, state, catalogs, catalog_candidate_count, backtracks, mismatch>>

\* ... or answers with its dependencies.  They are added in their order up to
\* the first that leads back to the package.
Cyclic_Selected(r, constraints) ==
  {d \in input.releases[r].dependencies : d.to = r[1] \/ \E c \in constraints : c.from = d.to}
Cyclic(r, constraints) ==
  {d \in input.releases[r].dependencies : dependency_path_exists(constraints, d.to, r[1])}
Added(r, constraints) ==
  {d \in input.releases[r].dependencies :
     \A c \in Cyclic(r, constraints) : d.to < c.to}
Next_state(r, s) ==
  [constraints |-> s.constraints \cup From(r[1], Added(r, s.constraints)),
   selected |-> s.selected \cup {r}]
Size(r, s) == Cardinality(Targets(Next_state(r, s).constraints))
Held(r) == downloads \cup ({r} \ verified)

add_dependency(r) ==
  /\ verified_candidate(r) /\ input.releases[r].verdict = "trusted"
  /\ Size(r, Top.state) > input.limits.packages
  /\ downloads' = Held(r) /\ End("budget")
  /\ UNCHANGED <<input, state, stack, catalogs, catalog_candidate_count, backtracks, mismatch,
                 discarded>>

Cycle(r) ==
  /\ verified_candidate(r) /\ input.releases[r].verdict = "trusted"
  /\ Size(r, Top.state) <= input.limits.packages
  /\ Cyclic(r, Top.state.constraints) # {} /\ Taken(r)
  /\ downloads' = Held(r) \ {r} /\ discarded' = discarded \cup {r} /\ backtrack
  /\ UNCHANGED <<input, state, catalogs, catalog_candidate_count, mismatch>>

\* Mutant: the candidate's dependencies are added to the caller's own state
\* instead of a copy of it.
Select_Shared(r) ==
  /\ verified_candidate(r) /\ input.releases[r].verdict = "trusted"
  /\ Size(r, Top.state) <= input.limits.packages
  /\ Cyclic(r, Top.state.constraints) = {}
  /\ stack' = [stack EXCEPT ![Len(stack)] =
                 [Top EXCEPT !.left = Top.left \ {r}, !.tried = r,
                             !.state.constraints = Next_state(r, Top.state).constraints]]
  /\ downloads' = Held(r) /\ state' = Next_state(r, Top.state) /\ pc' = "solve"
  /\ UNCHANGED <<input, outcome, catalogs, catalog_candidate_count, backtracks, mismatch, discarded>>

Select(r) ==
  /\ verified_candidate(r) /\ input.releases[r].verdict = "trusted"
  /\ Size(r, Top.state) <= input.limits.packages
  /\ Cyclic(r, Top.state.constraints) = {} /\ Taken(r)
  /\ downloads' = Held(r) /\ state' = Next_state(r, Top.state) /\ pc' = "solve"
  /\ UNCHANGED <<input, outcome, catalogs, catalog_candidate_count, backtracks, mismatch, discarded>>

\* The loop ends, and solve returns None, to its caller or to resolve_packages.
Exhausted ==
  /\ pc = "next" /\ stack # <<>> /\ Top.left = {} /\ ReturnNone(Pop)
  /\ UNCHANGED <<input, catalogs, verified, catalog_candidate_count, candidate_attempts, mismatch>>

Conflict ==
  /\ pc = "next" /\ Len(stack) = 1 /\ Top.left = {}
  /\ stack' = <<>> /\ End("conflict")
  /\ UNCHANGED <<input, state, catalogs, verified, counters, mismatch, downloads, discarded>>

\* push_trace fails
push_trace ==
  /\ pc \in {"start", "solve", "next"} /\ input.limits.events /\ End("budget")
  /\ UNCHANGED <<input, state, stack, catalogs, verified, counters, mismatch, downloads, discarded>>

-----------------------------------------------------------------------------
\* resolve_online and finish_online check the result against the frozen
\* releases and hand the artifacts to the cache.  What the lock says of a
\* frozen release besides its version, and of its edges, may differ.
Unmoved == \E r \in input.locked \cap state.selected : r[1] = input.target
resolve_online ==
  /\ pc = "resolved"
  /\ LET frozen == input.frozen
         lost == state.selected \ downloads
         kept == Packages(frozen) \subseteq Packages(state.selected) /\ frozen \cap lost = {} IN
     \/ ~(Packages(frozen) \subseteq Packages(state.selected)) /\ End("frozen_package_missing")
     \/ frozen \cap lost # {} /\ End("verified_artifact_missing")
     \/ frozen # {} /\ End("locked_package_changed")
     \/ kept /\ Unmoved /\ mismatch /\ End("broader_update_required")
     \/ kept /\ input.mode = "locked" /\ End("locked_dependency_mismatch")
     \/ kept /\ ~(Unmoved /\ mismatch) /\ lost # {} /\ End("verified_artifact_missing")
     \/ kept /\ ~(Unmoved /\ mismatch) /\ lost = {} /\ End("admitted")
  /\ downloads' = downloads \cap state.selected
  /\ UNCHANGED <<input, state, stack, catalogs, verified, counters, mismatch, discarded>>

Try(r) ==
  \/ bump_candidate_attempts(r) \/ Reject(r) \/ Refused(r) \/ IdentityMismatch(r)
  \/ add_dependency(r) \/ Cycle(r) \/ Select(r)

Next ==
  \/ resolve_packages \/ Conflicting \/ Solved \/ (\E p \in Package : catalog(p))
  \/ (\E r \in DOMAIN input.releases : Try(r)) \/ Exhausted \/ Conflict
  \/ push_trace \/ resolve_online

Spec == Init /\ [][Next]_vars

-----------------------------------------------------------------------------
Searching == pc \in {"solve", "next", "resolved"}

\* Types; what the source holds or has released it was asked to verify.
TypeOK ==
  /\ pc \in {"start", "solve", "next", "resolved", "over"}
  /\ state.constraints \subseteq Constraint /\ state.selected \subseteq DOMAIN input.releases
  /\ \A i \in DOMAIN stack :
       /\ stack[i].package \in Package /\ stack[i].left \subseteq Candidates(stack[i].package)
       /\ stack[i].tried \in Candidates(stack[i].package) \cup {None}
  /\ catalogs \subseteq Package /\ verified \subseteq DOMAIN input.releases
  /\ downloads \subseteq verified /\ discarded \subseteq verified /\ mismatch \in BOOLEAN

\* What a resolution has to be: one version of every package that is asked
\* for, and only of packages the project leads to, which satisfies all who ask,
\* without a cycle, of releases that may be used.
OnePerPackage(selected) == \A r, s \in selected : r[1] = s[1] => r = s
LedTo(selected) ==
  \A set \in SUBSET Package :
    Targets(From(Root, input.roots)) \subseteq set /\ Closed(set, Asked(selected)) =>
      Packages(selected) \subseteq set
Acyclic(constraints) ==
  \A c \in constraints : c.from # Root => ~dependency_path_exists(constraints, c.to, c.from)
Usable(r) ==
  ~FrozenMismatch(r) /\ ~Yanked(r) /\ input.releases[r].verdict = "trusted"
Solution(selected) ==
  /\ OnePerPackage(selected) /\ LedTo(selected) /\ Acyclic(Asked(selected))
  /\ Targets(Asked(selected)) \subseteq Packages(selected)
  /\ \A r \in selected : Usable(r) /\ ~ConstraintMismatch(r, Asked(selected))

\* What solve returns is a solution, after any amount of backtracking.
ResolvedIsSolution == pc = "resolved" => Solution(state.selected)

\* A conflict is reported only if there is no solution at all.
ConflictIsReal ==
  pc = "over" /\ outcome = "conflict" =>
    \A selected \in SUBSET DOMAIN input.releases : ~Solution(selected)

\* Of several solutions the first one is found: any other one differs first, in
\* the order in which packages were taken up, by an older version, or by one
\* that the lock does not pin.
NewestFirst ==
  pc = "resolved" =>
    \A other \in SUBSET DOMAIN input.releases :
      Solution(other) /\ other # state.selected =>
        \E i \in DOMAIN stack, r \in other :
          /\ \A j \in 1..(i - 1) : stack[j].tried \in other
          /\ r[1] = stack[i].package /\ r # stack[i].tried
          /\ \/ Before(r[2], stack[i].tried[2])
             \/ input.mode = "locked" /\ stack[i].tried \in input.locked

\* A candidate that was given up leaves nothing behind: whenever solve runs or
\* returns, its constraints, and those its callers go back to, are exactly those
\* of the project and of the releases that are selected there.
ConstraintsAreAsked ==
  Searching =>
    /\ state.constraints = Asked(state.selected)
    /\ \A i \in DOMAIN stack : stack[i].state.constraints = Asked(stack[i].state.selected)

\* bump_candidate_attempts, backtrack, catalog and add_dependency keep within the
\* limits of the request, however often the search goes back.  So does the source
\* (discard_candidate keeps "backtracking within the live materialization
\* budget"): it holds the artifacts of no release that is not selected, and it
\* holds those of every selected one, but for a release that was discarded and
\* is selected again: that one is not downloaded again.
WithinBudgets ==
  /\ backtracks <= input.limits.backtracks /\ candidate_attempts <= input.limits.attempts
  /\ catalog_candidate_count <= input.limits.candidates
  /\ Cardinality(Targets(state.constraints)) <= input.limits.packages
  /\ Searching => downloads \subseteq state.selected /\ state.selected \ downloads \subseteq discarded
=============================================================================
