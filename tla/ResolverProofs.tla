--------------------------- MODULE ResolverProofs ---------------------------
(***************************************************************************)
(* Theorems about PackageResolver, for any set of packages and any inputs. *)
(* The invariant says of every partial state what a solution is except for *)
(* what is still open, and of the stack that no solution was passed over:  *)
(* every one extends the current state, or the state of a frame by one of  *)
(* the candidates the frame has left.                                      *)
(***************************************************************************)
EXTENDS PackageResolver, TLAPS

-----------------------------------------------------------------------------
\* An exact requirement is one version; a caret requirement is all versions from
\* its own up to the next that changes the leftmost component that is not zero.
Bump(v) ==
  IF v[1] > 0 THEN <<v[1] + 1, 0, 0>>
  ELSE IF v[2] > 0 THEN <<0, v[2] + 1, 0>> ELSE <<0, 0, v[3] + 1>>
Interval(r, c) ==
  IF r.kind = "exact" THEN c = r.version
  ELSE ~Before(c, r.version) /\ Before(c, Bump(r.version))

\* A caret requirement is the interval from its version to the next breaking
\* one, and an exact requirement its version: matches decides both, for all
\* versions.
THEOREM MatchesIsRange ==
  ASSUME NEW r \in Requirement, NEW c \in Version
  PROVE  matches(r, c) <=> Interval(r, c)
  <1> PICK v1 \in Nat, v2 \in Nat, v3 \in Nat : r.version = <<v1, v2, v3>>
    BY DEF Requirement, Version
  <1> PICK c1 \in Nat, c2 \in Nat, c3 \in Nat : c = <<c1, c2, c3>>
    BY DEF Version
  <1>1. CASE r.kind = "exact"
    BY <1>1 DEF matches, Interval, Before
  <1>2. CASE r.kind = "caret"
    <2>1. CASE v1 > 0
      BY <1>2, <2>1 DEF matches, Interval, Before, Bump
    <2>2. CASE v1 = 0 /\ v2 > 0
      BY <1>2, <2>2 DEF matches, Interval, Before, Bump
    <2>3. CASE v1 = 0 /\ v2 = 0
      BY <1>2, <2>3 DEF matches, Interval, Before, Bump
    <2> QED BY <2>1, <2>2, <2>3
  <1> QED BY <1>1, <1>2 DEF Requirement

-----------------------------------------------------------------------------
\* Paths: the packages that a package leads to.
Reach(constraints, p) == {q \in Package : dependency_path_exists(constraints, p, q)}

\* They are the smallest closed set that holds the package.
LEMMA ReachIsClosed ==
  ASSUME NEW cs \in SUBSET Constraint, NEW p \in Package
  PROVE  /\ p \in Reach(cs, p) /\ Closed(Reach(cs, p), cs) /\ Reach(cs, p) \subseteq Package
         /\ \A set \in SUBSET Package :
              p \in set /\ Closed(set, cs) => Reach(cs, p) \subseteq set
  <1>1. p \in Reach(cs, p)
    BY DEF Reach, dependency_path_exists
  <1>2. ASSUME NEW c \in cs, c.from \in Reach(cs, p) PROVE c.to \in Reach(cs, p)
    <2>1. c.to \in Package
      BY DEF Constraint
    <2>2. ASSUME NEW set \in SUBSET Package, p \in set, Closed(set, cs) PROVE c.to \in set
      <3>1. c.from \in set
        BY <1>2, <2>2 DEF Reach, dependency_path_exists
      <3> QED BY <2>2, <3>1 DEF Closed
    <2> QED BY <2>1, <2>2 DEF Reach, dependency_path_exists
  <1>3. \A set \in SUBSET Package : p \in set /\ Closed(set, cs) => Reach(cs, p) \subseteq set
    BY DEF Reach, dependency_path_exists
  <1> QED BY <1>1, <1>2, <1>3 DEF Closed, Reach

\* A path remains when constraints are added.
LEMMA PathStays ==
  ASSUME NEW cs \in SUBSET Constraint, NEW more \in SUBSET Constraint, cs \subseteq more,
         NEW p \in Package, NEW q \in Package, dependency_path_exists(cs, p, q)
  PROVE  dependency_path_exists(more, p, q)
  BY DEF dependency_path_exists, Closed

\* What the check of a candidate's dependencies against cycles ensures.
LEMMA AcyclicGrows ==
  ASSUME NEW cs \in SUBSET Constraint, Acyclic(cs), NEW p \in Package,
         NEW ds \in SUBSET Dependency, From(p, ds) \subseteq Constraint,
         \A c \in cs : c.from # p,
         \A d \in ds : ~dependency_path_exists(cs, d.to, p)
  PROVE  Acyclic(cs \cup From(p, ds))
  <1> DEFINE all == cs \cup From(p, ds)
  <1>1. \A c \in From(p, ds) : c.from = p /\ c.to \in Package
                                /\ ~dependency_path_exists(cs, c.to, p)
    BY DEF From, Dependency
  <1>2. ASSUME NEW c \in From(p, ds) PROVE ~dependency_path_exists(all, c.to, p)
    <2>1. PICK set \in SUBSET Package : c.to \in set /\ Closed(set, cs) /\ p \notin set
      BY <1>1, <1>2 DEF dependency_path_exists
    <2>2. Closed(set, all)
      BY <1>1, <2>1 DEF Closed
    <2> QED BY <2>1, <2>2 DEF dependency_path_exists
  <1>3. ASSUME NEW c \in cs, c.from # Root PROVE ~dependency_path_exists(all, c.to, c.from)
    <2> DEFINE near == Reach(cs, c.to)
               beyond == UNION {Reach(cs, d.to) : d \in ds}
    <2>1. c.to \in Package /\ c.from \in Package
      BY <1>3 DEF Constraint
    <2>2. /\ c.to \in near /\ Closed(near, cs) /\ near \subseteq Package /\ c.from \notin near
      BY <1>3, <2>1, ReachIsClosed DEF Acyclic, Reach
    <2>3. CASE p \notin near
      <3>1. Closed(near, all)
        BY <1>1, <2>2, <2>3 DEF Closed
      <3> QED BY <2>2, <3>1 DEF dependency_path_exists
    <2>4. CASE p \in near
      <3>1. ASSUME NEW d \in ds
            PROVE  /\ d.to \in Package /\ d.to \in Reach(cs, d.to)
                   /\ Closed(Reach(cs, d.to), cs) /\ Reach(cs, d.to) \subseteq Package
                   /\ p \notin Reach(cs, d.to)
        <4>1. d.to \in Package
          BY DEF Dependency
        <4> QED BY <4>1, ReachIsClosed DEF Reach
      <3>2. ASSUME NEW d \in ds PROVE c.from \notin Reach(cs, d.to)
        <4>1. SUFFICES ASSUME c.from \in Reach(cs, d.to) PROVE FALSE
          OBVIOUS
        <4>2. c.to \in Reach(cs, d.to)
          BY <3>1, <4>1 DEF Closed
        <4>3. near \subseteq Reach(cs, d.to)
          BY <2>1, <3>1, <4>2, ReachIsClosed
        <4> QED BY <2>4, <3>1, <4>3
      <3> HIDE DEF near
      <3>3. beyond \subseteq Package /\ Closed(beyond, cs) /\ c.from \notin beyond
        BY <3>1, <3>2 DEF Closed
      <3>4. \A e \in From(p, ds) : e.to \in beyond
        BY <3>1 DEF From
      <3> HIDE DEF beyond
      <3>5. Closed(near \cup beyond, all)
        BY <2>2, <3>3, <3>4 DEF Closed
      <3> QED BY <2>2, <3>3, <3>5 DEF dependency_path_exists
    <2> QED BY <2>3, <2>4
  <1> QED BY Zenon, <1>1, <1>2, <1>3 DEF Acyclic

-----------------------------------------------------------------------------
\* The states of the search: what a solution is, except for what is open.
Partial == [constraints : SUBSET Constraint, selected : SUBSET Release]
Solutions == {t \in SUBSET DOMAIN input.releases : Solution(t)}
Sane ==
  {s \in Partial :
    /\ s.selected \subseteq DOMAIN input.releases /\ s.constraints = Asked(s.selected)
    /\ OnePerPackage(s.selected) /\ LedTo(s.selected) /\ Acyclic(Asked(s.selected))
    /\ \A r \in s.selected : Usable(r)}

\* What input is.
LEMMA InputTypes ==
  ASSUME input \in Inputs
  PROVE  /\ DOMAIN input.releases \subseteq Release /\ input.roots \subseteq Dependency
         /\ \A r \in DOMAIN input.releases :
              /\ input.releases[r].dependencies \subseteq Dependency
              /\ r[1] \in Package /\ r[2] \in Version
         /\ Root \notin Package /\ Package \subseteq Nat
         /\ \A p \in Package : input.answer[p] \in {"ok", "failed", "invalid"}
  BY InputsAreInputs DEF IsInput, Release

\* Dependencies become constraints.
LEMMA FromTypes ==
  ASSUME NEW p \in Package \cup {Root}, NEW ds \in SUBSET Dependency
  PROVE  From(p, ds) \subseteq Constraint
  BY DEF From, Dependency, Constraint

\* The constraints of a set of releases.
LEMMA AskedTypes ==
  ASSUME input \in Inputs, NEW sel \in SUBSET DOMAIN input.releases
  PROVE  /\ Asked(sel) \subseteq Constraint
         /\ \A c \in Asked(sel) : c.from # Root => c.from \in Packages(sel)
  <1>1. From(Root, input.roots) \subseteq Constraint
        /\ \A c \in From(Root, input.roots) : c.from = Root
    BY InputTypes, FromTypes DEF From
  <1>2. ASSUME NEW r \in sel
        PROVE  /\ From(r[1], input.releases[r].dependencies) \subseteq Constraint
               /\ \A c \in From(r[1], input.releases[r].dependencies) : c.from = r[1]
    BY InputTypes, FromTypes DEF From
  <1> QED BY <1>1, <1>2 DEF Asked, Packages

LEMMA AskedGrows ==
  ASSUME NEW sel, NEW r
  PROVE  Asked(sel \cup {r}) = Asked(sel) \cup From(r[1], input.releases[r].dependencies)
  BY DEF Asked

LEMMA AskedStays ==
  ASSUME NEW sel, NEW more, sel \subseteq more
  PROVE  Asked(sel) \subseteq Asked(more)
  BY DEF Asked

\* A release that is in a solution passes every check that is made of it when
\* some of the solution is selected.
LEMMA SolutionPasses ==
  ASSUME input \in Inputs, NEW t \in Solutions, NEW sel \in SUBSET t, NEW r \in t
  PROVE  /\ Admissible(r, Asked(sel)) /\ input.releases[r].verdict = "trusted"
         /\ Cyclic(r, Asked(sel)) = {}
  <1>1. /\ t \subseteq DOMAIN input.releases /\ Acyclic(Asked(t)) /\ Usable(r)
        /\ ~ConstraintMismatch(r, Asked(t))
    BY DEF Solutions, Solution
  <1>2. Asked(sel) \subseteq Asked(t) /\ Asked(sel) \subseteq Constraint /\ Asked(t) \subseteq Constraint
    BY <1>1, AskedStays, AskedTypes
  <1>3. Admissible(r, Asked(sel)) /\ input.releases[r].verdict = "trusted"
    BY <1>1, <1>2 DEF Admissible, Usable, ConstraintMismatch
  <1>4. ASSUME NEW d \in input.releases[r].dependencies PROVE ~dependency_path_exists(Asked(sel), d.to, r[1])
    <2> DEFINE c == [from |-> r[1], to |-> d.to, requirement |-> d.requirement]
    <2>1. c \in Asked(t)
      <3>1. c \in From(r[1], input.releases[r].dependencies)
        BY <1>4 DEF From
      <3> QED BY <3>1 DEF Asked
    <2>2. r[1] \in Package /\ d.to \in Package /\ r[1] # Root
      BY <1>1, <1>4, InputTypes DEF Dependency
    <2>3. ~dependency_path_exists(Asked(t), d.to, r[1])
      BY <1>1, <2>1, <2>2 DEF Acyclic
    <2> QED BY <1>2, <2>2, <2>3, PathStays
  <1> QED BY <1>3, <1>4 DEF Cyclic

\* Selecting such a release keeps a state sane.
LEMMA SelectKeeps ==
  ASSUME input \in Inputs, NEW s \in Sane, NEW r \in DOMAIN input.releases, r[1] \in Open(s),
         Usable(r), Cyclic(r, s.constraints) = {}
  PROVE  Next_state(r, s) \in Sane
  <1> DEFINE sel == s.selected
             ds == input.releases[r].dependencies
             new == From(r[1], ds)
  <1>1. /\ sel \subseteq DOMAIN input.releases /\ s.constraints = Asked(sel) /\ OnePerPackage(sel)
        /\ LedTo(sel) /\ Acyclic(Asked(sel)) /\ \A q \in sel : Usable(q)
    BY DEF Sane
  <1>2. r[1] \notin Packages(sel) /\ r[1] \in Targets(Asked(sel)) /\ r[1] \in Package /\ r[1] # Root
        /\ ds \subseteq Dependency
    BY <1>1, InputTypes DEF Open
  <1>3. Added(r, s.constraints) = ds
    BY DEF Added
  <1>4. Asked(sel \cup {r}) = Asked(sel) \cup new
    BY Zenon, AskedGrows
  <1>5. Next_state(r, s) = [constraints |-> Asked(sel \cup {r}), selected |-> sel \cup {r}]
    BY <1>1, <1>3, <1>4 DEF Next_state
  <1>6. sel \cup {r} \subseteq DOMAIN input.releases /\ sel \cup {r} \subseteq Release
    BY <1>1, InputTypes
  <1>7. Asked(sel \cup {r}) \subseteq Constraint /\ Asked(sel) \subseteq Constraint
    BY <1>1, <1>6, AskedTypes
  <1>8. OnePerPackage(sel \cup {r})
    BY <1>1, <1>2 DEF OnePerPackage, Packages
  <1>9. LedTo(sel \cup {r})
    <2> SUFFICES ASSUME NEW set \in SUBSET Package, Targets(From(Root, input.roots)) \subseteq set,
                        Closed(set, Asked(sel \cup {r}))
                 PROVE  Packages(sel \cup {r}) \subseteq set
      BY DEF LedTo
    <2>1. Closed(set, Asked(sel))
      BY <1>4 DEF Closed
    <2>2. Packages(sel) \subseteq set
      BY <1>1, <2>1 DEF LedTo
    <2>3. PICK c \in Asked(sel) : c.to = r[1]
      BY <1>2 DEF Targets
    <2>4. CASE c.from = Root
      <3>1. c \notin UNION {From(q[1], input.releases[q].dependencies) : q \in sel}
        <4> SUFFICES ASSUME NEW q \in sel, c \in From(q[1], input.releases[q].dependencies) PROVE FALSE
          OBVIOUS
        <4>1. q[1] \in Package /\ q[1] # Root
          BY <1>1, InputTypes
        <4> QED BY <2>4, <4>1 DEF From
      <3>2. c \in From(Root, input.roots)
        BY <3>1 DEF Asked
      <3> QED BY <2>2, <2>3, <3>2 DEF Targets, Packages
    <2>5. CASE c.from # Root
      <3>1. c.from \in Packages(sel)
        BY <1>1, <2>5, AskedTypes
      <3>2. r[1] \in set
        BY <2>1, <2>2, <2>3, <3>1 DEF Closed
      <3> QED BY <2>2, <3>2 DEF Packages
    <2> QED BY <2>4, <2>5
  <1>10. Acyclic(Asked(sel \cup {r}))
    <2>1. \A c \in Asked(sel) : c.from # r[1]
      BY <1>1, <1>2, AskedTypes
    <2>2. \A d \in ds : ~dependency_path_exists(Asked(sel), d.to, r[1])
      BY <1>1 DEF Cyclic
    <2>3. new \subseteq Constraint
      BY <1>2, FromTypes
    <2> HIDE DEF ds
    <2>4. Acyclic(Asked(sel) \cup From(r[1], ds))
      BY <1>1, <1>2, <1>7, <2>1, <2>2, <2>3, AcyclicGrows
    <2> QED BY Zenon, <1>4, <2>4
  <1> HIDE DEF sel, new, ds
  <1>11. Next_state(r, s) \in Partial
    BY <1>5, <1>6, <1>7 DEF Partial
  <1>12. \A q \in sel \cup {r} : Usable(q)
    BY <1>1
  <1>13. Next_state(r, s).selected = sel \cup {r} /\ Next_state(r, s).constraints = Asked(sel \cup {r})
    BY <1>5
  <1> QED BY <1>6, <1>8, <1>9, <1>10, <1>11, <1>12, <1>13 DEF Sane

\* A sane state with nothing broken and nothing open is a solution, and the
\* only one that extends it.
LEMMA ClosedIsSolution ==
  ASSUME input \in Inputs, NEW s \in Sane, Broken(s) = {}, Open(s) = {}
  PROVE  Solution(s.selected)
  <1>1. \A r \in s.selected : ~ConstraintMismatch(r, Asked(s.selected))
    BY DEF Broken, Sane
  <1>2. Targets(Asked(s.selected)) \subseteq Packages(s.selected)
    BY DEF Open, Sane
  <1> QED BY <1>1, <1>2 DEF Sane, Solution

LEMMA ClosedIsOnly ==
  ASSUME input \in Inputs, NEW s \in Sane, Open(s) = {}, NEW t \in Solutions, s.selected \subseteq t
  PROVE  t = s.selected
  <1> DEFINE sel == s.selected
             set == Packages(sel)
  <1>1. /\ t \subseteq DOMAIN input.releases /\ sel \subseteq DOMAIN input.releases
        /\ OnePerPackage(t) /\ LedTo(t) /\ Targets(Asked(sel)) \subseteq set
    BY DEF Solutions, Solution, Sane, Open
  <1>2. set \in SUBSET Package
    BY <1>1, InputTypes DEF Packages
  <1>3. Targets(From(Root, input.roots)) \subseteq set
    BY <1>1 DEF Asked, Targets
  <1>4. ASSUME NEW c \in Asked(t), c.from \in set PROVE c.to \in set
    <2>1. c.from # Root
      BY <1>2, <1>4, InputsAreInputs
    <2>2. c \notin From(Root, input.roots)
      BY <2>1 DEF From
    <2>3. PICK r \in t : c \in From(r[1], input.releases[r].dependencies)
      BY <2>2 DEF Asked
    <2>4. c.from = r[1]
      BY <2>3 DEF From
    <2>5. r \in sel
      BY <1>1, <1>4, <2>3, <2>4 DEF OnePerPackage, Packages
    <2>6. c \in Asked(sel)
      BY <2>3, <2>5 DEF Asked
    <2> QED BY <1>1, <2>6 DEF Targets
  <1>5. Packages(t) \subseteq set
    BY <1>1, <1>2, <1>3, <1>4 DEF LedTo, Closed
  <1>6. ASSUME NEW r \in t PROVE r \in sel
    <2>1. PICK q \in sel : q[1] = r[1]
      BY <1>5, <1>6 DEF Packages
    <2> QED BY <1>1, <2>1 DEF OnePerPackage
  <1> QED BY Zenon, <1>6

-----------------------------------------------------------------------------
\* The stack: every frame has selected what the frames below it have tried.
Frame ==
  {f \in [package : Package, state : Partial, left : SUBSET Release, tried : Release \cup {None}] :
     /\ f.state \in Sane /\ Broken(f.state) = {} /\ f.package \in Open(f.state)
     /\ f.left \subseteq Candidates(f.package)}
Chosen(frames, i) == {frames[j].tried : j \in 1..(i - 1)}
Stacks ==
  {frames \in Seq(Frame) :
     \A i \in 1..Len(frames) : frames[i].state.selected = Chosen(frames, i)}
Better == {pair \in Release \X Release : Preferred(pair[1], pair[2])}

\* The inductive invariant of the search.
Located ==
  /\ stack \in Stacks /\ state \in Sane
  /\ pc = "next" => stack # <<>> /\ state = Top.state
  /\ pc # "next" => state.selected = Chosen(stack, Len(stack) + 1)
  /\ pc = "resolved" => Broken(state) = {} /\ Open(state) = {}
InOrder ==
  \A i \in 1..Len(stack) :
    i < Len(stack) \/ pc # "next" => \A r \in stack[i].left : <<stack[i].tried, r>> \in Better
Ahead(t, i) == stack[i].state.selected \subseteq t /\ stack[i].left \cap t # {}
Pending(t) ==
  \/ pc # "next" /\ state.selected \subseteq t
  \/ \E i \in 1..Len(stack) : Ahead(t, i)
Complete == \A t \in Solutions : Pending(t)
Kept ==
  /\ downloads \subseteq state.selected /\ state.selected \subseteq downloads \cup discarded
  /\ verified \subseteq downloads \cup discarded
IInv ==
  /\ input \in Inputs
  /\ pc = "start" => stack = <<>> /\ verified = {} /\ downloads = {}
  /\ Searching => Located /\ InOrder /\ Complete /\ Kept
  /\ pc = "over" /\ outcome = "conflict" => Solutions = {}

\* What the sets above depend on does not change.
LEMMA InputStays ==
  ASSUME input' = input
  PROVE  Solutions' = Solutions /\ Sane' = Sane /\ Frame' = Frame /\ Stacks' = Stacks /\ Better' = Better
  <1>1. Solutions' = Solutions
    BY DEF Solutions, Solution, LedTo, Asked, Usable, Yanked, FrozenMismatch, Replayed
  <1>2. Sane' = Sane
    BY DEF Sane, LedTo, Asked, Usable, Yanked, FrozenMismatch, Replayed
  <1>3. Frame' = Frame
    BY <1>2 DEF Frame, Candidates
  <1>4. Stacks' = Stacks
    BY <1>3 DEF Stacks
  <1>5. Better' = Better
    BY DEF Better, Preferred, Pinned
  <1> QED BY <1>1, <1>2, <1>3, <1>4, <1>5

\* A stack and its parts.
LEMMA StackTypes ==
  ASSUME NEW frames \in Stacks
  PROVE  /\ frames \in Seq(Frame) /\ Len(frames) \in Nat
         /\ \A i \in 1..Len(frames) :
              /\ frames[i] \in Frame /\ frames[i].state.selected = Chosen(frames, i)
              /\ frames[i].state \in Sane /\ frames[i].package \in Open(frames[i].state)
              /\ frames[i].left \subseteq Candidates(frames[i].package)
         /\ frames # <<>> => Len(frames) > 0
  <1>1. frames \in Seq(Frame) /\ Len(frames) \in Nat
    BY DEF Stacks
  <1>2. ASSUME NEW i \in 1..Len(frames)
        PROVE  frames[i] \in Frame /\ frames[i].state.selected = Chosen(frames, i)
    BY <1>1 DEF Stacks
  <1>3. \A f \in Frame : f.state \in Sane /\ f.package \in Open(f.state)
                          /\ f.left \subseteq Candidates(f.package)
    BY DEF Frame
  <1>4. frames # <<>> => Len(frames) > 0
    BY <1>1
  <1> QED BY <1>1, <1>2, <1>3, <1>4

LEMMA ChosenNext ==
  ASSUME NEW frames, NEW i \in Nat \ {0}
  PROVE  Chosen(frames, i + 1) = Chosen(frames, i) \cup {frames[i].tried}
  <1>1. 1..(i + 1 - 1) = (1..(i - 1)) \cup {i}
    OBVIOUS
  <1> QED BY <1>1 DEF Chosen

\* The first frames decide what a frame has selected.
LEMMA ChosenAgree ==
  ASSUME NEW f, NEW g, NEW i \in Nat, \A j \in 1..(i - 1) : f[j].tried = g[j].tried
  PROVE  Chosen(f, i) = Chosen(g, i)
  BY DEF Chosen

\* The frame on top takes a candidate.
LEMMA TakenStack ==
  ASSUME stack \in Stacks, stack # <<>>, NEW r \in Release, Taken(r)
  PROVE  /\ stack' \in Stacks /\ Len(stack') = Len(stack)
         /\ \A i \in 1..(Len(stack) - 1) : stack'[i] = stack[i]
         /\ stack'[Len(stack)].tried = r /\ stack'[Len(stack)].left = Top.left \ {r}
         /\ stack'[Len(stack)].state = Top.state
  <1> DEFINE n == Len(stack)
             top == [Top EXCEPT !.left = Top.left \ {r}, !.tried = r]
  <1>1. n \in Nat /\ n > 0 /\ stack \in Seq(Frame) /\ Top \in Frame
    BY StackTypes DEF Top
  <1>2. /\ top.package = Top.package /\ top.state = Top.state /\ top.left = Top.left \ {r}
        /\ top.tried = r
    BY <1>1 DEF Frame
  <1>3. top \in [package : Package, state : Partial, left : SUBSET Release, tried : Release \cup {None}]
    BY Zenon, <1>1 DEF Frame
  <1>4. top \in Frame
    <2> HIDE DEF top
    <2> QED BY <1>1, <1>2, <1>3 DEF Frame
  <1>5. stack' = [stack EXCEPT ![n] = top]
    BY DEF Taken
  <1> HIDE DEF top
  <1>6. stack' \in Seq(Frame) /\ Len(stack') = n
    BY <1>1, <1>4, <1>5
  <1>7. stack'[n] = top /\ \A i \in 1..(n - 1) : stack'[i] = stack[i]
    BY <1>1, <1>5
  <1>8. ASSUME NEW i \in 1..n PROVE stack'[i].state.selected = Chosen(stack', i)
    <2>1. Chosen(stack', i) = Chosen(stack, i)
      BY <1>1, <1>7, ChosenAgree
    <2>2. stack'[i].state = stack[i].state
      BY <1>1, <1>2, <1>7 DEF Top
    <2> QED BY <1>1, <2>1, <2>2, StackTypes
  <1> QED BY <1>2, <1>6, <1>7, <1>8 DEF Stacks

\* A frame is popped, or pushed.
LEMMA PopStack ==
  ASSUME stack \in Stacks, Len(stack) > 1
  PROVE  /\ Pop \in Stacks /\ Len(Pop) = Len(stack) - 1 /\ Pop # <<>>
         /\ \A i \in 1..(Len(stack) - 1) : Pop[i] = stack[i]
  <1> DEFINE n == Len(stack)
  <1>1. n \in Nat /\ stack \in Seq(Frame)
    BY StackTypes
  <1>2. /\ Pop \in Seq(Frame) /\ Len(Pop) = n - 1 /\ \A i \in 1..(n - 1) : Pop[i] = stack[i]
    BY <1>1 DEF Pop
  <1>3. ASSUME NEW i \in 1..(n - 1) PROVE Pop[i].state.selected = Chosen(Pop, i)
    <2>1. Chosen(Pop, i) = Chosen(stack, i)
      BY <1>1, <1>2, ChosenAgree
    <2> QED BY <1>1, <1>2, <2>1, StackTypes
  <1>4. Pop # <<>>
    BY <1>1, <1>2
  <1> QED BY <1>1, <1>2, <1>3, <1>4 DEF Stacks

LEMMA PushStack ==
  ASSUME stack \in Stacks, NEW f \in Frame, f.state.selected = Chosen(stack, Len(stack) + 1)
  PROVE  LET new == Append(stack, f) IN
         /\ new \in Stacks /\ Len(new) = Len(stack) + 1 /\ new[Len(stack) + 1] = f
         /\ \A i \in 1..Len(stack) : new[i] = stack[i]
  <1> DEFINE n == Len(stack)
             new == Append(stack, f)
  <1>1. n \in Nat /\ stack \in Seq(Frame)
    BY StackTypes
  <1>2. /\ new \in Seq(Frame) /\ Len(new) = n + 1 /\ new[n + 1] = f
        /\ \A i \in 1..n : new[i] = stack[i]
    BY <1>1
  <1> HIDE DEF new
  <1>3. ASSUME NEW i \in 1..(n + 1) PROVE new[i].state.selected = Chosen(new, i)
    <2>1. Chosen(new, i) = Chosen(stack, i)
      BY <1>1, <1>2, ChosenAgree
    <2>2. CASE i = n + 1
      BY <1>2, <2>1, <2>2
    <2>3. CASE i \in 1..n
      BY <1>1, <1>2, <2>1, <2>3, StackTypes
    <2> QED BY <1>1, <2>2, <2>3
  <1> QED BY Zenon, <1>1, <1>2, <1>3 DEF Stacks, new

-----------------------------------------------------------------------------
\* The steps.  One that ends the search, other than with a conflict, keeps the
\* invariant.
LEMMA EndKeeps ==
  ASSUME IInv, input' = input, pc' = "over", outcome' # "conflict"
  PROVE  IInv'
  BY DEF IInv, Searching

\* What a step to "next" has to ensure.
LEMMA NextKeeps ==
  ASSUME IInv, input' = input, pc' = "next", Located', InOrder', Complete', Kept'
  PROVE  IInv'
  BY DEF IInv

\* solve returns None to the last frame.
LEMMA ReturnKeeps ==
  ASSUME IInv, Searching, input' = input, verified' = verified,
         NEW frames \in Stacks, Len(frames) \in 1..Len(stack),
         \A i \in 1..Len(frames) : frames[i] = stack[i],
         state.selected = Chosen(frames, Len(frames) + 1),
         \A t \in Solutions : \E i \in 1..Len(frames) : Ahead(t, i),
         ReturnNone(frames)
  PROVE  IInv'
  <1> DEFINE n == Len(frames)
             last == frames[n]
  <1>1. stack' = frames /\ state' = last.state /\ Discard(last.tried)
        /\ ((pc' = "over" /\ outcome' = "budget") \/ pc' = "next")
    BY DEF ReturnNone, backtrack, End
  <1>2. CASE pc' = "over" /\ outcome' = "budget"
    BY <1>2, EndKeeps
  <1>3. CASE pc' = "next"
    <2>1. Solutions' = Solutions /\ Sane' = Sane /\ Stacks' = Stacks /\ Better' = Better
      BY InputStays
    <2>2. /\ Located /\ InOrder /\ Complete /\ Kept
      BY DEF IInv
    <2>3. /\ n \in Nat \ {0} /\ stack \in Stacks /\ Len(stack) \in Nat
          /\ last.state \in Sane /\ last.state.selected = Chosen(frames, n)
      BY <2>2, StackTypes DEF Located
    <2>4. Chosen(frames, n + 1) = Chosen(frames, n) \cup {last.tried}
      BY <2>3, ChosenNext
    <2>5. Located'
      BY <1>1, <1>3, <2>1, <2>3 DEF Located, Top
    <2>6. InOrder'
      BY <1>1, <1>3, <2>1, <2>2, <2>3 DEF InOrder
    <2>7. Complete'
      <3> SUFFICES ASSUME NEW t \in Solutions PROVE Pending(t)'
        BY <2>1 DEF Complete
      <3>1. PICK i \in 1..n : Ahead(t, i)
        OBVIOUS
      <3>2. Ahead(t, i)'
        BY <1>1, <3>1 DEF Ahead
      <3> QED BY <1>1, <3>2 DEF Pending
    <2>8. Kept'
      BY <1>1, <2>2, <2>3, <2>4 DEF Kept, Discard
    <2> QED BY <1>3, <2>5, <2>6, <2>7, <2>8, NextKeeps
  <1> QED BY <1>1, <1>2, <1>3

\* A candidate that is in no solution is passed over.
LEMMA PassKeeps ==
  ASSUME IInv, NEW r \in Release, Considered(r), Taken(r),
         input' = input, pc' = "next", state' = state, Kept',
         \A t \in Solutions : Top.state.selected \subseteq t => r \notin t
  PROVE  IInv'
  <1> DEFINE n == Len(stack)
  <1>1. Solutions' = Solutions /\ Sane' = Sane /\ Stacks' = Stacks /\ Better' = Better
    BY InputStays
  <1>2. /\ pc = "next" /\ stack # <<>> /\ Located /\ InOrder /\ Complete
    BY DEF IInv, Considered, Searching
  <1>3. stack \in Stacks /\ n \in Nat \ {0} /\ state \in Sane /\ state = Top.state
    BY <1>2, StackTypes DEF Located
  <1>4. /\ stack' \in Stacks /\ Len(stack') = n
        /\ \A i \in 1..(n - 1) : stack'[i] = stack[i]
        /\ stack'[n].tried = r /\ stack'[n].left = Top.left \ {r} /\ stack'[n].state = Top.state
    BY <1>2, <1>3, TakenStack
  <1>5. Located'
    BY <1>1, <1>3, <1>4 DEF Located, Top
  <1>6. InOrder'
    BY <1>1, <1>2, <1>3, <1>4 DEF InOrder
  <1>7. Complete'
    <2> SUFFICES ASSUME NEW t \in Solutions PROVE Pending(t)'
      BY <1>1 DEF Complete
    <2>1. PICK i \in 1..n : Ahead(t, i)
      BY <1>2 DEF Complete, Pending
    <2>2. CASE i \in 1..(n - 1)
      <3>1. Ahead(t, i)'
        BY <1>4, <2>1, <2>2 DEF Ahead
      <3> QED BY <1>4, <3>1 DEF Pending
    <2>3. CASE i = n
      <3>1. Top.state.selected \subseteq t /\ Top.left \cap t # {} /\ r \notin t
        BY <2>1, <2>3 DEF Ahead, Top
      <3>2. Ahead(t, i)'
        BY <1>4, <2>3, <3>1 DEF Ahead
      <3> QED BY <1>4, <3>2 DEF Pending
    <2> QED BY <1>3, <2>2, <2>3
  <1> QED BY <1>5, <1>6, <1>7, NextKeeps

\* resolve_packages
LEMMA StartStep ==
  ASSUME IInv, resolve_packages PROVE IInv'
  <1>1. input' = input /\ stack' = stack /\ downloads' = downloads /\ verified' = verified
        /\ discarded' = discarded /\ stack = <<>> /\ downloads = {} /\ verified = {}
    BY DEF resolve_packages, IInv
  <1>2. CASE pc' = "over" /\ outcome' # "conflict"
    BY <1>1, <1>2, EndKeeps
  <1>3. CASE pc' = "solve" /\ state' = [constraints |-> From(Root, input.roots), selected |-> {}]
    <2>1. Solutions' = Solutions /\ Sane' = Sane /\ Stacks' = Stacks /\ Better' = Better
      BY <1>1, InputStays
    <2>2. input \in Inputs
      BY DEF IInv
    <2>3. state' \in Sane
      <3>1. Asked({}) = From(Root, input.roots)
        BY DEF Asked
      <3>2. Asked({}) \subseteq Constraint
        BY <2>2, AskedTypes
      <3>3. Acyclic(Asked({}))
        BY <3>1 DEF Acyclic, From
      <3>4. LedTo({}) /\ OnePerPackage({})
        BY DEF LedTo, OnePerPackage, Packages
      <3>5. state' \in Partial /\ state'.selected = {} /\ state'.constraints = Asked({})
        BY <1>3, <3>1, <3>2 DEF Partial
      <3> QED BY <3>3, <3>4, <3>5 DEF Sane
    <2>4. <<>> \in Stacks /\ Chosen(<<>>, Len(<<>>) + 1) = {}
      BY DEF Stacks, Chosen
    <2>5. state'.selected = {}
      BY <1>3
    <2>6. Located'
      BY <1>1, <1>3, <2>1, <2>3, <2>4, <2>5 DEF Located
    <2>7. InOrder' /\ Complete' /\ Kept'
      BY <1>1, <1>3, <2>1, <2>5 DEF InOrder, Complete, Pending, Kept
    <2> QED BY <1>1, <1>3, <2>2, <2>6, <2>7 DEF IInv
  <1> QED BY <1>2, <1>3 DEF resolve_packages, End

\* Conflicting: what is selected is at odds with a constraint, so that no
\* solution extends it.
LEMMA ConflictingStep ==
  ASSUME IInv, Conflicting PROVE IInv'
  <1>1. /\ pc = "solve" /\ Broken(state) # {} /\ ReturnNone(stack) /\ stack # <<>>
        /\ input' = input /\ verified' = verified
    BY DEF Conflicting, ReturnNone
  <1>2. input \in Inputs /\ Searching /\ Located /\ Complete
    BY <1>1 DEF IInv, Searching
  <1>3. /\ stack \in Stacks /\ Len(stack) \in Nat \ {0} /\ state \in Sane
        /\ state.selected = Chosen(stack, Len(stack) + 1)
    BY <1>1, <1>2, StackTypes DEF Located
  <1>4. ASSUME NEW t \in Solutions PROVE \E i \in 1..Len(stack) : Ahead(t, i)
    <2>1. PICK r \in state.selected : ConstraintMismatch(r, Asked(state.selected))
      BY <1>1, <1>3 DEF Broken, Sane
    <2>2. ~(state.selected \subseteq t)
      BY <1>2, <2>1, SolutionPasses DEF Admissible
    <2> QED BY <1>2, <2>2 DEF Complete, Pending
  <1> QED BY <1>1, <1>2, <1>3, <1>4, ReturnKeeps

\* Exhausted: the frame on top has nothing left.
LEMMA ExhaustedStep ==
  ASSUME IInv, Exhausted PROVE IInv'
  <1> DEFINE n == Len(stack)
  <1>1. /\ pc = "next" /\ stack # <<>> /\ Top.left = {} /\ ReturnNone(Pop) /\ Pop # <<>>
        /\ input' = input /\ verified' = verified
    BY DEF Exhausted, ReturnNone
  <1>2. Searching /\ Located /\ Complete
    BY <1>1 DEF IInv, Searching
  <1>3. stack \in Stacks /\ n \in Nat \ {0} /\ state = Top.state
    BY <1>1, <1>2, StackTypes DEF Located
  <1>4. n > 1
    BY <1>1, <1>3, StackTypes DEF Pop
  <1>5. /\ Pop \in Stacks /\ Len(Pop) = n - 1 /\ \A i \in 1..(n - 1) : Pop[i] = stack[i]
    BY <1>3, <1>4, PopStack
  <1>6. state.selected = Chosen(Pop, Len(Pop) + 1)
    <2>1. state.selected = Chosen(stack, n)
      BY <1>3, StackTypes DEF Top
    <2>2. Chosen(Pop, n) = Chosen(stack, n)
      BY <1>3, <1>5, ChosenAgree
    <2> QED BY <1>3, <1>5, <2>1, <2>2
  <1>7. ASSUME NEW t \in Solutions PROVE \E i \in 1..Len(Pop) : Ahead(t, i)
    <2>1. PICK i \in 1..n : Ahead(t, i)
      BY <1>1, <1>2 DEF Complete, Pending
    <2>2. i # n
      BY <1>1, <2>1 DEF Ahead, Top
    <2> QED BY <1>3, <1>5, <2>1, <2>2
  <1>8. Len(Pop) \in 1..n
    BY <1>3, <1>4, <1>5
  <1> QED BY <1>1, <1>2, <1>5, <1>6, <1>7, <1>8, ReturnKeeps

\* Conflict: the only frame has nothing left, so that there is no solution.
LEMMA ConflictStep ==
  ASSUME IInv, Conflict PROVE IInv'
  <1>1. pc = "next" /\ Len(stack) = 1 /\ Top.left = {} /\ input' = input /\ pc' = "over"
    BY DEF Conflict, End
  <1>2. Complete
    BY <1>1 DEF IInv, Searching
  <1>3. Solutions = {}
    BY <1>1, <1>2 DEF Complete, Pending, Ahead, Top
  <1> QED BY <1>1, <1>3, InputStays DEF IInv, Searching

\* Solved
LEMMA SolvedStep ==
  ASSUME IInv, Solved PROVE IInv'
  <1>1. /\ pc = "solve" /\ pc' = "resolved" /\ Broken(state) = {} /\ Open(state) = {}
        /\ input' = input /\ state' = state /\ stack' = stack /\ downloads' = downloads
        /\ verified' = verified /\ discarded' = discarded
    BY DEF Solved
  <1>2. input \in Inputs /\ Located /\ InOrder /\ Complete /\ Kept
    BY <1>1 DEF IInv, Searching
  <1>3. Solutions' = Solutions /\ Sane' = Sane /\ Stacks' = Stacks /\ Better' = Better
    BY <1>1, InputStays
  <1>4. Located' /\ InOrder' /\ Kept'
    BY <1>1, <1>2, <1>3 DEF Located, InOrder, Kept
  <1>5. Complete'
    BY <1>1, <1>2, <1>3 DEF Complete, Pending, Ahead
  <1> QED BY <1>1, <1>2, <1>4, <1>5 DEF IInv

\* catalog: the open package gets a frame with all its candidates.
LEMMA CatalogStep ==
  ASSUME IInv, NEW p \in Package, catalog(p) PROVE IInv'
  <1> DEFINE n == Len(stack)
             f == [package |-> p, state |-> state, left |-> Candidates(p), tried |-> None]
  <1>1. /\ pc = "solve" /\ Broken(state) = {} /\ p \in Open(state) /\ input' = input /\ state' = state
        /\ downloads' = downloads /\ verified' = verified /\ discarded' = discarded
    BY DEF catalog
  <1>2. input \in Inputs /\ Located /\ InOrder /\ Complete /\ Kept
    BY <1>1 DEF IInv, Searching
  <1>3. CASE pc' = "over" /\ outcome' # "conflict"
    BY <1>1, <1>3, EndKeeps
  <1>4. CASE pc' = "next" /\ stack' = Append(stack, f)
    <2>1. Solutions' = Solutions /\ Sane' = Sane /\ Stacks' = Stacks /\ Better' = Better
      BY <1>1, InputStays
    <2>2. /\ stack \in Stacks /\ n \in Nat /\ state \in Sane
          /\ state.selected = Chosen(stack, n + 1)
      BY <1>1, <1>2, StackTypes DEF Located
    <2>3. Candidates(p) \subseteq Release /\ state \in Partial
      BY <1>2, <2>2, InputTypes DEF Candidates, Sane
    <2>4. f \in Frame
      BY <1>1, <2>2, <2>3 DEF Frame
    <2>5. /\ stack' \in Stacks /\ Len(stack') = n + 1 /\ stack'[n + 1] = f
          /\ \A i \in 1..n : stack'[i] = stack[i]
      BY <1>4, <2>2, <2>4, PushStack
    <2>6. f.state = state /\ f.left = Candidates(p)
      OBVIOUS
    <2> HIDE DEF f
    <2>7. Located'
      <3>1. stack' # <<>>
        BY <2>2, <2>5
      <3> QED BY <1>1, <1>4, <2>1, <2>2, <2>5, <2>6, <3>1 DEF Located, Top
    <2>8. InOrder'
      <3>1. ASSUME NEW i \in 1..(n + 1), i < n + 1, NEW r \in stack[i].left
            PROVE  <<stack[i].tried, r>> \in Better
        BY ONLY <1>1, <1>2, <2>2, <3>1 DEF InOrder
      <3>2. \A i \in 1..(n + 1) : i < n + 1 => stack'[i] = stack[i]
        BY ONLY <2>2, <2>5
      <3> QED BY ONLY <1>4, <2>1, <2>5, <3>1, <3>2 DEF InOrder
    <2>9. Complete'
      <3> SUFFICES ASSUME NEW t \in Solutions PROVE Pending(t)'
        BY <2>1 DEF Complete
      <3>1. CASE state.selected \subseteq t
        <4>1. t \subseteq DOMAIN input.releases /\ Targets(Asked(t)) \subseteq Packages(t)
          BY DEF Solutions, Solution
        <4>2. p \in Targets(Asked(t))
          BY <1>1, <2>2, <3>1, AskedStays DEF Open, Sane, Targets
        <4>3. Candidates(p) \cap t # {}
          BY <4>1, <4>2 DEF Packages, Candidates
        <4>4. /\ n + 1 \in 1..Len(stack') /\ stack'[n + 1].state.selected \subseteq t
              /\ stack'[n + 1].left \cap t # {}
          BY <2>2, <2>5, <2>6, <3>1, <4>3
        <4> QED BY <4>4 DEF Pending, Ahead
      <3>2. ASSUME NEW i \in 1..n, Ahead(t, i) PROVE Pending(t)'
        <4>1. Ahead(t, i)' /\ i \in 1..(n + 1)
          BY <2>2, <2>5, <3>2 DEF Ahead
        <4> QED BY <2>5, <4>1 DEF Pending
      <3> QED BY <1>2, <3>1, <3>2 DEF Complete, Pending
    <2>10. Kept'
      BY <1>1, <1>2 DEF Kept
    <2> QED BY <1>1, <1>4, <2>7, <2>8, <2>9, <2>10, NextKeeps
  <1>5. input.answer[p] # "conflict"
    BY <1>2, InputTypes
  <1> QED BY <1>3, <1>4, <1>5 DEF catalog, End

\* The steps of the loop share what is known when a candidate is considered.
LEMMA ConsideredFacts ==
  ASSUME IInv, NEW r \in DOMAIN input.releases, Considered(r)
  PROVE  /\ input \in Inputs /\ pc = "next" /\ Located /\ InOrder /\ Complete /\ Kept
         /\ stack \in Stacks /\ stack # <<>> /\ Len(stack) \in Nat \ {0}
         /\ state \in Sane /\ state = Top.state /\ Top.state.constraints = Asked(Top.state.selected)
         /\ Top.state.selected = Chosen(stack, Len(stack))
         /\ r \in Release /\ r \in Top.left /\ r[1] \in Open(Top.state) /\ r \notin state.selected
  <1>1. /\ input \in Inputs /\ pc = "next" /\ Located /\ InOrder /\ Complete /\ Kept /\ stack # <<>>
        /\ r \in Top.left
    BY DEF IInv, Considered, First, Searching
  <1>2. stack \in Stacks /\ Len(stack) \in Nat \ {0} /\ state \in Sane /\ state = Top.state
    BY <1>1, StackTypes DEF Located
  <1>3. Top.state.selected = Chosen(stack, Len(stack)) /\ Top.package \in Open(Top.state)
        /\ Top.left \subseteq Candidates(Top.package)
    BY <1>2, StackTypes DEF Top
  <1>4. r[1] \in Open(Top.state) /\ r \notin state.selected
    BY <1>1, <1>2, <1>3 DEF Candidates, Open, Packages
  <1>5. r \in Release
    BY <1>1, InputTypes
  <1> QED BY <1>1, <1>2, <1>3, <1>4, <1>5 DEF Sane

LEMMA RejectStep ==
  ASSUME IInv, NEW r \in DOMAIN input.releases, Reject(r) PROVE IInv'
  <1>1. /\ Considered(r) /\ ~Admissible(r, Top.state.constraints) /\ Taken(r) /\ input' = input
        /\ pc' = pc /\ state' = state /\ verified' = verified /\ downloads' = downloads
        /\ discarded' = discarded
    BY DEF Reject, Attempted
  <1>2. \A t \in Solutions : Top.state.selected \subseteq t => r \notin t
    BY <1>1, ConsideredFacts, SolutionPasses
  <1>3. Kept'
    BY <1>1, ConsideredFacts DEF Kept
  <1> QED BY <1>1, <1>2, <1>3, ConsideredFacts, PassKeeps

LEMMA IdentityMismatchStep ==
  ASSUME IInv, NEW r \in DOMAIN input.releases, IdentityMismatch(r) PROVE IInv'
  <1>1. /\ Considered(r) /\ input.releases[r].verdict = "mismatched" /\ Taken(r) /\ input' = input
        /\ pc' = pc /\ state' = state /\ verified' = verified \cup {r}
        /\ downloads' = downloads \ {r} /\ discarded' = discarded \cup {r}
    BY DEF IdentityMismatch, verified_candidate, Attempted, Discard
  <1>2. \A t \in Solutions : Top.state.selected \subseteq t => r \notin t
    BY <1>1, ConsideredFacts, SolutionPasses
  <1>3. Kept'
    BY <1>1, ConsideredFacts DEF Kept
  <1> QED BY <1>1, <1>2, <1>3, ConsideredFacts, PassKeeps

LEMMA CycleStep ==
  ASSUME IInv, NEW r \in DOMAIN input.releases, Cycle(r) PROVE IInv'
  <1>1. /\ Considered(r) /\ Cyclic(r, Top.state.constraints) # {} /\ Taken(r) /\ input' = input
        /\ state' = state /\ verified' = verified \cup {r}
        /\ downloads' = downloads \ {r} /\ discarded' = discarded \cup {r} /\ backtrack
    BY DEF Cycle, verified_candidate, Attempted, Held
  <1>2. CASE pc' = "over" /\ outcome' = "budget"
    BY <1>1, <1>2, EndKeeps
  <1>3. CASE pc' = "next"
    <2>1. \A t \in Solutions : Top.state.selected \subseteq t => r \notin t
      BY <1>1, ConsideredFacts, SolutionPasses
    <2>2. Kept'
      BY <1>1, ConsideredFacts DEF Kept
    <2> QED BY <1>1, <1>3, <2>1, <2>2, ConsideredFacts, PassKeeps
  <1> QED BY <1>1, <1>2, <1>3 DEF backtrack, End

\* Select: the solutions that hold the candidate extend the new state; the
\* others remain with the frame.
LEMMA SelectStep ==
  ASSUME IInv, NEW r \in DOMAIN input.releases, Select(r) PROVE IInv'
  <1> DEFINE n == Len(stack)
  <1>1. /\ Considered(r) /\ Admissible(r, Top.state.constraints)
        /\ input.releases[r].verdict = "trusted" /\ Cyclic(r, Top.state.constraints) = {} /\ Taken(r)
        /\ input' = input /\ pc' = "solve" /\ state' = Next_state(r, Top.state)
        /\ verified' = verified \cup {r} /\ downloads' = Held(r) /\ discarded' = discarded
    BY Zenon DEF Select, verified_candidate, Attempted
  <1>2. /\ input \in Inputs /\ pc = "next" /\ InOrder /\ Complete /\ Kept
        /\ stack \in Stacks /\ stack # <<>> /\ n \in Nat \ {0}
        /\ state \in Sane /\ state = Top.state /\ Top.state.selected = Chosen(stack, n)
        /\ r \in Release /\ r \in Top.left /\ r[1] \in Open(Top.state)
    BY <1>1, ConsideredFacts
  <1>3. Solutions' = Solutions /\ Sane' = Sane /\ Stacks' = Stacks /\ Better' = Better
    BY Zenon, <1>1, InputStays
  <1>4. /\ stack' \in Stacks /\ Len(stack') = n
        /\ \A i \in 1..(n - 1) : stack'[i] = stack[i]
        /\ stack'[n].tried = r /\ stack'[n].left = Top.left \ {r} /\ stack'[n].state = Top.state
    BY Zenon, <1>1, <1>2, TakenStack
  <1>5. Usable(r)
    BY Zenon, <1>1 DEF Admissible, Usable
  <1>6. state' \in Sane
    BY Zenon, <1>1, <1>2, <1>5, SelectKeeps
  <1>7. state'.selected = Top.state.selected \cup {r}
    BY Zenon, <1>1 DEF Next_state
  <1>8. Chosen(stack', n + 1) = Top.state.selected \cup {r}
    <2>1. Chosen(stack', n) = Chosen(stack, n)
      BY ONLY <1>2, <1>4, ChosenAgree DEF Chosen
    <2>2. Chosen(stack', n + 1) = Chosen(stack', n) \cup {stack'[n].tried}
      BY ONLY <1>2, ChosenNext
    <2> QED BY ONLY <1>2, <1>4, <2>1, <2>2
  <1>9. Located'
    BY <1>1, <1>3, <1>4, <1>6, <1>7, <1>8 DEF Located
  <1>10. InOrder'
    <2>1. ASSUME NEW q \in Top.left \ {r} PROVE <<r, q>> \in Better
      <3>1. q \in Release
        BY <1>2, StackTypes, InputTypes DEF Top, Candidates
      <3>2. Preferred(r, q)
        BY <1>1 DEF Considered, First
      <3> QED BY <1>2, <3>1, <3>2 DEF Better
    <2>2. ASSUME NEW i \in 1..n, NEW q \in stack'[i].left PROVE <<stack'[i].tried, q>> \in Better
      <3>1. CASE i = n
        BY ONLY <1>4, <2>1, <2>2, <3>1
      <3>2. CASE i \in 1..(n - 1)
        BY ONLY <1>2, <1>4, <2>2, <3>2 DEF InOrder
      <3> QED BY ONLY <1>2, <2>2, <3>1, <3>2
    <2> QED BY ONLY <1>3, <1>4, <2>2 DEF InOrder
  <1>11. Complete'
    <2> SUFFICES ASSUME NEW t \in Solutions PROVE Pending(t)'
      BY <1>3 DEF Complete
    <2>1. PICK i \in 1..n : Ahead(t, i)
      BY <1>2 DEF Complete, Pending
    <2>2. CASE i \in 1..(n - 1)
      <3>1. Ahead(t, i)'
        BY <1>4, <2>1, <2>2 DEF Ahead
      <3> QED BY <1>4, <3>1 DEF Pending
    <2>3. CASE i = n
      <3>1. Top.state.selected \subseteq t /\ Top.left \cap t # {}
        BY <2>1, <2>3 DEF Ahead, Top
      <3>2. CASE r \in t
        BY <1>1, <1>7, <3>1, <3>2 DEF Pending
      <3>3. CASE r \notin t
        <4>1. Ahead(t, i)'
          BY <1>4, <2>3, <3>1, <3>3 DEF Ahead
        <4> QED BY <1>4, <4>1 DEF Pending
      <3> QED BY <3>2, <3>3
    <2> QED BY <1>2, <2>2, <2>3
  <1>12. Kept'
    BY <1>1, <1>2, <1>7 DEF Kept, Held
  <1> QED BY Zenon, <1>1, <1>2, <1>9, <1>10, <1>11, <1>12 DEF IInv

\* The steps of the loop that end the search.
LEMMA TryStep ==
  ASSUME IInv, NEW r \in DOMAIN input.releases, Try(r) PROVE IInv'
  <1>1. ASSUME bump_candidate_attempts(r) \/ Refused(r) \/ add_dependency(r) PROVE IInv'
    <2>1. input' = input /\ pc' = "over" /\ outcome' # "conflict"
      BY Zenon, <1>1 DEF bump_candidate_attempts, Refused, add_dependency, End
    <2> QED BY <2>1, EndKeeps
  <1> QED BY <1>1, RejectStep, IdentityMismatchStep, CycleStep, SelectStep DEF Try

-----------------------------------------------------------------------------
\* The search keeps its invariant.
THEOREM Invariance == Spec => []IInv
  <1>1. Init => IInv
    BY DEF Init, IInv, Searching
  <1>2. IInv /\ [Next]_vars => IInv'
    <2> SUFFICES ASSUME IInv, [Next]_vars PROVE IInv'
      OBVIOUS
    <2>1. CASE push_trace
      <3>1. input' = input /\ pc' = "over" /\ outcome' # "conflict"
        BY <2>1 DEF push_trace, End
      <3> QED BY <3>1, EndKeeps
    <2>2. CASE resolve_online
      <3>1. input' = input /\ pc' = "over" /\ outcome' # "conflict"
        BY <2>2 DEF resolve_online, End
      <3> QED BY <3>1, EndKeeps
    <2>3. CASE UNCHANGED vars
      <3>1. /\ input' = input /\ pc' = pc /\ state' = state /\ stack' = stack /\ outcome' = outcome
            /\ downloads' = downloads /\ verified' = verified /\ discarded' = discarded
        BY <2>3 DEF vars
      <3>2. Solutions' = Solutions /\ Sane' = Sane /\ Stacks' = Stacks /\ Better' = Better
        BY <3>1, InputStays
      <3>3. /\ Located => Located'
            /\ InOrder => InOrder'
            /\ Kept => Kept'
        BY <3>1, <3>2 DEF Located, InOrder, Kept, Top
      <3>4. Complete => Complete'
        BY <3>1, <3>2 DEF Complete, Pending, Ahead
      <3> QED BY <3>1, <3>2, <3>3, <3>4 DEF IInv, Searching
    <2> QED BY <2>1, <2>2, <2>3, StartStep, ConflictingStep, SolvedStep, CatalogStep, TryStep,
               ExhaustedStep, ConflictStep DEF Next
  <1> QED BY <1>1, <1>2, PTL DEF Spec

\* What solve returns is a solution, whatever was tried and given up before:
\* one release of every package the project leads to, wanted by all who ask
\* for it, without a cycle.
THEOREM ResolutionIsSolution == Spec => []ResolvedIsSolution
  <1>1. IInv => ResolvedIsSolution
    BY ClosedIsSolution DEF IInv, Searching, Located, ResolvedIsSolution
  <1> QED BY <1>1, Invariance, PTL

\* Backtracking passes over no solution: when it ends with a conflict there is
\* none.
THEOREM ConflictIsProof == Spec => []ConflictIsReal
  <1>1. IInv => ConflictIsReal
    BY DEF IInv, ConflictIsReal, Solutions
  <1> QED BY <1>1, Invariance, PTL

\* The solution that is found is the first in the order of preference.
THEOREM FirstIsFound == Spec => []NewestFirst
  <1>1. ASSUME IInv PROVE NewestFirst
    <2> SUFFICES ASSUME pc = "resolved", NEW t \in SUBSET DOMAIN input.releases,
                        Solution(t), t # state.selected
                 PROVE  \E i \in DOMAIN stack, r \in t :
                          /\ \A j \in 1..(i - 1) : stack[j].tried \in t
                          /\ r[1] = stack[i].package /\ r # stack[i].tried
                          /\ \/ Before(r[2], stack[i].tried[2])
                             \/ input.mode = "locked" /\ stack[i].tried \in input.locked
      BY DEF NewestFirst
    <2>1. input \in Inputs /\ Located /\ InOrder /\ Complete
      BY <1>1 DEF IInv, Searching
    <2>2. t \in Solutions
      BY DEF Solutions
    <2>3. state \in Sane /\ Open(state) = {} /\ stack \in Stacks
      BY <2>1 DEF Located
    <2>4. ~(state.selected \subseteq t)
      BY <2>1, <2>2, <2>3, ClosedIsOnly
    <2>5. PICK i \in 1..Len(stack) : Ahead(t, i)
      BY <2>1, <2>2, <2>4 DEF Complete, Pending
    <2>6. PICK r \in t : r \in stack[i].left
      BY <2>5 DEF Ahead
    <2>7. i \in DOMAIN stack /\ stack[i].state.selected = Chosen(stack, i)
          /\ stack[i].left \subseteq Candidates(stack[i].package)
      BY <2>3, StackTypes
    <2>8. \A j \in 1..(i - 1) : stack[j].tried \in t
      BY <2>5, <2>7 DEF Ahead, Chosen
    <2>9. <<stack[i].tried, r>> \in Better
      BY <2>1, <2>6 DEF InOrder
    <2>10. stack[i].tried \in Release /\ r \in Release /\ Preferred(stack[i].tried, r)
      BY <2>9 DEF Better
    <2>11. r[1] = stack[i].package
      BY <2>6, <2>7 DEF Candidates
    <2>12. ~Before(r[2], r[2])
      BY <2>10 DEF Before, Release, Version
    <2>13. r # stack[i].tried
      BY <2>10, <2>12 DEF Preferred
    <2>14. \/ Before(r[2], stack[i].tried[2])
           \/ input.mode = "locked" /\ stack[i].tried \in input.locked
      BY <2>10 DEF Preferred, Pinned
    <2> QED BY <2>7, <2>8, <2>11, <2>13, <2>14
  <1> QED BY <1>1, Invariance, PTL

\* A candidate that was given up leaves no constraint behind.
THEOREM NothingLeaks == Spec => []ConstraintsAreAsked
  <1>1. IInv => ConstraintsAreAsked
    <2> SUFFICES ASSUME IInv, Searching PROVE ConstraintsAreAsked
      BY DEF ConstraintsAreAsked
    <2>1. stack \in Stacks /\ state \in Sane
      BY DEF IInv, Located
    <2>2. DOMAIN stack = 1..Len(stack)
      BY <2>1, StackTypes
    <2> QED BY <2>1, <2>2, StackTypes DEF ConstraintsAreAsked, Sane
  <1> QED BY <1>1, Invariance, PTL

-----------------------------------------------------------------------------
\* The budgets.  A state that is within the limit of packages, and a stack of
\* such states; unlike IInv this also holds of a search that is over.
Fitting ==
  {s \in Partial :
     s.selected \subseteq DOMAIN input.releases /\ Cardinality(Targets(s.constraints)) <= input.limits.packages}
Entry ==
  {f \in [package : Package, state : Partial, left : SUBSET Release, tried : Release \cup {None}] :
     /\ f.state \in Fitting /\ f.left \subseteq Candidates(f.package)
     /\ f.tried \in Candidates(f.package) \cup {None}}
Counted ==
  /\ backtracks \in Nat /\ backtracks <= input.limits.backtracks
  /\ candidate_attempts \in Nat /\ candidate_attempts <= input.limits.attempts
  /\ catalog_candidate_count <= input.limits.candidates
Stored ==
  /\ catalogs \subseteq Package /\ verified \subseteq DOMAIN input.releases
  /\ downloads \subseteq verified /\ discarded \subseteq verified /\ mismatch \in BOOLEAN
Within ==
  /\ pc \in {"start", "solve", "next", "resolved", "over"}
  /\ state \in Fitting /\ stack \in Seq(Entry) /\ Counted /\ Stored

\* The empty set has no elements.
LEMMA EmptyCount == Cardinality({}) = 0
  <1> DEFINE Step(f) == [T \in SUBSET {} |-> IF T = {} THEN 0 ELSE 1 + f[T \ {CHOOSE x : x \in T}]]
  <1> DEFINE CS == CHOOSE f : f = Step(f)
  <1>1. \E f : f = Step(f)
    <2>1. [T \in SUBSET {} |-> 0] = Step([T \in SUBSET {} |-> 0])
      OBVIOUS
    <2> QED BY <2>1
  <1>2. CS = Step(CS)
    BY <1>1
  <1>3. Cardinality({}) = CS[{}]
    BY Zenon DEF Cardinality
  <1> HIDE DEF CS
  <1> QED BY <1>2, <1>3

\* What an input is.
LEMMA LimitTypes ==
  ASSUME input \in Inputs
  PROVE  /\ input.limits.packages \in Nat /\ input.limits.candidates \in Nat
         /\ input.limits.attempts \in Nat /\ input.limits.backtracks \in Nat
         /\ DOMAIN input.releases \subseteq Release
  BY InputsAreInputs DEF IsInput, Limits

LEMMA EntryStays ==
  ASSUME input' = input PROVE Fitting' = Fitting /\ Entry' = Entry
  <1>1. Fitting' = Fitting
    BY DEF Fitting
  <1> QED BY <1>1 DEF Entry, Candidates

\* The frame on top takes a candidate of its own.
LEMMA TakenFits ==
  ASSUME stack \in Seq(Entry), stack # <<>>, NEW r \in Release, r \in Top.left, Taken(r)
  PROVE  stack' \in Seq(Entry)
  <1> DEFINE n == Len(stack)
             top == [Top EXCEPT !.left = Top.left \ {r}, !.tried = r]
  <1>1. n \in Nat /\ n > 0 /\ Top \in Entry
    BY DEF Top
  <1>2. /\ top.package = Top.package /\ top.state = Top.state /\ top.left = Top.left \ {r}
        /\ top.tried = r
    BY <1>1 DEF Entry
  <1>3. top \in [package : Package, state : Partial, left : SUBSET Release, tried : Release \cup {None}]
    BY Zenon, <1>1 DEF Entry
  <1>4. stack' = [stack EXCEPT ![n] = top]
    BY DEF Taken
  <1> HIDE DEF top
  <1>5. top \in Entry
    BY <1>1, <1>2, <1>3 DEF Entry
  <1> QED BY <1>1, <1>4, <1>5

\* solve returns None: the budget of backtracks is charged.
LEMMA ReturnFits ==
  ASSUME input \in Inputs, Within, NEW frames \in Seq(Entry), ReturnNone(frames),
         frames[Len(frames)].tried \in verified,
         UNCHANGED <<input, catalogs, verified, catalog_candidate_count, candidate_attempts, mismatch>>
  PROVE  Within'
  <1>1. /\ frames # <<>> /\ stack' = frames /\ state' = frames[Len(frames)].state
        /\ downloads' = downloads \ {frames[Len(frames)].tried}
        /\ discarded' = discarded \cup {frames[Len(frames)].tried} /\ backtrack
    BY DEF ReturnNone, Discard
  <1>2. frames[Len(frames)] \in Entry
    BY <1>1
  <1>3. state' \in Fitting
    BY <1>1, <1>2 DEF Entry
  <1>4. Counted' /\ pc' \in {"next", "over"}
    BY <1>1, LimitTypes DEF backtrack, End, Within, Counted
  <1>5. Stored'
    BY <1>1 DEF Within, Stored
  <1> QED BY <1>1, <1>3, <1>4, <1>5, EntryStays DEF Within

\* What is selected was verified.
LEMMA SelectedIsVerified ==
  ASSUME IInv, Searching, Within PROVE state.selected \subseteq verified
  BY DEF IInv, Kept, Within, Stored

LEMMA ConflictingFits ==
  ASSUME IInv, Within, Conflicting PROVE Within'
  <1>1. /\ pc = "solve" /\ ReturnNone(stack) /\ stack # <<>>
        /\ UNCHANGED <<input, catalogs, verified, catalog_candidate_count, candidate_attempts, mismatch>>
    BY DEF Conflicting, ReturnNone
  <1>2. Searching /\ Located /\ stack \in Seq(Entry) /\ input \in Inputs
    BY <1>1 DEF IInv, Searching, Within
  <1>3. Len(stack) \in Nat \ {0} /\ state.selected = Chosen(stack, Len(stack) + 1)
    BY <1>1, <1>2 DEF Located
  <1>4. stack[Len(stack)].tried \in state.selected
    BY <1>3 DEF Chosen
  <1>5. stack[Len(stack)].tried \in verified
    BY <1>2, <1>4, SelectedIsVerified
  <1> QED BY <1>1, <1>2, <1>5, ReturnFits

LEMMA ExhaustedFits ==
  ASSUME IInv, Within, Exhausted PROVE Within'
  <1> DEFINE n == Len(stack)
  <1>1. /\ pc = "next" /\ stack # <<>> /\ ReturnNone(Pop) /\ Pop # <<>>
        /\ UNCHANGED <<input, catalogs, verified, catalog_candidate_count, candidate_attempts, mismatch>>
    BY DEF Exhausted, ReturnNone
  <1>2. Searching /\ Located /\ stack \in Seq(Entry) /\ input \in Inputs
    BY <1>1 DEF IInv, Searching, Within
  <1>3. stack \in Stacks /\ n \in Nat \ {0} /\ state = Top.state
    BY <1>1, <1>2, StackTypes DEF Located
  <1>4. n > 1
    BY <1>1, <1>3, StackTypes DEF Pop
  <1>5. Pop \in Seq(Entry) /\ Len(Pop) = n - 1 /\ Pop[n - 1] = stack[n - 1]
    BY <1>2, <1>3, <1>4 DEF Pop
  <1>6. state.selected = Chosen(stack, n)
    BY <1>3, StackTypes DEF Top
  <1>7. stack[n - 1].tried \in state.selected
    BY <1>3, <1>4, <1>6 DEF Chosen
  <1>8. Pop[Len(Pop)].tried \in verified
    BY <1>2, <1>5, <1>7, SelectedIsVerified
  <1> QED BY <1>1, <1>2, <1>5, <1>8, ReturnFits

LEMMA StartFits ==
  ASSUME IInv, Within, resolve_packages PROVE Within'
  <1>1. /\ input' = input /\ stack' = stack /\ catalogs' = catalogs /\ verified' = verified
        /\ downloads' = downloads /\ discarded' = discarded /\ mismatch' = mismatch
        /\ backtracks' = backtracks /\ candidate_attempts' = candidate_attempts
        /\ catalog_candidate_count' = catalog_candidate_count
    BY DEF resolve_packages, counters
  <1>2. \/ pc' = "over" /\ state' = state
        \/ /\ pc' = "solve" /\ state' = [constraints |-> From(Root, input.roots), selected |-> {}]
           /\ Cardinality(Targets(From(Root, input.roots))) <= input.limits.packages
    BY DEF resolve_packages, End
  <1>3. Counted' /\ Stored'
    BY <1>1 DEF Within, Counted, Stored
  <1>4. From(Root, input.roots) \subseteq Constraint
    <2>1. input \in Inputs /\ Asked({}) = From(Root, input.roots)
      BY DEF IInv, Asked
    <2> QED BY <2>1, AskedTypes
  <1>5. state' \in Fitting
    <2>1. CASE state' = state
      BY <2>1 DEF Within
    <2>2. CASE /\ state' = [constraints |-> From(Root, input.roots), selected |-> {}]
               /\ Cardinality(Targets(From(Root, input.roots))) <= input.limits.packages
      <3>1. state'.constraints = From(Root, input.roots) /\ state'.selected = {}
        BY <2>2
      <3>2. state' \in Partial
        BY <1>4, <2>2 DEF Partial
      <3>3. Cardinality(Targets(state'.constraints)) <= input.limits.packages
        BY <2>2, <3>1
      <3>4. state'.selected \subseteq DOMAIN input.releases
        BY <3>1
      <3> QED BY <3>2, <3>3, <3>4 DEF Fitting
    <2> QED BY <1>2, <2>1, <2>2
  <1>6. pc' \in {"over", "solve"} /\ stack' \in Seq(Entry) /\ Fitting' = Fitting
    BY <1>1, <1>2 DEF Within, Fitting
  <1> QED BY <1>1, <1>3, <1>5, <1>6, EntryStays DEF Within

LEMMA CatalogFits ==
  ASSUME IInv, Within, NEW p \in Package, catalog(p) PROVE Within'
  <1> DEFINE new == [package |-> p, state |-> state, left |-> Candidates(p), tried |-> None]
  <1>1. /\ input' = input /\ state' = state /\ verified' = verified /\ backtracks' = backtracks
        /\ candidate_attempts' = candidate_attempts /\ mismatch' = mismatch
        /\ downloads' = downloads /\ discarded' = discarded
    BY DEF catalog
  <1>2. \/ /\ pc' = "over" /\ stack' = stack /\ catalogs' = catalogs
           /\ catalog_candidate_count' = catalog_candidate_count
        \/ /\ pc' = "next" /\ stack' = Append(stack, new) /\ catalogs' = catalogs \cup {p}
           /\ catalog_candidate_count' <= input.limits.candidates
    BY DEF catalog, End
  <1>3. Counted' /\ Stored'
    BY <1>1, <1>2 DEF Within, Counted, Stored
  <1>4. Candidates(p) \subseteq Release
    BY LimitTypes DEF IInv, Candidates
  <1>5. new \in Entry
    BY <1>4 DEF Entry, Within, Fitting
  <1> HIDE DEF new
  <1>6. stack' \in Seq(Entry)
    BY <1>2, <1>5 DEF Within
  <1> QED BY <1>1, <1>2, <1>3, <1>6, EntryStays DEF Within

\* A step of the loop that ends the search leaves the state and the stack.
LEMMA TryEndFits ==
  ASSUME IInv, Within, NEW r \in DOMAIN input.releases,
         bump_candidate_attempts(r) \/ Refused(r) \/ add_dependency(r)
  PROVE  Within'
  <1>1. /\ pc' = "over" /\ input' = input /\ state' = state /\ stack' = stack /\ catalogs' = catalogs
        /\ backtracks' = backtracks /\ catalog_candidate_count' = catalog_candidate_count
        /\ mismatch' = mismatch /\ discarded' = discarded
    BY DEF bump_candidate_attempts, Refused, add_dependency, End, counters
  <1>2. \/ verified' = verified /\ downloads' = downloads /\ candidate_attempts' = candidate_attempts
        \/ /\ verified' = verified \cup {r} /\ downloads' \subseteq downloads \cup {r}
           /\ candidate_attempts < input.limits.attempts
           /\ candidate_attempts' = candidate_attempts + 1
    BY DEF bump_candidate_attempts, Refused, add_dependency, counters, verified_candidate, Attempted, Held
  <1>3. Counted'
    BY <1>1, <1>2, LimitTypes DEF Within, Counted, IInv
  <1>4. Stored'
    BY <1>1, <1>2 DEF Within, Stored
  <1> QED BY <1>1, <1>3, <1>4, EntryStays DEF Within

\* A step of the loop that takes a candidate.
LEMMA TryTakeFits ==
  ASSUME IInv, Within, NEW r \in DOMAIN input.releases,
         Reject(r) \/ IdentityMismatch(r) \/ Cycle(r) \/ Select(r)
  PROVE  Within'
  <1>1. /\ Considered(r) /\ Taken(r) /\ input' = input /\ catalogs' = catalogs
        /\ catalog_candidate_count' = catalog_candidate_count
        /\ candidate_attempts < input.limits.attempts
        /\ candidate_attempts' = candidate_attempts + 1
    BY Zenon DEF Reject, IdentityMismatch, Cycle, Select, verified_candidate, Attempted
  <1>2. r \in Release /\ r \in Top.left /\ stack # <<>> /\ pc = "next" /\ state = Top.state
        /\ input \in Inputs
    BY Zenon, <1>1, ConsideredFacts
  <1>3. stack' \in Seq(Entry)
    BY <1>1, <1>2, TakenFits DEF Within
  <1>4. (backtracks' = backtracks /\ pc' \in {pc, "solve"}) \/ backtrack
    BY Zenon DEF Reject, IdentityMismatch, Cycle, Select
  <1>5. Counted' /\ pc' \in {"next", "solve", "over"}
    <2>1. /\ backtracks \in Nat /\ backtracks <= input.limits.backtracks /\ candidate_attempts \in Nat
          /\ catalog_candidate_count <= input.limits.candidates
      BY DEF Within, Counted
    <2>2. input.limits.attempts \in Nat /\ input.limits.backtracks \in Nat
      BY <1>2, LimitTypes
    <2>3. candidate_attempts' \in Nat /\ candidate_attempts' <= input.limits.attempts
      BY <1>1, <2>1, <2>2
    <2>4. /\ backtracks' \in Nat /\ backtracks' <= input.limits.backtracks
          /\ pc' \in {"next", "solve", "over"}
      <3>1. CASE backtracks' = backtracks /\ pc' \in {pc, "solve"}
        BY <1>2, <2>1, <3>1
      <3>2. CASE backtrack
        <4>1. \/ pc' = "over" /\ backtracks' = backtracks
              \/ pc' = "next" /\ backtracks < input.limits.backtracks /\ backtracks' = backtracks + 1
          BY <3>2 DEF backtrack, End
        <4> QED BY <2>1, <2>2, <4>1
      <3> QED BY <1>4, <3>1, <3>2
    <2> QED BY <1>1, <2>1, <2>3, <2>4 DEF Counted
  <1>6. Stored'
    <2>1. CASE Reject(r)
      <3>1. verified' = verified /\ downloads' = downloads /\ discarded' = discarded
            /\ mismatch' = (mismatch \/ FrozenMismatch(r))
        BY <2>1 DEF Reject
      <3>2. mismatch' \in BOOLEAN
        BY <3>1
      <3> QED BY Zenon, <1>1, <3>1, <3>2 DEF Within, Stored
    <2>2. CASE IdentityMismatch(r) \/ Cycle(r) \/ Select(r)
      <3>1. /\ verified' = verified \cup {r} /\ downloads' \subseteq downloads \cup {r}
            /\ discarded' \subseteq discarded \cup {r} /\ mismatch' = mismatch
        BY Zenon, <2>2 DEF IdentityMismatch, Cycle, Select, verified_candidate, Discard, Held
      <3> QED BY <1>1, <3>1 DEF Within, Stored
    <2> QED BY <2>1, <2>2
  <1>7. state' \in Fitting
    <2>1. CASE state' = state
      BY <2>1 DEF Within
    <2>2. CASE Select(r)
      <3>1. state' = Next_state(r, state) /\ Size(r, state) <= input.limits.packages
        BY Zenon, <1>2, <2>2 DEF Select
      <3>2. Cardinality(Targets(state'.constraints)) <= input.limits.packages
        BY <3>1 DEF Size
      <3>3. r[1] \in Package /\ Added(r, state.constraints) \subseteq Dependency
        BY <1>2, InputTypes DEF Added
      <3>4. From(r[1], Added(r, state.constraints)) \subseteq Constraint
        BY <3>3, FromTypes
      <3>5. state \in Partial /\ state.selected \subseteq DOMAIN input.releases
        BY DEF Within, Fitting
      <3>6. state' \in Partial /\ state'.selected \subseteq DOMAIN input.releases
        BY <1>2, <3>1, <3>4, <3>5 DEF Next_state, Partial
      <3> QED BY <3>2, <3>6 DEF Fitting
    <2> QED BY Zenon, <2>1, <2>2 DEF Reject, IdentityMismatch, Cycle
  <1> QED BY <1>1, <1>3, <1>5, <1>6, <1>7, EntryStays DEF Within

\* The other steps leave the state, and all that is counted.
LEMMA OtherFits ==
  ASSUME IInv, Within, Solved \/ Conflict \/ push_trace \/ resolve_online \/ UNCHANGED vars
  PROVE  Within'
  <1>1. /\ input' = input /\ state' = state /\ catalogs' = catalogs /\ verified' = verified
        /\ backtracks' = backtracks /\ candidate_attempts' = candidate_attempts
        /\ catalog_candidate_count' = catalog_candidate_count /\ mismatch' = mismatch
        /\ discarded' = discarded /\ downloads' \subseteq downloads
    BY Zenon DEF Solved, Conflict, push_trace, resolve_online, vars, counters
  <1>2. stack' \in {stack, <<>>} /\ pc' \in {pc, "resolved", "over"}
    BY Zenon DEF Solved, Conflict, push_trace, resolve_online, vars, End
  <1>3. Counted' /\ Stored'
    BY <1>1 DEF Within, Counted, Stored
  <1>4. <<>> \in Seq(Entry)
    OBVIOUS
  <1> QED BY Zenon, <1>1, <1>2, <1>3, <1>4, EntryStays DEF Within

LEMMA BudgetInvariance == Spec => []Within
  <1>1. Init => Within
    <2> SUFFICES ASSUME Init PROVE Within
      OBVIOUS
    <2>1. input \in Inputs /\ state = Empty /\ stack = <<>>
      BY DEF Init
    <2>2. Counted
      <3>1. backtracks = 0 /\ candidate_attempts = 0 /\ catalog_candidate_count = 0
        BY DEF Init
      <3> QED BY <2>1, <3>1, LimitTypes DEF Counted
    <2>3. Stored
      BY Zenon DEF Init, Stored
    <2>4. state \in Fitting
      <3>1. state \in Partial /\ state.selected = {} /\ state.constraints = {}
        BY <2>1 DEF Partial, Empty
      <3>2. Cardinality(Targets(state.constraints)) = 0
        BY <3>1, EmptyCount DEF Targets
      <3>3. Cardinality(Targets(state.constraints)) <= input.limits.packages
        BY <2>1, <3>2, LimitTypes
      <3>4. state.selected \subseteq DOMAIN input.releases
        BY <3>1
      <3> QED BY <3>1, <3>3, <3>4 DEF Fitting
    <2>5. <<>> \in Seq(Entry)
      OBVIOUS
    <2> QED BY <2>1, <2>2, <2>3, <2>4, <2>5 DEF Within, Init
  <1>2. IInv /\ Within /\ [Next]_vars => Within'
    BY StartFits, ConflictingFits, CatalogFits, TryEndFits, TryTakeFits, ExhaustedFits, OtherFits
       DEF Next, Try
  <1> QED BY <1>1, <1>2, Invariance, PTL DEF Spec

\* No budget is exceeded, and the source holds the artifacts of what is selected
\* and of nothing else, but for what was discarded and selected again.
THEOREM BudgetsAreKept == Spec => []WithinBudgets
  <1>1. IInv /\ Within => WithinBudgets
    BY Zenon DEF IInv, Kept, Within, Counted, Fitting, WithinBudgets
  <1> QED BY <1>1, Invariance, BudgetInvariance, PTL

\* Every variable keeps its type, and what is held or released was verified.
THEOREM TypesHold == Spec => []TypeOK
  <1>1. Within => TypeOK
    <2> SUFFICES ASSUME Within PROVE TypeOK
      OBVIOUS
    <2>1. \A i \in DOMAIN stack : stack[i] \in Entry
      BY DEF Within
    <2> QED BY Zenon, <2>1 DEF Within, Stored, TypeOK, Fitting, Partial, Entry
  <1> QED BY <1>1, BudgetInvariance, PTL
=============================================================================
