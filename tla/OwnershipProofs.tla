-------------------------- MODULE OwnershipProofs --------------------------
(***************************************************************************)
(* Proofs about Ownership, for every set of identities and every depth.    *)
(* The inductive invariant is the conjunction of the properties the runs   *)
(* check: none of them is inductive alone.  Forest needs the has_ancestor  *)
(* guard of attach_child; UniqueHome needs aggregates to fall as a whole,  *)
(* which is the closure of Subtree; NoLeak follows from the two together.  *)
(***************************************************************************)
EXTENDS Ownership, TLAPS

IInv ==
    /\ TypeOK
    /\ UniqueHome
    /\ Forest
    /\ OneOwnerPerAllocation
    /\ BorrowDiscipline
    /\ ResourceHome

-----------------------------------------------------------------------------
(* Aggregates                                                              *)

\* Subtree(R) contains its roots and every child of its members: this is the
\* set that the recursion of drop_owner visits.
LEMMA SubtreeClosed ==
    ASSUME NEW R \in SUBSET Owner
    PROVE  /\ R \subseteq Subtree(R)
           /\ Subtree(R) \subseteq Owner
           /\ ClosedUnderChildren(Subtree(R))
<1>1. R \subseteq Subtree(R) /\ Subtree(R) \subseteq Owner
  BY DEF Subtree
<1>2. ASSUME NEW o \in Owner, parent[o] \in Subtree(R)
      PROVE  o \in Subtree(R)
  <2>1. SUFFICES ASSUME NEW S \in SUBSET Owner, R \subseteq S, ClosedUnderChildren(S)
                 PROVE  o \in S
    BY DEF Subtree
  <2>2. parent[o] \in S
    BY <1>2, <2>1 DEF Subtree
  <2> QED BY <2>1, <2>2 DEF ClosedUnderChildren
<1> QED BY <1>1, <1>2 DEF ClosedUnderChildren

\* Subtree(R) is the least such set.
LEMMA SubtreeLeast ==
    ASSUME NEW R \in SUBSET Owner, NEW S \in SUBSET Owner,
           R \subseteq S, ClosedUnderChildren(S)
    PROVE  Subtree(R) \subseteq S
BY DEF Subtree

\* The aggregates below active owners contain active owners only: the
\* recursion of drop_owner meets no moved or dropped child.
LEMMA SubtreeActive ==
    ASSUME TypeOK, UniqueHome, NEW R \in SUBSET Owner, \A o \in R : Active(o)
    PROVE  \A o \in Subtree(R) : Active(o)
<1> DEFINE A == {o \in Owner : Active(o)}
<1>1. ClosedUnderChildren(A)
  BY NoneIsNoOwner DEF ClosedUnderChildren, UniqueHome, TypeOK
<1>2. R \subseteq A
  OBVIOUS
<1>3. Subtree(R) \subseteq A
  <2> HIDE DEF A
  <2>1. A \in SUBSET Owner BY DEF A
  <2> QED BY <1>1, <1>2, <2>1, SubtreeLeast
<1> QED BY <1>3

-----------------------------------------------------------------------------
(* The inductive invariant                                                 *)

\* LifecycleRuntime::new starts in the invariant.
LEMMA InitIInv == Init => IInv
BY NoneIsNoOwner
   DEF Init, IInv, TypeOK, UniqueHome, Forest, OneOwnerPerAllocation, BorrowDiscipline,
       ResourceHome, Active, OwnerStatus, ResourceStatus

\* Destroying a closed set of active, unborrowed owners keeps the ownership
\* part of the invariant, whatever scope the roots were in.
LEMMA DestroyKeeps ==
    ASSUME TypeOK, UniqueHome, Forest, OneOwnerPerAllocation,
           NEW D \in SUBSET Owner, ClosedUnderChildren(D),
           \A o \in D : Active(o),
           Destroy(D)
    PROVE  /\ status' \in [Owner -> OwnerStatus]
           /\ parent' \in [Owner -> Owner \cup {None}]
           /\ scope' \in [Owner -> Nat]
           /\ allocation' \in [Owner -> Allocation \cup {None}]
           /\ allocations' \subseteq Allocation
           /\ Forest'
           /\ OneOwnerPerAllocation'
           /\ \A o \in Owner :
                 IF o \in D
                 THEN ~Active(o)' /\ parent'[o] = None /\ scope'[o] = 0
                 ELSE /\ Active(o)' <=> Active(o)
                      /\ parent'[o] = parent[o] /\ scope'[o] = scope[o]
                      /\ parent[o] \notin D
<1>1. /\ status' \in [Owner -> OwnerStatus]
      /\ parent' \in [Owner -> Owner \cup {None}]
      /\ scope' \in [Owner -> Nat]
      /\ allocation' \in [Owner -> Allocation \cup {None}]
      /\ allocations' \subseteq Allocation
  BY DEF Destroy, TypeOK, OwnerStatus
<1>2. \A o \in Owner :
         IF o \in D
         THEN ~Active(o)' /\ parent'[o] = None /\ scope'[o] = 0
         ELSE /\ Active(o)' <=> Active(o)
              /\ parent'[o] = parent[o] /\ scope'[o] = scope[o]
              /\ parent[o] \notin D
  BY DEF Destroy, TypeOK, Active, ClosedUnderChildren
<1>3. Forest'
  <2>1. SUFFICES ASSUME NEW S \in SUBSET Owner, S # {}
                 PROVE  \E o \in S : parent'[o] \notin S
    BY DEF Forest
  <2>2. CASE \E o \in S : o \in D
    BY <1>2, <2>2, NoneIsNoOwner
  <2>3. CASE \A o \in S : o \notin D
    BY <1>2, <2>1, <2>3 DEF Forest
  <2> QED BY <2>2, <2>3
<1>4. OneOwnerPerAllocation'
  <2>1. /\ allocation' = allocation
        /\ allocations' = allocations \ {allocation[o] : o \in D}
    BY DEF Destroy
  <2>2. \A o, p \in Owner :
           Active(o)' /\ Active(p)' /\ allocation'[o] = allocation'[p] => o = p
    BY <1>2, <2>1 DEF OneOwnerPerAllocation
  <2>3. allocations' = {allocation'[o] : o \in {x \in Owner : Active(x)'}}
    <3>1. ASSUME NEW a, a \in allocations'
          PROVE  \E o \in Owner : Active(o)' /\ a = allocation[o]
      BY <1>2, <2>1, <3>1 DEF OneOwnerPerAllocation
    <3>2. ASSUME NEW o \in Owner, Active(o)'
          PROVE  allocation[o] \in allocations'
      <4>1. o \notin D /\ Active(o)
        BY <1>2, <3>2
      <4>2. allocation[o] \in allocations
        BY <4>1 DEF OneOwnerPerAllocation
      <4>3. \A p \in D : allocation[p] # allocation[o]
        BY <4>1 DEF OneOwnerPerAllocation
      <4> QED BY <2>1, <4>2, <4>3
    <3> QED BY <2>1, <3>1, <3>2
  <2> QED BY <2>2, <2>3 DEF OneOwnerPerAllocation
<1> QED BY <1>1, <1>2, <1>3, <1>4

\* allocate, which also ends clone_value, keeps the invariant.
LEMMA AllocateKeeps ==
    ASSUME IInv, NEW o \in Owner, NEW a \in Allocation, Allocate(o, a)
    PROVE  IInv'
<1> USE DEF IInv
<1>1. TypeOK'
  BY DEF Allocate, TypeOK, OwnerStatus, resourceVars
<1>2. UniqueHome'
  BY DEF Allocate, TypeOK, UniqueHome, Active
<1>3. Forest'
  BY DEF Allocate, Forest
<1>4. OneOwnerPerAllocation'
  <2>1. \A x \in Owner : Active(x)' <=> Active(x) \/ x = o
    BY DEF Allocate, TypeOK, Active
  <2>2. \A x \in Owner : allocation'[x] = IF x = o THEN a ELSE allocation[x]
    BY DEF Allocate, TypeOK
  <2>3. ~Active(o) /\ \A x \in Owner : allocation[x] # a
    BY DEF Allocate, Active
  <2>4. allocations' = allocations \cup {a}
    BY DEF Allocate
  <2>5. \A x, y \in Owner :
           Active(x)' /\ Active(y)' /\ allocation'[x] = allocation'[y] => x = y
    BY <2>1, <2>2, <2>3 DEF OneOwnerPerAllocation
  <2>6. allocations' = {allocation'[x] : x \in {y \in Owner : Active(y)'}}
    BY <2>1, <2>2, <2>3, <2>4 DEF OneOwnerPerAllocation
  <2> QED BY <2>5, <2>6 DEF OneOwnerPerAllocation
<1>5. BorrowDiscipline' /\ ResourceHome'
  BY DEF Allocate, TypeOK, BorrowDiscipline, ResourceHome, Active, resourceVars
<1> QED BY <1>1, <1>2, <1>3, <1>4, <1>5

\* move_value keeps the invariant: the new owner takes over every link.
LEMMA MoveValueKeeps ==
    ASSUME IInv, NEW source \in Owner, NEW moved \in Owner, MoveValue(source, moved)
    PROVE  IInv'
<1> USE DEF IInv
<1>1. TypeOK'
  BY DEF MoveValue, TypeOK, OwnerStatus, resourceVars
<1>2. /\ source # moved /\ Active(source) /\ ~Active(moved)
      /\ \A o \in Owner : Active(o)' <=> (o = moved \/ (o # source /\ Active(o)))
  BY DEF MoveValue, TypeOK, Active
<1>3. \A o \in Owner : parent'[o] = IF o = moved THEN parent[source]
                                    ELSE IF o = source THEN None
                                    ELSE IF parent[o] = source THEN moved
                                    ELSE parent[o]
  BY DEF MoveValue
<1>4. \A o \in Owner : scope'[o] = IF o = moved THEN scope[source]
                                   ELSE IF o = source THEN 0 ELSE scope[o]
  BY <1>2 DEF MoveValue, TypeOK
<1>5. parent[source] # source
  <2>1. {source} \in SUBSET Owner /\ {source} # {}
    OBVIOUS
  <2> QED BY Zenon, <2>1 DEF Forest
<1>6. \A o \in Owner : parent[o] # moved
  BY <1>2, NoneIsNoOwner DEF UniqueHome, TypeOK
<1>7. UniqueHome'
  <2>1. SUFFICES ASSUME NEW o \in Owner
                 PROVE  (IF Active(o)
                         THEN \/ parent[o] = None /\ scope[o] \in 1..depth
                              \/ parent[o] \in Owner /\ Active(parent[o]) /\ scope[o] = 0
                         ELSE parent[o] = None /\ scope[o] = 0)'
    BY DEF UniqueHome
  <2>2. depth' = depth
    BY DEF MoveValue
  <2>3. CASE o = moved
    BY <1>2, <1>3, <1>4, <1>5, <2>2, <2>3 DEF UniqueHome
  <2>4. CASE o = source
    BY <1>2, <1>3, <1>4, <2>4
  <2>5. CASE o # moved /\ o # source
    <3>1. CASE parent[o] = source
      BY <1>2, <1>3, <1>4, <2>2, <2>5, <3>1, NoneIsNoOwner DEF UniqueHome
    <3>2. CASE parent[o] # source
      BY <1>2, <1>3, <1>4, <1>6, <2>2, <2>5, <3>2, NoneIsNoOwner DEF UniqueHome
    <3> QED BY <3>1, <3>2
  <2> QED BY <2>3, <2>4, <2>5
<1>8. Forest'
  <2>1. SUFFICES ASSUME NEW S \in SUBSET Owner, S # {}, \A o \in S : parent'[o] \in S
                 PROVE  FALSE
    BY DEF Forest
  <2>2. source \notin S
    BY <1>2, <1>3, <2>1, NoneIsNoOwner
  <2> DEFINE T == {o \in Owner : (o \in S /\ o # moved) \/ (o = source /\ moved \in S)}
  <2>3. T # {}
    BY <2>1
  <2>4. ASSUME NEW o \in T PROVE parent[o] \in T
    <3>1. CASE o = source /\ moved \in S
      BY <1>2, <1>3, <1>6, <2>1, <2>2, <3>1
    <3>2. CASE o \in S /\ o # moved /\ parent[o] = source
      BY <1>3, <2>1, <2>2, <3>2
    <3>3. CASE o \in S /\ o # moved /\ parent[o] # source
      BY <1>3, <1>6, <2>1, <2>2, <3>3
    <3> QED BY <3>1, <3>2, <3>3
  <2>5. T \in SUBSET Owner
    OBVIOUS
  <2> HIDE DEF T
  <2> QED BY <2>3, <2>4, <2>5 DEF Forest
<1>9. OneOwnerPerAllocation'
  <2>1. \A o \in Owner : allocation'[o] = IF o = moved THEN allocation[source] ELSE allocation[o]
    BY DEF MoveValue, TypeOK
  <2>2. allocations' = allocations
    BY DEF MoveValue
  <2>3. \A x, y \in Owner :
           Active(x)' /\ Active(y)' /\ allocation'[x] = allocation'[y] => x = y
    BY <1>2, <2>1 DEF OneOwnerPerAllocation
  <2>4. allocations' = {allocation'[x] : x \in {y \in Owner : Active(y)'}}
    <3>1. ASSUME NEW a, a \in allocations
          PROVE  \E x \in Owner : Active(x)' /\ a = allocation'[x]
      <4>1. PICK x \in Owner : Active(x) /\ a = allocation[x]
        BY <3>1 DEF OneOwnerPerAllocation
      <4>2. CASE x = source
        BY <1>2, <2>1, <4>1, <4>2
      <4>3. CASE x # source
        BY <1>2, <2>1, <4>1, <4>3
      <4> QED BY <4>2, <4>3
    <3>2. ASSUME NEW x \in Owner, Active(x)'
          PROVE  allocation'[x] \in allocations
      BY <1>2, <2>1, <3>2 DEF OneOwnerPerAllocation
    <3> QED BY <2>2, <3>1, <3>2
  <2> QED BY <2>3, <2>4 DEF OneOwnerPerAllocation
<1>10. BorrowDiscipline'
  <2>1. \A b \in borrows : b.owner \in Owner /\ b.owner # source
    BY DEF MoveValue, Borrowed, TypeOK
  <2> QED BY <1>2, <2>1 DEF MoveValue, BorrowDiscipline
<1>11. ResourceHome'
  BY DEF MoveValue, ResourceHome, resourceVars
<1> QED BY <1>1, <1>7, <1>8, <1>9, <1>10, <1>11

\* attach_child keeps the invariant: its cycle check keeps the forest.
LEMMA AttachChildKeeps ==
    ASSUME IInv, NEW p \in Owner, NEW c \in Owner, AttachChild(p, c)
    PROVE  IInv'
<1> USE DEF IInv
<1>1. TypeOK'
  BY DEF AttachChild, TypeOK, resourceVars
<1>2. \A o \in Owner : /\ Active(o)' <=> Active(o)
                       /\ parent'[o] = IF o = c THEN p ELSE parent[o]
                       /\ scope'[o] = IF o = c THEN 0 ELSE scope[o]
  BY DEF AttachChild, TypeOK, Active
<1>3. Active(p) /\ Active(c) /\ depth' = depth
  BY DEF AttachChild
<1>4. UniqueHome'
  BY <1>2, <1>3 DEF UniqueHome
<1>5. Forest'
  <2>1. SUFFICES ASSUME NEW S \in SUBSET Owner, S # {}, \A o \in S : parent'[o] \in S
                 PROVE  FALSE
    BY DEF Forest
  <2>2. CASE c \notin S
    BY <1>2, <2>1, <2>2 DEF Forest
  <2>3. CASE c \in S
    <3> DEFINE T == S \ Subtree({c})
    <3>1. p \in T
      BY <1>2, <2>1, <2>3 DEF AttachChild
    <3>2. c \in Subtree({c}) /\ ClosedUnderChildren(Subtree({c}))
      BY SubtreeClosed
    <3>3. \A o \in T : parent[o] \in T
      BY <1>2, <2>1, <3>2 DEF ClosedUnderChildren
    <3>4. T \in SUBSET Owner
      OBVIOUS
    <3> QED BY Zenon, <3>1, <3>3, <3>4 DEF Forest
  <2> QED BY <2>2, <2>3
<1>6. OneOwnerPerAllocation'
  BY DEF AttachChild, OneOwnerPerAllocation, Active
<1>7. BorrowDiscipline' /\ ResourceHome'
  BY DEF AttachChild, BorrowDiscipline, ResourceHome, Active, resourceVars
<1> QED BY <1>1, <1>4, <1>5, <1>6, <1>7

\* borrow and end_borrow keep the invariant.
LEMMA BorrowKeeps ==
    ASSUME IInv,
           \/ \E o \in Owner, b \in Borrow, m \in Mode : BeginBorrow(o, b, m)
           \/ \E b \in Borrow : EndBorrow(b)
    PROVE  IInv'
<1> USE DEF IInv, ownerVars, resourceVars
<1>1. CASE \E b \in Borrow : EndBorrow(b)
  BY <1>1 DEF EndBorrow, TypeOK, UniqueHome, Forest, OneOwnerPerAllocation,
              BorrowDiscipline, ResourceHome, Active
<1>2. CASE \E o \in Owner, b \in Borrow, m \in Mode : BeginBorrow(o, b, m)
  <2>1. PICK o \in Owner, b \in Borrow, m \in Mode : BeginBorrow(o, b, m)
    BY <1>2
  <2>2. TypeOK' /\ UniqueHome' /\ Forest' /\ OneOwnerPerAllocation' /\ ResourceHome'
    BY <2>1 DEF BeginBorrow, TypeOK, UniqueHome, Forest, OneOwnerPerAllocation,
                ResourceHome, Active
  <2>3. BorrowDiscipline'
    <3> DEFINE new == [id |-> b, owner |-> o, mode |-> m]
    <3>1. borrows' = borrows \cup {new} /\ status' = status /\ Active(o)
      BY <2>1 DEF BeginBorrow
    <3>2. \A x \in borrows : x.owner = o => x.mode = "Shared" /\ m # "Mutable"
      BY <2>1 DEF BeginBorrow, Borrowed
    <3>3. new.owner = o /\ new.mode = m
      OBVIOUS
    <3> HIDE DEF new
    <3>4. ASSUME NEW x \in borrows', NEW y \in borrows',
                 x.mode = "Mutable", y.owner = x.owner
          PROVE  y = x
      BY <3>1, <3>2, <3>3, <3>4 DEF BorrowDiscipline
    <3>5. \A x \in borrows' : Active(x.owner)'
      BY <3>1, <3>3 DEF BorrowDiscipline, Active
    <3> QED BY <3>4, <3>5 DEF BorrowDiscipline
  <2> QED BY <2>2, <2>3
<1> QED BY <1>1, <1>2

\* drop_value keeps the invariant.
LEMMA DropValueKeeps ==
    ASSUME IInv, NEW r \in Owner, DropValue(r)
    PROVE  IInv'
<1> DEFINE D == Subtree({r})
<1> USE DEF IInv
<1>1. /\ D \in SUBSET Owner /\ ClosedUnderChildren(D) /\ r \in D
      /\ \A o \in D : Active(o)
  BY SubtreeClosed, SubtreeActive DEF DropValue
<1>2. Destroy(D) /\ \A o \in D : ~Borrowed(o)
  BY DEF DropValue
<1>3. borrows' = borrows /\ rstatus' = rstatus /\ rscope' = rscope /\ depth' = depth
  BY DEF DropValue, resourceVars
<1> HIDE DEF D
<1>4. /\ status' \in [Owner -> OwnerStatus]
      /\ parent' \in [Owner -> Owner \cup {None}]
      /\ scope' \in [Owner -> Nat]
      /\ allocation' \in [Owner -> Allocation \cup {None}]
      /\ allocations' \subseteq Allocation
      /\ Forest'
      /\ OneOwnerPerAllocation'
      /\ \A o \in Owner :
            IF o \in D
            THEN ~Active(o)' /\ parent'[o] = None /\ scope'[o] = 0
            ELSE /\ Active(o)' <=> Active(o)
                 /\ parent'[o] = parent[o] /\ scope'[o] = scope[o]
                 /\ parent[o] \notin D
  BY <1>1, <1>2, DestroyKeeps
<1>5. TypeOK'
  BY <1>3, <1>4 DEF TypeOK
<1>6. UniqueHome'
  BY <1>3, <1>4 DEF UniqueHome
<1>7. BorrowDiscipline'
  <2>1. \A b \in borrows : b.owner \in Owner /\ b.owner \notin D
    BY <1>2 DEF Borrowed, TypeOK
  <2> QED BY <1>3, <1>4, <2>1 DEF BorrowDiscipline
<1>8. ResourceHome'
  BY <1>3 DEF ResourceHome
<1> QED BY <1>4, <1>5, <1>6, <1>7, <1>8

\* exit_scope keeps the invariant: nothing is left of the scope it pops.
LEMMA ExitScopeKeeps ==
    ASSUME IInv, ExitScope
    PROVE  IInv'
<1> DEFINE D == Subtree(InnermostEntries)
<1> USE DEF IInv
<1>1. InnermostEntries \in SUBSET Owner /\ \A o \in InnermostEntries : Active(o)
  BY DEF InnermostEntries, ExitScope, UniqueHome, TypeOK
<1>2. /\ D \in SUBSET Owner /\ ClosedUnderChildren(D) /\ InnermostEntries \subseteq D
      /\ \A o \in D : Active(o)
  BY <1>1, SubtreeClosed, SubtreeActive
<1>3. Destroy(D) /\ \A o \in D : ~Borrowed(o)
  BY DEF ExitScope
<1>4. borrows' = borrows /\ depth' = depth - 1 /\ depth > 0
  BY DEF ExitScope
<1> HIDE DEF D
<1>5. /\ status' \in [Owner -> OwnerStatus]
      /\ parent' \in [Owner -> Owner \cup {None}]
      /\ scope' \in [Owner -> Nat]
      /\ allocation' \in [Owner -> Allocation \cup {None}]
      /\ allocations' \subseteq Allocation
      /\ Forest'
      /\ OneOwnerPerAllocation'
      /\ \A o \in Owner :
            IF o \in D
            THEN ~Active(o)' /\ parent'[o] = None /\ scope'[o] = 0
            ELSE /\ Active(o)' <=> Active(o)
                 /\ parent'[o] = parent[o] /\ scope'[o] = scope[o]
                 /\ parent[o] \notin D
  BY <1>2, <1>3, DestroyKeeps
<1>6. TypeOK'
  BY <1>4, <1>5 DEF TypeOK, ExitScope, ResourceStatus
<1>7. UniqueHome'
  <2>1. SUFFICES ASSUME NEW o \in Owner, o \notin D
                 PROVE  (IF Active(o)
                         THEN \/ parent[o] = None /\ scope[o] \in 1..depth
                              \/ parent[o] \in Owner /\ Active(parent[o]) /\ scope[o] = 0
                         ELSE parent[o] = None /\ scope[o] = 0)'
    BY <1>5 DEF UniqueHome
  <2>2. scope[o] # depth
    BY <1>2, <2>1 DEF InnermostEntries
  <2>3. scope[o] \in 1..depth => scope[o] \in 1..(depth - 1)
    BY <2>2 DEF TypeOK
  <2> QED BY <1>4, <1>5, <2>1, <2>3 DEF UniqueHome
<1>8. BorrowDiscipline'
  <2>1. \A b \in borrows : b.owner \in Owner /\ b.owner \notin D
    BY <1>3 DEF Borrowed, TypeOK
  <2> QED BY <1>4, <1>5, <2>1 DEF BorrowDiscipline
<1>9. ResourceHome'
  BY DEF ResourceHome, ExitScope, TypeOK
<1> QED BY <1>5, <1>6, <1>7, <1>8, <1>9

\* enter_scope and the operations on resources keep the invariant.
LEMMA ScopeAndResourceKeep ==
    ASSUME IInv,
           \/ EnterScope
           \/ \E r \in Resource : OpenResource(r) \/ CloseResource(r)
           \/ \E r, s \in Resource : MoveResource(r, s)
    PROVE  IInv'
<1> USE DEF IInv, ownerVars, resourceVars
<1>1. UNCHANGED <<status, parent, scope, allocation, allocations, borrows>>
  BY DEF EnterScope, OpenResource, CloseResource, MoveResource
<1>2. depth' \in Nat /\ depth' >= depth
  BY DEF EnterScope, OpenResource, CloseResource, MoveResource, TypeOK
<1>3. TypeOK'
  BY <1>1, <1>2 DEF EnterScope, OpenResource, CloseResource, MoveResource, TypeOK, ResourceStatus
<1>4. UniqueHome'
  BY <1>1, <1>2 DEF UniqueHome, TypeOK, Active
<1>5. Forest' /\ OneOwnerPerAllocation' /\ BorrowDiscipline'
  BY <1>1 DEF Forest, OneOwnerPerAllocation, BorrowDiscipline, Active
<1>6. ResourceHome'
  BY <1>2 DEF EnterScope, OpenResource, CloseResource, MoveResource, TypeOK, ResourceHome
<1> QED BY <1>3, <1>4, <1>5, <1>6

\* Every step of the runtime keeps the invariant.
LEMMA NextIInv == IInv /\ [Next]_vars => IInv'
<1> SUFFICES ASSUME IInv, [Next]_vars PROVE IInv'
  OBVIOUS
<1>1. CASE UNCHANGED vars
  BY <1>1 DEF vars, ownerVars, resourceVars, IInv, TypeOK, UniqueHome, Forest,
              OneOwnerPerAllocation, BorrowDiscipline, ResourceHome, Active
<1>2. CASE Next
  BY <1>2, AllocateKeeps, MoveValueKeeps, AttachChildKeeps, BorrowKeeps, DropValueKeeps,
     ExitScopeKeeps, ScopeAndResourceKeep DEF Next
<1> QED BY <1>1, <1>2

-----------------------------------------------------------------------------
(* Theorems                                                                *)

\* The state always has its type and the whole inductive invariant: every
\* operation of LifecycleRuntime keeps ownership, borrows and resources
\* consistent, however many identities and scopes there are.
THEOREM Invariance == Spec => []IInv
<1>1. Init => IInv
  BY InitIInv
<1>2. IInv /\ [Next]_vars => IInv'
  BY NextIInv
<1> QED BY <1>1, <1>2, PTL DEF Spec

\* Every active owner is held by exactly one scope or one active aggregate, and
\* following parents always ends in a scope: attach_child's has_ancestor guard
\* and the relinking in move_value are sufficient.
THEOREM OwnershipIsAForest == Spec => [](UniqueHome /\ Forest)
<1>1. IInv => UniqueHome /\ Forest
  BY DEF IInv
<1> QED BY <1>1, Invariance, PTL

\* Live allocations and active owners stay in one-to-one correspondence.
THEOREM OneOwner == Spec => []OneOwnerPerAllocation
<1>1. IInv => OneOwnerPerAllocation
  BY DEF IInv
<1> QED BY <1>1, Invariance, PTL

\* Leaving the last scope leaves nothing behind.  If some owner were active
\* with no scope open, all active owners would have active parents, and the
\* forest would contain a set that is closed under taking parents.
THEOREM NothingLeaks == Spec => []NoLeak
<1>1. IInv => NoLeak
  <2>1. SUFFICES ASSUME IInv, depth = 0
                 PROVE  /\ \A o \in Owner : ~Active(o)
                        /\ allocations = {}
                        /\ \A r \in Resource : rstatus[r] # "Active"
    BY DEF NoLeak
  <2> DEFINE A == {o \in Owner : Active(o)}
  <2>2. \A o \in A : parent[o] \in A
    <3>1. \A n \in Nat : n \notin 1..depth
      BY <2>1
    <3>2. \A o \in Owner : scope[o] \in Nat
      BY <2>1 DEF IInv, TypeOK
    <3> QED BY Zenon, <2>1, <3>1, <3>2 DEF IInv, UniqueHome
  <2>3. A = {}
    BY Zenon, <2>1, <2>2 DEF IInv, Forest
  <2>4. allocations = {}
    BY <2>1, <2>3 DEF IInv, OneOwnerPerAllocation
  <2>5. \A r \in Resource : rstatus[r] # "Active"
    BY <2>1 DEF IInv, ResourceHome, TypeOK
  <2> QED BY <2>3, <2>4, <2>5
<1> QED BY <1>1, Invariance, PTL

\* What a drop or a scope exit destroys is an active owner without borrows, and
\* the children of a destroyed owner are destroyed with it.
LEMMA DestroyStep ==
    ASSUME IInv, NEW R \in SUBSET Owner, \A o \in R : Active(o),
           \A o \in Subtree(R) : ~Borrowed(o), Destroy(Subtree(R)),
           NEW o \in Owner
    PROVE  /\ Active(o) /\ Borrowed(o) => status'[o] = "Active"
           /\ Active(o) /\ parent[o] # None /\ status'[parent[o]] = "Dropped"
                 => status'[o] = "Dropped"
           /\ status[o] \in {"Moved", "Dropped"} => status'[o] = status[o]
<1> DEFINE D == Subtree(R)
<1>1. ClosedUnderChildren(D) /\ \A x \in D : Active(x)
  BY SubtreeClosed, SubtreeActive DEF IInv
<1>2. \A x \in Owner : status'[x] = IF x \in D THEN "Dropped" ELSE status[x]
  BY DEF Destroy
<1>3. Active(o) /\ parent[o] # None => parent[o] \in Owner /\ Active(parent[o])
  BY DEF IInv, UniqueHome
<1> HIDE DEF D
<1> QED BY <1>1, <1>2, <1>3 DEF ClosedUnderChildren, Active, D

\* No step of LifecycleRuntime destroys a borrowed value, or part of an
\* aggregate, or brings a moved or dropped identity back.
THEOREM StepsAreSafe == Spec => DestroyWhole /\ DeadStaysDead
<1> DEFINE Whole == \A o \in Owner :
                       Active(o) =>
                          /\ Borrowed(o) => status'[o] = "Active"
                          /\ parent[o] # None /\ status'[parent[o]] = "Dropped"
                                => status'[o] = "Dropped"
           Dead == /\ \A o \in Owner :
                         status[o] \in {"Moved", "Dropped"} => status'[o] = status[o]
                   /\ \A r \in Resource :
                         rstatus[r] \in {"Moved", "Closed"} => rstatus'[r] = rstatus[r]
<1>1. ASSUME IInv, Next PROVE Whole /\ Dead
  <2>1. CASE \E r \in Owner : DropValue(r)
    <3>1. PICK r \in Owner : DropValue(r)
      BY <2>1
    <3>2. rstatus' = rstatus
      BY <3>1 DEF DropValue, resourceVars
    <3> QED BY <1>1, <3>1, <3>2, DestroyStep DEF DropValue
  <2>2. CASE ExitScope
    <3>1. InnermostEntries \in SUBSET Owner /\ \A o \in InnermostEntries : Active(o)
      BY <1>1, <2>2 DEF IInv, InnermostEntries, ExitScope, UniqueHome, TypeOK
    <3>2. \A r \in Resource :
             rstatus[r] \in {"Moved", "Closed"} => rstatus'[r] = rstatus[r]
      BY <1>1, <2>2 DEF IInv, ExitScope, ResourceHome, TypeOK
    <3> QED BY <1>1, <2>2, <3>1, <3>2, DestroyStep DEF ExitScope
  <2>3. CASE \E s, m \in Owner : MoveValue(s, m)
    <3>1. PICK s \in Owner, m \in Owner : MoveValue(s, m)
      BY <2>3
    <3>2. /\ Active(s) /\ ~Borrowed(s) /\ status[m] = "Unborn" /\ rstatus' = rstatus
          /\ \A o \in Owner : status'[o] = IF o = m THEN "Active"
                                            ELSE IF o = s THEN "Moved" ELSE status[o]
      BY <1>1, <3>1 DEF MoveValue, resourceVars, IInv, TypeOK, Active
    <3>3. \A o \in Owner : Active(o) /\ parent[o] # None
                             => parent[o] \in Owner /\ Active(parent[o])
      BY <1>1 DEF IInv, UniqueHome
    <3> QED BY <3>2, <3>3 DEF Active
  <2>4. CASE \E o \in Owner, a \in Allocation : Allocate(o, a)
    <3>1. PICK x \in Owner, a \in Allocation : Allocate(x, a)
      BY <2>4
    <3>2. /\ rstatus' = rstatus /\ status[x] = "Unborn"
          /\ \A o \in Owner : status'[o] = IF o = x THEN "Active" ELSE status[o]
      BY <1>1, <3>1 DEF Allocate, resourceVars, IInv, TypeOK
    <3>3. \A o \in Owner : Active(o) /\ parent[o] # None
                             => parent[o] \in Owner /\ Active(parent[o])
      BY <1>1 DEF IInv, UniqueHome
    <3> QED BY <3>2, <3>3 DEF Active
  <2>5. ASSUME status' = status
        PROVE  Whole
    BY <1>1, <2>5 DEF IInv, UniqueHome, Active
  <2>6. CASE \/ EnterScope
             \/ \E p, c \in Owner : AttachChild(p, c)
             \/ \E o \in Owner, b \in Borrow, m \in Mode : BeginBorrow(o, b, m)
             \/ \E b \in Borrow : EndBorrow(b)
    <3>1. status' = status /\ rstatus' = rstatus
      BY Zenon, <2>6 DEF EnterScope, AttachChild, BeginBorrow, EndBorrow, ownerVars, resourceVars
    <3> QED BY <2>5, <3>1
  <2>7. CASE \/ \E r \in Resource : OpenResource(r) \/ CloseResource(r)
             \/ \E r, s \in Resource : MoveResource(r, s)
    <3>1. status' = status
      BY <2>7 DEF OpenResource, CloseResource, MoveResource, ownerVars
    <3>2. \A r \in Resource :
             rstatus[r] \in {"Moved", "Closed"} => rstatus'[r] = rstatus[r]
      BY <1>1, <2>7 DEF OpenResource, CloseResource, MoveResource, IInv, TypeOK
    <3> QED BY <2>5, <3>1, <3>2
  <2> QED BY <1>1, <2>1, <2>2, <2>3, <2>4, <2>6, <2>7 DEF Next
<1>2. IInv /\ [Next]_vars => [Whole]_vars /\ [Dead]_vars
  BY <1>1
<1> QED BY <1>2, Invariance, PTL DEF Spec, DestroyWhole, DeadStaysDead
=============================================================================
