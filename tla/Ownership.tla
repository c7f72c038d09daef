----------------------------- MODULE Ownership -----------------------------
(***************************************************************************)
(* What the ownership half of LifecycleRuntime (runtime_lifecycle.rs)      *)
(* promises, without the order in which values are destroyed: every owned  *)
(* value lives in one scope or inside one other value, scopes are left     *)
(* from the innermost outwards, and leaving a scope destroys everything    *)
(* that is rooted in it.                                                   *)
(*                                                                         *)
(* An aggregate is the subtree of the parent relation below an owner.  The *)
(* code walks it with the recursive drop_owner and                         *)
(* first_borrowed_in_subtree; here it is the least set that contains the   *)
(* root and is closed under "is a child of".  RuntimeLifecycle is the      *)
(* detailed specification; it is shown to implement this one.              *)
(***************************************************************************)
EXTENDS Naturals

CONSTANTS
    Owner,       \* owner identities (OwnerId)
    Allocation,  \* allocation identities
    Borrow,      \* borrow identities (BorrowId)
    Resource,    \* resource identities (ResourceId)
    None,        \* "no parent" (Option::None), not an owner
    MaxDepth     \* bound on the scopes that are open at the same time

ASSUME NoneIsNoOwner == None \notin Owner

ASSUME MaxDepthIsNat == MaxDepth \in Nat

Mode == {"Shared", "Mutable"}

OwnerStatus == {"Unborn", "Active", "Moved", "Dropped"}

ResourceStatus == {"Unborn", "Active", "Moved", "Closed"}

VARIABLES
    status,      \* status of every owner identity
    parent,      \* the aggregate an active owner is a child of, or None
    scope,       \* depth of the scope an owner is an entry of, 0 if of none
    allocation,  \* the allocation an owner was given
    allocations, \* the allocations that are live
    borrows,     \* the borrows that have not ended
    rstatus,     \* status of every resource identity
    rscope,      \* depth of the scope a resource is an entry of
    depth        \* number of scopes entered and not left

ownerVars == <<status, parent, scope, allocation, allocations>>

resourceVars == <<rstatus, rscope>>

vars == <<ownerVars, borrows, resourceVars, depth>>

TypeOK ==
    /\ status \in [Owner -> OwnerStatus]
    /\ parent \in [Owner -> Owner \cup {None}]
    /\ scope \in [Owner -> Nat]
    /\ allocation \in [Owner -> Allocation \cup {None}]
    /\ allocations \subseteq Allocation
    /\ borrows \subseteq [id : Borrow, owner : Owner, mode : Mode]
    /\ rstatus \in [Resource -> ResourceStatus]
    /\ rscope \in [Resource -> Nat]
    /\ depth \in Nat

-----------------------------------------------------------------------------
Active(o) == status[o] = "Active"

Borrowed(o) == \E b \in borrows : b.owner = o

\* A set of owners that contains every child of its members.
ClosedUnderChildren(S) == \A o \in Owner : parent[o] \in S => o \in S

\* The aggregates rooted in R: the least closed set that contains R.
Subtree(R) ==
    {o \in Owner : \A S \in SUBSET Owner :
                      R \subseteq S /\ ClosedUnderChildren(S) => o \in S}

\* The owners that are entries of the innermost scope.
InnermostEntries == {o \in Owner : scope[o] = depth}

Init ==
    /\ status = [o \in Owner |-> "Unborn"]
    /\ parent = [o \in Owner |-> None]
    /\ scope = [o \in Owner |-> 0]
    /\ allocation = [o \in Owner |-> None]
    /\ allocations = {}
    /\ borrows = {}
    /\ rstatus = [r \in Resource |-> "Unborn"]
    /\ rscope = [r \in Resource |-> 0]
    /\ depth = 0

EnterScope ==
    /\ depth < MaxDepth
    /\ depth' = depth + 1
    /\ UNCHANGED <<ownerVars, borrows, resourceVars>>

\* allocate, and the allocation half of clone_value: a new owner of a new
\* allocation becomes an entry of the innermost scope.
Allocate(o, a) ==
    /\ depth > 0
    /\ status[o] = "Unborn"
    /\ a \notin {allocation[x] : x \in Owner}
    /\ status' = [status EXCEPT ![o] = "Active"]
    /\ scope' = [scope EXCEPT ![o] = depth]
    /\ allocation' = [allocation EXCEPT ![o] = a]
    /\ allocations' = allocations \cup {a}
    /\ UNCHANGED <<parent, borrows, resourceVars, depth>>

\* A new owner takes the allocation, the place and the children of the source.
MoveValue(source, moved) ==
    /\ Active(source)
    /\ ~Borrowed(source)
    /\ status[moved] = "Unborn"
    /\ status' = [status EXCEPT ![source] = "Moved", ![moved] = "Active"]
    /\ parent' = [o \in Owner |->
                    IF o = moved THEN parent[source]
                    ELSE IF o = source THEN None
                    ELSE IF parent[o] = source THEN moved
                    ELSE parent[o]]
    /\ scope' = [scope EXCEPT ![source] = 0, ![moved] = scope[source]]
    /\ allocation' = [allocation EXCEPT ![moved] = allocation[source]]
    /\ UNCHANGED <<allocations, borrows, resourceVars, depth>>

\* Mutant: no cycle check.
AttachChild_AllowsCycle(p, c) ==
    /\ Active(p) /\ Active(c)
    /\ ~Borrowed(p) /\ ~Borrowed(c)
    /\ parent[c] = None /\ p # c
    /\ parent' = [parent EXCEPT ![c] = p]
    /\ scope' = [scope EXCEPT ![c] = 0]
    /\ UNCHANGED <<status, allocation, allocations, borrows, resourceVars, depth>>

\* A value that is an entry of a scope becomes a child of another value that
\* is not inside it.
AttachChild(p, c) ==
    /\ Active(p) /\ Active(c)
    /\ ~Borrowed(p) /\ ~Borrowed(c)
    /\ parent[c] = None
    /\ parent' = [parent EXCEPT ![c] = p]
    /\ scope' = [scope EXCEPT ![c] = 0]
    /\ p \notin Subtree({c})
    /\ UNCHANGED <<status, allocation, allocations, borrows, resourceVars, depth>>

BeginBorrow(o, b, mode) ==
    /\ Active(o)
    /\ mode = "Mutable" => ~Borrowed(o)
    /\ \A x \in borrows : x.owner = o => x.mode = "Shared"
    /\ \A x \in borrows : x.id # b
    /\ borrows' = borrows \cup {[id |-> b, owner |-> o, mode |-> mode]}
    /\ UNCHANGED <<ownerVars, resourceVars, depth>>

EndBorrow(b) ==
    /\ \E x \in borrows : x.id = b
    /\ borrows' = {x \in borrows : x.id # b}
    /\ UNCHANGED <<ownerVars, resourceVars, depth>>

Destroy(D) ==
    /\ status' = [o \in Owner |-> IF o \in D THEN "Dropped" ELSE status[o]]
    /\ parent' = [o \in Owner |-> IF o \in D THEN None ELSE parent[o]]
    /\ scope' = [o \in Owner |-> IF o \in D THEN 0 ELSE scope[o]]
    /\ allocations' = allocations \ {allocation[o] : o \in D}
    /\ UNCHANGED allocation

DropValue(o) ==
    /\ Active(o)
    /\ UNCHANGED <<borrows, resourceVars, depth>>
    /\ \A x \in Subtree({o}) : ~Borrowed(x)
    /\ Destroy(Subtree({o}))

OpenResource(r) ==
    /\ depth > 0
    /\ rstatus[r] = "Unborn"
    /\ rstatus' = [rstatus EXCEPT ![r] = "Active"]
    /\ rscope' = [rscope EXCEPT ![r] = depth]
    /\ UNCHANGED <<ownerVars, borrows, depth>>

MoveResource(source, moved) ==
    /\ rstatus[source] = "Active"
    /\ rstatus[moved] = "Unborn"
    /\ rstatus' = [rstatus EXCEPT ![source] = "Moved", ![moved] = "Active"]
    /\ rscope' = [rscope EXCEPT ![source] = 0, ![moved] = rscope[source]]
    /\ UNCHANGED <<ownerVars, borrows, depth>>

\* close_resource and drop_resource: the closed resource stays a scope entry.
CloseResource(r) ==
    /\ rstatus[r] = "Active"
    /\ rstatus' = [rstatus EXCEPT ![r] = "Closed"]
    /\ UNCHANGED <<ownerVars, borrows, rscope, depth>>

\* Mutant: open resources are forgotten instead of closed.
ExitScope_ForgetsResources ==
    /\ depth > 0
    /\ \A x \in Subtree(InnermostEntries) : ~Borrowed(x)
    /\ Destroy(Subtree(InnermostEntries))
    /\ rscope' = [r \in Resource |-> IF rscope[r] = depth THEN 0 ELSE rscope[r]]
    /\ depth' = depth - 1
    /\ UNCHANGED <<borrows, rstatus>>

ExitScope ==
    /\ depth > 0
    /\ depth' = depth - 1
    /\ \A x \in Subtree(InnermostEntries) : ~Borrowed(x)
    /\ Destroy(Subtree(InnermostEntries))
    /\ rstatus' = [r \in Resource |->
                     IF rscope[r] = depth THEN "Closed" ELSE rstatus[r]]
    /\ rscope' = [r \in Resource |-> IF rscope[r] = depth THEN 0 ELSE rscope[r]]
    /\ UNCHANGED borrows

Next ==
    \/ EnterScope
    \/ ExitScope
    \/ \E o \in Owner, a \in Allocation : Allocate(o, a)
    \/ \E o, p \in Owner : MoveValue(o, p)
    \/ \E p, c \in Owner : AttachChild(p, c)
    \/ \E o \in Owner, b \in Borrow, m \in Mode : BeginBorrow(o, b, m)
    \/ \E b \in Borrow : EndBorrow(b)
    \/ \E o \in Owner : DropValue(o)
    \/ \E r \in Resource : OpenResource(r)
    \/ \E r, s \in Resource : MoveResource(r, s)
    \/ \E r \in Resource : CloseResource(r)

Spec == Init /\ [][Next]_vars

-----------------------------------------------------------------------------
(* Properties                                                              *)

\* Every active owner has exactly one place: it is an entry of one scope that
\* has not been left, or a child of one active owner, never both; and no
\* owner that was moved or dropped still has one.  drop_owner relies on this
\* when it unlinks a child before destroying it.
UniqueHome ==
    \A o \in Owner :
        IF Active(o)
        THEN \/ parent[o] = None /\ scope[o] \in 1..depth
             \/ parent[o] \in Owner /\ Active(parent[o]) /\ scope[o] = 0
        ELSE parent[o] = None /\ scope[o] = 0

\* The parent relation has no cycle and no rootless chain: no set of owners
\* is closed under taking parents.  The comment at has_ancestor claims the
\* forest acyclic "by construction"; its walk terminates because of this.
Forest ==
    \A S \in SUBSET Owner :
        S # {} => \E o \in S : parent[o] \notin S

\* Live allocations and active owners correspond one to one, so nothing is
\* freed while it is owned, freed twice, or kept without an owner.
OneOwnerPerAllocation ==
    /\ allocations = {allocation[o] : o \in {x \in Owner : Active(x)}}
    /\ \A o, p \in Owner :
          Active(o) /\ Active(p) /\ allocation[o] = allocation[p] => o = p

\* Only active owners are borrowed, and a mutable borrow is the only borrow
\* of its owner.
BorrowDiscipline ==
    \A b \in borrows :
        /\ Active(b.owner)
        /\ b.mode = "Mutable" => \A c \in borrows : c.owner = b.owner => c = b

\* When every scope has been left, nothing is left behind: no active owner,
\* no live allocation, no open resource.
NoLeak ==
    depth = 0 =>
        /\ \A o \in Owner : ~Active(o)
        /\ allocations = {}
        /\ \A r \in Resource : rstatus[r] # "Active"

\* A resource that is open is an entry of a scope that has not been left, and
\* no scope has an entry for a resource that was moved away, which exit_scope
\* could only report as an error.
ResourceHome ==
    \A r \in Resource :
        /\ rstatus[r] = "Active" => rscope[r] \in 1..depth
        /\ rscope[r] # 0 => rstatus[r] \in {"Active", "Closed"}

\* A step destroys whole aggregates and never a borrowed value: whoever loses
\* its parent's aggregate is destroyed with it, and a borrowed owner stays
\* active until its borrows have ended.
DestroyWhole ==
    [][\A o \in Owner :
          Active(o) =>
             /\ Borrowed(o) => status'[o] = "Active"
             /\ parent[o] # None /\ status'[parent[o]] = "Dropped"
                   => status'[o] = "Dropped"]_vars

\* Moved and dropped owners, and moved and closed resources, stay so: an
\* identity is never brought back to life.
DeadStaysDead ==
    [][/\ \A o \in Owner : status[o] \in {"Moved", "Dropped"} => status'[o] = status[o]
       /\ \A r \in Resource : rstatus[r] \in {"Moved", "Closed"} => rstatus'[r] = rstatus[r]]_vars
=============================================================================
