-------------------------- MODULE RuntimeLifecycle --------------------------
(***************************************************************************)
(* LifecycleRuntime of runtime_lifecycle.rs: owners with allocations,      *)
(* borrows, resources and scopes, one action per public operation.  Every  *)
(* operation answers in "result" and lists in "trace" what it released, in *)
(* order; a failed precondition is an answer other than "Ok".              *)
(*                                                                         *)
(* The bytes of an allocation are abstracted to their number, provenance,  *)
(* capabilities and the operation log to nothing.  All kinds of identities *)
(* are drawn from one counter, as in the code.                             *)
(***************************************************************************)
EXTENDS Naturals, FiniteSets, Sequences, SequencesExt, Functions, TLC

CONSTANTS
    MaxId,           \* bound on the identities a run issues
    MaxHandles,      \* bound on those that are owners, borrows or resources
    MaxDepth,        \* bound on the scopes that are open at the same time
    MaxDeferred,     \* bound on the deferred actions of a scope
    Layouts,         \* sizes that callers ask for
    CopyFlags,       \* whether a caller asks for a copyable value
    AllocationLimit  \* LifecycleRuntime::new(allocation_limit)

VARIABLES next_id, owners, allocations, borrows, resources, scopes, result, trace

store == <<owners, allocations, borrows, resources, scopes>>

vars == <<next_id, store, result, trace>>

Ids == 1..MaxId

NoParent == 0

\* A run may issue one more owner, borrow or resource: what it has issued so
\* far, less the allocations among it, is below the bound.
Spare ==
    /\ next_id \in Ids
    /\ next_id - Cardinality({owners[o].allocation : o \in DOMAIN owners}) <= MaxHandles

\* Identities a caller may present: all issued ones, and one that never was.
OwnerArgs == DOMAIN owners \cup {0}

ResourceArgs == DOMAIN resources \cup {0}

TypeOK ==
    /\ next_id \in 1..(MaxId + 1)
    /\ DOMAIN owners \subseteq Ids
    /\ \A o \in DOMAIN owners :
          owners[o] \in [allocation : Ids, status : {"Active", "Moved", "Dropped"},
                         parent : Ids \cup {NoParent}, children : Seq(Ids),
                         borrows : SUBSET Ids]
    /\ DOMAIN allocations \subseteq Ids
    /\ \A a \in DOMAIN allocations :
          allocations[a] \in [layout : Layouts, copyable : BOOLEAN]
    /\ DOMAIN borrows \subseteq Ids
    /\ \A b \in DOMAIN borrows :
          borrows[b] \in [owner : DOMAIN owners, mode : {"Shared", "Mutable"}]
    /\ DOMAIN resources \subseteq Ids
    /\ \A r \in DOMAIN resources : resources[r] \in {"Active", "Moved", "Closed"}
    /\ \A i \in DOMAIN scopes :
          /\ Range(scopes[i].entries) \subseteq DOMAIN owners \cup DOMAIN resources
          /\ scopes[i].deferred \in 0..MaxDeferred

Init ==
    /\ next_id = 1
    /\ owners = <<>> /\ allocations = <<>> /\ borrows = <<>> /\ resources = <<>>
    /\ scopes = <<>>
    /\ result = "Ok" /\ trace = <<>>

-----------------------------------------------------------------------------
(* Answers                                                                 *)

\* The first check that fails decides the answer (the ? operator).
Then(first, second) == IF first # "Ok" THEN first ELSE second

require_scope == IF scopes = <<>> THEN "NoActiveScope" ELSE "Ok"

ensure_capacity(layout) == IF layout > AllocationLimit THEN "AllocationFailure" ELSE "Ok"

require_active_owner(o) ==
    CASE o \notin DOMAIN owners -> "UnknownOwner"
      [] owners[o].status = "Moved" -> "UseAfterMove"
      [] owners[o].status = "Dropped" -> "UseAfterDrop"
      [] OTHER -> "Ok"

require_no_borrows(o) == IF owners[o].borrows = {} THEN "Ok" ELSE "BorrowStillActive"

require_active_resource(r) ==
    CASE r \notin DOMAIN resources -> "UnknownResource"
      [] resources[r] # "Active" -> "ResourceUseAfterClose"
      [] OTHER -> "Ok"

Answer(e) == result' = e /\ trace' = <<>>

Refuse(e) == e # "Ok" /\ Answer(e) /\ UNCHANGED <<next_id, store>>

-----------------------------------------------------------------------------
(* Scopes                                                                  *)

PushEntry(id) == [scopes EXCEPT ![Len(scopes)].entries = Append(@, id)]

remove_from_scopes(sc, o) == [i \in DOMAIN sc |-> [sc[i] EXCEPT !.entries = Remove(@, o)]]

ReplaceInScopes(old, new) ==
    [i \in DOMAIN scopes |-> [scopes[i] EXCEPT !.entries = ReplaceAll(@, old, new)]]

EnterScope ==
    /\ Len(scopes) < MaxDepth
    /\ scopes' = Append(scopes, [entries |-> <<>>, deferred |-> 0])
    /\ Answer("Ok")
    /\ UNCHANGED <<next_id, owners, allocations, borrows, resources>>

Defer ==
    \/ Refuse(require_scope)
    \/ /\ require_scope = "Ok"
       /\ scopes[Len(scopes)].deferred < MaxDeferred
       /\ scopes' = [scopes EXCEPT ![Len(scopes)].deferred = @ + 1]
       /\ Answer("Ok")
       /\ UNCHANGED <<next_id, owners, allocations, borrows, resources>>

-----------------------------------------------------------------------------
(* Values                                                                  *)

NewOwner(layout, copyable) ==
    LET a == next_id
        o == next_id + 1
    IN /\ Spare /\ o \in Ids
       /\ next_id' = next_id + 2
       /\ allocations' = allocations @@ (a :> [layout |-> layout, copyable |-> copyable])
       /\ owners' = owners @@ (o :> [allocation |-> a, status |-> "Active",
                                     parent |-> NoParent, children |-> <<>>, borrows |-> {}])
       /\ scopes' = PushEntry(o)
       /\ Answer("Ok")
       /\ UNCHANGED <<borrows, resources>>

Allocate(layout, copyable) ==
    LET e == Then(require_scope, ensure_capacity(layout))
    IN Refuse(e) \/ (e = "Ok" /\ NewOwner(layout, copyable))

Resize(o, layout) ==
    LET e == Then(Then(require_active_owner(o), require_no_borrows(o)), ensure_capacity(layout))
    IN \/ Refuse(e)
       \/ /\ e = "Ok"
          /\ allocations' = [allocations EXCEPT ![owners[o].allocation].layout = layout]
          /\ Answer("Ok")
          /\ UNCHANGED <<next_id, owners, borrows, resources, scopes>>

\* write and read succeed within the current layout and change no state kept here.
Access(o, end, writes) ==
    LET e == Then(require_active_owner(o),
                  Then(IF writes THEN require_no_borrows(o) ELSE "Ok",
                       IF end > allocations[owners[o].allocation].layout
                       THEN "AllocationFailure" ELSE "Ok"))
    IN Answer(e) /\ UNCHANGED <<next_id, store>>

CopyValue(o) ==
    LET e == Then(require_active_owner(o),
                  IF allocations[owners[o].allocation].copyable THEN "Ok" ELSE "NotCopyable")
    IN Answer(e) /\ UNCHANGED <<next_id, store>>

\* The clone is a new owner in the innermost scope; children are not cloned.
CloneValue(o) ==
    LET a == allocations[owners[o].allocation]
        e == Then(Then(require_active_owner(o), require_no_borrows(o)),
                  Then(require_scope, ensure_capacity(a.layout)))
    IN Refuse(e) \/ (e = "Ok" /\ NewOwner(a.layout, a.copyable))

MoveValue(source) ==
    LET e == Then(require_active_owner(source), require_no_borrows(source))
        rec == owners[source]
        moved == next_id
    IN \/ Refuse(e)
       \/ /\ e = "Ok"
          /\ Spare
          /\ next_id' = next_id + 1
          /\ owners' =
               [o \in DOMAIN owners \cup {moved} |->
                  CASE o = moved -> [rec EXCEPT !.borrows = {}]
                    [] o = source -> [rec EXCEPT !.status = "Moved"]
                    [] o = rec.parent ->
                         [owners[o] EXCEPT !.children = Append(Remove(@, source), moved)]
                    [] o \in Range(rec.children) -> [owners[o] EXCEPT !.parent = moved]
                    [] OTHER -> owners[o]]
          /\ scopes' = ReplaceInScopes(source, moved)
          /\ Answer("Ok")
          /\ UNCHANGED <<allocations, borrows, resources>>

\* Whether candidate is node or one of its ancestors.
RECURSIVE has_ancestor(_, _)
has_ancestor(node, candidate) ==
    \/ node = candidate
    \/ node # NoParent /\ has_ancestor(owners[node].parent, candidate)

AttachChild(p, c) ==
    LET e == Then(Then(require_active_owner(p), require_active_owner(c)),
                  Then(Then(require_no_borrows(p), require_no_borrows(c)),
                       CASE owners[c].parent # NoParent \/ p = c -> "OwnershipEscape"
                         [] has_ancestor(p, c) -> "OwnershipCycle"
                         [] OTHER -> "Ok"))
    IN \/ Refuse(e)
       \/ /\ e = "Ok"
          /\ scopes' = remove_from_scopes(scopes, c)
          /\ owners' = [owners EXCEPT ![c].parent = p, ![p].children = Append(@, c)]
          /\ Answer("Ok")
          /\ UNCHANGED <<next_id, allocations, borrows, resources>>

BeginBorrow(o, mode) ==
    LET existing == {borrows[b].mode : b \in owners[o].borrows}
        e == Then(require_active_owner(o),
                  IF (mode = "Mutable" \/ "Mutable" \in existing) /\ existing # {}
                  THEN "BorrowConflict" ELSE "Ok")
        b == next_id
    IN \/ Refuse(e)
       \/ /\ e = "Ok"
          /\ Spare
          /\ next_id' = next_id + 1
          /\ borrows' = borrows @@ (b :> [owner |-> o, mode |-> mode])
          /\ owners' = [owners EXCEPT ![o].borrows = @ \cup {b}]
          /\ Answer("Ok")
          /\ UNCHANGED <<allocations, resources, scopes>>

EndBorrow(b) ==
    \/ b \notin DOMAIN borrows /\ Refuse("UnknownBorrow")
    \/ /\ b \in DOMAIN borrows
       /\ borrows' = Restrict(borrows, DOMAIN borrows \ {b})
       /\ owners' = [owners EXCEPT ![borrows[b].owner].borrows = @ \ {b}]
       /\ Answer("Ok")
       /\ UNCHANGED <<next_id, allocations, resources, scopes>>

-----------------------------------------------------------------------------
(* Destruction.  drop_owner works on a record m of the parts it changes,   *)
(* keeps the first error in m.error and the releases in m.trace.           *)

\* Mutant: only the root of the aggregate is examined.
first_borrowed_RootOnly(ow, o) == ow[o].borrows # {}

RECURSIVE first_borrowed_in_subtree(_, _)
first_borrowed_in_subtree(ow, o) ==
    \/ ow[o].borrows # {}
    \/ \E i \in DOMAIN ow[o].children : first_borrowed_in_subtree(ow, ow[o].children[i])

Memory(sc) == [owners |-> owners, allocations |-> allocations, resources |-> resources,
               scopes |-> sc, error |-> "Ok", trace |-> <<>>]

WithError(m, e) == [m EXCEPT !.error = Then(@, e)]

\* Mutant: the parent keeps the dropped owner in its list.
Unlinked_KeepsChild(ow, o) ==
    [x \in DOMAIN ow |->
       CASE x = o -> [ow[x] EXCEPT !.status = "Dropped", !.parent = NoParent]
         [] x \in Range(ow[o].children) -> [ow[x] EXCEPT !.parent = NoParent]
         [] OTHER -> ow[x]]

\* Unlink the owner from its parent, mark it dropped, orphan its children.
Unlinked(ow, o) ==
    [x \in DOMAIN ow |->
       CASE x = o -> [ow[x] EXCEPT !.status = "Dropped", !.parent = NoParent]
         [] x = ow[o].parent -> [ow[x] EXCEPT !.children = Remove(@, o)]
         [] x \in Range(ow[o].children) -> [ow[x] EXCEPT !.parent = NoParent]
         [] OTHER -> ow[x]]

\* Mutant: children and scope entries are released oldest first.
ReleaseOrder_Forward(s) == s

\* Children and scope entries are released in reverse.
ReleaseOrder(s) == Reverse(s)

\* Mutant: of the children only the youngest is dropped with its parent.
RECURSIVE drop_owner_Youngest(_, _)
drop_owner_Youngest(m, o) ==
    LET rec == m.owners[o]
        rest == [m EXCEPT !.owners = Unlinked(@, o)]
        emptied == IF rec.children = <<>> THEN rest
                   ELSE drop_owner_Youngest(rest, Last(rec.children))
    IN CASE rec.status = "Moved" -> WithError(m, "UseAfterMove")
         [] rec.status = "Dropped" -> WithError(m, "DoubleFree")
         [] first_borrowed_in_subtree(m.owners, o) -> WithError(m, "BorrowStillActive")
         [] OTHER -> [emptied EXCEPT
                        !.allocations = Restrict(@, DOMAIN @ \ {rec.allocation}),
                        !.scopes = remove_from_scopes(@, o),
                        !.trace = Append(@, [kind |-> "drop", id |-> o])]

RECURSIVE drop_owner(_, _)
drop_owner(m, o) ==
    LET rec == m.owners[o]
        drop(acc, c) == drop_owner(acc, c)
        emptied == FoldLeft(drop, [m EXCEPT !.owners = Unlinked(@, o)], ReleaseOrder(rec.children))
    IN CASE rec.status = "Moved" -> WithError(m, "UseAfterMove")
         [] rec.status = "Dropped" -> WithError(m, "DoubleFree")
         [] first_borrowed_in_subtree(m.owners, o) -> WithError(m, "BorrowStillActive")
         [] OTHER -> [emptied EXCEPT
                        !.allocations = Restrict(@, DOMAIN @ \ {rec.allocation}),
                        !.scopes = remove_from_scopes(@, o),
                        !.trace = Append(@, [kind |-> "drop", id |-> o])]

\* Mutant: a closed resource is closed again.
drop_resource_Twice(m, r) ==
    IF m.resources[r] = "Moved" THEN WithError(m, "ResourceUseAfterClose")
    ELSE [m EXCEPT !.resources[r] = "Closed",
                   !.trace = Append(@, [kind |-> "close", id |-> r])]

drop_resource(m, r) ==
    CASE m.resources[r] = "Active" -> [m EXCEPT !.resources[r] = "Closed",
                                                !.trace = Append(@, [kind |-> "close", id |-> r])]
      [] m.resources[r] = "Closed" -> m
      [] OTHER -> WithError(m, "ResourceUseAfterClose")

Become(m) ==
    /\ owners' = m.owners
    /\ allocations' = m.allocations
    /\ resources' = m.resources
    /\ scopes' = m.scopes
    /\ result' = m.error
    /\ trace' = m.trace
    /\ UNCHANGED <<next_id, borrows>>

DropValue(o) ==
    \/ o \notin DOMAIN owners /\ Refuse("UnknownOwner")
    \/ o \in DOMAIN owners /\ Become(drop_owner(Memory(scopes), o))

OpenResource ==
    LET r == next_id
    IN \/ Refuse(require_scope)
       \/ /\ require_scope = "Ok"
          /\ Spare
          /\ next_id' = next_id + 1
          /\ resources' = resources @@ (r :> "Active")
          /\ scopes' = PushEntry(r)
          /\ Answer("Ok")
          /\ UNCHANGED <<owners, allocations, borrows>>

MoveResource(source) ==
    LET e == require_active_resource(source)
        moved == next_id
    IN \/ Refuse(e)
       \/ /\ e = "Ok"
          /\ Spare
          /\ next_id' = next_id + 1
          /\ resources' = (moved :> "Active") @@ [resources EXCEPT ![source] = "Moved"]
          /\ scopes' = ReplaceInScopes(source, moved)
          /\ Answer("Ok")
          /\ UNCHANGED <<owners, allocations, borrows>>

UseResource(r) == Answer(require_active_resource(r)) /\ UNCHANGED <<next_id, store>>

CloseResource(r) ==
    LET e == CASE r \notin DOMAIN resources -> "UnknownResource"
               [] resources[r] = "Closed" -> "DoubleClose"
               [] resources[r] = "Moved" -> "ResourceUseAfterClose"
               [] OTHER -> "Ok"
    IN Refuse(e) \/ (e = "Ok" /\ Become(drop_resource(Memory(scopes), r)))

DropResource(r) ==
    \/ r \notin DOMAIN resources /\ Refuse("UnknownResource")
    \/ r \in DOMAIN resources /\ Become(drop_resource(Memory(scopes), r))

\* Deferred actions run last in first out, then the entries are released in
\* reverse; a borrow anywhere below an entry keeps the scope.
ExitScope ==
    LET top == scopes[Len(scopes)]
        held == \E i \in DOMAIN top.entries :
                   /\ top.entries[i] \in DOMAIN owners
                   /\ first_borrowed_in_subtree(owners, top.entries[i])
        deferred == [i \in 1..top.deferred |-> [kind |-> "defer", id |-> top.deferred + 1 - i]]
        release(m, id) == IF id \in DOMAIN owners THEN drop_owner(m, id) ELSE drop_resource(m, id)
    IN \/ scopes = <<>> /\ Refuse("ScopeUnderflow")
       \/ scopes # <<>> /\ held /\ Refuse("BorrowStillActive")
       \/ /\ scopes # <<>>
          /\ ~held
          /\ Become(FoldLeft(release, [Memory(Front(scopes)) EXCEPT !.trace = deferred],
                             ReleaseOrder(top.entries)))

Next ==
    \/ EnterScope
    \/ Defer
    \/ ExitScope
    \/ \E l \in Layouts, c \in CopyFlags : Allocate(l, c)
    \/ \E o \in OwnerArgs, l \in Layouts : Resize(o, l)
    \/ \E o \in OwnerArgs, l \in Layouts, w \in BOOLEAN : Access(o, l, w)
    \/ \E o \in OwnerArgs : CopyValue(o)
    \/ \E o \in OwnerArgs : CloneValue(o)
    \/ \E o \in OwnerArgs : MoveValue(o)
    \/ \E p, c \in OwnerArgs : AttachChild(p, c)
    \/ \E o \in OwnerArgs, m \in {"Shared", "Mutable"} : BeginBorrow(o, m)
    \/ \E b \in Ids : EndBorrow(b)
    \/ \E o \in OwnerArgs : DropValue(o)
    \/ OpenResource
    \/ \E r \in ResourceArgs : MoveResource(r)
    \/ \E r \in ResourceArgs : UseResource(r)
    \/ \E r \in ResourceArgs : CloseResource(r)
    \/ \E r \in ResourceArgs : DropResource(r)

Spec == Init /\ [][Next]_vars

-----------------------------------------------------------------------------
(* Properties                                                              *)

\* The children list of an active owner names exactly the active owners whose
\* parent it is, each once: the two directions of the aggregate links, which
\* attach_child, move_value and drop_owner update separately, agree.
ChildLinks ==
    \A o \in DOMAIN owners : owners[o].status = "Active" =>
        /\ IsInjective(owners[o].children)
        /\ Range(owners[o].children) =
              {c \in DOMAIN owners : owners[c].status = "Active" /\ owners[c].parent = o}

\* The borrow set of an owner and the table of borrows agree.
BorrowIndex ==
    \A o \in DOMAIN owners : owners[o].borrows = {b \in DOMAIN borrows : borrows[b].owner = o}

\* Where the entries of the open scopes name an identity.
Places(id) == {<<i, j>> \in (1..MaxDepth) \X Ids :
                  /\ i \in DOMAIN scopes /\ j \in DOMAIN scopes[i].entries
                  /\ scopes[i].entries[j] = id}

\* Nothing leaks and nothing is released too early: an active owner is one
\* entry of one open scope or a child of an active owner, never both, an owner
\* that is not active is an entry of none, and the allocations that are live
\* are those of the active owners.
Housed ==
    LET active == {o \in DOMAIN owners : owners[o].status = "Active"}
    IN /\ \A o \in active :
             \/ owners[o].parent = NoParent /\ Cardinality(Places(o)) = 1
             \/ owners[o].parent \in active /\ Places(o) = {}
       /\ \A o \in DOMAIN owners \ active : Places(o) = {}
       /\ DOMAIN allocations = {owners[o].allocation : o \in active}

\* The tables of LifecycleRuntime are well formed, what they keep twice agrees
\* and every live value has its one place, after any sequence of operations.
WellFormed == TypeOK /\ ChildLinks /\ BorrowIndex /\ Housed

\* An operation that answers with an error has changed nothing: neither a drop
\* nor a scope exit stops half way, so the caller can retry it.
ErrorsChangeNothing == [][result' # "Ok" => UNCHANGED <<next_id, store>>]_vars

Released(kind) == {trace'[i].id : i \in {j \in DOMAIN trace' : trace'[j].kind = kind}}

\* Every cleanup obligation that a step discharges is discharged exactly once:
\* the step's releases are distinct and are exactly the owners and resources
\* that were active before and are dropped or closed after.
DischargedOnce ==
    [][/\ IsInjective(trace')
       /\ Released("drop") = {o \in DOMAIN owners : /\ owners[o].status = "Active"
                                                    /\ owners'[o].status = "Dropped"}
       /\ Released("close") = {r \in DOMAIN resources : /\ resources[r] = "Active"
                                                        /\ resources'[r] = "Closed"}]_vars

\* x comes before y in the sequence s.
Before(s, x, y) == \E i, j \in DOMAIN s : i < j /\ s[i] = x /\ s[j] = y

\* Releases run backwards: a child before its parent, a later child before an
\* earlier sibling, a later scope entry before an earlier one, and every
\* deferred action before the first release.
ReleasedInReverse ==
    [][\A i, j \in DOMAIN trace' : i < j =>
        LET x == trace'[i].id
            y == trace'[j].id
        IN \/ trace'[i].kind = "defer"
           \/ /\ trace'[j].kind # "defer"
              /\ \A s \in Range(scopes) : ~Before(s.entries, x, y)
              /\ x \in DOMAIN owners /\ y \in DOMAIN owners =>
                    /\ owners[y].parent # x
                    /\ owners[x].parent = owners[y].parent /\ owners[x].parent # NoParent
                          => ~Before(owners[owners[x].parent].children, x, y)]_vars

\* The runtime implements the ownership specification: its links, scopes and
\* tables, read as a forest, take only steps that Ownership allows.
Abstract == INSTANCE Ownership WITH
    Owner <- Ids, Allocation <- Ids, Borrow <- Ids, Resource <- Ids, None <- NoParent,
    status <- [o \in Ids |-> IF o \in DOMAIN owners THEN owners[o].status ELSE "Unborn"],
    parent <- [o \in Ids |->
                 IF o \in DOMAIN owners /\ owners[o].status = "Active"
                 THEN owners[o].parent ELSE NoParent],
    scope <- [o \in Ids |->
                IF \E i \in DOMAIN scopes : o \in Range(scopes[i].entries) /\ o \in DOMAIN owners
                THEN CHOOSE i \in DOMAIN scopes : o \in Range(scopes[i].entries) ELSE 0],
    allocation <- [o \in Ids |-> IF o \in DOMAIN owners THEN owners[o].allocation ELSE NoParent],
    allocations <- DOMAIN allocations,
    borrows <- {[id |-> b, owner |-> borrows[b].owner, mode |-> borrows[b].mode] :
                   b \in DOMAIN borrows},
    rstatus <- [r \in Ids |-> IF r \in DOMAIN resources THEN resources[r] ELSE "Unborn"],
    rscope <- [r \in Ids |->
                 IF \E i \in DOMAIN scopes :
                       r \in Range(scopes[i].entries) /\ r \in DOMAIN resources
                 THEN CHOOSE i \in DOMAIN scopes : r \in Range(scopes[i].entries) ELSE 0],
    depth <- Len(scopes)

ImplementsOwnership == Abstract!Spec
=============================================================================
