--------------------------- MODULE PackageProofs ----------------------------
(***************************************************************************)
(* Proofs about PackageManager, for any number of operations, packages,    *)
(* faults and interventions by hand.                                       *)
(***************************************************************************)
EXTENDS PackageManager, TLAPS

Kind == {"blob", "tree", "evidence", "commit"}
Evidencing == {"evidence", "sync_evidence"}
Committing == {"commit", "sync_commit"}
Admitting == {"blob", "sync_blob", "tree", "sync_tree", "load"} \cup Evidencing \cup Committing
Writing == {"compare", "rename", "sync_lock"}
Labels == Over \cup Admitting \cup Writing
          \cup {"resolve", "admit", "mark", "reload", "drop_done", "drop_failed"}

\* The entries a loss of power leaves in place, but for the adopted ones.
Safe == synced \cup adopted
Full(p) == Content(p) \cup {Commit(p)} \subseteq Safe
Backed(lock) == lock.by = "tool" => \A p \in lock.pins : Full(p)

Typed ==
  /\ pc \in [Operation -> Labels] /\ seen \in [Operation -> (SUBSET Package) \cup {None}]
  /\ want \in [Operation -> SUBSET Package] /\ todo \in [Operation -> SUBSET Package]
  /\ package \in [Operation -> Package \cup {None}] /\ interventions \in Nat

Stored ==
  /\ synced \subseteq published
  /\ \A p \in Package : Commit(p) \in published => Content(p) \subseteq Safe
  /\ axiom_lock.pins \in (SUBSET Package) \cup {None} /\ Backed(axiom_lock)
  /\ on_disk.pins \in (SUBSET Package) \cup {None} /\ Backed(on_disk)

\* What an operation has already put in place of the package it admits.
Placed(o) ==
  /\ pc[o] \in {"tree", "sync_tree", "load"} \cup Evidencing \cup Committing =>
        Entry("blob", package[o]) \in Safe
  /\ pc[o] \in {"load"} \cup Evidencing \cup Committing => Entry("tree", package[o]) \in Safe
  /\ pc[o] \in {"load"} \cup Committing => Entry("evidence", package[o]) \in Safe
  /\ pc[o] = "load" => Entry("commit", package[o]) \in Safe
  /\ \A kind \in Kind : pc[o] = Sync[kind] => Entry(kind, package[o]) \in published

Own(o) ==
  /\ Placed(o)
  /\ \A p \in want[o] \ todo[o] : Full(p)
  /\ pc[o] \in {"compare", "rename"} => todo[o] = {}
  /\ pc[o] \in Writing => writer_lock = o
  /\ pc[o] = "rename" => axiom_lock.pins = seen[o] \/ o \in raced
  /\ pc[o] \in Admitting => [owner |-> o, marked |-> TRUE] \in transactions
  /\ interventions = 0 /\ Running(o) => operation_lock = o

IInv == Typed /\ Stored /\ \A o \in Operation : Own(o)

-----------------------------------------------------------------------------
LEMMA Order ==
  /\ Kinds[1] = "blob" /\ After("blob") = "tree" /\ After("tree") = "evidence"
  /\ After("evidence") = "commit" /\ After("commit") = "load"
<1>1. DOMAIN Kinds = 1..4 /\ Len(Kinds) = 4 /\ Kinds[1] = "blob" /\ Kinds[2] = "tree"
      /\ Kinds[3] = "evidence" /\ Kinds[4] = "commit"
  BY DEF Kinds
<1>2. /\ Place("blob") = 1 /\ Place("tree") = 2 /\ Place("evidence") = 3 /\ Place("commit") = 4
  BY <1>1 DEF Place
<1> QED BY <1>1, <1>2 DEF After

LEMMA Entries4 ==
  /\ \A p : Content(p) = {Entry("blob", p), Entry("tree", p), Entry("evidence", p)}
  /\ \A p : Commit(p) = Entry("commit", p)
  /\ \A p, q, kind : Entry("commit", p) = Entry(kind, q) => kind = "commit" /\ p = q
<1>1. \A p, q, kind : Entry("commit", p) = Entry(kind, q) => kind = "commit" /\ p = q
  BY DEF Entry
<1>2. \A p : Content(p) = {Entry("blob", p), Entry("tree", p), Entry("evidence", p)}
  BY DEF Content
<1> QED BY <1>1, <1>2 DEF Commit

LEMMA Syncs ==
  /\ Sync["blob"] = "sync_blob" /\ Sync["tree"] = "sync_tree"
  /\ Sync["evidence"] = "sync_evidence" /\ Sync["commit"] = "sync_commit"
  BY DEF Sync

LEMMA InitInvariant == Init => IInv
<1> SUFFICES ASSUME Init PROVE IInv
  OBVIOUS
<1>1. Typed /\ Stored
  <2>1. axiom_lock.by = "user" /\ on_disk.by = "user" /\ published = {} /\ synced = {}
        /\ interventions = 0 /\ axiom_lock.pins = None /\ on_disk.pins = None
    BY DEF Init
  <2>2. /\ pc \in [Operation -> Labels] /\ seen \in [Operation -> (SUBSET Package) \cup {None}]
        /\ want \in [Operation -> SUBSET Package] /\ todo \in [Operation -> SUBSET Package]
        /\ package \in [Operation -> Package \cup {None}]
    <3>1. pc \in [Operation -> Labels]
      BY DEF Init, Labels, Over
    <3>2. /\ seen \in [Operation -> (SUBSET Package) \cup {None}]
          /\ package \in [Operation -> Package \cup {None}]
      BY DEF Init
    <3>3. {} \in SUBSET Package
      OBVIOUS
    <3>4. want \in [Operation -> SUBSET Package] /\ todo \in [Operation -> SUBSET Package]
      BY <3>3 DEF Init
    <3> QED BY <3>1, <3>2, <3>4
  <2> QED BY <2>1, <2>2 DEF Typed, Stored, Backed
<1>2. ASSUME NEW o \in Operation PROVE Own(o)
  BY <1>2, Syncs DEF Init, Own, Placed, Writing, Admitting, Evidencing, Committing, Running, Over, Kind
<1> QED BY <1>1, <1>2 DEF IInv

-----------------------------------------------------------------------------
\* What a step of one operation leaves alone of another.
Spared(q) ==
  /\ pc'[q] = pc[q] /\ seen'[q] = seen[q] /\ want'[q] = want[q] /\ todo'[q] = todo[q]
  /\ package'[q] = package[q]
  /\ Safe \subseteq Safe' /\ published \subseteq published'
  /\ pc[q] \in Writing /\ writer_lock = q => writer_lock' = q
  /\ interventions' = 0 => interventions = 0
  /\ interventions' = 0 /\ Running(q) /\ operation_lock = q => operation_lock' = q
  /\ pc[q] = "rename" => axiom_lock' = axiom_lock \/ q \in raced'
  /\ q \in raced => q \in raced'
  /\ pc[q] \in Admitting /\ [owner |-> q, marked |-> TRUE] \in transactions =>
        [owner |-> q, marked |-> TRUE] \in transactions'

LEMMA SparedStep == ASSUME NEW q \in Operation, Own(q), Spared(q) PROVE Own(q)'
<1>1. Placed(q)'
  BY DEF Own, Placed, Spared
<1>2. \A p \in want'[q] \ todo'[q] : Full(p)'
  BY DEF Own, Spared, Full
<1> QED BY <1>1, <1>2 DEF Own, Spared, Running

\* A step of one operation, or none, that spares the others.
LEMMA LocalStep ==
  ASSUME IInv, NEW o, o \in Operation => Own(o)', Typed', Stored',
         \A q \in Operation \ {o} : Spared(q)
  PROVE  IInv'
  BY SparedStep DEF IInv

LEMMA StoredKept ==
  ASSUME Stored, UNCHANGED <<published, synced, adopted, axiom_lock, on_disk>>
  PROVE  Stored' /\ Safe' = Safe
  BY DEF Stored, Backed, Safe, Full

\* A step that only moves an operation to another label, and perhaps takes or
\* gives back a lock.
LEMMA MoveStep ==
  ASSUME IInv, NEW o \in Operation, NEW l \in Labels, pc' = [pc EXCEPT ![o] = l],
         UNCHANGED <<locals, cache, axiom_lock, on_disk, raced, interventions>>,
         l \notin Admitting \cup {"rename"},
         l = "compare" => todo[o] = {}, l \in Writing => writer_lock' = o,
         interventions = 0 /\ l \notin Over => operation_lock' = o,
         \A q \in Operation \ {o} :
            /\ pc[q] \in Writing /\ writer_lock = q => writer_lock' = q
            /\ interventions = 0 /\ Running(q) /\ operation_lock = q => operation_lock' = q
  PROVE  IInv'
<1>1. Typed'
  BY DEF IInv, Typed, locals
<1>2. Stored' /\ Safe' = Safe
  BY StoredKept DEF IInv, cache
<1>3. pc'[o] = l /\ \A q \in Operation \ {o} : pc'[q] = pc[q]
  BY DEF IInv, Typed
<1>4. Own(o)'
  <2>1. Placed(o)'
    BY <1>3, Syncs DEF Placed, Admitting, Evidencing, Committing, Kind
  <2>2. \A p \in want'[o] \ todo'[o] : Full(p)'
    BY Zenon, <1>2 DEF IInv, Own, Full, locals
  <2>3. pc'[o] \in {"compare", "rename"} => todo'[o] = {}
    BY <1>3 DEF locals
  <2> QED BY <1>3, <2>1, <2>2, <2>3 DEF Own, Running, Admitting
<1>5. \A q \in Operation \ {o} : Spared(q)
  BY <1>2, <1>3 DEF Spared, locals, cache
<1> QED BY <1>1, <1>2, <1>4, <1>5, LocalStep

LEMMA AcquireStep == ASSUME IInv, NEW o \in Operation, Acquire(o) PROVE IInv'
<1>1. UNCHANGED <<locals, cache, writer_lock, axiom_lock, on_disk, raced, interventions>>
  BY DEF Acquire, bounds
<1>2. CASE operation_lock = None /\ operation_lock' = o /\ Goto(o, "resolve")
  <2>1. \A q \in Operation : interventions = 0 /\ Running(q) => operation_lock = q
    BY Zenon DEF IInv, Own
  <2>2. \A q \in Operation : ~(interventions = 0 /\ Running(q))
    BY <1>2, <2>1, PackagesHaveArchives
  <2>3. "resolve" \in Labels /\ "resolve" \notin Admitting \cup Writing
    BY DEF Labels, Admitting, Writing, Evidencing, Committing
  <2> QED BY Zenon, <1>1, <1>2, <2>2, <2>3, MoveStep DEF Goto, Writing
<1>3. CASE operation_lock # None /\ UNCHANGED operation_lock /\ Goto(o, "failed")
  <2>1. /\ "failed" \in Labels /\ "failed" \in Over /\ "failed" \notin Admitting \cup Writing
    BY DEF Labels, Admitting, Writing, Evidencing, Committing, Over
  <2> QED BY Zenon, <1>1, <1>3, <2>1, MoveStep DEF Goto, Writing
<1> QED BY <1>2, <1>3 DEF Acquire

LEMMA LockWriterStep == ASSUME IInv, NEW o \in Operation, LockWriter(o) PROVE IInv'
<1>1. /\ UNCHANGED <<locals, cache, operation_lock, axiom_lock, on_disk, raced, interventions>>
      /\ pc[o] = "admit" /\ todo[o] = {} /\ writer_lock = None /\ writer_lock' = o
      /\ pc' = [pc EXCEPT ![o] = "compare"]
  BY DEF LockWriter, bounds, Goto
<1>2. "compare" \in Labels /\ "compare" \notin Admitting \cup {"rename"} /\ "compare" \in Writing
  BY DEF Labels, Admitting, Writing, Evidencing, Committing
<1>3. \A q \in Operation : writer_lock # q
  BY <1>1, PackagesHaveArchives
<1>4. Running(o) /\ (interventions = 0 => operation_lock = o)
  BY Zenon, <1>1 DEF IInv, Own, Running, Over
<1> QED BY Zenon, <1>1, <1>2, <1>3, <1>4, MoveStep

LEMMA DropStep ==
  ASSUME IInv, NEW o \in Operation, NEW result \in {"done", "failed"}, DropLock(o, result)
  PROVE  IInv'
<1>1. /\ UNCHANGED <<locals, cache, writer_lock, axiom_lock, on_disk, raced, interventions>>
      /\ pc[o] \in {"drop_done", "drop_failed"}
      /\ operation_lock' = IF operation_lock = o THEN None ELSE operation_lock
      /\ pc' = [pc EXCEPT ![o] = result]
  BY DEF DropLock, bounds, Goto, Drop
<1>2. result \in Labels /\ result \in Over /\ result \notin Admitting \cup Writing
  BY DEF Labels, Admitting, Writing, Evidencing, Committing, Over
<1> QED BY Zenon, <1>1, <1>2, MoveStep DEF Writing

LEMMA ResolveStep ==
  ASSUME IInv, NEW o \in Operation, NEW fetch \in BOOLEAN, NEW resolved \in SUBSET Package,
         Resolve(o, fetch, resolved)
  PROVE  IInv'
<1>1. /\ pc[o] = "resolve" /\ pc' = [pc EXCEPT ![o] = "admit"]
      /\ seen' = [seen EXCEPT ![o] = axiom_lock.pins]
      /\ want' = [want EXCEPT ![o] = resolved] /\ todo' = [todo EXCEPT ![o] = resolved]
      /\ UNCHANGED <<package, cache, project, bounds>>
  BY DEF Resolve, Goto
<1>2. "admit" \in Labels /\ "admit" \notin Admitting \cup Writing /\ "admit" # "rename"
  BY DEF Labels, Admitting, Writing, Evidencing, Committing
<1>3. Typed'
  BY <1>1, <1>2 DEF IInv, Typed, Stored, bounds
<1>4. Stored' /\ Safe' = Safe
  BY <1>1, StoredKept DEF IInv, cache, project
<1>5. /\ pc'[o] = "admit" /\ want'[o] = todo'[o]
      /\ \A q \in Operation \ {o} :
            /\ pc'[q] = pc[q] /\ seen'[q] = seen[q] /\ want'[q] = want[q] /\ todo'[q] = todo[q]
            /\ package'[q] = package[q]
  BY <1>1 DEF IInv, Typed
<1>6. Own(o)'
  <2>1. Placed(o)'
    BY <1>2, <1>5, Syncs DEF Placed, Admitting, Evidencing, Committing, Kind
  <2>2. interventions' = 0 => operation_lock' = o
    BY Zenon, <1>1 DEF IInv, Own, Running, Over, project, bounds
  <2> QED BY <1>2, <1>5, <2>1, <2>2 DEF Own
<1>7. \A q \in Operation \ {o} : Spared(q)
  BY <1>1, <1>4, <1>5 DEF Spared, cache, project, bounds
<1> QED BY <1>3, <1>4, <1>6, <1>7, LocalStep

\* Compare, Rename and SyncLock: the holder of the flock is alone.
LEMMA WriterStep ==
  ASSUME IInv, NEW o \in Operation, Compare(o) \/ Rename(o) \/ SyncLock(o)
  PROVE  IInv'
<1> DEFINE l == pc'[o]
<1>1. /\ UNCHANGED <<locals, cache, operation_lock, raced, interventions>>
      /\ pc[o] \in Writing /\ pc' = [pc EXCEPT ![o] = l]
      /\ \/ /\ pc[o] = "compare" /\ l = "rename" /\ axiom_lock.pins = seen[o]
            /\ UNCHANGED <<writer_lock, axiom_lock, on_disk>>
         \/ /\ pc[o] = "rename" /\ l = "sync_lock" /\ axiom_lock' = [pins |-> want[o], by |-> "tool"]
            /\ UNCHANGED <<writer_lock, on_disk>>
         \/ /\ pc[o] = "sync_lock" /\ l = "reload" /\ on_disk' = axiom_lock /\ writer_lock' = None
            /\ UNCHANGED axiom_lock
  BY DEF IInv, Typed, Compare, Rename, SyncLock, Goto, bounds, project, Writing
<1> HIDE DEF l
<1>2. l \in {"rename", "sync_lock", "reload"} /\ l \in Labels \ Admitting /\ l \notin Over
  BY <1>1 DEF Labels, Admitting, Writing, Evidencing, Committing, Over
<1>3. writer_lock = o /\ \A q \in Operation \ {o} : pc[q] \notin Writing
  BY Zenon, <1>1 DEF IInv, Own
<1>4. Typed'
  BY <1>1, <1>2 DEF IInv, Typed, locals
<1>5. pc'[o] = l /\ \A q \in Operation \ {o} : pc'[q] = pc[q]
  BY <1>1 DEF IInv, Typed
<1>6. Stored' /\ Safe' = Safe
  <2>1. Safe' = Safe /\ (\A p : Full(p)' = Full(p)) /\ UNCHANGED <<published, synced>>
    BY <1>1 DEF Safe, Full, cache
  <2>2. pc[o] = "rename" => \A p \in want[o] : Full(p)
    BY Zenon DEF IInv, Own
  <2>3. Backed(axiom_lock)' /\ Backed(on_disk)'
    BY <1>1, <2>1, <2>2 DEF IInv, Stored, Backed
  <2>4. /\ axiom_lock'.pins \in (SUBSET Package) \cup {None}
        /\ on_disk'.pins \in (SUBSET Package) \cup {None}
    BY <1>1 DEF IInv, Typed, Stored
  <2> QED BY <2>1, <2>3, <2>4 DEF IInv, Stored
<1>7. Own(o)'
  <2>1. Placed(o)'
    BY <1>2, <1>5, Syncs DEF Placed, Admitting, Evidencing, Committing, Kind
  <2>2. \A p \in want'[o] \ todo'[o] : Full(p)'
    BY Zenon, <1>1, <1>6 DEF IInv, Own, Full, locals
  <2>3. /\ l = "rename" => todo'[o] = {} /\ axiom_lock'.pins = seen'[o]
        /\ l \in Writing => writer_lock' = o
        /\ interventions' = 0 => operation_lock' = o
    BY Zenon, <1>1, <1>2, <1>3 DEF IInv, Own, Running, Over, Writing, locals
  <2> QED BY <1>2, <1>5, <2>1, <2>2, <2>3 DEF Own
<1>8. \A q \in Operation \ {o} : Spared(q)
  BY <1>1, <1>3, <1>5, <1>6 DEF Spared, locals, cache, Writing
<1> QED BY <1>4, <1>6, <1>7, <1>8, LocalStep

\* Finish, Fail and Kill: an operation that ends gives back what it holds.
LEMMA EndStep ==
  ASSUME IInv, NEW o \in Operation, Finish(o) \/ Fail(o) \/ Kill(o)
  PROVE  IInv'
<1> DEFINE l == pc'[o]
<1>1. /\ pc' = [pc EXCEPT ![o] = l] /\ l \in {"drop_done", "drop_failed", "dead"} /\ Running(o)
      /\ Forget({o}) /\ UNCHANGED <<published, synced, adopted, axiom_lock, on_disk>>
      /\ UNCHANGED <<operation_lock, interventions>>
      /\ transactions' \in {transactions, {t \in transactions : t.owner # o}}
      /\ writer_lock' \in {writer_lock, IF writer_lock = o THEN None ELSE writer_lock}
  BY DEF IInv, Typed, Finish, Fail, Fails, Kill, Goto, bounds, cache, Running, Over
<1> HIDE DEF l
<1>2. /\ l \in Labels /\ l \notin Admitting \cup Writing /\ l # "rename"
  BY <1>1 DEF Labels, Admitting, Writing, Evidencing, Committing, Over
<1>3. /\ seen'[o] = None /\ want'[o] = {} /\ todo'[o] = {} /\ package'[o] = None
      /\ \A q \in Operation \ {o} :
            /\ seen'[q] = seen[q] /\ want'[q] = want[q] /\ todo'[q] = todo[q]
            /\ package'[q] = package[q] /\ (q \in raced => q \in raced')
  BY <1>1 DEF Forget
<1>4. Typed'
  <2>1. /\ seen' \in [Operation -> (SUBSET Package) \cup {None}]
        /\ package' \in [Operation -> Package \cup {None}]
    BY <1>1 DEF IInv, Typed, Forget
  <2>2. want' \in [Operation -> SUBSET Package] /\ todo' \in [Operation -> SUBSET Package]
    <3>1. {} \in SUBSET Package
      OBVIOUS
    <3> QED BY <1>1, <3>1 DEF IInv, Typed, Forget
  <2> QED BY Zenon, <1>1, <1>2, <2>1, <2>2 DEF IInv, Typed
<1>5. pc'[o] = l /\ \A q \in Operation \ {o} : pc'[q] = pc[q]
  BY <1>1 DEF IInv, Typed
<1>6. Stored' /\ Safe' = Safe
  BY <1>1, StoredKept DEF IInv
<1>7. Own(o)'
  <2>1. Placed(o)'
    BY <1>2, <1>5, Syncs DEF Placed, Admitting, Evidencing, Committing, Kind
  <2>2. interventions' = 0 => operation_lock' = o
    BY Zenon, <1>1 DEF IInv, Own
  <2> QED BY <1>2, <1>3, <1>5, <2>1, <2>2 DEF Own, Writing
<1>8. \A q \in Operation \ {o} : Spared(q)
  BY <1>1, <1>3, <1>5, <1>6 DEF Spared
<1> QED BY <1>4, <1>6, <1>7, <1>8, LocalStep

-----------------------------------------------------------------------------
\* The steps of an admission.
LEMMA BeginAdmitStep ==
  ASSUME IInv, NEW o \in Operation, NEW p \in Package, NEW reaped, BeginAdmit(o, p, reaped)
  PROVE  IInv'
<1>1. /\ pc[o] = "admit" /\ pc' = [pc EXCEPT ![o] = "mark"]
      /\ package' = [package EXCEPT ![o] = p]
      /\ transactions' = (transactions \ reaped) \cup {[owner |-> o, marked |-> FALSE]}
      /\ \A t \in reaped : ~Running(t.owner)
      /\ UNCHANGED <<seen, want, todo, published, synced, adopted, project, bounds>>
  BY DEF BeginAdmit, Goto, Reapable
<1>2. /\ "mark" \in Labels /\ "mark" \notin Admitting \cup Writing /\ "mark" # "rename"
      /\ Admitting \cap Over = {}
  BY DEF Labels, Admitting, Writing, Evidencing, Committing, Over
<1>3. Typed'
  BY <1>1, <1>2 DEF IInv, Typed, bounds
<1>4. Stored' /\ Safe' = Safe
  BY <1>1, StoredKept DEF IInv, project
<1>5. /\ pc'[o] = "mark"
      /\ \A q \in Operation \ {o} : pc'[q] = pc[q] /\ package'[q] = package[q]
  BY <1>1 DEF IInv, Typed
<1>6. Own(o)'
  <2>1. Placed(o)'
    BY <1>2, <1>5, Syncs DEF Placed, Admitting, Evidencing, Committing, Kind
  <2>2. \A r \in want'[o] \ todo'[o] : Full(r)'
    BY Zenon, <1>1, <1>4 DEF IInv, Own, Full
  <2>3. interventions' = 0 => operation_lock' = o
    BY Zenon, <1>1 DEF IInv, Own, Running, Over, project, bounds
  <2> QED BY <1>2, <1>5, <2>1, <2>2, <2>3 DEF Own
<1>7. ASSUME NEW q \in Operation \ {o} PROVE Spared(q)
  <2>1. pc[q] \in Admitting /\ [owner |-> q, marked |-> TRUE] \in transactions =>
          [owner |-> q, marked |-> TRUE] \in transactions'
    <3>1. pc[q] \in Admitting => Running(q)
      BY <1>2 DEF Running
    <3>2. [owner |-> q, marked |-> TRUE].owner = q
      OBVIOUS
    <3>3. [owner |-> q, marked |-> TRUE] \in reaped => ~Running(q)
      BY <1>1, <3>2
    <3> QED BY <1>1, <3>1, <3>3
  <2> QED BY <1>1, <1>4, <1>5, <2>1 DEF Spared, project, bounds
<1> QED BY <1>3, <1>4, <1>6, <1>7, LocalStep

LEMMA MarkStep == ASSUME IInv, NEW o \in Operation, Mark(o) PROVE IInv'
<1>1. /\ pc[o] = "mark" /\ pc' = [pc EXCEPT ![o] = "blob"]
      /\ transactions' = (transactions \ {[owner |-> o, marked |-> FALSE]})
                            \cup {[owner |-> o, marked |-> TRUE]}
      /\ UNCHANGED <<locals, published, synced, adopted, project, bounds>>
  BY Order DEF Mark, Goto
<1>2. "blob" \in Labels /\ "blob" \notin Writing
  BY DEF Labels, Admitting, Writing
<1>3. Typed'
  BY <1>1, <1>2 DEF IInv, Typed, locals, bounds
<1>4. Stored' /\ Safe' = Safe
  BY <1>1, StoredKept DEF IInv, project
<1>5. pc'[o] = "blob" /\ \A q \in Operation \ {o} : pc'[q] = pc[q]
  BY <1>1 DEF IInv, Typed
<1>6. Own(o)'
  <2>1. Placed(o)'
    BY <1>5, Syncs DEF Placed, Evidencing, Committing, Kind
  <2>2. \A r \in want'[o] \ todo'[o] : Full(r)'
    BY Zenon, <1>1, <1>4 DEF IInv, Own, Full, locals
  <2>3. interventions' = 0 => operation_lock' = o
    BY Zenon, <1>1 DEF IInv, Own, Running, Over, project, bounds
  <2> QED BY <1>1, <1>2, <1>5, <2>1, <2>2, <2>3 DEF Own
<1>7. ASSUME NEW q \in Operation \ {o} PROVE Spared(q)
  <2>1. [owner |-> q, marked |-> TRUE] \in transactions =>
          [owner |-> q, marked |-> TRUE] \in transactions'
    <3>1. [owner |-> q, marked |-> TRUE].owner # [owner |-> o, marked |-> FALSE].owner
      OBVIOUS
    <3> QED BY <1>1, <3>1
  <2> QED BY <1>1, <1>4, <1>5, <2>1 DEF Spared, locals, project, bounds
<1> QED BY <1>3, <1>4, <1>6, <1>7, LocalStep

\* What is in place once an entry of each kind is durable or adopted.
LEMMA PlacedAfter ==
  ASSUME NEW o \in Operation, NEW kind \in Kind, Placed(o), pc[o] \in {kind, Sync[kind]},
         pc'[o] = After(kind), package' = package, Safe \subseteq Safe',
         Entry(kind, package[o]) \in Safe'
  PROVE  Placed(o)'
<1>1. CASE kind = "blob"
  <2>1. pc'[o] = "tree"
    BY <1>1, Order
  <2> QED BY <1>1, <2>1, Syncs DEF Placed, Evidencing, Committing, Kind
<1>2. CASE kind = "tree"
  <2>1. pc'[o] = "evidence" /\ Entry("blob", package[o]) \in Safe
    BY <1>2, Order, Syncs DEF Placed
  <2> QED BY <1>2, <2>1, Syncs DEF Placed, Evidencing, Committing, Kind
<1>3. CASE kind = "evidence"
  <2>1. /\ pc'[o] = "commit" /\ Entry("blob", package[o]) \in Safe
        /\ Entry("tree", package[o]) \in Safe
    BY <1>3, Order, Syncs DEF Placed, Evidencing
  <2> QED BY <1>3, <2>1, Syncs DEF Placed, Evidencing, Committing, Kind
<1>4. CASE kind = "commit"
  <2>1. /\ pc'[o] = "load" /\ Entry("blob", package[o]) \in Safe
        /\ Entry("tree", package[o]) \in Safe /\ Entry("evidence", package[o]) \in Safe
    BY <1>4, Order, Syncs DEF Placed, Committing
  <2> QED BY <1>4, <2>1, Syncs DEF Placed, Evidencing, Committing, Kind
<1> QED BY <1>1, <1>2, <1>3, <1>4 DEF Kind

\* A step of an admission in the cache: entries are added to the published,
\* durable or adopted ones, and a commit only when the rest is in place.
LEMMA CacheStep ==
  ASSUME IInv, NEW o \in Operation, NEW l \in Admitting, pc[o] \in Admitting,
         pc' = [pc EXCEPT ![o] = l], UNCHANGED <<locals, transactions, project, bounds>>,
         Safe \subseteq Safe', published \subseteq published', synced' \subseteq published',
         \A p \in Package : Commit(p) \in published' \ published => Content(p) \subseteq Safe,
         Placed(o)'
  PROVE  IInv'
<1>1. /\ l \in Labels /\ l \notin Writing /\ pc[o] \notin Over
      /\ l \notin {"compare", "rename"}
  BY DEF Labels, Admitting, Writing, Evidencing, Committing, Over
<1>2. Typed'
  BY <1>1 DEF IInv, Typed, locals, bounds
<1>3. \A p : Full(p) => Full(p)'
  BY DEF Full
<1>4. Stored'
  <2>1. \A p \in Package : Commit(p) \in published' => Content(p) \subseteq Safe'
    BY DEF IInv, Stored
  <2>2. Backed(axiom_lock)' /\ Backed(on_disk)'
    BY <1>3 DEF IInv, Stored, Backed, project
  <2> QED BY <2>1, <2>2 DEF IInv, Stored, project
<1>5. pc'[o] = l /\ \A q \in Operation \ {o} : pc'[q] = pc[q]
  BY DEF IInv, Typed
<1>6. Own(o)'
  <2>1. \A p \in want'[o] \ todo'[o] : Full(p)'
    BY Zenon, <1>3 DEF IInv, Own, locals
  <2>2. [owner |-> o, marked |-> TRUE] \in transactions'
    BY DEF IInv, Own
  <2>3. interventions' = 0 => operation_lock' = o
    BY Zenon, <1>1 DEF IInv, Own, Running, project, bounds
  <2> QED BY <1>1, <1>5, <2>1, <2>2, <2>3 DEF Own
<1>7. ASSUME NEW q \in Operation \ {o} PROVE Spared(q)
  BY <1>5 DEF Spared, locals, project, bounds
<1> QED BY <1>2, <1>4, <1>6, <1>7, LocalStep

LEMMA PublishStep ==
  ASSUME IInv, NEW o \in Operation, NEW kind \in Kind, Publish(o, kind) PROVE IInv'
<1> DEFINE e == Entry(kind, package[o])
<1>1. /\ pc[o] = kind /\ UNCHANGED <<locals, synced, transactions, project, bounds>>
      /\ \/ /\ e \in published /\ pc' = [pc EXCEPT ![o] = After(kind)]
            /\ adopted' = adopted \cup ({e} \ synced) /\ published' = published
         \/ /\ e \notin published /\ pc' = [pc EXCEPT ![o] = Sync[kind]]
            /\ published' = published \cup {e} /\ adopted' = adopted
  BY DEF Publish, Goto
<1>2. kind \in Admitting /\ After(kind) \in Admitting /\ Sync[kind] \in Admitting
  BY Order, Syncs DEF Kind, Admitting, Evidencing, Committing
<1>3. /\ Safe \subseteq Safe' /\ published \subseteq published' /\ package' = package
      /\ synced' \subseteq published'
  BY <1>1 DEF Safe, IInv, Stored, locals
<1>4. \A p \in Package : Commit(p) \in published' \ published => Content(p) \subseteq Safe
  <2> SUFFICES ASSUME NEW p \in Package, Commit(p) \in published' \ published
               PROVE  Content(p) \subseteq Safe
    OBVIOUS
  <2>1. kind = "commit" /\ package[o] = p
    BY <1>1, Entries4
  <2>2. Placed(o) /\ pc[o] = "commit"
    BY Zenon, <1>1, <2>1 DEF IInv, Own
  <2> QED BY <2>1, <2>2, Entries4 DEF Placed, Committing
<1>5. Placed(o)'
  <2>1. CASE e \in published
    <3>1. pc'[o] = After(kind) /\ e \in Safe'
      BY <1>1, <2>1 DEF IInv, Typed, Safe
    <3> QED BY Zenon, <1>1, <1>3, <3>1, PlacedAfter DEF IInv, Own
  <2>2. CASE e \notin published
    <3>1. pc'[o] = Sync[kind] /\ e \in published' /\ Placed(o)
      BY Zenon, <1>1, <2>2 DEF IInv, Typed, Own
    <3>2. \A k \in Kind : Sync[k] = Sync[kind] => k = kind
      BY Syncs DEF Kind
    <3>3. \A k \in Kind : pc'[o] = Sync[k] => Entry(k, package'[o]) \in published'
      BY <1>3, <3>1, <3>2
    <3>4. kind = "blob" \/ kind = "tree" \/ kind = "evidence" \/ kind = "commit"
      BY DEF Kind
    <3> QED BY <1>1, <1>3, <3>1, <3>3, <3>4, Syncs DEF Placed, Evidencing, Committing
  <2> QED BY <2>1, <2>2
<1>6. CASE e \in published
  BY <1>1, <1>2, <1>3, <1>4, <1>5, <1>6, CacheStep
<1>7. CASE e \notin published
  BY <1>1, <1>2, <1>3, <1>4, <1>5, <1>7, CacheStep
<1> QED BY <1>6, <1>7

LEMMA SyncEntryStep ==
  ASSUME IInv, NEW o \in Operation, NEW kind \in Kind, SyncEntry(o, kind) PROVE IInv'
<1> DEFINE e == Entry(kind, package[o])
<1>1. /\ pc[o] = Sync[kind] /\ pc' = [pc EXCEPT ![o] = After(kind)]
      /\ synced' = synced \cup Siblings(e) /\ adopted' = adopted \ Siblings(e)
      /\ UNCHANGED <<locals, published, transactions, project, bounds>>
  BY DEF SyncEntry, Goto
<1>2. Sync[kind] \in Admitting /\ After(kind) \in Admitting
  BY Order, Syncs DEF Kind, Admitting, Evidencing, Committing
<1>3. e \in published /\ Placed(o)
  BY Zenon, <1>1 DEF IInv, Own, Placed
<1>4. e \in Siblings(e) /\ Siblings(e) \subseteq published
  BY <1>3 DEF Siblings
<1>5. Safe \subseteq Safe' /\ e \in Safe' /\ synced' \subseteq published' /\ package' = package
  BY <1>1, <1>4 DEF Safe, IInv, Stored, locals
<1>6. Placed(o)'
  <2>1. pc'[o] = After(kind)
    BY <1>1 DEF IInv, Typed
  <2> QED BY <1>1, <1>3, <1>5, <2>1, PlacedAfter
<1> QED BY Zenon, <1>1, <1>2, <1>5, <1>6, CacheStep

LEMMA AdmittedStep == ASSUME IInv, NEW o \in Operation, Admitted(o) PROVE IInv'
<1>1. /\ pc[o] = "load" /\ pc' = [pc EXCEPT ![o] = "admit"]
      /\ transactions' = {t \in transactions : t.owner # o}
      /\ todo' = [todo EXCEPT ![o] = @ \ {package[o]}]
      /\ UNCHANGED <<seen, want, package, published, synced, adopted, project, bounds>>
  BY DEF Admitted, Goto
<1>2. /\ "admit" \in Labels /\ "admit" \notin Admitting \cup Writing /\ "load" \notin Over
  BY DEF Labels, Admitting, Writing, Evidencing, Committing, Over
<1>3. Typed'
  BY <1>1, <1>2 DEF IInv, Typed, bounds
<1>4. Stored' /\ Safe' = Safe
  BY <1>1, StoredKept DEF IInv, project
<1>5. /\ pc'[o] = "admit" /\ todo'[o] = todo[o] \ {package[o]}
      /\ \A q \in Operation \ {o} : pc'[q] = pc[q] /\ todo'[q] = todo[q]
  BY <1>1 DEF IInv, Typed
<1>6. Own(o)'
  <2>1. Placed(o)'
    BY <1>5, Syncs DEF Placed, Evidencing, Committing, Kind
  <2>2. Full(package[o])
    <3>1. /\ Entry("blob", package[o]) \in Safe /\ Entry("tree", package[o]) \in Safe
          /\ Entry("evidence", package[o]) \in Safe /\ Entry("commit", package[o]) \in Safe
      BY Zenon, <1>1 DEF IInv, Own, Placed
    <3> QED BY <3>1, Entries4 DEF Full
  <2>3. \A r \in want'[o] \ todo'[o] : Full(r)
    BY Zenon, <1>1, <1>5, <2>2 DEF IInv, Own
  <2>4. \A r \in want'[o] \ todo'[o] : Full(r)'
    BY <1>4, <2>3 DEF Full
  <2>5. interventions' = 0 => operation_lock' = o
    BY Zenon, <1>1, <1>2 DEF IInv, Own, Running, project, bounds
  <2> QED BY <1>2, <1>5, <2>1, <2>4, <2>5 DEF Own
<1>7. ASSUME NEW q \in Operation \ {o} PROVE Spared(q)
  <2>1. [owner |-> q, marked |-> TRUE] \in transactions =>
          [owner |-> q, marked |-> TRUE] \in transactions'
    BY <1>1
  <2> QED BY <1>1, <1>4, <1>5, <2>1 DEF Spared, project, bounds
<1> QED BY <1>3, <1>4, <1>6, <1>7, LocalStep

-----------------------------------------------------------------------------
\* The environment.  Everything in Safe outlives a loss of power, or was
\* adopted; what was published and not synced may go.
LEMMA PowerLossStep ==
  ASSUME IInv, NEW kept, NEW lock, PowerLoss(kept, lock) PROVE IInv'
<1>1. /\ kept \subseteq published \ synced /\ lock \in {axiom_lock, on_disk}
      /\ published' = synced \cup kept /\ synced' = synced \cup kept
      /\ axiom_lock' = lock /\ on_disk' = lock /\ adopted' = adopted
      /\ pc' = [o \in Operation |-> IF Running(o) THEN "dead" ELSE pc[o]]
      /\ interventions' = interventions
  BY DEF PowerLoss
<1>2. /\ seen' = [o \in Operation |-> None] /\ want' = [o \in Operation |-> {}]
      /\ todo' = [o \in Operation |-> {}] /\ package' = [o \in Operation |-> None]
  BY DEF PowerLoss, Forget
<1>3. \A o \in Operation : pc'[o] \in Over
  BY <1>1 DEF Running, Over
<1>4. Typed'
  <2>1. {} \in SUBSET Package /\ Over \subseteq Labels
    BY DEF Labels
  <2>2. pc' \in [Operation -> Labels]
    BY <1>1, <1>3, <2>1
  <2> QED BY <1>1, <1>2, <2>1, <2>2 DEF IInv, Typed
<1>5. Stored'
  <2>1. Safe \subseteq Safe' /\ published' \subseteq published /\ synced' \subseteq published'
    BY <1>1 DEF Safe, IInv, Stored
  <2>2. \A p \in Package : Commit(p) \in published' => Content(p) \subseteq Safe'
    BY <2>1 DEF IInv, Stored
  <2>3. \A p : Full(p) => Full(p)'
    BY <2>1 DEF Full
  <2>4. Backed(axiom_lock)' /\ Backed(on_disk)'
    BY <1>1, <2>3 DEF IInv, Stored, Backed
  <2> QED BY <1>1, <2>1, <2>2, <2>4 DEF IInv, Stored
<1>6. ASSUME NEW o \in Operation PROVE Own(o)'
  <2>1. pc'[o] \notin Admitting \cup Writing /\ pc'[o] \in Over
    BY <1>3 DEF Admitting, Writing, Evidencing, Committing, Over
  <2>2. Placed(o)'
    BY <2>1, Syncs DEF Placed, Admitting, Evidencing, Committing, Kind
  <2>3. want'[o] \ todo'[o] = {}
    BY <1>2
  <2> QED BY <2>1, <2>2, <2>3 DEF Own, Running, Writing
<1> QED BY <1>4, <1>5, <1>6 DEF IInv

LEMMA HandStep ==
  ASSUME IInv, DeleteOperationLock \/ \E pins \in SUBSET Package : EditLockfile(pins)
  PROVE  IInv'
<1>1. /\ UNCHANGED <<pc, locals, cache, writer_lock>> /\ interventions' = interventions + 1
      /\ interventions \in Nat
  BY DEF DeleteOperationLock, EditLockfile, IInv, Typed
<1>2. Typed'
  BY <1>1 DEF IInv, Typed, locals
<1>3. \/ UNCHANGED <<axiom_lock, on_disk, raced>>
      \/ /\ axiom_lock'.by = "user" /\ axiom_lock'.pins \in SUBSET Package
         /\ on_disk' = axiom_lock' /\ raced' = raced \cup {o \in Operation : pc[o] = "rename"}
  BY DEF DeleteOperationLock, EditLockfile
<1>4. Safe' = Safe /\ Stored'
  <2>1. CASE UNCHANGED <<axiom_lock, on_disk, raced>>
    BY <1>1, <2>1, StoredKept DEF IInv, cache
  <2>2. CASE axiom_lock'.by = "user" /\ axiom_lock'.pins \in SUBSET Package
             /\ on_disk' = axiom_lock'
    <3>1. Safe' = Safe /\ published' = published /\ synced' = synced
      BY <1>1 DEF Safe, cache
    <3>2. Backed(axiom_lock)' /\ Backed(on_disk)'
      BY <2>2 DEF Backed
    <3> QED BY <2>2, <3>1, <3>2 DEF IInv, Stored
  <2> QED BY <1>3, <2>1, <2>2
<1>5. ASSUME NEW q \in Operation PROVE Spared(q)
  <2>1. interventions' # 0
    BY <1>1
  <2>2. (pc[q] = "rename" => axiom_lock' = axiom_lock \/ q \in raced') /\ (q \in raced => q \in raced')
    BY <1>3
  <2> QED BY <1>1, <1>4, <2>1, <2>2 DEF Spared, locals, cache
<1> QED BY <1>2, <1>4, <1>5, SparedStep DEF IInv

LEMMA StutterStep == ASSUME IInv, UNCHANGED vars PROVE IInv'
<1>1. Typed'
  BY DEF IInv, Typed, vars, locals, bounds
<1>2. Stored' /\ Safe' = Safe
  BY StoredKept DEF IInv, vars, cache, project
<1>3. ASSUME NEW q \in Operation PROVE Spared(q)
  BY <1>2 DEF Spared, vars, locals, cache, project, bounds
<1> QED BY <1>1, <1>2, <1>3, SparedStep DEF IInv

LEMMA StepInvariant == IInv /\ [Next]_vars => IInv'
<1> SUFFICES ASSUME IInv, [Next]_vars PROVE IInv'
  OBVIOUS
<1>1. ASSUME NEW o \in Operation, Step(o) PROVE IInv'
  <2>1. \/ Acquire(o) \/ Mark(o) \/ Admitted(o) \/ LockWriter(o)
        \/ \E fetch \in BOOLEAN, resolved \in SUBSET Package : Resolve(o, fetch, resolved)
        \/ \E p \in Package, reaped \in SUBSET transactions : BeginAdmit(o, p, reaped)
        \/ \E kind \in Kind : Publish(o, kind) \/ SyncEntry(o, kind)
        \/ Compare(o) \/ Rename(o) \/ SyncLock(o) \/ Finish(o) \/ Fail(o)
        \/ \E result \in {"done", "failed"} : DropLock(o, result)
    BY <1>1 DEF Step, Kind
  <2>2. CASE Acquire(o) \/ Mark(o) \/ Admitted(o) \/ LockWriter(o)
    BY <2>2, AcquireStep, MarkStep, AdmittedStep, LockWriterStep
  <2>3. CASE \E fetch \in BOOLEAN, resolved \in SUBSET Package : Resolve(o, fetch, resolved)
    BY <2>3, ResolveStep
  <2>4. CASE \E p \in Package, reaped \in SUBSET transactions : BeginAdmit(o, p, reaped)
    BY <2>4, BeginAdmitStep
  <2>5. CASE \E kind \in Kind : Publish(o, kind) \/ SyncEntry(o, kind)
    BY <2>5, PublishStep, SyncEntryStep
  <2>6. CASE Compare(o) \/ Rename(o) \/ SyncLock(o) \/ Finish(o) \/ Fail(o)
    BY <2>6, WriterStep, EndStep
  <2>7. CASE \E result \in {"done", "failed"} : DropLock(o, result)
    BY <2>7, DropStep
  <2> QED BY <2>1, <2>2, <2>3, <2>4, <2>5, <2>6, <2>7
<1>2. CASE Environment
  BY <1>2, EndStep, PowerLossStep, HandStep DEF Environment
<1>3. CASE AllOver \/ UNCHANGED vars
  BY <1>3, StutterStep DEF AllOver
<1> QED BY <1>1, <1>2, <1>3 DEF Next

\* Everything a tool-written lockfile or a commit record stands for is durable
\* or adopted, and everything an operation relies on is in place.
THEOREM Invariance == Spec => []IInv
  BY InitInvariant, StepInvariant, PTL DEF Spec

\* PackageStore::admit publishes the commit record last, and syncs every entry
\* before it: a commit record stands for its whole package, whatever happens.
THEOREM CommitIsComplete == Spec => []CommitMeansComplete
<1>1. IInv => CommitMeansComplete
  BY DEF IInv, Stored, Safe, CommitMeansComplete
<1> QED BY <1>1, Invariance, PTL

\* The lockfile is written only when all it pins has been admitted, and what
\* has been admitted stays: axiom.lock never pins what the cache cannot serve.
THEOREM LockfileIsBacked == Spec => []LockIsBacked
<1>1. IInv => LockIsBacked
  <2> SUFFICES ASSUME IInv, axiom_lock.by = "tool", NEW p \in axiom_lock.pins
               PROVE  Content(p) \cup {Commit(p)} \subseteq published \cup adopted
    BY DEF LockIsBacked
  <2>1. Content(p) \cup {Commit(p)} \subseteq Safe
    BY DEF IInv, Stored, Backed, Full
  <2> QED BY <2>1 DEF IInv, Stored, Safe
<1> QED BY <1>1, Invariance, PTL

\* unique_transaction and reap_stale_transactions: the transaction of a running
\* admission is never reaped by another operation, however old it is.
THEOREM TransactionStays == Spec => []TransactionIsKept
<1>1. IInv => TransactionIsKept
  BY DEF IInv, Own, Admitting, Evidencing, Committing, TransactionIsKept
<1> QED BY <1>1, Invariance, PTL

\* PackageOperationLock: one operation at a time as long as nobody deletes the
\* lock file by hand.
THEOREM OneAtATime == Spec => []OneOperation
<1>1. IInv => OneOperation
  BY Zenon DEF IInv, Own, OneOperation
<1> QED BY <1>1, Invariance, PTL

\* write_lockfile_v2_atomic_cas: the rename replaces what was compared.
THEOREM SwapIsCompared == Spec => ReplacesWhatItRead
<1>1. IInv =>
        [\A o \in Operation :
           pc[o] = "rename" /\ pc'[o] = "sync_lock" => axiom_lock.pins = seen[o] \/ o \in raced]_vars
  BY Zenon DEF IInv, Own
<1> QED BY <1>1, Invariance, PTL DEF ReplacesWhatItRead

\* PackageOperationLock's Drop removes the file only if it is still its own:
\* nobody else's end, failure, kill or loss of power takes a lock away.
THEOREM LockIsDropped == Spec => LockIsOwn
<1>1. ASSUME IInv, [Next]_vars, NEW o \in Operation, operation_lock = o, operation_lock' # o,
             UNCHANGED interventions
      PROVE  pc[o] \in {"drop_done", "drop_failed"} /\ pc'[o] \in {"done", "failed"}
  <2>1. ASSUME NEW q \in Operation, NEW result \in {"done", "failed"}, DropLock(q, result)
        PROVE  pc[o] \in {"drop_done", "drop_failed"} /\ pc'[o] \in {"done", "failed"}
    BY <1>1, <2>1 DEF DropLock, Drop, Goto, IInv, Typed
  <2>2. CASE Environment
    <3>1. interventions \in Nat
      BY <1>1 DEF IInv, Typed
    <3>2. ASSUME NEW kept, NEW lock, PowerLoss(kept, lock) PROVE FALSE
      BY <1>1, <3>2 DEF PowerLoss
    <3>3. ASSUME NEW q, Kill(q) PROVE FALSE
      BY <1>1, <3>3 DEF Kill
    <3>4. interventions' # interventions + 1
      BY <1>1, <3>1
    <3> QED BY <2>2, <3>2, <3>3, <3>4 DEF Environment, DeleteOperationLock, EditLockfile
  <2>3. ASSUME NEW q \in Operation, Step(q),
               ~\E result \in {"done", "failed"} : DropLock(q, result)
        PROVE  FALSE
    BY Zenon, <1>1, <2>3, PackagesHaveArchives
    DEF Step, Acquire, Resolve, BeginAdmit, Mark, Publish, SyncEntry, Admitted, LockWriter, Compare,
        Rename, SyncLock, Finish, Fail, project
  <2>4. CASE AllOver \/ UNCHANGED vars
    BY <1>1, <2>4 DEF AllOver, vars, project
  <2> QED BY <1>1, <2>1, <2>2, <2>3, <2>4 DEF Next
<1>2. IInv /\ [Next]_vars =>
        [\A o \in Operation :
           operation_lock = o /\ operation_lock' # o /\ UNCHANGED interventions =>
             pc[o] \in {"drop_done", "drop_failed"} /\ pc'[o] \in {"done", "failed"}]_vars
  BY <1>1
<1> QED BY <1>2, Invariance, PTL DEF LockIsOwn, Spec

-----------------------------------------------------------------------------
\* What the types need beyond the invariant: an operation knows the package it
\* is admitting.
Named ==
  /\ operation_lock \in Operation \cup {None} /\ writer_lock \in Operation \cup {None}
  /\ axiom_lock \in Lockfiles /\ on_disk \in Lockfiles
  /\ published \subseteq Entries
  /\ transactions \subseteq [owner : Operation, marked : BOOLEAN]
  /\ raced \subseteq Operation
  /\ \A o \in Operation : pc[o] \in Admitting \cup {"mark"} => package[o] \in Package

LEMMA NamedStep == ASSUME IInv, Named, [Next]_vars PROVE Named'
<1>0. /\ pc \in [Operation -> Labels] /\ want \in [Operation -> SUBSET Package]
      /\ package \in [Operation -> Package \cup {None}]
      /\ synced \subseteq published
  BY DEF IInv, Typed, Stored
<1>1. ASSUME NEW o \in Operation, Step(o) PROVE Named'
  <2>1. CASE Acquire(o) \/ LockWriter(o) \/ Compare(o) \/ Finish(o) \/ Fail(o) \/ Rename(o) \/ SyncLock(o)
    <3>1. /\ pc' = [pc EXCEPT ![o] = pc'[o]] /\ pc'[o] \notin Admitting \cup {"mark"}
          /\ \A q \in Operation \ {o} : package'[q] = package[q]
      BY <1>0, <2>1 DEF Acquire, LockWriter, Compare, Finish, Fail, Rename, SyncLock, Goto, Forget, locals,
                        Admitting, Evidencing, Committing
    <3>2. axiom_lock' \in Lockfiles /\ on_disk' \in Lockfiles
      <4>1. Rename(o) => axiom_lock' \in Lockfiles
        BY <1>0 DEF Rename, Lockfiles
      <4>2. ~Rename(o) => axiom_lock' = axiom_lock
        BY <2>1 DEF Acquire, LockWriter, Compare, Finish, Fail, SyncLock, project
      <4>3. on_disk' \in {on_disk, axiom_lock}
        BY <2>1 DEF Acquire, LockWriter, Compare, Finish, Fail, Rename, SyncLock, project
      <4> QED BY <4>1, <4>2, <4>3 DEF Named
    <3>3. /\ operation_lock' \in Operation \cup {None} /\ writer_lock' \in Operation \cup {None}
          /\ published' = published /\ transactions' \subseteq transactions /\ raced' \subseteq raced
      BY Zenon, <2>1 DEF Acquire, LockWriter, Compare, Finish, Fail, Rename, SyncLock, Named, project, cache,
                  Forget
    <3> QED BY <1>0, <3>1, <3>2, <3>3 DEF Named
  <2>2. ASSUME NEW fetch \in BOOLEAN, NEW resolved \in SUBSET Package, Resolve(o, fetch, resolved)
        PROVE  Named'
    BY <1>0, <2>2 DEF Resolve, Goto, Named, cache, project, Admitting, Evidencing, Committing
  <2>3. ASSUME NEW p \in Package, NEW reaped, BeginAdmit(o, p, reaped) PROVE Named'
    <3>1. transactions' \subseteq [owner : Operation, marked : BOOLEAN]
      <4>1. [owner |-> o, marked |-> FALSE] \in [owner : Operation, marked : BOOLEAN]
        OBVIOUS
      <4> QED BY Zenon, <2>3, <4>1 DEF BeginAdmit, Named
    <3>2. \A q \in Operation : pc'[q] \in Admitting \cup {"mark"} => package'[q] \in Package
      BY <1>0, <2>3 DEF BeginAdmit, Goto, Named
    <3> QED BY <2>3, <3>1, <3>2 DEF BeginAdmit, Named, project
  <2>4. CASE Mark(o)
    <3>1. transactions' \subseteq [owner : Operation, marked : BOOLEAN]
      <4>1. [owner |-> o, marked |-> TRUE] \in [owner : Operation, marked : BOOLEAN]
        OBVIOUS
      <4> QED BY Zenon, <2>4, <4>1 DEF Mark, Named
    <3>2. \A q \in Operation : pc'[q] \in Admitting \cup {"mark"} => package'[q] \in Package
      BY <1>0, <2>4 DEF Mark, Goto, Named, locals
    <3> QED BY Zenon, <2>4, <3>1, <3>2 DEF Mark, Named, project
  <2>5. ASSUME NEW kind \in Kind, Publish(o, kind) \/ SyncEntry(o, kind) PROVE Named'
    <3>1. /\ pc' = [pc EXCEPT ![o] = pc'[o]] /\ package' = package /\ pc[o] \in Admitting
          /\ UNCHANGED <<transactions, project>>
          /\ published' \subseteq published \cup {Entry(kind, package[o])}
      BY <1>0, <2>5, Syncs DEF Publish, SyncEntry, Goto, locals, Kind, Admitting, Evidencing, Committing
    <3>2. Entry(kind, package[o]) \in Entries
      BY <3>1 DEF Named, Entries, Kind
    <3> QED BY <1>0, <3>1, <3>2 DEF Named, project
  <2>6. CASE Admitted(o)
    BY <1>0, <2>6 DEF Admitted, Goto, Named, project, Admitting, Evidencing, Committing
  <2>7. ASSUME NEW result \in {"done", "failed"}, DropLock(o, result) PROVE Named'
    BY <1>0, <2>7 DEF DropLock, Goto, Named, cache, locals, Admitting, Evidencing, Committing
  <2> QED BY <1>1, <2>1, <2>2, <2>3, <2>4, <2>5, <2>6, <2>7 DEF Step, Kind
<1>2. CASE \E o \in Operation : Kill(o)
  BY <1>0, <1>2 DEF Kill, Goto, Named, Forget, cache, Admitting, Evidencing, Committing
<1>3. ASSUME NEW kept \in SUBSET published, NEW lock \in {axiom_lock, on_disk}, PowerLoss(kept, lock)
      PROVE  Named'
  <2>1. \A o \in Operation : pc'[o] \notin Admitting \cup {"mark"}
    BY <1>3 DEF PowerLoss, Running, Over, Admitting, Evidencing, Committing
  <2> QED BY <1>0, <1>3, <2>1 DEF PowerLoss, Named, Forget
<1>4. CASE DeleteOperationLock
  BY <1>4 DEF DeleteOperationLock, Named, locals, cache
<1>5. ASSUME NEW pins \in SUBSET Package, EditLockfile(pins) PROVE Named'
  BY <1>5 DEF EditLockfile, Named, locals, cache, Lockfiles
<1>6. CASE AllOver \/ UNCHANGED vars
  BY Zenon, <1>6 DEF AllOver, vars, locals, cache, project, Named
<1> QED BY <1>1, <1>2, <1>3, <1>4, <1>5, <1>6 DEF Next, Environment

\* Every variable has its type, and what is durable is in the cache.
THEOREM TypesHold == Spec => []TypeOK
<1>1. Init => Named
  <2> SUFFICES ASSUME Init PROVE Named
    OBVIOUS
  <2>1. axiom_lock \in Lockfiles /\ on_disk \in Lockfiles
    BY DEF Init, Lockfiles
  <2>2. \A o \in Operation : pc[o] \notin Admitting \cup {"mark"}
    BY DEF Init, Admitting, Evidencing, Committing
  <2>3. /\ operation_lock = None /\ writer_lock = None /\ raced = {} /\ published = {}
        /\ transactions = {}
    BY DEF Init
  <2> QED BY <2>1, <2>2, <2>3 DEF Named
<1>2. IInv /\ Named => TypeOK
  BY DEF IInv, Typed, Stored, Named, TypeOK
<1>3. Spec => []Named
  BY <1>1, NamedStep, Invariance, PTL DEF Spec
<1> QED BY <1>2, <1>3, Invariance, PTL
=============================================================================
