--------------------------- MODULE PackageManager ---------------------------
(***************************************************************************)
(* pkg fetch and pkg update: each operation takes the project's operation  *)
(* lock (package_manager.rs), admits the packages it resolved to into the  *)
(* content-addressed cache (package_store.rs), and replaces axiom.lock by  *)
(* compare-and-swap (lockfile.rs).  Operations are processes: they may be  *)
(* killed anywhere, the machine may lose power, and someone may delete a   *)
(* lock file or edit axiom.lock by hand.  Resolution and trust are an      *)
(* arbitrary choice of packages.  Packages may share an archive, and with  *)
(* it the blob and the tree.                                               *)
(***************************************************************************)
EXTENDS Naturals, Sequences, FiniteSets

CONSTANTS Operation,      \* the operations, numbered in the order they start
          Package, ArchiveOf,
          MaxFaults,      \* failed calls, kills and power losses
          MaxInterventions, \* lock files deleted and lockfiles edited by hand
          None

ASSUME PackagesHaveArchives ==
  Operation \subseteq Nat /\ Package = DOMAIN ArchiveOf /\ None \notin Operation

VARIABLES pc,            \* where each operation is
          operation_lock, \* .axiom-package-operation.lock: its creator, or None
          writer_lock,   \* the holder of the flock of axiom.lock's sidecar, or None
          axiom_lock,    \* [pins, by]: the packages pinned (None: no file), and who wrote it
          on_disk,       \* the axiom.lock that would survive a loss of power
          seen, want, todo, package,  \* locals of an operation
          published, synced,  \* the cache's entries, and those that are durable
          adopted,       \* entries found in place and not made durable by the finder
          transactions,  \* [owner, marked]: the directories under .transactions
          raced,         \* operations whose compared axiom.lock was then edited by hand
          faults, interventions

locals == <<seen, want, todo, package>>
cache == <<published, synced, adopted, transactions>>
project == <<operation_lock, writer_lock, axiom_lock, on_disk, raced>>
bounds == <<faults, interventions>>
vars == <<pc, locals, cache, project, bounds>>

\* Labels: the sync that follows a publication, the drop before an end.
Sync == [blob |-> "sync_blob", tree |-> "sync_tree", evidence |-> "sync_evidence",
         commit |-> "sync_commit"]
Drop == [done |-> "drop_done", failed |-> "drop_failed"]
Over == {"new", "done", "failed", "dead"}
Running(o) == pc[o] \notin Over

\* The entries of an admitted package, in the order admit publishes them.
Kinds_CommitEarly == <<"blob", "tree", "commit", "evidence">>
Kinds == <<"blob", "tree", "evidence", "commit">>
Entry(kind, p) == <<kind, IF kind \in {"blob", "tree"} THEN ArchiveOf[p] ELSE p>>
Content(p) == {Entry(kind, p) : kind \in {"blob", "tree", "evidence"}}
Commit(p) == Entry("commit", p)
\* The directory an entry is in, and the entries that publishing e syncs.
Directory(e) ==
  CASE e[1] \in {"blob", "tree"} -> <<e[1]>>
    [] e[1] = "evidence" -> <<e[1], ArchiveOf[e[2]]>>
    [] e[1] = "commit" -> e
Siblings(e) == {f \in published \cup {e} : Directory(f) = Directory(e)}

Init ==
  /\ pc = [o \in Operation |-> "new"]
  /\ operation_lock = None /\ writer_lock = None
  /\ axiom_lock = [pins |-> None, by |-> "user"] /\ on_disk = axiom_lock
  /\ seen = [o \in Operation |-> None] /\ want = [o \in Operation |-> {}]
  /\ todo = [o \in Operation |-> {}] /\ package = [o \in Operation |-> None]
  /\ published = {} /\ synced = {} /\ adopted = {} /\ transactions = {}
  /\ raced = {} /\ faults = 0 /\ interventions = 0

Goto(o, l) == pc' = [pc EXCEPT ![o] = l]
\* What an operation that ends leaves of its locals.
Forget(over) ==
  /\ seen' = [o \in Operation |-> IF o \in over THEN None ELSE seen[o]]
  /\ want' = [o \in Operation |-> IF o \in over THEN {} ELSE want[o]]
  /\ todo' = [o \in Operation |-> IF o \in over THEN {} ELSE todo[o]]
  /\ package' = [o \in Operation |-> IF o \in over THEN None ELSE package[o]]
  /\ raced' = raced \ over
-----------------------------------------------------------------------------
\* PackageOperationLock::acquire; an operation that finds the file fails.
Acquire(o) ==
  /\ pc[o] = "new" /\ \A q \in Operation : q < o => pc[q] # "new"
  /\ \/ operation_lock = None /\ operation_lock' = o /\ Goto(o, "resolve")
     \/ operation_lock # None /\ UNCHANGED operation_lock /\ Goto(o, "failed")
  /\ UNCHANGED <<locals, cache, writer_lock, axiom_lock, on_disk, raced, bounds>>

\* optional_v2_lockfile and resolve_online.  fetch keeps the pins of an
\* existing lockfile; update, and fetch without one, resolve afresh.  No
\* packages at all is the path-only operation.
Resolve(o, fetch, resolved) ==
  /\ pc[o] = "resolve"
  /\ fetch /\ axiom_lock.pins # None => resolved = axiom_lock.pins
  /\ seen' = [seen EXCEPT ![o] = axiom_lock.pins]
  /\ want' = [want EXCEPT ![o] = resolved] /\ todo' = [todo EXCEPT ![o] = resolved]
  /\ Goto(o, "admit")
  /\ UNCHANGED <<package, cache, project, bounds>>

\* reap_stale_transactions removes the marked directories of dead processes
\* that are old enough; how old each one is, is a choice.
Reapable_ByAge(o) == {t \in transactions : t.marked}
Reapable(o) == {t \in transactions : t.marked /\ ~Running(t.owner)}

\* admit starts: unique_transaction reaps, and creates its directory ...
BeginAdmit(o, p, reaped) ==
  /\ pc[o] = "admit" /\ p \in todo[o] /\ reaped \subseteq Reapable(o)
  /\ package' = [package EXCEPT ![o] = p]
  /\ transactions' = (transactions \ reaped) \cup {[owner |-> o, marked |-> FALSE]}
  /\ Goto(o, "mark")
  /\ UNCHANGED <<seen, want, todo, published, synced, adopted, project, bounds>>

\* ... then writes its marker, and everything to be published goes into it.
Mark(o) ==
  /\ pc[o] = "mark"
  /\ transactions' = (transactions \ {[owner |-> o, marked |-> FALSE]})
                       \cup {[owner |-> o, marked |-> TRUE]}
  /\ Goto(o, Kinds[1])
  /\ UNCHANGED <<locals, published, synced, adopted, project, bounds>>

Place(kind) == CHOOSE i \in DOMAIN Kinds : Kinds[i] = kind
After(kind) == IF Place(kind) = Len(Kinds) THEN "load" ELSE Kinds[Place(kind) + 1]

\* publish_file and publish_directory: an entry that is there already is
\* verified and taken as it is; a new one is followed by a sync.
Publish(o, kind) ==
  LET e == Entry(kind, package[o]) IN
  /\ pc[o] = kind
  /\ \/ /\ e \in published /\ Goto(o, After(kind))
        /\ adopted' = adopted \cup ({e} \ synced)
        /\ UNCHANGED published
     \/ /\ e \notin published /\ Goto(o, Sync[kind])
        /\ published' = published \cup {e}
        /\ UNCHANGED adopted
  /\ UNCHANGED <<locals, synced, transactions, project, bounds>>

SyncEntry(o, kind) ==
  /\ pc[o] = Sync[kind]
  /\ LET durable == Siblings(Entry(kind, package[o])) IN
       synced' = synced \cup durable /\ adopted' = adopted \ durable
  /\ Goto(o, After(kind))
  /\ UNCHANGED <<locals, published, transactions, project, bounds>>

\* load_verified_identity, then finish_transaction
Admitted(o) ==
  /\ pc[o] = "load"
  /\ Content(package[o]) \cup {Commit(package[o])} \subseteq published
  /\ transactions' = {t \in transactions : t.owner # o}
  /\ todo' = [todo EXCEPT ![o] = @ \ {package[o]}]
  /\ Goto(o, "admit")
  /\ UNCHANGED <<seen, want, package, published, synced, adopted, project, bounds>>

-----------------------------------------------------------------------------
\* write_lockfile_v2_atomic_cas_impl: the sidecar's flock, the comparison,
\* the rename and the sync of the directory.
LockWriter_Unlocked(o) ==
  /\ pc[o] = "admit" /\ todo[o] = {} /\ Goto(o, "compare")
  /\ UNCHANGED <<locals, cache, project, bounds>>

LockWriter_Early(o) ==
  /\ pc[o] = "admit" /\ writer_lock = None
  /\ writer_lock' = o /\ Goto(o, "compare")
  /\ UNCHANGED <<locals, cache, operation_lock, axiom_lock, on_disk, raced, bounds>>

LockWriter(o) ==
  /\ pc[o] = "admit" /\ todo[o] = {} /\ writer_lock = None
  /\ writer_lock' = o /\ Goto(o, "compare")
  /\ UNCHANGED <<locals, cache, operation_lock, axiom_lock, on_disk, raced, bounds>>

Compare_Retries(o) ==
  /\ pc[o] = "compare"
  /\ \/ axiom_lock.pins = seen[o] /\ Goto(o, "rename") /\ UNCHANGED writer_lock
     \/ axiom_lock.pins # seen[o] /\ Goto(o, "admit") /\ writer_lock' = None
  /\ UNCHANGED <<locals, cache, operation_lock, axiom_lock, on_disk, raced, bounds>>

Compare(o) ==
  /\ pc[o] = "compare" /\ axiom_lock.pins = seen[o] /\ Goto(o, "rename")
  /\ UNCHANGED <<locals, cache, project, bounds>>

Rename(o) ==
  /\ pc[o] = "rename"
  /\ axiom_lock' = [pins |-> want[o], by |-> "tool"] /\ Goto(o, "sync_lock")
  /\ UNCHANGED <<locals, cache, operation_lock, writer_lock, on_disk, raced, bounds>>

SyncLock(o) ==
  /\ pc[o] = "sync_lock"
  /\ on_disk' = axiom_lock
  /\ writer_lock' = None /\ Goto(o, "reload")
  /\ UNCHANGED <<locals, cache, operation_lock, axiom_lock, raced, bounds>>

\* The file just written is read back; then, as on every failure, the lock
\* is dropped: the file is removed if it is still the one that was created.
Finish(o) ==
  /\ pc[o] = "reload"
  /\ Goto(o, IF axiom_lock.pins = want[o] THEN "drop_done" ELSE "drop_failed")
  /\ Forget({o})
  /\ UNCHANGED <<cache, operation_lock, writer_lock, axiom_lock, on_disk, bounds>>

DropLock(o, result) ==
  /\ pc[o] = Drop[result]
  /\ operation_lock' = IF operation_lock = o THEN None ELSE operation_lock
  /\ Goto(o, result)
  /\ UNCHANGED <<locals, cache, writer_lock, axiom_lock, on_disk, raced, bounds>>

\* An error: the transaction is removed (finish_transaction, or
\* cleanup_created_transaction) and the flock is released.  The comparison
\* and the verification fail by themselves, everything else by a fault.
Fails(o) ==
  \/ pc[o] = "compare" /\ axiom_lock.pins # seen[o]
  \/ pc[o] = "load" /\ ~(Content(package[o]) \cup {Commit(package[o])} \subseteq published)

Fail(o) ==
  /\ \/ Fails(o) /\ UNCHANGED faults
     \/ /\ Running(o) /\ pc[o] \notin {"drop_done", "drop_failed"}
        /\ faults < MaxFaults /\ faults' = faults + 1
  /\ transactions' = {t \in transactions : t.owner # o}
  /\ writer_lock' = IF writer_lock = o THEN None ELSE writer_lock
  /\ Goto(o, "drop_failed")
  /\ Forget({o})
  /\ UNCHANGED <<published, synced, adopted, operation_lock, axiom_lock, on_disk, interventions>>

-----------------------------------------------------------------------------
\* The environment: a kill, a loss of power, and interventions by hand.
Kill(o) ==
  /\ Running(o) /\ faults < MaxFaults /\ faults' = faults + 1
  /\ writer_lock' = IF writer_lock = o THEN None ELSE writer_lock
  /\ Goto(o, "dead")
  /\ Forget({o})
  /\ UNCHANGED <<cache, operation_lock, axiom_lock, on_disk, interventions>>

\* Entries that were not synced survive or not; the lock files do.
PowerLoss(kept, lock) ==
  /\ faults < MaxFaults /\ faults' = faults + 1
  /\ kept \subseteq published \ synced /\ lock \in {axiom_lock, on_disk}
  /\ published' = synced \cup kept /\ synced' = synced \cup kept
  /\ axiom_lock' = lock /\ on_disk' = lock
  /\ pc' = [o \in Operation |-> IF Running(o) THEN "dead" ELSE pc[o]]
  /\ writer_lock' = None /\ Forget(Operation)
  /\ UNCHANGED <<adopted, transactions, operation_lock, interventions>>

DeleteOperationLock ==
  /\ operation_lock # None /\ interventions < MaxInterventions
  /\ operation_lock' = None /\ interventions' = interventions + 1
  /\ UNCHANGED <<pc, locals, cache, writer_lock, axiom_lock, on_disk, raced, faults>>

EditLockfile(pins) ==
  /\ interventions < MaxInterventions /\ interventions' = interventions + 1
  /\ pins # axiom_lock.pins
  /\ axiom_lock' = [pins |-> pins, by |-> "user"] /\ on_disk' = axiom_lock'
  /\ raced' = raced \cup {o \in Operation : pc[o] = "rename"}
  /\ UNCHANGED <<pc, locals, cache, operation_lock, writer_lock, faults>>

-----------------------------------------------------------------------------
Step(o) ==
  \/ Acquire(o)
  \/ \E fetch \in BOOLEAN, resolved \in SUBSET Package : Resolve(o, fetch, resolved)
  \/ \E p \in Package, reaped \in SUBSET transactions : BeginAdmit(o, p, reaped)
  \/ Mark(o)
  \/ \E kind \in {"blob", "tree", "evidence", "commit"} : Publish(o, kind) \/ SyncEntry(o, kind)
  \/ Admitted(o) \/ LockWriter(o) \/ Compare(o) \/ Rename(o) \/ SyncLock(o) \/ Finish(o)
  \/ \E result \in {"done", "failed"} : DropLock(o, result)
  \/ Fail(o)

Environment ==
  \/ \E o \in Operation : Kill(o)
  \/ \E kept \in SUBSET published, lock \in {axiom_lock, on_disk} : PowerLoss(kept, lock)
  \/ DeleteOperationLock
  \/ \E pins \in SUBSET Package : EditLockfile(pins)

\* Nothing is left to do once every operation is over.
AllOver == (\A o \in Operation : pc[o] \in Over \ {"new"}) /\ UNCHANGED vars

Next == (\E o \in Operation : Step(o)) \/ Environment \/ AllOver
Spec == Init /\ [][Next]_vars

\* A process that is not waiting for the flock keeps running, and the kernel
\* hands a free flock to a waiter.
FairSpec == Spec /\ \A o \in Operation : WF_vars(Step(o))

-----------------------------------------------------------------------------
Lockfiles == [pins : (SUBSET Package) \cup {None}, by : {"tool", "user"}]
Entries == {Entry(kind, p) : kind \in {"blob", "tree", "evidence", "commit"}, p \in Package}

\* Types, and what is durable or adopted is in the cache as long as the power
\* is on.
TypeOK ==
  /\ operation_lock \in Operation \cup {None} /\ writer_lock \in Operation \cup {None}
  /\ axiom_lock \in Lockfiles /\ on_disk \in Lockfiles
  /\ seen \in [Operation -> (SUBSET Package) \cup {None}]
  /\ want \in [Operation -> SUBSET Package] /\ todo \in [Operation -> SUBSET Package]
  /\ package \in [Operation -> Package \cup {None}]
  /\ published \subseteq Entries /\ synced \subseteq published
  /\ transactions \subseteq [owner : Operation, marked : BOOLEAN]
  /\ raced \subseteq Operation

\* The commit record is the admission marker: while it is there, so are the
\* blob, the tree and the evidence it stands for, through kills, failures,
\* concurrent admissions and losses of power.  The exception is an entry
\* that an admission found in place and did not sync.
CommitMeansComplete ==
  \A p \in Package : Commit(p) \in published => Content(p) \subseteq published \cup adopted

\* Offline use: every package pinned by a lockfile that the tool wrote is in
\* the cache, complete and committed, with the same exception.
LockIsBacked ==
  axiom_lock.by = "tool" =>
    \A p \in axiom_lock.pins : Content(p) \cup {Commit(p)} \subseteq published \cup adopted

\* No one reaps the transaction directory of an operation that is using it.
TransactionIsKept ==
  \A o \in Operation :
    pc[o] \in {"blob", "tree", "evidence", "commit", "load"} =>
      [owner |-> o, marked |-> TRUE] \in transactions

\* Without a lock file deleted by hand, one operation at a time; and a lock
\* file goes only when the operation that created it drops it.
OneOperation ==
  interventions = 0 =>
    \A o, q \in Operation : Running(o) /\ Running(q) => o = q
LockIsOwn ==
  [][\A o \in Operation :
       operation_lock = o /\ operation_lock' # o /\ UNCHANGED interventions =>
         pc[o] \in {"drop_done", "drop_failed"} /\ pc'[o] \in {"done", "failed"}]_vars

\* The compare-and-swap: an operation only ever replaces the lockfile it had
\* read, unless someone edits it by hand between comparison and rename.
ReplacesWhatItRead ==
  [][\A o \in Operation :
       pc[o] = "rename" /\ pc'[o] = "sync_lock" => axiom_lock.pins = seen[o] \/ o \in raced]_vars

\* Every operation that starts ends: nobody waits for ever for the flock of a
\* process that failed or was killed.
OperationsEnd == \A o \in Operation : <>(pc[o] \in Over \ {"new"})
=============================================================================
