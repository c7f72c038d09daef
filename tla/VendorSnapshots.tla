-------------------------- MODULE VendorSnapshots --------------------------
(***************************************************************************)
(* The vendor directory of package_store.rs as processes share it: the     *)
(* immutable snapshots, the CURRENT pointer, the reader leases and the     *)
(* lifecycle lock.  A process runs the two callers in package_manager.rs:  *)
(* vendor (publish a snapshot, then lease and read it) and                 *)
(* materialize_locked_offline (verify CURRENT, then lease and read it).    *)
(*                                                                         *)
(* A digest stands for the package set whose manifest hashes to it.  The   *)
(* contents of a snapshot are abstracted to how much of it is there.  The  *)
(* private transaction directories are left out: they are invisible to     *)
(* other processes until publish_directory renames them into place.  A     *)
(* process may crash anywhere; its identity, the pid, may be used again.   *)
(***************************************************************************)
EXTENDS Naturals

CONSTANTS
    Process,    \* process ids
    Digest,     \* digests of vendor manifests
    None,       \* no digest, no process
    ProbesPids, \* TRUE on Unix, where process_is_alive asks the kernel
    MaxFaults   \* bound on the faults and failures of a behaviour

ASSUME NoneIsFresh == None \notin Process \cup Digest

ASSUME PlatformIsBoolean == ProbesPids \in BOOLEAN

ASSUME FaultsAreBounded == MaxFaults \in Nat

VARIABLES
    pc,         \* what a process is about to do
    want,       \* the digest it works on
    todo,       \* entries of the snapshot directory it has yet to examine
    victim,     \* the snapshot it is removing
    lock,       \* holder of the lifecycle lock
    snapshots,  \* how much of a snapshot is in its final place
    current,    \* the digest in CURRENT
    leases,     \* lease files
    faults

disk == <<snapshots, current, leases>>

locals == <<pc, want, todo, victim>>

vars == <<locals, lock, disk, faults>>

\* "creating" and "torn" files do not hold the marker bytes, "held" and
\* "abandoned" ones do; the code cannot tell the members of a pair apart.
LeaseFile == [pid : Process, digest : Digest, old : BOOLEAN,
              state : {"creating", "torn", "held", "abandoned"}]

Label == {"idle", "dead", "lock_vendor", "preflight", "publish", "verify", "replace",
          "unpublished", "reclaim", "remove", "verify_current", "lock_lease", "grant", "write_lease",
          "reading"}

\* The labels at which a process holds the lifecycle lock.
Locked == {"preflight", "publish", "verify", "unpublished", "replace", "reclaim", "remove",
           "grant", "write_lease"}

TypeOK ==
    /\ pc \in [Process -> Label]
    /\ want \in [Process -> Digest \cup {None}]
    /\ todo \in [Process -> SUBSET Digest]
    /\ victim \in [Process -> Digest \cup {None}]
    /\ lock \in Process \cup {None}
    /\ snapshots \in [Digest -> {"absent", "empty", "partial", "whole"}]
    /\ current \in Digest \cup {None}
    /\ leases \subseteq LeaseFile
    /\ faults \in 0..MaxFaults
    /\ \A p \in Process :
          /\ want[p] # None <=> pc[p] \notin {"idle", "dead"}
          /\ victim[p] # None <=> pc[p] = "remove"
          /\ todo[p] # {} => pc[p] \in {"reclaim", "remove"}

Init ==
    /\ pc = [p \in Process |-> "idle"]
    /\ want = [p \in Process |-> None]
    /\ todo = [p \in Process |-> {}]
    /\ victim = [p \in Process |-> None]
    /\ lock = None
    /\ snapshots = [d \in Digest |-> "absent"]
    /\ current = None
    /\ leases = {}
    /\ faults = 0

Alive(p) == pc[p] # "dead"

Goto(p, label) == pc' = [pc EXCEPT ![p] = label]

\* The call returns; dropping VendorLifecycleLock releases the lock.
Return(p) ==
    /\ Goto(p, "idle")
    /\ want' = [want EXCEPT ![p] = None]
    /\ lock' = IF lock = p THEN None ELSE lock
    /\ todo' = [todo EXCEPT ![p] = {}]
    /\ UNCHANGED victim

-----------------------------------------------------------------------------
(* The lifecycle lock                                                      *)

Acquire(p) ==
    /\ lock = None
    /\ \/ pc[p] = "lock_vendor" /\ Goto(p, "preflight")
       \/ pc[p] = "lock_lease" /\ Goto(p, "grant")
    /\ lock' = p
    /\ UNCHANGED <<want, todo, victim, disk, faults>>

\* All 128 attempts found the lock held.
Busy(p) ==
    /\ pc[p] \in {"lock_vendor", "lock_lease"}
    /\ lock # None
    /\ Return(p)
    /\ UNCHANGED <<disk, faults>>

-----------------------------------------------------------------------------
(* vendor_snapshot                                                         *)

Vendor(p, d) ==
    /\ pc[p] = "idle"
    /\ Goto(p, "lock_vendor")
    /\ want' = [want EXCEPT ![p] = d]
    /\ UNCHANGED <<todo, victim, lock, disk, faults>>

\* The packages are complete in the cache.  A snapshot that verifies is reused.
Preflight(p) ==
    /\ pc[p] = "preflight"
    /\ Goto(p, IF snapshots[want[p]] = "whole" THEN "replace" ELSE "publish")
    /\ UNCHANGED <<want, todo, victim, lock, disk, faults>>

\* rename replaces an empty directory; any other directory that is in the way
\* is taken for the snapshot.
Publish(p) ==
    /\ pc[p] = "publish"
    /\ Goto(p, "verify")
    /\ snapshots' = [snapshots EXCEPT ![want[p]] =
                       IF @ \in {"absent", "empty"} THEN "whole" ELSE @]
    /\ UNCHANGED <<want, todo, victim, lock, current, leases, faults>>

\* Mutant: CURRENT is replaced without verifying what was published.
Verify_Skipped(p) ==
    /\ pc[p] = "verify"
    /\ Goto(p, "replace")
    /\ UNCHANGED <<want, todo, victim, lock, disk, faults>>

Verify(p) ==
    /\ pc[p] = "verify"
    /\ \/ /\ snapshots[want[p]] = "whole"
          /\ Goto(p, "replace")
          /\ UNCHANGED <<want, todo, victim, lock>>
       \/ /\ snapshots[want[p]] # "whole"
          /\ Goto(p, "unpublished")
          /\ UNCHANGED <<want, todo, victim, lock>>
    /\ UNCHANGED <<disk, faults>>

\* vendor_snapshot returns the error of the verification.
Unpublished(p) ==
    /\ pc[p] = "unpublished"
    /\ Return(p)
    /\ UNCHANGED <<disk, faults>>

Replace(p) ==
    /\ pc[p] = "replace"
    /\ Goto(p, "reclaim")
    /\ current' = want[p]
    /\ todo' = [todo EXCEPT ![p] = {d \in Digest : snapshots[d] # "absent"}]
    /\ UNCHANGED <<want, victim, lock, snapshots, leases, faults>>

Unreadable(l) == l.state \in {"creating", "torn"}

\* Mutant: only the age counts.
Stale_ByAge(l) == l.old /\ ~Unreadable(l)

\* A lease whose age and dead process show that nobody reads any more.
Stale(l) == l.old /\ ~Unreadable(l) /\ ~(ProbesPids /\ Alive(l.pid))

LeasesOf(d) == {l \in leases : l.digest = d}

\* A lease of the snapshot is left, readable or not.
Deferred(d, left) == \E l \in left : l.digest = d

\* Mutant: a snapshot that is deferred is examined again.
Examine_Again(p, d) ==
    /\ pc[p] = "reclaim"
    /\ d \in todo[p]
    /\ \/ /\ d = want[p] \/ Deferred(d, leases)
          /\ UNCHANGED <<pc, victim, todo>>
       \/ /\ d # want[p] /\ ~Deferred(d, leases)
          /\ Goto(p, "remove")
          /\ victim' = [victim EXCEPT ![p] = d]
          /\ todo' = [todo EXCEPT ![p] = @ \ {d}]
    /\ UNCHANGED <<want, lock, disk, faults>>

\* One entry of the directory.  snapshot_has_active_lease deletes the stale
\* leases it meets before an unreadable one ends the scan.
Examine(p, d) ==
    /\ pc[p] = "reclaim"
    /\ d \in todo[p]
    /\ todo' = [todo EXCEPT ![p] = @ \ {d}]
    /\ \/ d = want[p] /\ UNCHANGED <<pc, victim, leases>>
       \/ /\ d # want[p]
          /\ \E reaped \in SUBSET {l \in LeasesOf(d) : Stale(l)} :
                /\ \/ \E l \in LeasesOf(d) : Unreadable(l)
                   \/ reaped = {l \in LeasesOf(d) : Stale(l)}
                /\ leases' = leases \ reaped
          /\ IF Deferred(d, leases')
             THEN UNCHANGED <<pc, victim>>
             ELSE Goto(p, "remove") /\ victim' = [victim EXCEPT ![p] = d]
    /\ UNCHANGED <<want, lock, snapshots, current, faults>>

\* One step of remove_dir_all.
Remove(p) ==
    LET d == victim[p]
        gone == snapshots[d] = "empty"
    IN /\ pc[p] = "remove"
       /\ snapshots' = [snapshots EXCEPT ![d] =
                          CASE @ = "whole" -> "partial"
                            [] @ = "partial" -> "empty"
                            [] OTHER -> "absent"]
       /\ pc' = [pc EXCEPT ![p] = IF gone THEN "reclaim" ELSE @]
       /\ victim' = [victim EXCEPT ![p] = IF gone THEN None ELSE @]
       /\ UNCHANGED <<want, todo, lock, current, leases, faults>>

\* remove_dir_all fails; the snapshot is deferred as it is.
RemoveFails(p) ==
    /\ faults < MaxFaults
    /\ pc[p] = "remove"
    /\ faults' = faults + 1
    /\ Goto(p, "reclaim")
    /\ victim' = [victim EXCEPT ![p] = None]
    /\ UNCHANGED <<want, todo, lock, disk>>

\* vendor_snapshot returns and its caller asks for a lease.
Vendored(p) ==
    /\ pc[p] = "reclaim"
    /\ todo[p] = {}
    /\ Goto(p, "lock_lease")
    /\ lock' = None
    /\ UNCHANGED <<want, todo, victim, disk, faults>>

-----------------------------------------------------------------------------
(* Readers                                                                 *)

\* verify_vendor_snapshot reads CURRENT without the lock.
ReadCurrent(p, d) ==
    /\ pc[p] = "idle"
    /\ \/ /\ current = d
          /\ Goto(p, "verify_current")
          /\ want' = [want EXCEPT ![p] = d]
          /\ UNCHANGED <<todo, victim, lock>>
       \/ current # d /\ Return(p)
    /\ UNCHANGED <<disk, faults>>

VerifyCurrent(p) ==
    /\ pc[p] = "verify_current"
    /\ \/ /\ snapshots[want[p]] = "whole"
          /\ Goto(p, "lock_lease")
          /\ UNCHANGED <<want, todo, victim, lock>>
       \/ snapshots[want[p]] # "whole" /\ Return(p)
    /\ UNCHANGED <<disk, faults>>

Lease(p, state) == [pid |-> p, digest |-> want[p], old |-> FALSE, state |-> state]

\* Mutant: the lease is granted without comparing CURRENT.
Grant_AnyDigest(p) ==
    /\ pc[p] = "grant"
    /\ Goto(p, "write_lease")
    /\ leases' = leases \cup {Lease(p, "creating")}
    /\ UNCHANGED <<want, todo, victim, lock, snapshots, current, faults>>

\* Granted only while CURRENT still names the snapshot.
Grant(p) ==
    /\ pc[p] = "grant"
    /\ \/ /\ current = want[p]
          /\ Goto(p, "write_lease")
          /\ leases' = leases \cup {Lease(p, "creating")}
          /\ UNCHANGED <<want, todo, victim, lock>>
       \/ current # want[p] /\ Return(p) /\ UNCHANGED leases
    /\ UNCHANGED <<snapshots, current, faults>>

Mine(p, state) == {l \in leases : l.pid = p /\ l.state = state}

WriteLease(p) ==
    /\ pc[p] = "write_lease"
    /\ Goto(p, "reading")
    /\ lock' = None
    /\ leases' = (leases \ Mine(p, "creating"))
                  \cup {[l EXCEPT !.state = "held"] : l \in Mine(p, "creating")}
    /\ UNCHANGED <<want, todo, victim, snapshots, current, faults>>

\* Drop of VendorSnapshotLease, without the lock.
DropLease(p) ==
    /\ pc[p] = "reading"
    /\ leases' = leases \ Mine(p, "held")
    /\ Return(p)
    /\ UNCHANGED <<snapshots, current, faults>>

-----------------------------------------------------------------------------
(* Faults and time                                                         *)

\* A lease file whose process gives up stays behind.
Orphaned(p) ==
    {IF l.pid # p THEN l
     ELSE [l EXCEPT !.state = CASE @ = "creating" -> "torn"
                                [] @ = "held" -> "abandoned"
                                [] OTHER -> @] : l \in leases}

\* The cache is incomplete or a file operation fails, and the error ends the
\* call.  CURRENT may have been replaced all the same: the directory is synced
\* after the rename.
Fail(p) ==
    /\ faults < MaxFaults
    /\ pc[p] \in {"preflight", "publish", "verify", "replace", "reclaim", "grant", "write_lease"}
    /\ faults' = faults + 1
    /\ Return(p)
    /\ leases' = Orphaned(p)
    /\ current' \in {current} \cup (IF pc[p] = "replace" THEN {want[p]} ELSE {})
    /\ UNCHANGED snapshots

\* The kernel releases the lock of a process that exits.
Crash(p) ==
    /\ faults < MaxFaults
    /\ pc[p] \notin {"idle", "dead"}
    /\ faults' = faults + 1
    /\ Goto(p, "dead")
    /\ lock' = IF lock = p THEN None ELSE lock
    /\ want' = [want EXCEPT ![p] = None]
    /\ todo' = [todo EXCEPT ![p] = {}]
    /\ victim' = [victim EXCEPT ![p] = None]
    /\ leases' = Orphaned(p)
    /\ UNCHANGED <<snapshots, current>>

\* A new process with the pid of a dead one.
Restart(p) ==
    /\ pc[p] = "dead"
    /\ Goto(p, "idle")
    /\ UNCHANGED <<want, todo, victim, lock, disk, faults>>

\* STALE_TRANSACTION_AGE_NANOS, 24 hours, pass.
Age ==
    /\ leases' = {[l EXCEPT !.old = TRUE] : l \in leases}
    /\ UNCHANGED <<locals, lock, snapshots, current, faults>>

\* The steps a running process takes by itself.
Run(p) ==
    \/ Acquire(p) \/ Busy(p)
    \/ Preflight(p) \/ Publish(p) \/ Verify(p) \/ Unpublished(p) \/ Replace(p)
    \/ \E d \in Digest : Examine(p, d)
    \/ Remove(p) \/ RemoveFails(p) \/ Vendored(p)
    \/ VerifyCurrent(p) \/ Grant(p) \/ WriteLease(p)
    \/ Fail(p)

Next ==
    \/ \E p \in Process :
          \/ Run(p)
          \/ \E d \in Digest : Vendor(p, d) \/ ReadCurrent(p, d)
          \/ DropLease(p) \/ Crash(p) \/ Restart(p)
    \/ Age

Spec == Init /\ [][Next]_vars

\* A running process is scheduled.  Nothing is assumed of when a process is
\* started, faults or stops reading.
FairSpec == Spec /\ \A p \in Process : WF_vars(Run(p))

-----------------------------------------------------------------------------
(* Properties                                                              *)

\* CURRENT always names a complete snapshot, whoever faults while publishing,
\* replacing or reclaiming: verify_vendor_snapshot can only fail on a reader
\* that is overtaken by a later vendor call.
CurrentIsWhole == current # None => snapshots[current] = "whole"

\* A process that reads under a lease finds its snapshot complete, although
\* it verified the snapshot before it had the lease and other processes go on
\* replacing CURRENT and reclaiming.
ReadersKeepTheirTree == \A p \in Process : pc[p] = "reading" => snapshots[want[p]] = "whole"

\* Exactly the process between taking and releasing the lifecycle lock holds it.
LockMatchesPc == \A p \in Process : pc[p] \in Locked <=> lock = p

\* A snapshot is taken apart only while CURRENT does not name it and no
\* process has been granted it, however old its lease is: what
\* snapshot_has_active_lease finds in the files is what processes do.
ReclaimsOnlyGarbage ==
    [][\A d \in Digest :
          snapshots[d] = "whole" /\ snapshots'[d] # "whole" =>
             /\ current # d
             /\ \A p \in Process : pc[p] \in {"write_lease", "reading"} => want[p] # d]_vars

\* The lifecycle lock is always released again: neither a crash nor any order
\* of snapshots, leases and failures keeps a holder in the reclaim loop.
LockReleased == \A p \in Process : lock = p ~> lock # p

\* package.md calls the vendor lifecycle crash-safe: after a crash, a vendor
\* call that finds its packages in the cache publishes a complete snapshot.
VendorPublishes == \A p \in Process : pc[p] # "unpublished"
=============================================================================
