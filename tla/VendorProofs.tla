---------------------------- MODULE VendorProofs ----------------------------
(***************************************************************************)
(* For any number of processes, digests and faults: CURRENT is complete, a *)
(* reader keeps its snapshot, and only garbage is reclaimed.  Whatever     *)
(* takes a snapshot apart holds the lifecycle lock, so the argument is     *)
(* about what the holder knows at each label, and about the lease that a   *)
(* reader without the lock relies on.                                      *)
(***************************************************************************)
EXTENDS VendorSnapshots, TLAPS

\* The part of the type invariant that the arguments below need.
Typed ==
  /\ pc \in [Process -> Label]
  /\ want \in [Process -> Digest \cup {None}]
  /\ todo \in [Process -> SUBSET Digest]
  /\ victim \in [Process -> Digest \cup {None}]
  /\ lock \in Process \cup {None}
  /\ snapshots \in [Digest -> {"absent", "empty", "partial", "whole"}]
  /\ current \in Digest \cup {None}
  /\ leases \subseteq LeaseFile
  /\ \A p \in Process : pc[p] \notin {"idle", "dead"} => want[p] \in Digest
  /\ \A p \in Process : pc[p] = "remove" => victim[p] \in Digest

\* What the holder of the lock has established at its label.
HolderKnows ==
  \A p \in Process :
    /\ pc[p] = "replace" => snapshots[want[p]] = "whole"
    /\ pc[p] \in {"reclaim", "remove", "write_lease"} => current = want[p]
    /\ pc[p] = "remove" => victim[p] # want[p] /\ LeasesOf(victim[p]) = {}

\* A process that was granted a snapshot has a lease file that says so.
Leased(p, state) == \E l \in leases : l.pid = p /\ l.digest = want[p] /\ l.state = state
GrantsAreFiled ==
  \A p \in Process :
    /\ pc[p] = "write_lease" => Leased(p, "creating")
    /\ pc[p] = "reading" => Leased(p, "held")

IInv ==
  /\ Typed /\ LockMatchesPc /\ CurrentIsWhole /\ HolderKnows
  /\ GrantsAreFiled /\ ReadersKeepTheirTree

LEMMA InitInvariant == Init => IInv
  BY NoneIsFresh
  DEF Init, IInv, Typed, LockMatchesPc, CurrentIsWhole, HolderKnows, GrantsAreFiled,
      ReadersKeepTheirTree, Label, Locked

\* Steps that change neither a snapshot, nor CURRENT, nor a lease, and that
\* move one process, keep the invariant if they keep it for that process.
LEMMA LocalStep ==
  ASSUME IInv, NEW p \in Process, UNCHANGED disk,
         NEW label \in Label, pc' = [pc EXCEPT ![p] = label],
         NEW w \in Digest \cup {None}, want' = [want EXCEPT ![p] = w],
         NEW v \in Digest \cup {None}, victim' = [victim EXCEPT ![p] = v],
         todo' \in [Process -> SUBSET Digest],
         label \notin {"idle", "dead"} => w \in Digest,
         label \notin {"remove", "write_lease", "reading"},
         label = "replace" => snapshots[w] = "whole",
         label = "reclaim" => current = w,
         \/ lock = p /\ lock' \in {p, None}
         \/ lock = None /\ lock' \in {p, None}
         \/ lock' = lock /\ lock # p,
         label \in Locked <=> lock' = p
  PROVE  IInv'
<1>1. Typed'
  BY Zenon DEF IInv, Typed, disk
<1>2. LockMatchesPc'
  BY NoneIsFresh DEF IInv, Typed, LockMatchesPc
<1>3. CurrentIsWhole'
  BY DEF IInv, CurrentIsWhole, disk
<1>4. HolderKnows'
  BY DEF IInv, Typed, HolderKnows, LeasesOf, disk
<1>5. GrantsAreFiled'
  BY DEF IInv, Typed, GrantsAreFiled, Leased, disk
<1>6. ReadersKeepTheirTree'
  BY DEF IInv, Typed, ReadersKeepTheirTree, disk
<1> QED BY <1>1, <1>2, <1>3, <1>4, <1>5, <1>6 DEF IInv

\* The steps that touch no file.
Quiet(p) ==
  \/ Acquire(p) \/ Busy(p) \/ Preflight(p) \/ Verify(p) \/ Unpublished(p)
  \/ RemoveFails(p) \/ Vendored(p) \/ VerifyCurrent(p) \/ Restart(p)
  \/ \E d \in Digest : Vendor(p, d) \/ ReadCurrent(p, d)

LEMMA QuietStep == ASSUME IInv, NEW p \in Process, Quiet(p) PROVE IInv'
<1> USE DEF Goto, Return
<1>t. Typed /\ LockMatchesPc /\ HolderKnows
  BY DEF IInv
<1>w. want = [want EXCEPT ![p] = want[p]] /\ want[p] \in Digest \cup {None}
  BY <1>t DEF Typed
<1>v. victim = [victim EXCEPT ![p] = victim[p]] /\ victim[p] \in Digest \cup {None}
  BY <1>t DEF Typed
<1>k. lock = p <=> pc[p] \in Locked
  BY <1>t DEF LockMatchesPc
<1>1. ASSUME Acquire(p) PROVE IInv'
  <2>1. ASSUME NEW l \in {"preflight", "grant"}, pc' = [pc EXCEPT ![p] = l],
               pc[p] \in {"lock_vendor", "lock_lease"}
        PROVE  IInv'
    <3>1. /\ UNCHANGED disk /\ want' = want /\ victim' = victim
          /\ todo' \in [Process -> SUBSET Digest]
          /\ lock = None /\ lock' = p /\ want[p] \in Digest
      BY <1>1, <2>1, <1>t DEF Acquire, Typed
    <3> QED BY Zenon, <2>1, <3>1, <1>w, <1>v, LocalStep DEF Label, Locked
  <2> QED BY <1>1, <2>1 DEF Acquire
<1>r. ASSUME Return(p), UNCHANGED disk PROVE IInv'
  <2>1. todo' \in [Process -> SUBSET Digest]
    BY <1>r, <1>t DEF Typed
  <2>2. \/ lock = p /\ lock' = None
        \/ lock # p /\ lock' = lock
    BY <1>r
  <2>3. /\ pc' = [pc EXCEPT ![p] = "idle"] /\ want' = [want EXCEPT ![p] = None]
        /\ victim' = [victim EXCEPT ![p] = victim[p]]
        /\ "idle" \in Label /\ ("idle" \in Locked <=> lock' = p)
    BY <1>r, <1>v, <2>2, NoneIsFresh DEF Label, Locked
  <2>4. \/ lock = p /\ lock' \in {p, None}
        \/ lock' = lock /\ lock # p
    BY <2>2
  <2> QED BY ONLY IInv, p \in Process, <1>r, <2>1, <2>3, <2>4, <1>v, LocalStep
<1>2. ASSUME Busy(p) PROVE IInv'
  BY <1>2, <1>r DEF Busy
<1>3. ASSUME Preflight(p) PROVE IInv'
  <2>1. PICK l \in {"replace", "publish"} :
          pc' = [pc EXCEPT ![p] = l] /\ (l = "replace" => snapshots[want[p]] = "whole")
    BY Zenon, <1>3 DEF Preflight
  <2>2. /\ UNCHANGED disk /\ want' = want /\ victim' = victim
        /\ todo' \in [Process -> SUBSET Digest]
        /\ lock = p /\ lock' = p /\ want[p] \in Digest
    BY <1>3, <1>t, <1>k DEF Preflight, Typed, Locked
  <2> QED BY Zenon, <2>1, <2>2, <1>w, <1>v, LocalStep DEF Label, Locked
<1>4. ASSUME Verify(p) PROVE IInv'
  BY <1>4, <1>t, <1>w, <1>v, <1>k, LocalStep DEF Verify, Typed, Label, Locked
<1>5. ASSUME Unpublished(p) PROVE IInv'
  BY <1>5, <1>r DEF Unpublished
<1>6. ASSUME RemoveFails(p) PROVE IInv'
  BY Zenon, <1>6, <1>t, <1>w, <1>k, LocalStep DEF RemoveFails, Typed, HolderKnows, Label, Locked
<1>7. ASSUME Vendored(p) PROVE IInv'
  <2>1. /\ UNCHANGED disk /\ want' = want /\ victim' = victim
        /\ todo' \in [Process -> SUBSET Digest] /\ pc' = [pc EXCEPT ![p] = "lock_lease"]
        /\ lock = p /\ lock' = None /\ want[p] \in Digest
    BY <1>7, <1>t, <1>k DEF Vendored, Typed, Locked
  <2> QED BY Zenon, <2>1, <1>w, <1>v, NoneIsFresh, LocalStep DEF Label, Locked
<1>8. ASSUME VerifyCurrent(p) PROVE IInv'
  <2>1. CASE snapshots[want[p]] = "whole"
    BY <1>8, <2>1, <1>t, <1>w, <1>v, <1>k, LocalStep DEF VerifyCurrent, Typed, Label, Locked
  <2>2. CASE snapshots[want[p]] # "whole"
    BY <1>8, <2>2, <1>r DEF VerifyCurrent
  <2> QED BY <2>1, <2>2
<1>9. ASSUME Restart(p) PROVE IInv'
  <2>1. /\ UNCHANGED disk /\ want' = want /\ victim' = victim
        /\ todo' \in [Process -> SUBSET Digest] /\ pc' = [pc EXCEPT ![p] = "idle"]
        /\ lock # p /\ lock' = lock
    BY <1>9, <1>t, <1>k DEF Restart, Typed, Locked
  <2>2. /\ want' = [want EXCEPT ![p] = want[p]] /\ victim' = [victim EXCEPT ![p] = victim[p]]
        /\ "idle" \in Label /\ ("idle" \in Locked <=> lock' = p)
    BY <2>1, <1>w, <1>v DEF Label, Locked
  <2> QED BY ONLY IInv, <2>1, <2>2, <1>w, <1>v, LocalStep
<1>10. ASSUME NEW d \in Digest, Vendor(p, d) PROVE IInv'
  BY Zenon, <1>10, <1>t, <1>v, <1>k, LocalStep DEF Vendor, Typed, Label, Locked
<1>11. ASSUME NEW d \in Digest, ReadCurrent(p, d) PROVE IInv'
  <2>1. CASE current = d
    BY <1>11, <2>1, <1>t, <1>v, <1>k, LocalStep DEF ReadCurrent, Typed, Label, Locked
  <2>2. CASE current # d
    BY <1>11, <2>2, <1>r DEF ReadCurrent
  <2> QED BY <2>1, <2>2
<1> QED
  BY <1>1, <1>2, <1>3, <1>4, <1>5, <1>6, <1>7, <1>8, <1>9, <1>10, <1>11 DEF Quiet

\* The other steps.  The part of the invariant about q # p is kept because q
\* does not move, and because p alone holds the lock if it takes a snapshot
\* apart, replaces CURRENT or files a lease.

LEMMA PublishStep == ASSUME IInv, NEW p \in Process, Publish(p) PROVE IInv'
<1> USE DEF Goto
<1>1. Typed /\ LockMatchesPc /\ pc[p] = "publish" /\ want[p] \in Digest
  BY DEF IInv, Typed, Publish
<1>2. \A d \in Digest : snapshots[d] = "whole" => snapshots'[d] = "whole"
  BY <1>1 DEF Publish, Typed
<1>3. Typed'
  BY <1>1 DEF Publish, Typed, Label
<1>4. LockMatchesPc'
  BY <1>1 DEF Publish, Typed, LockMatchesPc, Locked
<1>5. CurrentIsWhole'
  BY <1>1, <1>2 DEF Publish, IInv, CurrentIsWhole, Typed
<1>6. HolderKnows'
  BY <1>1, <1>2 DEF Publish, IInv, HolderKnows, LeasesOf, Typed
<1>7. GrantsAreFiled'
  BY <1>1 DEF Publish, IInv, GrantsAreFiled, Leased, Typed
<1>8. ReadersKeepTheirTree'
  BY <1>1, <1>2 DEF Publish, IInv, ReadersKeepTheirTree, Typed
<1> QED BY <1>3, <1>4, <1>5, <1>6, <1>7, <1>8 DEF IInv

LEMMA ReplaceStep == ASSUME IInv, NEW p \in Process, Replace(p) PROVE IInv'
<1> USE DEF Goto
<1>1. Typed /\ LockMatchesPc /\ pc[p] = "replace" /\ want[p] \in Digest
  BY DEF IInv, Typed, Replace
<1>2. \A q \in Process : q # p => pc[q] \notin Locked
  BY <1>1 DEF LockMatchesPc, Locked
<1>3. Typed'
  BY <1>1 DEF Replace, Typed, Label
<1>4. LockMatchesPc'
  BY <1>1 DEF Replace, Typed, LockMatchesPc, Locked
<1>5. CurrentIsWhole'
  BY <1>1 DEF Replace, IInv, CurrentIsWhole, HolderKnows
<1>6. HolderKnows'
  BY <1>1, <1>2 DEF Replace, IInv, HolderKnows, Typed, Locked
<1>7. GrantsAreFiled'
  BY <1>1 DEF Replace, IInv, GrantsAreFiled, Leased, Typed
<1>8. ReadersKeepTheirTree'
  BY <1>1 DEF Replace, IInv, ReadersKeepTheirTree, Typed
<1> QED BY <1>3, <1>4, <1>5, <1>6, <1>7, <1>8 DEF IInv

\* A stale lease is nobody's: its process is dead, so it neither reads nor
\* writes it.
LEMMA ExamineStep ==
  ASSUME ProbesPids, IInv, NEW p \in Process, NEW d \in Digest, Examine(p, d)
  PROVE  IInv'
<1> USE DEF Goto
<1>1. Typed /\ LockMatchesPc /\ pc[p] = "reclaim" /\ want[p] \in Digest
  BY DEF IInv, Typed, Examine
<1>2. \A q \in Process : q # p => pc[q] \notin Locked
  BY <1>1 DEF LockMatchesPc, Locked
<1>3. /\ leases' \subseteq leases
      /\ \A l \in leases \ leases' : Stale(l)
  BY DEF Examine, LeasesOf
<1>4. \/ pc' = pc /\ victim' = victim
      \/ /\ pc' = [pc EXCEPT ![p] = "remove"] /\ victim' = [victim EXCEPT ![p] = d]
         /\ d # want[p] /\ \A l \in leases' : l.digest # d
  BY DEF Examine, Deferred
<1>5. UNCHANGED <<want, lock, snapshots, current>> /\ todo' = [todo EXCEPT ![p] = @ \ {d}]
  BY DEF Examine
<1>6. Typed'
  BY <1>1, <1>3, <1>4, <1>5 DEF Typed, Label
<1>7. LockMatchesPc'
  BY <1>1, <1>4, <1>5 DEF Typed, LockMatchesPc, Locked
<1>8. CurrentIsWhole'
  BY <1>5 DEF IInv, CurrentIsWhole
<1>9. HolderKnows'
  BY <1>1, <1>2, <1>3, <1>4, <1>5 DEF IInv, HolderKnows, LeasesOf, Typed, Locked
<1>10. GrantsAreFiled'
  <2>1. \A q \in Process, l \in leases :
           l.pid = q /\ pc[q] \in {"write_lease", "reading"} => l \in leases'
    BY <1>3 DEF Stale, Alive
  <2> QED BY <1>1, <1>4, <1>5, <2>1 DEF IInv, GrantsAreFiled, Leased, Typed
<1>11. ReadersKeepTheirTree'
  BY <1>1, <1>4, <1>5 DEF IInv, ReadersKeepTheirTree, Typed
<1> QED BY <1>6, <1>7, <1>8, <1>9, <1>10, <1>11 DEF IInv

\* The victim has no lease and is not CURRENT.
LEMMA RemoveStep == ASSUME IInv, NEW p \in Process, Remove(p) PROVE IInv'
<1>1. /\ Typed /\ LockMatchesPc /\ pc[p] = "remove"
      /\ want[p] \in Digest /\ victim[p] \in Digest
  BY DEF IInv, Typed, Remove
<1>2. /\ \A q \in Process : q # p => pc[q] \notin Locked
      /\ current = want[p] /\ victim[p] # want[p] /\ LeasesOf(victim[p]) = {}
  BY <1>1 DEF IInv, LockMatchesPc, HolderKnows, Locked
<1>3. PICK l \in {"remove", "reclaim"}, v \in Digest \cup {None} :
        /\ pc' = [pc EXCEPT ![p] = l] /\ victim' = [victim EXCEPT ![p] = v]
        /\ l = "remove" => v = victim[p]
  <2>1. CASE snapshots[victim[p]] = "empty"
    BY Zenon, <2>1 DEF Remove
  <2>2. CASE snapshots[victim[p]] # "empty"
    BY Zenon, <1>1, <2>2 DEF Remove, Typed
  <2> QED BY <2>1, <2>2
<1>4. /\ snapshots' \in [Digest -> {"absent", "empty", "partial", "whole"}]
      /\ \A d \in Digest : d # victim[p] => snapshots'[d] = snapshots[d]
  BY <1>1 DEF Remove, Typed
<1>5. UNCHANGED <<want, todo, lock, current, leases>>
  BY DEF Remove
<1>6. Typed'
  BY <1>1, <1>3, <1>4, <1>5 DEF Typed, Label
<1>7. LockMatchesPc'
  BY <1>1, <1>3, <1>5 DEF Typed, LockMatchesPc, Locked
<1>8. CurrentIsWhole'
  BY <1>1, <1>2, <1>4, <1>5 DEF IInv, CurrentIsWhole
<1>9. HolderKnows'
  BY <1>1, <1>2, <1>3, <1>5 DEF HolderKnows, LeasesOf, Typed, Locked
<1>10. GrantsAreFiled'
  BY <1>1, <1>3, <1>5 DEF IInv, GrantsAreFiled, Leased, Typed
<1>11. ReadersKeepTheirTree'
  <2>1. \A q \in Process : pc[q] = "reading" => want[q] \in Digest /\ want[q] # victim[p]
    BY <1>1, <1>2 DEF IInv, GrantsAreFiled, Leased, LeasesOf, Typed
  <2> QED BY <1>1, <1>3, <1>4, <1>5, <2>1 DEF IInv, ReadersKeepTheirTree, Typed
<1> QED BY <1>6, <1>7, <1>8, <1>9, <1>10, <1>11 DEF IInv

LEMMA GrantStep == ASSUME IInv, NEW p \in Process, Grant(p), current = want[p] PROVE IInv'
<1> USE DEF Goto
<1>1. Typed /\ LockMatchesPc /\ pc[p] = "grant" /\ want[p] \in Digest
  BY DEF IInv, Typed, Grant
<1>2. \A q \in Process : q # p => pc[q] \notin Locked
  BY <1>1 DEF LockMatchesPc, Locked
<1>3. /\ pc' = [pc EXCEPT ![p] = "write_lease"]
      /\ leases' = leases \cup {Lease(p, "creating")}
      /\ UNCHANGED <<want, todo, victim, lock, snapshots, current>>
  BY DEF Grant
<1>4. Lease(p, "creating") \in LeaseFile
  BY <1>1 DEF Lease, LeaseFile
<1>5. Typed'
  BY <1>1, <1>3, <1>4 DEF Typed, Label
<1>6. LockMatchesPc'
  BY <1>1, <1>3 DEF Typed, LockMatchesPc, Locked
<1>7. CurrentIsWhole'
  BY <1>3 DEF IInv, CurrentIsWhole
<1>8. HolderKnows'
  BY <1>1, <1>2, <1>3 DEF IInv, HolderKnows, Typed, Locked
<1>9. GrantsAreFiled'
  <2>1. /\ Lease(p, "creating") \in leases' /\ Lease(p, "creating").pid = p
        /\ Lease(p, "creating").digest = want[p] /\ Lease(p, "creating").state = "creating"
    BY <1>3 DEF Lease
  <2> QED BY <1>1, <1>3, <2>1 DEF IInv, GrantsAreFiled, Leased, Typed
<1>10. ReadersKeepTheirTree'
  BY <1>1, <1>3 DEF IInv, ReadersKeepTheirTree, Typed
<1> QED BY <1>5, <1>6, <1>7, <1>8, <1>9, <1>10 DEF IInv

LEMMA WriteLeaseStep == ASSUME IInv, NEW p \in Process, WriteLease(p) PROVE IInv'
<1> USE DEF Goto
<1>1. /\ Typed /\ LockMatchesPc /\ pc[p] = "write_lease" /\ want[p] \in Digest
      /\ current = want[p]
  BY DEF IInv, Typed, WriteLease, HolderKnows
<1>2. \A q \in Process : q # p => pc[q] \notin Locked
  BY <1>1 DEF LockMatchesPc, Locked
<1>3. /\ pc' = [pc EXCEPT ![p] = "reading"] /\ lock' = None /\ lock = p
      /\ UNCHANGED <<want, todo, victim, snapshots, current>>
  BY <1>1 DEF WriteLease, LockMatchesPc, Locked
<1>4. PICK l \in leases : l.pid = p /\ l.digest = want[p] /\ l.state = "creating"
  BY <1>1 DEF IInv, GrantsAreFiled, Leased
<1>5. leases' \subseteq LeaseFile
  BY <1>1 DEF WriteLease, Typed, Mine, LeaseFile
<1>6. \E m \in leases' : m.pid = p /\ m.digest = want[p] /\ m.state = "held"
  <2>1. [l EXCEPT !.state = "held"] \in leases'
    BY Zenon, <1>4 DEF WriteLease, Mine
  <2>2. l \in LeaseFile
    BY <1>1, <1>4 DEF Typed
  <2> QED BY <1>4, <2>1, <2>2 DEF LeaseFile
<1>7. \A m \in leases : m.pid # p => m \in leases'
  BY DEF WriteLease, Mine
<1>8. Typed'
  BY <1>1, <1>3, <1>5 DEF Typed, Label
<1>9. LockMatchesPc'
  BY <1>1, <1>2, <1>3, NoneIsFresh DEF Typed, LockMatchesPc, Locked
<1>10. CurrentIsWhole'
  BY <1>3 DEF IInv, CurrentIsWhole
<1>11. HolderKnows'
  BY <1>1, <1>2, <1>3 DEF HolderKnows, Typed, Locked
<1>12. GrantsAreFiled'
  BY <1>1, <1>2, <1>3, <1>6, <1>7 DEF IInv, GrantsAreFiled, Leased, Typed, Locked
<1>13. ReadersKeepTheirTree'
  BY <1>1, <1>3, NoneIsFresh DEF IInv, ReadersKeepTheirTree, CurrentIsWhole, Typed
<1> QED BY <1>8, <1>9, <1>10, <1>11, <1>12, <1>13 DEF IInv

\* A process ends its call, with a lease dropped or left behind, or dies.
LEMMA LeaveStep ==
  ASSUME IInv, NEW p \in Process,
         NEW label \in {"idle", "dead"}, pc' = [pc EXCEPT ![p] = label],
         want' = [want EXCEPT ![p] = None], todo' \in [Process -> SUBSET Digest],
         NEW v \in Digest \cup {None}, victim' = [victim EXCEPT ![p] = v],
         lock' = IF lock = p THEN None ELSE lock, snapshots' = snapshots,
         current' = current \/ (pc[p] = "replace" /\ current' = want[p]),
         leases' \subseteq LeaseFile,
         \A l \in leases : l.pid # p => l \in leases',
         \A m \in leases' : \E l \in leases : l.digest = m.digest
  PROVE  IInv'
<1>1. Typed /\ LockMatchesPc
  BY DEF IInv
<1>2. current' # current => want[p] \in Digest /\ \A q \in Process : q # p => pc[q] \notin Locked
  BY <1>1 DEF LockMatchesPc, Locked, Typed
<1>3. Typed'
  BY <1>1, <1>2 DEF Typed, Label
<1>4. LockMatchesPc'
  BY <1>1, NoneIsFresh DEF Typed, LockMatchesPc, Locked
<1>5. CurrentIsWhole'
  BY <1>1, <1>2 DEF IInv, CurrentIsWhole, HolderKnows
<1>6. HolderKnows'
  <2>1. \A q \in Process : q # p =>
           pc'[q] = pc[q] /\ want'[q] = want[q] /\ victim'[q] = victim[q]
    BY <1>1 DEF Typed
  <2>2. pc'[p] \in {"idle", "dead"}
    BY <1>1 DEF Typed
  <2>3. \A d : LeasesOf(d) = {} => LeasesOf(d)' = {}
    BY DEF LeasesOf
  <2> QED BY <1>1, <1>2, <2>1, <2>2, <2>3 DEF IInv, HolderKnows, Locked
<1>7. GrantsAreFiled'
  BY <1>1 DEF IInv, GrantsAreFiled, Leased, Typed
<1>8. ReadersKeepTheirTree'
  BY <1>1 DEF IInv, ReadersKeepTheirTree, Typed
<1> QED BY <1>3, <1>4, <1>5, <1>6, <1>7, <1>8 DEF IInv

\* Orphaned keeps the files of the others, and every file's digest.
LEMMA OrphanedFiles ==
  ASSUME leases \subseteq LeaseFile, NEW p \in Process
  PROVE  /\ Orphaned(p) \subseteq LeaseFile
         /\ \A l \in leases : l.pid # p => l \in Orphaned(p)
         /\ \A m \in Orphaned(p) : \E l \in leases : l.digest = m.digest
<1> DEFINE After(l) == IF l.pid # p THEN l
                       ELSE [l EXCEPT !.state = CASE @ = "creating" -> "torn"
                                                  [] @ = "held" -> "abandoned"
                                                  [] OTHER -> @]
<1>1. Orphaned(p) = {After(l) : l \in leases}
  BY DEF Orphaned
<1>2. \A l \in LeaseFile : After(l) \in LeaseFile /\ After(l).digest = l.digest
  BY DEF LeaseFile
<1>3. \A l : l.pid # p => After(l) = l
  OBVIOUS
<1> HIDE DEF After
<1> QED BY <1>1, <1>2, <1>3

LEMMA EndStep ==
  ASSUME IInv, NEW p \in Process, DropLease(p) \/ Fail(p) \/ Crash(p) PROVE IInv'
<1> USE DEF Goto, Return
<1>1. Typed /\ leases \subseteq LeaseFile /\ victim[p] \in Digest \cup {None}
  BY DEF IInv, Typed
<1>2. victim = [victim EXCEPT ![p] = victim[p]]
  BY <1>1 DEF Typed
<1>3. ASSUME DropLease(p) PROVE IInv'
  <2>1. /\ leases' \subseteq leases
        /\ \A l \in leases : l.pid # p => l \in leases'
    BY <1>3 DEF DropLease, Mine
  <2>2. todo' \in [Process -> SUBSET Digest]
    BY <1>1, <1>3 DEF DropLease, Typed
  <2> QED BY Zenon, <1>1, <1>2, <1>3, <2>1, <2>2, LeaveStep DEF DropLease
<1>4. ASSUME Fail(p) PROVE IInv'
  <2>1. todo' \in [Process -> SUBSET Digest]
    BY <1>1, <1>4 DEF Fail, Typed
  <2> QED BY Zenon, <1>1, <1>2, <1>4, <2>1, OrphanedFiles, LeaveStep DEF Fail
<1>5. ASSUME Crash(p) PROVE IInv'
  <2>1. todo' \in [Process -> SUBSET Digest]
    BY <1>1, <1>5 DEF Crash, Typed
  <2> QED BY Zenon, <1>1, <1>5, <2>1, OrphanedFiles, LeaveStep DEF Crash
<1> QED BY <1>3, <1>4, <1>5

LEMMA AgeStep == ASSUME IInv, Age PROVE IInv'
<1> DEFINE Aged(l) == [l EXCEPT !.old = TRUE]
<1>1. Typed /\ UNCHANGED <<pc, want, todo, victim, lock, snapshots, current>>
  BY DEF IInv, Age, locals
<1>2. leases' = {Aged(l) : l \in leases}
  BY DEF Age
<1>3. \A l \in leases : /\ Aged(l) \in LeaseFile /\ Aged(l).digest = l.digest
                        /\ Aged(l).pid = l.pid /\ Aged(l).state = l.state
  BY Zenon, <1>1 DEF Typed, LeaseFile
<1> HIDE DEF Aged
<1>4. Typed'
  BY <1>1, <1>2, <1>3 DEF Typed
<1>5. HolderKnows'
  <2>1. \A d : LeasesOf(d) = {} => LeasesOf(d)' = {}
    BY <1>2, <1>3 DEF LeasesOf
  <2> QED BY <1>1, <2>1 DEF IInv, HolderKnows
<1>6. GrantsAreFiled'
  BY <1>1, <1>2, <1>3 DEF IInv, GrantsAreFiled, Leased
<1> QED BY <1>1, <1>4, <1>5, <1>6
        DEF IInv, LockMatchesPc, CurrentIsWhole, ReadersKeepTheirTree

LEMMA StutterStep == ASSUME IInv, UNCHANGED vars PROVE IInv'
  BY DEF IInv, Typed, LockMatchesPc, CurrentIsWhole, HolderKnows, LeasesOf, GrantsAreFiled,
         Leased, ReadersKeepTheirTree, vars, locals, disk

LEMMA StepInvariant == ASSUME ProbesPids, IInv, [Next]_vars PROVE IInv'
<1>1. ASSUME NEW p \in Process, Grant(p), current # want[p] PROVE IInv'
  <2>1. /\ Return(p) /\ UNCHANGED <<snapshots, current, leases>>
    BY <1>1 DEF Grant
  <2>2. /\ Typed /\ leases \subseteq LeaseFile /\ victim[p] \in Digest \cup {None}
        /\ victim = [victim EXCEPT ![p] = victim[p]]
    BY DEF IInv, Typed
  <2>3. todo' \in [Process -> SUBSET Digest]
    BY <2>1, <2>2 DEF Return, Typed
  <2> QED BY Zenon, <2>1, <2>2, <2>3, LeaveStep DEF Return, Goto
<1>2. ASSUME NEW p \in Process, Run(p) PROVE IInv'
  BY <1>1, <1>2, QuietStep, PublishStep, ReplaceStep, ExamineStep, RemoveStep, GrantStep,
     WriteLeaseStep, EndStep DEF Run, Quiet
<1>3. ASSUME NEW p \in Process, DropLease(p) \/ Crash(p) \/ Restart(p) PROVE IInv'
  BY <1>3, QuietStep, EndStep DEF Quiet
<1>4. ASSUME NEW p \in Process, NEW d \in Digest, Vendor(p, d) \/ ReadCurrent(p, d) PROVE IInv'
  BY <1>4, QuietStep DEF Quiet
<1> QED BY <1>2, <1>3, <1>4, AgeStep, StutterStep DEF Next

\* The invariant holds throughout, if the platform can tell whether a process
\* is alive (process_is_alive on Unix).
THEOREM Invariance == ASSUME ProbesPids PROVE Spec => []IInv
<1>1. IInv /\ [Next]_vars => IInv'
  BY StepInvariant
<1> QED BY InitInvariant, <1>1, PTL DEF Spec

\* vendor_snapshot: CURRENT names a complete snapshot at every moment.
THEOREM SnapshotsAreWhole == ASSUME ProbesPids PROVE Spec => []CurrentIsWhole
<1>1. IInv => CurrentIsWhole
  BY DEF IInv
<1> QED BY <1>1, Invariance, PTL

\* lease_vendor_snapshot: a reader that verified a snapshot before it
\* had its lease never loses it.
THEOREM ReadersAreSafe == ASSUME ProbesPids PROVE Spec => []ReadersKeepTheirTree
<1>1. IInv => ReadersKeepTheirTree
  BY DEF IInv
<1> QED BY <1>1, Invariance, PTL

\* VendorLifecycleLock: at most one process is between acquire and drop.
THEOREM LockIsHeld == ASSUME ProbesPids PROVE Spec => []LockMatchesPc
<1>1. IInv => LockMatchesPc
  BY DEF IInv
<1> QED BY <1>1, Invariance, PTL

\* Only remove_dir_all takes a snapshot apart.
LEMMA OnlyRemoveDestroys ==
  ASSUME IInv, [Next]_vars, NEW d \in Digest, snapshots[d] = "whole", snapshots'[d] # "whole"
  PROVE  \E p \in Process : Remove(p) /\ victim[p] = d
<1>1. Typed
  BY DEF IInv
<1>2. snapshots' # snapshots
  OBVIOUS
<1>3. PICK p \in Process : Publish(p) \/ Remove(p)
  BY <1>2 DEF Next, Run, vars, locals, disk, Acquire, Busy, Preflight, Verify, Unpublished, Replace,
     Examine, RemoveFails, Vendored, VerifyCurrent, Grant, WriteLease, Fail, Vendor, ReadCurrent,
     DropLease, Crash, Restart, Age
<1>4. ~Publish(p)
  BY <1>1 DEF Publish, Typed
<1>5. Remove(p) /\ victim[p] = d
  BY <1>1, <1>3, <1>4 DEF Remove, Typed
<1> QED BY <1>5

\* reclaim_vendor_snapshots and snapshot_has_active_lease: a snapshot is taken
\* apart only while CURRENT does not name it and no process was granted it.
THEOREM OnlyGarbageGoes == ASSUME ProbesPids PROVE Spec => ReclaimsOnlyGarbage
<1> DEFINE Safe == \A d \in Digest :
             snapshots[d] = "whole" /\ snapshots'[d] # "whole" =>
                /\ current # d
                /\ \A p \in Process : pc[p] \in {"write_lease", "reading"} => want[p] # d
<1>1. IInv /\ [Next]_vars => Safe
  <2> SUFFICES ASSUME IInv, [Next]_vars, NEW d \in Digest,
                      snapshots[d] = "whole", snapshots'[d] # "whole"
               PROVE  /\ current # d
                      /\ \A q \in Process : pc[q] \in {"write_lease", "reading"} => want[q] # d
    OBVIOUS
  <2>1. PICK p \in Process : Remove(p) /\ victim[p] = d
    BY OnlyRemoveDestroys
  <2>2. pc[p] = "remove" /\ current = want[p] /\ d # want[p] /\ LeasesOf(d) = {}
    BY <2>1 DEF Remove, IInv, HolderKnows
  <2>3. \A q \in Process : pc[q] \in {"write_lease", "reading"} => want[q] # d
    BY <2>2 DEF IInv, GrantsAreFiled, Leased, LeasesOf
  <2> QED BY <2>2, <2>3
<1>2. [Next]_vars /\ IInv => [Safe]_vars
  BY <1>1
<1> QED BY <1>2, Invariance, PTL DEF Spec, ReclaimsOnlyGarbage

-----------------------------------------------------------------------------
\* What a process has forgotten at its label: the locals of a call that is over,
\* the snapshot it no longer removes, the entries it has examined.
Clean(p) ==
  /\ pc[p] \in {"idle", "dead"} => want[p] = None
  /\ pc[p] # "remove" => victim[p] = None
  /\ pc[p] \notin {"reclaim", "remove"} => todo[p] = {}
Cleared == faults \in 0..MaxFaults /\ \A p \in Process : Clean(p)

LEMMA ClearedStep == ASSUME IInv, Cleared, [Next]_vars PROVE Cleared'
<1>1. Typed
  BY DEF IInv
<1>2. faults' \in 0..MaxFaults
  <2>1. faults' = faults \/ (faults < MaxFaults /\ faults' = faults + 1)
    BY DEF Next, Run, vars, locals, Acquire, Busy, Preflight, Publish, Verify, Unpublished, Replace,
           Examine, Remove, RemoveFails, Vendored, VerifyCurrent, Grant, WriteLease, Fail, Vendor,
           ReadCurrent, DropLease, Crash, Restart, Age
  <2> QED BY <2>1, FaultsAreBounded DEF Cleared
<1>3. ASSUME NEW p \in Process, Return(p), pc[p] # "remove" PROVE \A q \in Process : Clean(q)'
  BY <1>1, <1>3 DEF Return, Goto, Cleared, Clean, Typed
<1>4. ASSUME NEW p \in Process, Run(p) PROVE \A q \in Process : Clean(q)'
  <2>1. CASE Acquire(p) \/ Preflight(p) \/ Publish(p) \/ WriteLease(p)
    BY <1>1, <2>1 DEF Acquire, Preflight, Publish, WriteLease, Goto, Cleared, Clean, Typed
  <2>2. CASE Busy(p) \/ Unpublished(p) \/ Fail(p)
    BY <1>3, <2>2 DEF Busy, Unpublished, Fail
  <2>3. CASE Verify(p) \/ VerifyCurrent(p) \/ Grant(p)
    <3>1. CASE Return(p)
      BY <1>3, <2>3, <3>1 DEF Verify, VerifyCurrent, Grant
    <3>2. CASE ~Return(p)
      BY <1>1, <2>3, <3>2 DEF Verify, VerifyCurrent, Grant, Goto, Cleared, Clean, Typed
    <3> QED BY <3>1, <3>2
  <2>4. CASE Replace(p) \/ Vendored(p)
    BY <1>1, <2>4 DEF Replace, Vendored, Goto, Cleared, Clean, Typed
  <2>5. ASSUME NEW d \in Digest, Examine(p, d) PROVE \A q \in Process : Clean(q)'
    BY <1>1, <2>5 DEF Examine, Goto, Cleared, Clean, Typed
  <2>6. CASE Remove(p) \/ RemoveFails(p)
    BY <1>1, <2>6 DEF Remove, RemoveFails, Goto, Cleared, Clean, Typed
  <2> QED BY <1>4, <2>1, <2>2, <2>3, <2>4, <2>5, <2>6 DEF Run
<1>5. ASSUME NEW p \in Process, NEW d \in Digest, Vendor(p, d) \/ ReadCurrent(p, d)
      PROVE  \A q \in Process : Clean(q)'
  <2>1. CASE Return(p)
    BY <1>3, <1>5, <2>1 DEF Vendor, ReadCurrent
  <2>2. CASE ~Return(p)
    BY <1>1, <1>5, <2>2 DEF Vendor, ReadCurrent, Goto, Cleared, Clean, Typed
  <2> QED BY <2>1, <2>2
<1>6. ASSUME NEW p \in Process, DropLease(p) \/ Crash(p) \/ Restart(p)
      PROVE  \A q \in Process : Clean(q)'
  <2>1. CASE DropLease(p)
    BY <1>3, <2>1 DEF DropLease
  <2>2. CASE Crash(p) \/ Restart(p)
    BY <1>1, <2>2 DEF Crash, Restart, Goto, Cleared, Clean, Typed
  <2> QED BY <1>6, <2>1, <2>2
<1>7. CASE Age \/ UNCHANGED vars
  BY <1>7 DEF Age, vars, locals, Cleared, Clean
<1> QED BY <1>2, <1>4, <1>5, <1>6, <1>7 DEF Next, Cleared

\* Every variable has its type, and a process holds no local of a call that is
\* over: no failed removal, error or crash leaves one behind.
THEOREM TypesHold == ASSUME ProbesPids PROVE Spec => []TypeOK
<1>1. Init => Cleared
  BY FaultsAreBounded DEF Init, Cleared, Clean
<1>2. IInv /\ Cleared => TypeOK
  BY NoneIsFresh DEF IInv, Typed, Cleared, Clean, TypeOK
<1>3. IInv /\ Cleared /\ [Next]_vars => Cleared'
  BY ClearedStep
<1>4. Spec => []Cleared
  BY <1>1, <1>3, Invariance, PTL DEF Spec
<1> QED BY <1>2, <1>4, Invariance, PTL
=============================================================================
