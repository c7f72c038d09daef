--------------------------- MODULE WorkspaceProofs ---------------------------
(***************************************************************************)
(* Proofs about TransactionalWorkspace, for all processes, paths, contents *)
(* and settings of failures.                                               *)
(***************************************************************************)
EXTENDS TransactionalWorkspace, TLAPS

\* The worktree is at base_sha with its contents, ignored files apart.
Restored ==
  /\ tree.head = "base"
  /\ \A x \in Path \ setting.ignored : Same(tree.files[x], CheckedOut(x))

\* The same after git reset, before git clean.
HalfRestored ==
  /\ tree.head = "base"
  /\ \A x \in Path : Base[x] # Absent => Same(tree.files[x], CheckedOut(x))

\* The state m describes every path outside S, or that path was rolled back.
Describes(m, S) ==
  \A x \in Path \ (m.missed \cup S) :
     tree.files[x] = m.files[x] \/ Same(tree.files[x], CheckedOut(x))

\* Unless fingerprints fail, a state misses no path and no directory.
Exact(m) == m.missed = {} \/ "fingerprint" \in setting.faults
Covers(m) == tree.dirs \subseteq m.dirs \/ "fingerprint" \in setting.faults

\* A state that follows d in the state file keeps the doubt that d records.
KeepsDoubt(d, m) ==
  d.phase = "Interrupted" /\ d.pending =>
     m.phase # "Active" /\ (m.phase = "Interrupted" => m.pending)

\* What a handle's state m may be at any time.
SaneState(p, m) ==
  /\ m.phase = "Aborted" => Restored
  /\ durable.phase = "Aborted" => m.phase = "Aborted"
  /\ p \in synced => KeepsDoubt(durable, m) /\ (~m.pending => Describes(m, {}) /\ Covers(m))
  /\ Exact(m)

Marked == {"effect", "journal", "settle"}

\* What holds where the handler of a handle with state m is.
SaneTask(m, t) ==
  /\ t.at \in Marked \cup {"begin", "commit", "authorize"} => m.phase = "Active"
  /\ t.at \in {"clean", "rollback"} => m.phase \in {"Active", "Interrupted"}
  /\ t.at = "clean" => HalfRestored
  /\ t.at = "rollback" => Restored
  /\ t.at \in {"begin", "effect"} /\ t.op.kind # "write" => tree.files[t.op.from] # Absent
  /\ t.at \in {"begin", "effect"} /\ t.op.kind = "write" =>
        t.op.structure = (t.op.from \in Nested \ tree.dirs)
  /\ t.at \in Marked => m.pending
  /\ t.at = "effect" => Describes(m, {}) /\ Covers(m)
  /\ t.at \in {"journal", "settle"} =>
        Describes(m, Changed(t.op)) /\ (Covers(m) \/ (t.op.kind = "write" /\ t.op.structure))

HandlesAreSane ==
  \A p \in Process : task[p] # None =>
     /\ lease = p
     /\ SaneState(p, memory[p])
     /\ SaneTask(memory[p], task[p])
     /\ task[p].at \in Marked => p \in synced /\ durable.pending

FileIsSane ==
  durable # None => Exact(durable) /\ (~durable.pending => Covers(durable))

IInv ==
  /\ TypeOK
  /\ FileIsSane
  /\ \A p \in synced : task[p] # None
  /\ JournaledOrRolledBack
  /\ RollbackRestoresContents
  /\ HandlesAreSane

-----------------------------------------------------------------------------
(* Types                                                                   *)

LEMMA CheckedOutTypes ==
  /\ \A x \in Path : CheckedOut(x) \in File \cup {Absent}
  /\ BaseTree \in Tree /\ Created \in State
  BY BaseIsATree DEF CheckedOut, File, Files, BaseTree, Tree, Head, Created, State, Phase

\* A handle's state, worktree and state file exist.
LEMMA HandleTypes ==
  ASSUME TypeOK, NEW p \in Process, task[p] # None
  PROVE  memory[p] \in State /\ durable \in State /\ tree \in Tree /\ task[p] \in Task
  BY DEF TypeOK

LEMMA WorkTypes ==
  ASSUME NEW t \in Task, t.at \in Marked \cup {"begin"}
  PROVE  /\ t \in [at : {"begin", "effect", "journal", "settle"}, op : Operation]
         /\ t.op \in Operation
         /\ \A s \in Marked : [t EXCEPT !.at = s] \in Task /\ [t EXCEPT !.at = s].op = t.op
                              /\ [t EXCEPT !.at = s].at = s
  BY DEF Task, Step, Marked

LEMMA OperationTypes ==
  ASSUME NEW o \in Operation
  PROVE  /\ o.from \in Path /\ Changed(o) \subseteq Path
         /\ o.kind \in {"write", "chmod", "delete", "rename"}
         /\ o.kind = "write" => o.bytes \in Byte
         /\ o.kind = "rename" => o.to \in Path
  BY DEF Operation, Changed

LEMMA FingerprintTypes ==
  ASSUME NEW m \in State, tree \in Tree
  PROVE  /\ Fingerprinted(m) \in State
         /\ Fingerprinted(m).files = tree.files /\ Fingerprinted(m).dirs = tree.dirs
         /\ Fingerprinted(m).phase = m.phase /\ Fingerprinted(m).pending = m.pending
         /\ Fingerprinted(m).missed = m.missed
  BY Zenon DEF Fingerprinted, State, Tree

\* Only one process has a handle: the holder of the lease.
LEMMA OneHandle ==
  ASSUME IInv, NEW p \in Process, task[p] # None
  PROVE  /\ \A q \in Process \ {p} : task[q] = None /\ memory[q] = None
         /\ synced \subseteq {p}
  BY DEF IInv, HandlesAreSane, TypeOK

-----------------------------------------------------------------------------
(* Saves and closed handles                                                *)

\* A handle is dropped, and the files of the worktree stay as they are.
LEMMA CloseKeeps ==
  ASSUME IInv, NEW p \in Process, task[p] # None, Close(p), UNCHANGED <<commit, durable>>,
         tree' \in Tree, tree'.files = tree.files, tree'.head = tree.head,
         tree'.dirs = tree.dirs \/ durable.pending
  PROVE  IInv'
<1>1. /\ memory' = [memory EXCEPT ![p] = None] /\ task' = [task EXCEPT ![p] = None]
      /\ synced' = synced \ {p} /\ lease' \in {lease, None} /\ setting' = setting
  BY DEF Close, Keep, Goto
<1>2. \A q \in Process : task'[q] = None /\ memory'[q] = None
  BY <1>1, OneHandle DEF IInv, TypeOK
<1>3. TypeOK'
  BY <1>1, <1>2, NoneIsNoValue, HandleTypes DEF IInv, TypeOK
<1>4. synced' = {}
  BY <1>1, OneHandle
<1>5. JournaledOrRolledBack' /\ RollbackRestoresContents' /\ FileIsSane'
  BY <1>1 DEF IInv, JournaledOrRolledBack, RollbackRestoresContents, FileIsSane, Exact, Covers
<1>6. QED
  BY <1>2, <1>3, <1>4, <1>5 DEF IInv, HandlesAreSane

LEMMA SavedKeeps ==
  ASSUME IInv, NEW p \in Process, task[p] # None, UNCHANGED commit,
         NEW state \in State, NEW next \in Task, Saved(p, state, next),
         SaneState(p, state), SaneTask(state, next)
  PROVE  IInv'
<1>1. /\ memory' = [memory EXCEPT ![p] = state] /\ task' = [task EXCEPT ![p] = next]
      /\ p \in synced /\ synced' = {p} /\ durable' = state
      /\ tree' = tree /\ lease' = lease /\ setting' = setting
  BY DEF Saved, Keep, Goto
<1>2. \A q \in Process \ {p} : task'[q] = None /\ memory'[q] = None
  BY <1>1, OneHandle DEF IInv, TypeOK
<1>3. task'[p] = next /\ memory'[p] = state /\ next # None /\ state # None
  BY <1>1, NoneIsNoValue DEF IInv, TypeOK
<1>4. TypeOK'
  BY <1>1, <1>2, <1>3, HandleTypes, NoneIsNoValue DEF IInv, TypeOK
<1>5. JournaledOrRolledBack' /\ FileIsSane'
  BY <1>1 DEF JournaledOrRolledBack, FileIsSane, SaneState, Describes, Exact, Covers
<1>6. RollbackRestoresContents'
  BY <1>1 DEF RollbackRestoresContents, SaneState, Restored
<1>7. SaneState(p, memory[p])'
  BY <1>1, <1>3 DEF SaneState, Restored, KeepsDoubt, Describes, Exact, Covers
<1>8. SaneTask(memory[p], task[p])'
  BY <1>1, <1>3 DEF SaneTask, Restored, HalfRestored, Describes, Exact, Covers
<1>9. task'[p].at \in Marked => durable'.pending
  BY <1>1, <1>3 DEF SaneTask
<1>10. lease' = p
  BY <1>1 DEF IInv, HandlesAreSane
<1>11. QED
  BY <1>1, <1>2, <1>3, <1>4, <1>5, <1>6, <1>7, <1>8, <1>9, <1>10 DEF IInv, HandlesAreSane

\* A handler ends with a state that is saved without its knowledge or not at all.
LEMMA UnsavedKeeps ==
  ASSUME IInv, NEW p \in Process, task[p] # None, UNCHANGED <<tree, commit, lease>>,
         NEW state \in State, SaneState(p, state), Keep(p, state), Goto(p, Idle),
         \/ UNCHANGED <<durable, synced>>
         \/ p \in synced /\ durable' = state /\ synced' = {}
  PROVE  IInv'
<1>1. /\ memory' = [memory EXCEPT ![p] = state] /\ task' = [task EXCEPT ![p] = Idle]
      /\ tree' = tree /\ lease' = lease /\ setting' = setting
      /\ \/ durable' = durable /\ synced' = synced
         \/ p \in synced /\ durable' = state /\ synced' = {}
  BY DEF Keep, Goto
<1>2. \A q \in Process \ {p} : task'[q] = None /\ memory'[q] = None
  BY <1>1, OneHandle DEF IInv, TypeOK
<1>3. task'[p] = Idle /\ memory'[p] = state /\ Idle # None /\ state # None /\ Idle \in Task
  BY <1>1, NoneIsNoValue DEF IInv, TypeOK, Idle, Task, Step
<1>4. TypeOK'
  BY <1>1, <1>2, <1>3, HandleTypes, NoneIsNoValue DEF IInv, TypeOK
<1>5. JournaledOrRolledBack' /\ FileIsSane'
  BY <1>1 DEF IInv, JournaledOrRolledBack, FileIsSane, SaneState, Describes, Exact, Covers
<1>6. RollbackRestoresContents'
  BY <1>1 DEF IInv, RollbackRestoresContents, SaneState, Restored
<1>7. SaneState(p, memory[p])'
  BY <1>1, <1>3 DEF SaneState, Restored, KeepsDoubt, Describes, Exact, Covers
<1>8. SaneTask(memory[p], task[p])' /\ task'[p].at \notin Marked
  BY <1>3 DEF SaneTask, Idle, Marked
<1>9. lease' = p
  BY <1>1 DEF IInv, HandlesAreSane
<1>10. \A q \in synced' : task'[q] # None
  BY <1>1, <1>3, OneHandle
<1>11. QED
  BY <1>2, <1>4, <1>5, <1>6, <1>7, <1>8, <1>9, <1>10 DEF IInv, HandlesAreSane

\* persist_state in a handler that has made the state sane and goes on to next.
LEMMA PersistKeeps ==
  ASSUME IInv, NEW p \in Process, task[p] # None,
         NEW state \in State, NEW next \in Task, Persist(p, state, next),
         SaneState(p, state), p \in synced => SaneTask(state, next)
  PROVE  IInv'
<1>1. CASE Saved(p, state, next)
  BY <1>1, SavedKeeps DEF Persist, Saved
<1>2. CASE SaveFails(p, state)
  BY <1>2, UnsavedKeeps DEF Persist, SaveFails
<1>3. CASE SaveTorn(p)
  <2>1. /\ tree' \in Tree /\ tree'.files = tree.files /\ tree'.head = tree.head
        /\ tree'.dirs = tree.dirs
    BY Zenon, <1>3, HandleTypes DEF SaveTorn, IInv, Tree
  <2>2. QED
    BY Zenon, <1>3, <2>1, CloseKeeps DEF Persist, SaveTorn
<1>4. QED
  BY <1>1, <1>2, <1>3 DEF Persist

-----------------------------------------------------------------------------
(* Operations on the state only                                            *)

\* What the invariant says of the handle of p.
LEMMA HandleFacts ==
  ASSUME IInv, NEW p \in Process, task[p] # None
  PROVE  /\ memory[p] \in State /\ durable \in State /\ tree \in Tree /\ task[p] \in Task
         /\ SaneState(p, memory[p]) /\ SaneTask(memory[p], task[p])
         /\ task[p].at \in Marked => p \in synced /\ durable.pending
  BY HandleTypes DEF IInv, HandlesAreSane

\* Saving the state as it is, before an operation or between operations.
LEMMA RecordStep ==
  ASSUME IInv, NEW p \in Process,
         \/ Record(p) \/ record_artifact(p) \/ CommitCheckpoint(p)
         \/ read_at_commit(p) \/ JournalEffect(p)
         \/ \E o \in Operation : Start(p, o)
  PROVE  IInv'
<1>1. task[p] # None
  BY Zenon DEF Record, record_artifact, CommitCheckpoint, read_at_commit, JournalEffect, Start, Ready, At
<1>2. CASE Record(p) \/ record_artifact(p)
  <2>1. Persist(p, memory[p], Idle) /\ Idle \in Task
    BY <1>2 DEF Record, record_artifact, Idle, Task, Step
  <2>2. SaneTask(memory[p], Idle)
    BY DEF SaneTask, Idle, Marked
  <2>3. QED
    BY <1>1, <2>1, <2>2, HandleFacts, PersistKeeps
<1>3. CASE CommitCheckpoint(p) \/ read_at_commit(p)
  <2>1. PICK s \in {"commit", "authorize"} : Persist(p, memory[p], [at |-> s])
    BY <1>3 DEF CommitCheckpoint, read_at_commit
  <2>2. [at |-> s] \in Task
    BY DEF Task, Step
  <2>3. SaneTask(memory[p], [at |-> s])
    BY <1>3 DEF CommitCheckpoint, read_at_commit, Ready, SaneTask, Marked
  <2>4. QED
    BY <1>1, <2>1, <2>2, <2>3, HandleFacts, PersistKeeps
<1>4. CASE JournalEffect(p)
  <2> DEFINE next == [task[p] EXCEPT !.at = "settle"]
  <2>1. task[p].at = "journal" /\ Persist(p, memory[p], next)
    BY <1>4 DEF JournalEffect, At
  <2>2. next \in Task /\ next.op = task[p].op /\ next.at = "settle"
    BY Zenon, <1>1, <2>1, HandleFacts, WorkTypes DEF Marked
  <2>3. SaneTask(memory[p], next)
    BY <1>1, <2>1, <2>2, HandleFacts DEF SaneTask, Marked
  <2>4. QED
    BY <1>1, <2>1, <2>2, <2>3, HandleFacts, PersistKeeps
<1>5. CASE \E o \in Operation : Start(p, o)
  <2>1. PICK o \in Operation : Start(p, o)
    BY <1>5
  <2> DEFINE next == [at |-> "begin", op |-> o]
  <2>2. Persist(p, memory[p], next) /\ next \in Task
    BY <2>1 DEF Start, Task
  <2>3. SaneTask(memory[p], next)
    BY <2>1 DEF Start, Ready, Authorized, SaneTask, Marked
  <2>4. QED
    BY <1>1, <2>2, <2>3, HandleFacts, PersistKeeps
<1>6. QED
  BY <1>2, <1>3, <1>4, <1>5

\* A change of phase alone keeps what the state describes.
LEMMA PhaseStep ==
  ASSUME IInv, NEW p \in Process, mark_interrupted(p) \/ resume(p) \/ commit_local(p)
  PROVE  IInv'
<1>1. /\ task[p] # None
      /\ memory[p].phase = "Active" \/ (memory[p].phase = "Interrupted" /\ ~memory[p].pending)
  BY HandleFacts
  DEF mark_interrupted, resume, commit_local, Ready, At, SaneTask
<1>2. PICK f \in {"Active", "Interrupted", "Committed"} :
         /\ Persist(p, [memory[p] EXCEPT !.phase = f], Idle)
         /\ f = "Active" => memory[p].phase = "Interrupted"
  BY DEF mark_interrupted, resume, commit_local, Ready
<1> DEFINE m == [memory[p] EXCEPT !.phase = f]
<1>3. m \in State /\ m.phase = f /\ m.pending = memory[p].pending
      /\ m.files = memory[p].files /\ m.missed = memory[p].missed /\ m.dirs = memory[p].dirs
  BY <1>1, HandleFacts DEF State, Phase
<1>4. SaneState(p, memory[p])
  BY <1>1, HandleFacts
<1>5. SaneState(p, m)
  BY <1>1, <1>2, <1>3, <1>4 DEF SaneState, KeepsDoubt, Describes, Exact, Covers
<1>6. SaneTask(m, Idle) /\ Idle \in Task
  BY DEF SaneTask, Idle, Marked, Task, Step
<1>7. QED
  BY <1>1, <1>2, <1>3, <1>5, <1>6, PersistKeeps

\* The end of a handler that changes nothing else.
LEMMA ReturnKeeps ==
  ASSUME IInv, NEW p \in Process, task[p] # None, Goto(p, Idle),
         UNCHANGED <<tree, commit, durable, memory, synced, lease>>
  PROVE  IInv'
<1>1. Keep(p, memory[p])
  BY DEF Keep, IInv, TypeOK
<1>2. QED
  BY <1>1, HandleFacts, UnsavedKeeps

-----------------------------------------------------------------------------
(* Operations that settle a state                                          *)

LEMMA BeginStep ==
  ASSUME IInv, NEW p \in Process, begin_effect(p)
  PROVE  IInv'
<1>1. task[p] # None /\ task[p].at = "begin"
  BY DEF begin_effect, At
<1>2. CASE memory[p].pending
  BY <1>1, <1>2, ReturnKeeps DEF begin_effect
<1>3. CASE ~memory[p].pending
  <2> DEFINE m == [memory[p] EXCEPT !.pending = TRUE]
             next == [task[p] EXCEPT !.at = "effect"]
  <2>1. Persist(p, m, next)
    BY <1>3 DEF begin_effect
  <2>2. m \in State /\ m.phase = memory[p].phase /\ m.pending
        /\ m.files = memory[p].files /\ m.missed = memory[p].missed /\ m.dirs = memory[p].dirs
    BY Zenon, <1>1, HandleFacts DEF State
  <2>3. next \in Task /\ next.op = task[p].op /\ next.at = "effect"
    BY Zenon, <1>1, HandleFacts, WorkTypes DEF Marked
  <2>4. SaneState(p, memory[p]) /\ SaneTask(memory[p], task[p])
    BY <1>1, HandleFacts
  <2>5. SaneState(p, m)
    BY <2>2, <2>4 DEF SaneState, KeepsDoubt, Exact
  <2>6. p \in synced => SaneTask(m, next)
    BY <1>1, <1>3, <2>2, <2>3, <2>4 DEF SaneState, SaneTask, Describes, Exact, Covers, Marked
  <2>7. QED
    BY <1>1, <2>1, <2>2, <2>3, <2>5, <2>6, PersistKeeps
<1>4. QED
  BY <1>2, <1>3

\* Clearing the marker: changed paths are described anew, or missed.
LEMMA FinishStep ==
  ASSUME IInv, NEW p \in Process, finish_effect(p) \/ FinishFails(p)
  PROVE  IInv'
<1> DEFINE o == task[p].op
           fresh == Settled(memory[p], o)
           stale == [memory[p] EXCEPT !.pending = FALSE, !.missed = @ \cup Changed(o)]
<1>1. task[p] # None /\ task[p].at = "settle"
  BY DEF finish_effect, FinishFails, At
<1>2. /\ memory[p] \in State /\ tree \in Tree /\ o \in Operation /\ Changed(o) \subseteq Path
      /\ SaneState(p, memory[p]) /\ memory[p].phase = "Active" /\ Describes(memory[p], Changed(o))
      /\ Covers(memory[p]) \/ (o.kind = "write" /\ o.structure)
  BY Zenon, <1>1, HandleFacts, WorkTypes, OperationTypes DEF Marked, SaneTask
<1>3. /\ fresh \in State /\ fresh.phase = "Active" /\ fresh.missed = memory[p].missed \ Changed(o)
      /\ fresh.files = [x \in Path |-> IF x \in Changed(o) THEN tree.files[x] ELSE memory[p].files[x]]
      /\ fresh.dirs = IF o.kind = "write" /\ o.structure THEN tree.dirs ELSE memory[p].dirs
  BY Zenon, <1>2 DEF Settled, State, Tree, Files
<1>4. /\ stale \in State /\ stale.phase = "Active" /\ stale.files = memory[p].files
      /\ stale.missed = memory[p].missed \cup Changed(o)
  BY Zenon, <1>2 DEF State
<1>5. Describes(fresh, {}) /\ Describes(stale, {})
  BY <1>2, <1>3, <1>4 DEF Describes, Exact, Covers
<1>6. SaneState(p, fresh) /\ (FinishFails(p) => SaneState(p, stale))
  BY <1>2, <1>3, <1>4, <1>5 DEF SaneState, KeepsDoubt, Exact, Covers, FinishFails
<1>7. SaneTask(fresh, Idle) /\ Idle \in Task
  BY DEF SaneTask, Idle, Marked, Task, Step
<1>8. CASE finish_effect(p)
  BY <1>1, <1>3, <1>6, <1>7, <1>8, PersistKeeps DEF finish_effect
<1>9. CASE FinishFails(p)
  BY <1>1, <1>4, <1>6, <1>9, UnsavedKeeps DEF FinishFails
<1>10. QED
  BY <1>8, <1>9

\* The record of a rollback, whose fingerprints are all taken or all missed.
LEMMA RollbackStep ==
  ASSUME IInv, NEW p \in Process, AbortRecord(p) \/ AbortFails(p)
  PROVE  IInv'
<1> DEFINE m == RolledBack(memory[p])
           fresh == Fingerprinted(m)
           stale == [m EXCEPT !.missed = Path]
<1>1. task[p] # None /\ task[p].at = "rollback"
  BY DEF AbortRecord, AbortFails, At
<1>2. memory[p] \in State /\ tree \in Tree /\ Restored
  BY <1>1, HandleFacts DEF SaneTask
<1>3. m \in State /\ m.phase = "Aborted" /\ m.missed = {}
  BY Zenon, <1>2 DEF RolledBack, State, Phase
<1>4. fresh \in State /\ fresh.phase = "Aborted" /\ fresh.files = tree.files
      /\ fresh.missed = {} /\ fresh.dirs = tree.dirs
  BY <1>2, <1>3, FingerprintTypes
<1>5. stale \in State /\ stale.phase = "Aborted" /\ stale.missed = Path
  BY <1>3 DEF State
<1>6. SaneState(p, fresh) /\ (AbortFails(p) => SaneState(p, stale))
  BY <1>2, <1>4, <1>5 DEF SaneState, KeepsDoubt, Describes, Exact, Covers, AbortFails
<1>7. SaneTask(fresh, Idle) /\ Idle \in Task
  BY DEF SaneTask, Idle, Marked, Task, Step
<1>8. CASE AbortRecord(p)
  BY <1>1, <1>4, <1>6, <1>7, <1>8, PersistKeeps DEF AbortRecord
<1>9. CASE AbortFails(p)
  BY <1>1, <1>5, <1>6, <1>9, UnsavedKeeps DEF AbortFails
<1>10. QED
  BY <1>8, <1>9

LEMMA AuthorizeStep ==
  ASSUME IInv, NEW p \in Process, authorize_verified_candidate_commit(p)
  PROVE  IInv'
<1> DEFINE m == [Fingerprinted(memory[p]) EXCEPT !.candidate = TRUE, !.missed = {}]
<1>1. task[p] # None /\ task[p].at = "authorize"
  BY DEF authorize_verified_candidate_commit, At
<1>2. CASE Persist(p, m, Idle)
  <2>1. memory[p] \in State /\ tree \in Tree /\ SaneState(p, memory[p])
    BY <1>1, HandleFacts
  <2>2. m \in State /\ m.phase = memory[p].phase /\ m.pending = memory[p].pending
        /\ m.files = tree.files /\ m.dirs = tree.dirs /\ m.missed = {}
    BY Zenon, <2>1, FingerprintTypes DEF State
  <2>3. SaneState(p, m)
    BY <2>1, <2>2 DEF SaneState, KeepsDoubt, Describes, Exact, Covers
  <2>4. SaneTask(m, Idle) /\ Idle \in Task
    BY DEF SaneTask, Idle, Marked, Task, Step
  <2>5. QED
    BY <1>1, <1>2, <2>2, <2>3, <2>4, PersistKeeps
<1>3. QED
  BY <1>1, <1>2, ReturnKeeps DEF authorize_verified_candidate_commit

-----------------------------------------------------------------------------
(* Operations on the worktree                                              *)

\* A handler changes the worktree between its saves, and goes on to next.
LEMMA MoveKeeps ==
  ASSUME IInv, NEW p \in Process, task[p] # None, NEW next \in Task, Goto(p, next),
         UNCHANGED <<durable, memory, synced, lease>>,
         tree' \in Tree, commit' \in Files \cup {None},
         JournaledOrRolledBack', RollbackRestoresContents', FileIsSane',
         SaneState(p, memory[p])', SaneTask(memory[p], task[p])',
         next.at \in Marked => p \in synced /\ durable.pending
  PROVE  IInv'
<1>1. task' = [task EXCEPT ![p] = next] /\ next # None
  BY NoneIsNoValue DEF Goto
<1>2. task'[p] = next /\ \A q \in Process \ {p} : task'[q] = None
  BY <1>1, OneHandle DEF IInv, TypeOK
<1>3. TypeOK'
  BY <1>1, <1>2, NoneIsNoValue DEF IInv, TypeOK
<1>4. lease = p /\ \A q \in synced : q = p
  BY OneHandle DEF IInv, HandlesAreSane
<1>5. QED
  BY <1>1, <1>2, <1>3, <1>4 DEF IInv, HandlesAreSane

LEMMA AppliedFacts ==
  ASSUME NEW o \in Operation, tree \in Tree, o.kind # "write" => tree.files[o.from] # Absent
  PROVE  /\ Applied(o) \in Tree
         /\ (o.kind = "write" /\ o.from \in Nested \ tree.dirs) \/ Applied(o).dirs = tree.dirs
         /\ Applied(o).head = tree.head
         /\ \A x \in Path \ Changed(o) : Applied(o).files[x] = tree.files[x]
         /\ [tree EXCEPT !.dirs = Parents(o)] \in Tree
         /\ [tree EXCEPT !.dirs = Parents(o), !.litter = TRUE] \in Tree
<1>1. Parents(o) \subseteq Nested
  BY DEF Parents, Tree
<1> DEFINE files == FilesAfter(tree.files, o)
<1>2. /\ o.from \in Path /\ tree.files \in Files
      /\ tree.files[o.from] \in File \cup {Absent}
  BY OperationTypes DEF Tree, Files
<1>3. files \in Files /\ \A x \in Path \ Changed(o) : files[x] = tree.files[x]
  <2>1. CASE o.kind = "write"
    BY <1>2, <2>1, OperationTypes DEF FilesAfter, Changed, Files, File
  <2>2. CASE o.kind = "chmod"
    <3>1. tree.files[o.from] \in File
      BY <1>2, <2>2
    <3>2. files = [tree.files EXCEPT ![o.from] = [tree.files[o.from] EXCEPT !.plain = ~tree.files[o.from].plain]]
      BY <2>2 DEF FilesAfter
    <3>3. [tree.files[o.from] EXCEPT !.plain = ~tree.files[o.from].plain] \in File
      BY Zenon, <3>1 DEF File
    <3>4. QED
      BY <1>2, <3>2, <3>3 DEF Changed, Files
  <2>3. CASE o.kind = "delete"
    BY <1>2, <2>3 DEF FilesAfter, Changed, Files
  <2>4. CASE o.kind = "rename"
    BY <1>2, <2>4, OperationTypes DEF FilesAfter, Changed, Files
  <2>5. QED
    BY <2>1, <2>2, <2>3, <2>4, OperationTypes
<1>4. Parents(o) = tree.dirs \/ (o.kind = "write" /\ o.from \in Nested \ tree.dirs)
  BY DEF Parents
<1>5. QED
  BY Zenon, <1>1, <1>3, <1>4 DEF Applied, Tree

\* Under a marker the effect may do what it is authorised to, or a part of it.
LEMMA EffectStep ==
  ASSUME IInv, NEW p \in Process, Effect(p) \/ EffectFails(p) \/ EffectTorn(p)
  PROVE  IInv'
<1> DEFINE o == task[p].op
<1>1. task[p] # None /\ task[p].at = "effect"
  BY DEF Effect, EffectFails, EffectTorn, At
<1>2. /\ memory[p].phase = "Active" /\ memory[p].pending /\ durable.pending /\ p \in synced
      /\ SaneState(p, memory[p]) /\ Describes(memory[p], {})
      /\ tree \in Tree /\ o \in Operation
      /\ o.kind # "write" => tree.files[o.from] # Absent
      /\ o.kind = "write" => o.structure = (o.from \in Nested \ tree.dirs)
      /\ Covers(memory[p])
  BY Zenon, <1>1, HandleFacts, WorkTypes DEF Marked, SaneTask
<1>3. /\ Applied(o) \in Tree
      /\ (o.kind = "write" /\ o.from \in Nested \ tree.dirs) \/ Applied(o).dirs = tree.dirs
      /\ \A x \in Path \ Changed(o) : Applied(o).files[x] = tree.files[x]
      /\ [tree EXCEPT !.dirs = Parents(o)] \in Tree
      /\ [tree EXCEPT !.dirs = Parents(o), !.litter = TRUE] \in Tree
  BY Zenon, <1>2, AppliedFacts
<1>4. CASE EffectTorn(p)
  <2>1. tree' = [tree EXCEPT !.dirs = Parents(o), !.litter = TRUE]
    BY <1>4 DEF EffectTorn
  <2>2. tree' \in Tree /\ tree'.files = tree.files /\ tree'.head = tree.head
    BY <1>2, <1>3, <2>1 DEF Tree
  <2>3. QED
    BY <1>1, <1>2, <1>4, <2>2, CloseKeeps DEF EffectTorn
<1>5. CASE Effect(p) \/ EffectFails(p)
  <2>1. UNCHANGED <<commit, durable, memory, synced, lease, setting>>
    BY <1>5 DEF Effect, EffectFails, Goto
  <2>2. tree' \in Tree
    BY <1>2, <1>3, <1>5 DEF Effect, EffectFails
  <2>3. JournaledOrRolledBack' /\ RollbackRestoresContents' /\ FileIsSane'
    BY <1>2, <2>1
    DEF JournaledOrRolledBack, RollbackRestoresContents, SaneState, IInv, FileIsSane, Exact
  <2>4. SaneState(p, memory[p])'
    BY <1>2, <2>1 DEF SaneState, KeepsDoubt, Exact
  <2>5. CASE Effect(p)
    <3> DEFINE next == [task[p] EXCEPT !.at = "journal"]
    <3>1. next \in Task /\ next.op = o /\ next.at = "journal"
      BY Zenon, <1>1, HandleFacts, WorkTypes DEF Marked
    <3>2. task'[p] = next /\ Goto(p, next)
      BY <2>5 DEF Effect, Goto, IInv, TypeOK
    <3>3. /\ Describes(memory[p], Changed(task[p].op))'
          /\ Covers(memory[p])' \/ (o.kind = "write" /\ o.structure)
      <4>1. tree' = Applied(o) /\ memory' = memory /\ setting' = setting /\ task'[p].op = o
        BY <2>1, <2>5, <3>1, <3>2 DEF Effect
      <4>2. ASSUME NEW x \in Path \ (memory[p].missed \cup Changed(o))
            PROVE  tree'.files[x] = memory[p].files[x] \/ Same(tree'.files[x], CheckedOut(x))
        <5>1. tree'.files[x] = tree.files[x]
          BY <1>3, <4>1
        <5>2. QED
          BY <1>2, <5>1 DEF Describes
      <4>3. Changed(task'[p].op) = Changed(o) /\ memory'[p] = memory[p]
        BY <4>1
      <4>4. Describes(memory[p], Changed(task[p].op))'
        BY <4>1, <4>2, <4>3 DEF Describes, Changed, CheckedOut
      <4>5. Covers(memory[p])' \/ (o.kind = "write" /\ o.structure)
        BY Zenon, <1>2, <1>3, <4>1, <4>3 DEF Covers
      <4>6. QED
        BY <4>4, <4>5
    <3>4. SaneTask(memory[p], task[p])'
      BY <1>2, <2>1, <3>1, <3>2, <3>3 DEF SaneTask, Marked
    <3>5. QED
      BY <1>1, <1>2, <2>1, <2>2, <2>3, <2>4, <3>1, <3>2, <3>4, MoveKeeps DEF IInv, TypeOK
  <2>6. CASE EffectFails(p)
    <3>1. task'[p] = Idle /\ Goto(p, Idle) /\ Idle \in Task
      BY <2>6 DEF EffectFails, Goto, IInv, TypeOK, Idle, Task, Step
    <3>2. SaneTask(memory[p], task[p])' /\ Idle.at \notin Marked
      BY <3>1 DEF SaneTask, Marked, Idle
    <3>3. QED
      BY <1>1, <2>1, <2>2, <2>3, <2>4, <3>1, <3>2, MoveKeeps DEF IInv, TypeOK
  <2>7. QED
    BY <1>5, <2>5, <2>6
<1>6. QED
  BY <1>4, <1>5

\* git reset and git clean give a path its contents at base_sha, or leave it.
LEMMA ResetFacts ==
  ASSUME tree \in Tree
  PROVE  /\ Reset(tree) \in Tree /\ Reset(tree).head = "base" /\ Reset(tree).dirs \subseteq tree.dirs
         /\ \A x \in Path : \/ Reset(tree).files[x] = tree.files[x]
                            \/ Same(Reset(tree).files[x], CheckedOut(x))
         /\ \A x \in Path : Base[x] # Absent => Same(Reset(tree).files[x], CheckedOut(x))
<1> DEFINE files == ResetFiles(tree.files, tree.head)
<1>1. files \in Files
  BY CheckedOutTypes DEF ResetFiles, Files, Tree
<1>2. \A x \in Path : files[x] = tree.files[x] \/ Same(files[x], CheckedOut(x))
  BY DEF ResetFiles, Same
<1>3. \A x \in Path : Base[x] # Absent => Same(files[x], CheckedOut(x))
  BY DEF ResetFiles, Same
<1>4. /\ Reset(tree) \in Tree /\ Reset(tree).head = "base" /\ Reset(tree).files = files
      /\ Reset(tree).dirs \subseteq tree.dirs
  BY Zenon, <1>1 DEF Reset, Tree, Head
<1>5. QED
  BY <1>2, <1>3, <1>4

LEMMA CleanFacts ==
  ASSUME tree \in Tree
  PROVE  /\ Clean(tree) \in Tree /\ Clean(tree).head = tree.head /\ Clean(tree).dirs \subseteq tree.dirs
         /\ \A x \in Path : \/ Clean(tree).files[x] = tree.files[x]
                            \/ Same(Clean(tree).files[x], CheckedOut(x))
         /\ \A x \in Path \ setting.ignored :
               Base[x] = Absent => Same(Clean(tree).files[x], CheckedOut(x))
         /\ \A x \in Path : Base[x] # Absent => Clean(tree).files[x] = tree.files[x]
<1> DEFINE files == CleanFiles(tree.files)
<1>1. files \in Files
  BY DEF CleanFiles, Files, Tree
<1>2. /\ \A x \in Path : files[x] = tree.files[x] \/ Same(files[x], CheckedOut(x))
      /\ \A x \in Path \ setting.ignored : Base[x] = Absent => Same(files[x], CheckedOut(x))
      /\ \A x \in Path : Base[x] # Absent => files[x] = tree.files[x]
  BY DEF CleanFiles, Same, CheckedOut
<1>3. /\ Clean(tree) \in Tree /\ Clean(tree).head = tree.head /\ Clean(tree).files = files
      /\ Clean(tree).dirs \subseteq tree.dirs
  BY Zenon, <1>1 DEF Clean, Tree
<1>4. QED
  BY <1>2, <1>3

\* A rolled back path suits every state, and is rolled back by nothing else.
LEMMA RestoreKeeps ==
  ASSUME IInv, NEW p \in Process, task[p] # None,
         memory[p].phase \in {"Active", "Interrupted"},
         UNCHANGED <<durable, memory, synced, setting>>,
         \A x \in Path : tree'.files[x] = tree.files[x] \/ Same(tree'.files[x], CheckedOut(x)),
         tree'.dirs \subseteq tree.dirs
  PROVE  /\ JournaledOrRolledBack' /\ RollbackRestoresContents' /\ FileIsSane'
         /\ SaneState(p, memory[p])'
<1>1. SaneState(p, memory[p])
  BY HandleFacts
<1>2. JournaledOrRolledBack' /\ FileIsSane'
  BY DEF IInv, JournaledOrRolledBack, FileIsSane, Exact, Covers
<1>3. RollbackRestoresContents'
  BY <1>1 DEF SaneState, RollbackRestoresContents
<1>4. SaneState(p, memory[p])'
  BY <1>1 DEF SaneState, KeepsDoubt, Describes, Exact, Covers
<1>5. QED
  BY <1>2, <1>3, <1>4

LEMMA AbortStep ==
  ASSUME IInv, NEW p \in Process, abort(p) \/ AbortClean(p)
  PROVE  IInv'
<1>1. task[p] # None /\ tree \in Tree /\ commit \in Files \cup {None}
  BY HandleTypes DEF abort, AbortClean, Ready, At, IInv, TypeOK
<1>2. memory[p].phase \in {"Active", "Interrupted"}
  BY <1>1, HandleFacts DEF abort, AbortClean, Ready, At, SaneTask
<1>3. UNCHANGED <<commit, durable, memory, synced, lease, setting>>
  BY DEF abort, AbortClean, Goto
<1>4. CASE abort(p)
  <2> DEFINE next == [at |-> "clean"]
  <2>1. tree' = Reset(tree) /\ Goto(p, next) /\ next \in Task /\ task'[p] = next
    BY <1>4 DEF abort, Goto, Task, Step, IInv, TypeOK
  <2>2. tree' \in Tree /\ HalfRestored' /\ tree'.dirs \subseteq tree.dirs
        /\ \A x \in Path : tree'.files[x] = tree.files[x] \/ Same(tree'.files[x], CheckedOut(x))
    BY <1>1, <2>1, ResetFacts DEF HalfRestored
  <2>3. /\ JournaledOrRolledBack' /\ RollbackRestoresContents' /\ FileIsSane'
        /\ SaneState(p, memory[p])'
    BY <1>1, <1>2, <1>3, <2>2, RestoreKeeps
  <2>4. SaneTask(memory[p], task[p])' /\ next.at \notin Marked
    BY <1>2, <1>3, <2>1, <2>2 DEF SaneTask, Marked
  <2>5. QED
    BY <1>1, <1>3, <2>1, <2>2, <2>3, <2>4, MoveKeeps
<1>5. CASE AbortClean(p) /\ tree' = Clean(tree) /\ Goto(p, [at |-> "rollback"])
  <2> DEFINE next == [at |-> "rollback"]
  <2>1. Goto(p, next) /\ next \in Task /\ task'[p] = next /\ task[p].at = "clean"
    BY <1>5 DEF AbortClean, At, Goto, Task, Step, IInv, TypeOK
  <2>2. HalfRestored
    BY <1>1, <2>1, HandleFacts DEF SaneTask
  <2>3. tree' \in Tree /\ Restored' /\ tree'.dirs \subseteq tree.dirs
        /\ \A x \in Path : tree'.files[x] = tree.files[x] \/ Same(tree'.files[x], CheckedOut(x))
    BY <1>1, <1>3, <1>5, <2>2, CleanFacts DEF HalfRestored, Restored
  <2>4. /\ JournaledOrRolledBack' /\ RollbackRestoresContents' /\ FileIsSane'
        /\ SaneState(p, memory[p])'
    BY <1>1, <1>2, <1>3, <2>3, RestoreKeeps
  <2>5. SaneTask(memory[p], task[p])' /\ next.at \notin Marked
    BY <1>2, <1>3, <2>1, <2>3 DEF SaneTask, Marked
  <2>6. QED
    BY <1>1, <1>3, <2>1, <2>3, <2>4, <2>5, MoveKeeps
<1>6. CASE AbortClean(p) /\ UNCHANGED tree /\ Goto(p, Idle)
  BY <1>1, <1>3, <1>6, ReturnKeeps
<1>7. QED
  BY <1>4, <1>5, <1>6 DEF AbortClean

LEMMA DeliverStep ==
  ASSUME IInv, NEW p \in Process, Deliver(p)
  PROVE  IInv'
<1>1. task[p] # None /\ task[p].at = "idle" /\ memory[p].phase = "Active"
  BY DEF Deliver, Ready, At
<1>2. tree \in Tree /\ task[p] \in Task /\ SaneState(p, memory[p])
  BY <1>1, HandleFacts
<1>3. UNCHANGED <<durable, memory, synced, lease, task, setting>> /\ commit' = tree.files
  BY DEF Deliver
<1>4. tree' \in Tree /\ tree'.files = tree.files /\ tree'.dirs = tree.dirs /\ commit' \in Files
  BY <1>2, <1>3 DEF Deliver, Tree, Head
<1>5. /\ JournaledOrRolledBack' /\ RollbackRestoresContents' /\ FileIsSane'
      /\ SaneState(p, memory[p])'
  BY <1>1, <1>3, <1>4, RestoreKeeps
<1>6. SaneTask(memory[p], task[p])' /\ Goto(p, task[p]) /\ task[p].at \notin Marked
  BY <1>1, <1>3 DEF SaneTask, Marked, Goto, IInv, TypeOK
<1>7. QED
  BY <1>1, <1>2, <1>3, <1>4, <1>5, <1>6, MoveKeeps

-----------------------------------------------------------------------------
(* Handles come and go                                                     *)

LEMMA NobodyFacts ==
  ASSUME IInv, tree = None \/ lease = None
  PROVE  synced = {} /\ \A p \in Process : task[p] = None /\ memory[p] = None
  BY NoneIsNoValue DEF IInv, TypeOK, HandlesAreSane

\* The first handle of p, on a state that was saved and describes the worktree.
LEMMA OpenKeeps ==
  ASSUME IInv, tree = None \/ lease = None, NEW p \in Process,
         NEW state \in State, durable' = state, Keep(p, state), Goto(p, Idle),
         synced' = {p}, lease' = p, UNCHANGED commit, tree' \in Tree,
         JournaledOrRolledBack', RollbackRestoresContents', FileIsSane'
  PROVE  IInv'
<1>1. /\ memory' = [memory EXCEPT ![p] = state] /\ task' = [task EXCEPT ![p] = Idle]
      /\ Idle \in Task /\ Idle # None /\ state # None
  BY NoneIsNoValue DEF Keep, Goto, Idle, Task, Step
<1>2. /\ memory'[p] = state /\ task'[p] = Idle
      /\ \A q \in Process \ {p} : task'[q] = None /\ memory'[q] = None
  BY <1>1, NobodyFacts DEF IInv, TypeOK
<1>3. TypeOK'
  BY <1>1, <1>2, NoneIsNoValue DEF IInv, TypeOK
<1>4. SaneState(p, memory[p])'
  BY Zenon, <1>1, <1>2
  DEF SaneState, KeepsDoubt, Describes, Exact, Covers, JournaledOrRolledBack, RollbackRestoresContents, FileIsSane,
      Restored
<1>5. SaneTask(memory[p], task[p])' /\ task'[p].at \notin Marked
  BY <1>2 DEF SaneTask, Idle, Marked
<1>6. QED
  BY <1>1, <1>2, <1>3, <1>4, <1>5 DEF IInv, HandlesAreSane

\* A step that leaves no handle.
LEMMA NobodyKeeps ==
  ASSUME IInv, tree = None \/ lease = None, UNCHANGED <<commit, memory, synced, lease, task>>,
         tree' \in Tree, durable' \in State \cup {None},
         JournaledOrRolledBack', RollbackRestoresContents', FileIsSane'
  PROVE  IInv'
<1>1. TypeOK'
  BY NobodyFacts, NoneIsNoValue DEF IInv, TypeOK
<1>2. QED
  BY <1>1, NobodyFacts DEF IInv, HandlesAreSane

LEMMA CreateStep ==
  ASSUME IInv, CreateFails \/ \E p \in Process : create_for_task(p)
  PROVE  IInv'
<1>1. tree = None /\ tree' = BaseTree /\ BaseTree \in Tree /\ Created \in State
  BY CheckedOutTypes DEF CreateFails, create_for_task
<1>2. durable' \in {None, Created}
  BY DEF CreateFails, create_for_task
<1>3. JournaledOrRolledBack' /\ RollbackRestoresContents' /\ FileIsSane'
  BY <1>1, <1>2
  DEF JournaledOrRolledBack, RollbackRestoresContents, FileIsSane, Exact, Covers, Created, BaseTree
<1>4. CASE CreateFails
  BY <1>1, <1>2, <1>3, <1>4, NobodyKeeps DEF CreateFails
<1>5. CASE \E p \in Process : create_for_task(p)
  BY <1>1, <1>3, <1>5, OpenKeeps DEF create_for_task
<1>6. QED
  BY <1>4, <1>5

LEMMA RecoverStep ==
  ASSUME IInv, NEW p \in Process, recover(p)
  PROVE  IInv'
<1>1. lease = None /\ durable \in State /\ tree \in Tree /\ UNCHANGED <<durable, commit>>
  BY DEF recover, IInv, TypeOK
<1>2. CASE UNCHANGED tree /\ Keep(p, durable) /\ Goto(p, Idle) /\ synced' = {p} /\ lease' = p
  <2>1. JournaledOrRolledBack' /\ RollbackRestoresContents' /\ FileIsSane'
    BY <1>1, <1>2
    DEF IInv, JournaledOrRolledBack, RollbackRestoresContents, FileIsSane, Exact, Covers, Goto
  <2>2. QED
    BY <1>1, <1>2, <2>1, OpenKeeps
<1>3. CASE /\ tree' = [tree EXCEPT !.litter = TRUE]
           /\ UNCHANGED <<memory, task, synced, lease, setting>>
  <2>1. /\ tree' \in Tree /\ tree'.files = tree.files /\ tree'.head = tree.head
        /\ tree'.dirs = tree.dirs
    BY Zenon, <1>1, <1>3 DEF Tree
  <2>2. JournaledOrRolledBack' /\ RollbackRestoresContents' /\ FileIsSane'
    BY <1>1, <1>3, <2>1
    DEF IInv, JournaledOrRolledBack, RollbackRestoresContents, FileIsSane, Exact, Covers
  <2>3. QED
    BY <1>1, <1>3, <2>1, <2>2, NobodyKeeps
<1>4. QED
  BY <1>2, <1>3 DEF recover

LEMMA CrashStep ==
  ASSUME IInv, NEW p \in Process, Crash(p)
  PROVE  IInv'
<1>1. task[p] # None /\ Close(p) /\ UNCHANGED <<tree, commit, durable>>
  BY DEF Crash
<1>2. QED
  BY <1>1, HandleFacts, CloseKeeps

LEMMA StutterStep == IInv /\ UNCHANGED vars => IInv'
<1> SUFFICES ASSUME IInv, UNCHANGED vars PROVE IInv'
  OBVIOUS
<1>1. TypeOK' /\ JournaledOrRolledBack' /\ RollbackRestoresContents' /\ FileIsSane'
      /\ \A p \in synced' : task'[p] # None
  BY DEF vars, IInv, TypeOK, JournaledOrRolledBack, RollbackRestoresContents, FileIsSane, Exact, Covers
<1>2. HandlesAreSane'
  <2> SUFFICES ASSUME NEW p \in Process, task'[p] # None
               PROVE  /\ lease' = p /\ SaneState(p, memory[p])' /\ SaneTask(memory[p], task[p])'
                      /\ task'[p].at \in Marked => p \in synced' /\ durable'.pending
    BY DEF HandlesAreSane
  <2>1. /\ task' = task /\ memory' = memory /\ tree' = tree /\ durable' = durable
        /\ synced' = synced /\ lease' = lease /\ setting' = setting
    BY DEF vars
  <2>2. /\ lease = p /\ SaneState(p, memory[p]) /\ SaneTask(memory[p], task[p])
        /\ task[p].at \in Marked => p \in synced /\ durable.pending
    BY <2>1 DEF IInv, HandlesAreSane
  <2>3. SaneState(p, memory[p])'
    BY Zenon, <2>1, <2>2 DEF SaneState, Restored, Describes, Exact, Covers, KeepsDoubt
  <2>4. SaneTask(memory[p], task[p])'
    BY Zenon, <2>1, <2>2 DEF SaneTask, Restored, HalfRestored, Describes, Covers
  <2>5. QED
    BY <2>1, <2>2, <2>3, <2>4
<1>3. QED
  BY <1>1, <1>2 DEF IInv

LEMMA StepInvariant == IInv /\ [Next]_vars => IInv'
<1> SUFFICES ASSUME IInv, Next PROVE IInv'
  BY StutterStep
<1>1. CASE CreateFails
  BY <1>1, CreateStep
<1>2. ASSUME NEW p \in Process,
             \/ create_for_task(p) \/ recover(p) \/ Crash(p)
             \/ mark_interrupted(p) \/ resume(p) \/ Record(p) \/ record_artifact(p)
             \/ CommitCheckpoint(p) \/ commit_local(p)
             \/ \E o \in Operation : Start(p, o)
             \/ begin_effect(p) \/ Effect(p) \/ EffectFails(p) \/ EffectTorn(p)
             \/ JournalEffect(p) \/ finish_effect(p) \/ FinishFails(p)
             \/ abort(p) \/ AbortClean(p) \/ AbortRecord(p) \/ AbortFails(p)
             \/ Deliver(p) \/ read_at_commit(p) \/ authorize_verified_candidate_commit(p)
      PROVE  IInv'
  BY <1>2, CreateStep, RecoverStep, CrashStep, PhaseStep, RecordStep, BeginStep, EffectStep,
     FinishStep, AbortStep, RollbackStep, DeliverStep, AuthorizeStep
<1>3. QED
  BY <1>1, <1>2 DEF Next

LEMMA InitInvariant == Init => IInv
  BY DEF Init, IInv, TypeOK, FileIsSane, JournaledOrRolledBack, RollbackRestoresContents, HandlesAreSane

-----------------------------------------------------------------------------
(* Theorems                                                                *)

\* The invariant holds throughout, type correctness included.
THEOREM Invariance == Spec => []IInv
<1>1. IInv /\ [Next]_vars => IInv'
  BY StepInvariant
<1>2. QED
  BY InitInvariant, <1>1, PTL DEF Spec

\* write, delete, rename, chmod and abort: after any crash or failed save, an
\* unmarked worktree is path by path the journaled one or rolled back.
THEOREM NoThirdVersion == Spec => []JournaledOrRolledBack
<1>1. IInv => JournaledOrRolledBack
  BY DEF IInv
<1>2. QED
  BY <1>1, Invariance, PTL

\* abort: a transaction recorded as rolled back has its base contents.
THEOREM RollbackIsDone == Spec => []RollbackRestoresContents
<1>1. IInv => RollbackRestoresContents
  BY DEF IInv
<1>2. QED
  BY <1>1, Invariance, PTL

\* lock_lease and persist_state: nobody else works on a transaction between the
\* pending marker and its removal.
THEOREM EffectIsAlone == Spec => []EffectsAreOwned
<1>1. IInv => EffectsAreOwned
  <2> SUFFICES ASSUME IInv, NEW p \in Process,
                      At(p, "effect") \/ At(p, "journal") \/ At(p, "settle")
               PROVE  synced = {p} /\ durable.pending
    BY DEF EffectsAreOwned
  <2>1. task[p] # None /\ task[p].at \in Marked
    BY DEF At, Marked
  <2>2. p \in synced /\ durable.pending
    BY <2>1, HandleFacts
  <2>3. QED
    BY <2>1, <2>2, OneHandle
<1>2. QED
  BY <1>1, Invariance, PTL

\* recover: an undelivered transaction is refused only for a trace that a
\* cut-off save, write or abort left in its worktree.
THEOREM RefusalHasATrace == Spec => []RefusesOnlyTraces
<1>1. IInv => RefusesOnlyTraces
  <2> SUFFICES ASSUME IInv, durable # None, tree.head = "base", durable.head = "base",
                      "fingerprint" \notin setting.faults, ~Recoverable,
                      tree.litter = durable.litter, durable.dirs \subseteq tree.dirs,
                      \A x \in Path : tree.files[x] # durable.files[x] =>
                         ~Same(tree.files[x], CheckedOut(x))
               PROVE  FALSE
    BY DEF RefusesOnlyTraces
  <2>1. durable \in State /\ tree \in Tree
    BY DEF IInv, TypeOK
  <2>2. ~durable.pending /\ ~workspace_matches_state(durable)
    BY DEF Recoverable
  <2>3. durable.missed = {} /\ tree.dirs = durable.dirs
    BY Zenon, <2>2 DEF IInv, FileIsSane, Exact, Covers
  <2>4. \A x \in Path : tree.files[x] = durable.files[x]
    BY <2>2, <2>3 DEF IInv, JournaledOrRolledBack
  <2>5. tree.files = durable.files
    BY <2>1, <2>4 DEF State, Tree, Files
  <2>6. Fingerprinted(durable) = durable
    BY Zenon, <2>1, <2>3, <2>5 DEF Fingerprinted, State
  <2>7. QED
    BY <2>2, <2>6 DEF workspace_matches_state
<1>2. QED
  BY <1>1, Invariance, PTL

\* The durable phase becomes Active by saving an active state, or by resume.
LEMMA SavedActive ==
  ASSUME IInv, Next, durable # None, durable' # durable, durable'.phase = "Active"
  PROVE  \E p \in synced : \/ memory[p].phase = "Active"
                           \/ memory[p].phase = "Interrupted" /\ ~memory[p].pending
<1>1. tree # None
  BY DEF IInv, TypeOK
<1>2. ~CreateFails
  BY <1>1 DEF CreateFails
<1>3. PICK p \in Process :
         \/ mark_interrupted(p) \/ resume(p) \/ Record(p) \/ record_artifact(p)
         \/ CommitCheckpoint(p) \/ commit_local(p)
         \/ \E o \in Operation : Start(p, o)
         \/ begin_effect(p) \/ JournalEffect(p) \/ finish_effect(p) \/ AbortRecord(p)
         \/ read_at_commit(p) \/ authorize_verified_candidate_commit(p)
  BY Zenon, <1>1, <1>2
  DEF Next, create_for_task, recover, Crash, Effect, EffectFails, EffectTorn, FinishFails, abort,
      AbortClean, AbortFails, Deliver
<1>4. task[p] # None
  BY Zenon, <1>3
  DEF mark_interrupted, resume, Record, record_artifact, CommitCheckpoint, commit_local, Start,
      begin_effect, JournalEffect, finish_effect, AbortRecord, read_at_commit,
      authorize_verified_candidate_commit, Ready, At
<1>5. memory[p] \in State /\ tree \in Tree
  BY <1>4, HandleFacts
<1>6. ASSUME NEW state, NEW next, Persist(p, state, next)
      PROVE  p \in synced /\ state.phase = "Active"
  BY <1>6 DEF Persist, Saved, SaveFails, SaveTorn
<1>7. CASE \/ Record(p) \/ record_artifact(p) \/ CommitCheckpoint(p) \/ JournalEffect(p)
           \/ read_at_commit(p) \/ \E o \in Operation : Start(p, o)
  <2>1. PICK next : Persist(p, memory[p], next)
    BY Zenon, <1>7 DEF Record, record_artifact, CommitCheckpoint, JournalEffect, read_at_commit, Start
  <2>2. QED
    BY <1>6, <2>1
<1>8. CASE mark_interrupted(p) \/ resume(p) \/ commit_local(p)
  <2>1. PICK f \in Phase : Persist(p, [memory[p] EXCEPT !.phase = f], Idle)
    BY <1>8 DEF mark_interrupted, resume, commit_local, Phase
  <2>2. p \in synced
    BY <1>6, <2>1
  <2>3. \/ memory[p].phase = "Active"
        \/ memory[p].phase = "Interrupted" /\ ~memory[p].pending
    BY <1>4, <1>8, HandleFacts DEF mark_interrupted, resume, commit_local, Ready, At, SaneTask
  <2>4. QED
    BY <2>2, <2>3
<1>9. CASE begin_effect(p)
  <2>1. Persist(p, [memory[p] EXCEPT !.pending = TRUE], [task[p] EXCEPT !.at = "effect"])
    BY <1>9 DEF begin_effect
  <2>2. [memory[p] EXCEPT !.pending = TRUE].phase = memory[p].phase
    BY <1>5 DEF State
  <2>3. QED
    BY Zenon, <1>6, <2>1, <2>2
<1>10. CASE finish_effect(p)
  <2>1. Settled(memory[p], task[p].op).phase = memory[p].phase
    BY <1>5 DEF Settled, State
  <2>2. QED
    BY <1>6, <1>10, <2>1 DEF finish_effect
<1>11. CASE AbortRecord(p)
  <2>1. RolledBack(memory[p]) \in State /\ RolledBack(memory[p]).phase = "Aborted"
    BY Zenon, <1>5 DEF RolledBack, State, Phase
  <2>2. Fingerprinted(RolledBack(memory[p])).phase = "Aborted"
    BY <1>5, <2>1, FingerprintTypes
  <2>3. QED
    BY <1>6, <1>11, <2>2 DEF AbortRecord
<1>12. CASE authorize_verified_candidate_commit(p)
  <2> DEFINE m == [Fingerprinted(memory[p]) EXCEPT !.candidate = TRUE, !.missed = {}]
  <2>1. Persist(p, m, Idle)
    BY <1>12 DEF authorize_verified_candidate_commit
  <2>2. m.phase = memory[p].phase
    BY <1>5, FingerprintTypes DEF State
  <2>3. QED
    BY Zenon, <1>6, <2>1, <2>2
<1>13. QED
  BY <1>3, <1>7, <1>8, <1>9, <1>10, <1>11, <1>12

\* resume: a transaction interrupted with an effect in doubt is never active
\* again, whichever saves fail and whoever takes it over.
THEOREM DoubtIsKept == Spec => ResumesOnlySettled
<1> DEFINE Safe == durable # None /\ durable.phase = "Interrupted" /\ durable'.phase = "Active" =>
                      ~durable.pending
<1>1. IInv /\ [Next]_vars => Safe
  <2> SUFFICES ASSUME IInv, [Next]_vars, durable # None, durable.phase = "Interrupted",
                      durable'.phase = "Active", durable.pending
               PROVE  FALSE
    OBVIOUS
  <2>1. Next /\ durable' # durable
    BY DEF vars
  <2>2. PICK p \in synced : \/ memory[p].phase = "Active"
                            \/ memory[p].phase = "Interrupted" /\ ~memory[p].pending
    BY <2>1, SavedActive
  <2>3. p \in Process /\ task[p] # None
    BY DEF IInv, TypeOK
  <2>4. KeepsDoubt(durable, memory[p])
    BY <2>3, HandleFacts DEF SaneState
  <2>5. QED
    BY <2>2, <2>4 DEF KeepsDoubt
<1>2. IInv /\ [Next]_vars => [Safe]_vars
  BY <1>1
<1>3. QED
  BY <1>2, Invariance, PTL DEF Spec, ResumesOnlySettled

\* begin_effect: no file of the worktree changes without a durable marker, except
\* by git reset and git clean in abort.
THEOREM MutationHasMarker == Spec => MutationIsMarked
<1> DEFINE Safe == tree # None /\ tree'.files # tree.files =>
                      durable.pending \/ tree' \in {Reset(tree), Clean(tree)}
<1>1. IInv /\ [Next]_vars => Safe
  <2> SUFFICES ASSUME IInv, [Next]_vars, tree # None, tree'.files # tree.files,
                      tree' \notin {Reset(tree), Clean(tree)}
               PROVE  durable.pending
    OBVIOUS
  <2>1. tree \in Tree /\ Next
    BY DEF IInv, TypeOK, vars
  <2>2. [tree EXCEPT !.litter = TRUE].files = tree.files
    BY <2>1 DEF Tree
  <2>3. \A p \in Process : \A state, next : ~Persist(p, state, next)
    BY Zenon, <2>2 DEF Persist, Saved, SaveFails, SaveTorn
  <2>4. \A p \in Process : ~Deliver(p) /\ ~EffectTorn(p)
    BY Zenon, <2>1 DEF Deliver, EffectTorn, Tree
  <2>5. PICK p \in Process : Effect(p) \/ EffectFails(p)
    BY Zenon, <2>1, <2>2, <2>3, <2>4
    DEF Next, CreateFails, create_for_task, recover, Crash, mark_interrupted, resume, Record,
        record_artifact, CommitCheckpoint, commit_local, Start, begin_effect, JournalEffect,
        finish_effect, FinishFails, abort, AbortClean, AbortRecord, AbortFails, read_at_commit,
        authorize_verified_candidate_commit
  <2>6. task[p] # None /\ task[p].at \in Marked
    BY <2>5 DEF Effect, EffectFails, At, Marked
  <2>7. QED
    BY <2>6, HandleFacts
<1>2. IInv /\ [Next]_vars => [Safe]_vars
  BY <1>1
<1>3. QED
  BY <1>2, Invariance, PTL DEF Spec, MutationIsMarked

=============================================================================
