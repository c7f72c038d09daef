----------------------- MODULE TransactionalWorkspace -----------------------
(***************************************************************************)
(* transactional_workspace.rs: the worktree of a transaction, its durable  *)
(* state file, and the handles through which processes work on it.         *)
(*                                                                         *)
(* A handler is cut at every durable save and every change of the          *)
(* worktree; a process may crash at each cut.  A save may fail before or   *)
(* after its rename takes effect, or be torn by a crash that leaves its    *)
(* temporary file in the worktree.  Handlers change the handle's state in  *)
(* memory before they save it, and keep the change when the save fails.    *)
(*                                                                         *)
(* The journal's events are left out: they are data for the audit.  What   *)
(* recovery decides on is kept: phase, pending marker, fingerprints and    *)
(* the authorised candidate.  A fingerprint is what it digests.  Owner     *)
(* epoch and generation are kept as the set of handles whose pair equals   *)
(* the durable one.                                                        *)
(***************************************************************************)
CONSTANTS
    Process,    \* processes, each with at most one handle
    Path,       \* the paths the policy allows to read and write
    Byte,       \* contents of a file
    Base,       \* contents of the paths at base_sha, Absent for none
    Nested,     \* paths whose parent directory is not at base_sha
    Absent,     \* no file
    None,       \* no process, no state, no commit
    Settings    \* what may be found together: the faults that occur, what is
                \* written, and the paths that .gitignore names

Fault == {"save", "torn", "effect", "fingerprint", "git"}

ASSUME BaseIsATree ==
    /\ Absent \notin Byte
    /\ Base \in [Path -> Byte \cup {Absent}]
    /\ Nested \subseteq {x \in Path : Base[x] = Absent}

ASSUME SettingsAreKnown ==
    Settings \subseteq [faults : SUBSET Fault, written : SUBSET Byte,
                        ignored : SUBSET {x \in Path : Base[x] = Absent}]

VARIABLES
    tree,       \* the worktree, None before it exists
    commit,     \* the files of the commit delivered on top of base_sha
    durable,    \* the state file
    memory,     \* the state in each handle, None without one
    synced,     \* handles whose owner epoch and generation are the durable ones
    lease,      \* holder of the lock on the lease file
    task,       \* what a handle is about to do
    setting     \* the one of this behaviour

vars == <<tree, commit, durable, memory, synced, lease, task, setting>>

\* A file is its bytes and whether its mode is the one git checks out.
File == [bytes : Byte, plain : BOOLEAN]

Files == [Path -> File \cup {Absent}]

Head == {"base", "delivered"}

\* dirs: the nested paths whose parent exists; litter: a leftover temporary file.
Tree == [files : Files, head : Head, dirs : SUBSET Nested, litter : BOOLEAN]

Phase == {"Active", "Interrupted", "Committed", "Aborted"}

\* files and head are the scoped fingerprint, dirs and litter the unscoped
\* one; candidate says that the delivered commit is authorised.  missed is
\* auxiliary: the changed paths whose new fingerprint could not be taken.
State == [phase : Phase, pending : BOOLEAN, files : Files, head : Head,
          dirs : SUBSET Nested, litter : BOOLEAN, candidate : BOOLEAN, missed : SUBSET Path]

\* structure is the answer of write_creates_structure.
Operation == [kind : {"write"}, from : Path, bytes : Byte, structure : BOOLEAN]
             \cup [kind : {"chmod", "delete"}, from : Path]
             \cup [kind : {"rename"}, from : Path, to : Path]

Step == {"idle", "clean", "rollback", "commit", "authorize"}

Task == [at : Step] \cup [at : {"begin", "effect", "journal", "settle"}, op : Operation]

ASSUME NoneIsNoValue ==
    /\ Absent \notin File
    /\ None \notin Process \cup Tree \cup Files \cup State \cup Task

TypeOK ==
    /\ tree \in Tree \cup {None}
    /\ commit \in Files \cup {None}
    /\ durable \in State \cup {None}
    /\ memory \in [Process -> State \cup {None}]
    /\ synced \subseteq Process
    /\ lease \in Process \cup {None}
    /\ task \in [Process -> Task \cup {None}]
    /\ tree = None => durable = None
    /\ \A p \in Process :
          /\ memory[p] # None <=> task[p] # None
          /\ memory[p] # None => durable # None

At(p, step) == task[p] # None /\ task[p].at = step

CheckedOut(x) == IF Base[x] = Absent THEN Absent ELSE [bytes |-> Base[x], plain |-> TRUE]

BaseTree == [files |-> [x \in Path |-> CheckedOut(x)], head |-> "base", dirs |-> {},
             litter |-> FALSE]

Init ==
    /\ tree = None
    /\ commit = None
    /\ durable = None
    /\ memory = [p \in Process |-> None]
    /\ synced = {}
    /\ lease = None
    /\ task = [p \in Process |-> None]
    /\ setting \in Settings

-----------------------------------------------------------------------------
(* Saving                                                                  *)

Idle == [at |-> "idle"]

\* Every step of a handle; the setting stays what Init chose.
Goto(p, next) == task' = [task EXCEPT ![p] = next] /\ UNCHANGED setting

Keep(p, state) == memory' = [memory EXCEPT ![p] = state]

\* The handle is gone; closing its descriptor releases the lease.
Close(p) ==
    /\ Keep(p, None)
    /\ Goto(p, None)
    /\ synced' = synced \ {p}
    /\ lease' = IF lease = p THEN None ELSE lease

\* persist_state compares owner and generation with the durable ones, and
\* replaces the file.
Saved(p, state, next) ==
    /\ p \in synced
    /\ durable' = state
    /\ synced' = {p}
    /\ Keep(p, state)
    /\ Goto(p, next)
    /\ UNCHANGED <<tree, lease>>

\* The comparison or the write fails, or the directory is not synced after
\* the rename: the durable generation is then ahead of the handle's.
SaveFails(p, state) ==
    /\ p \notin synced \/ "save" \in setting.faults
    /\ \/ UNCHANGED <<durable, synced>>
       \/ p \in synced /\ durable' = state /\ synced' = {}
    /\ Keep(p, state)
    /\ Goto(p, Idle)
    /\ UNCHANGED <<tree, lease>>

\* A crash before the rename leaves the temporary file beside the state file.
SaveTorn(p) ==
    /\ p \in synced /\ "torn" \in setting.faults
    /\ tree' = [tree EXCEPT !.litter = TRUE]
    /\ Close(p)
    /\ UNCHANGED durable

Persist(p, state, next) ==
    /\ Saved(p, state, next) \/ SaveFails(p, state) \/ SaveTorn(p)
    /\ UNCHANGED commit

-----------------------------------------------------------------------------
(* Handles                                                                 *)

Fingerprinted(state) ==
    [state EXCEPT !.files = tree.files, !.head = tree.head, !.dirs = tree.dirs,
                  !.litter = tree.litter]

workspace_matches_state(state) == Fingerprinted(state) = state

Created == [phase |-> "Active", pending |-> FALSE, files |-> BaseTree.files, head |-> "base",
            dirs |-> {}, litter |-> FALSE, candidate |-> FALSE, missed |-> {}]

create_for_task(p) ==
    /\ tree = None
    /\ tree' = BaseTree
    /\ durable' = Created
    /\ Keep(p, Created)
    /\ Goto(p, Idle)
    /\ synced' = {p}
    /\ lease' = p
    /\ UNCHANGED commit

\* The worktree exists but the first save fails, and no handle is returned.
CreateFails ==
    /\ "save" \in setting.faults
    /\ tree = None
    /\ tree' = BaseTree
    /\ durable' \in {None, Created}
    /\ UNCHANGED <<commit, memory, synced, lease, task, setting>>

Recoverable ==
    /\ tree.head = "base" \/ durable.phase = "Committed" \/ durable.candidate
    /\ durable.pending \/ workspace_matches_state(durable)

\* Recovery claims the state for an owner epoch of its own, and saves it.
recover(p) ==
    /\ task[p] = None
    /\ lease = None
    /\ durable # None
    /\ Recoverable
    /\ \/ /\ Keep(p, durable)
          /\ Goto(p, Idle)
          /\ synced' = {p}
          /\ lease' = p
          /\ UNCHANGED tree
       \/ /\ "torn" \in setting.faults
          /\ tree' = [tree EXCEPT !.litter = TRUE]
          /\ UNCHANGED <<memory, task, synced, lease, setting>>
    /\ UNCHANGED <<durable, commit>>

\* The process ends or drops its handle, wherever it is.
Crash(p) ==
    /\ task[p] # None
    /\ Close(p)
    /\ UNCHANGED <<tree, commit, durable>>

-----------------------------------------------------------------------------
(* Lifecycle and journal-only operations                                   *)

Ready(p, phases) == At(p, "idle") /\ memory[p].phase \in phases

mark_interrupted(p) ==
    /\ Ready(p, {"Active"})
    /\ Persist(p, [memory[p] EXCEPT !.phase = "Interrupted"], Idle)

\* Mutant: neither the marker nor the worktree is looked at.
resume_Unchecked(p) ==
    /\ Ready(p, {"Interrupted"})
    /\ Persist(p, [memory[p] EXCEPT !.phase = "Active"], Idle)

resume(p) ==
    /\ Ready(p, {"Interrupted"})
    /\ ~memory[p].pending
    /\ workspace_matches_state(memory[p])
    /\ Persist(p, [memory[p] EXCEPT !.phase = "Active"], Idle)

\* read and authorize_external add an event and save.
Record(p) == Ready(p, {"Active"}) /\ Persist(p, memory[p], Idle)

\* record_artifact does so in every phase.
record_artifact(p) == Ready(p, Phase) /\ Persist(p, memory[p], Idle)

\* commit_local saves a checkpoint, then the new phase.
CommitCheckpoint(p) == Ready(p, {"Active"}) /\ Persist(p, memory[p], [at |-> "commit"])

commit_local(p) ==
    /\ At(p, "commit")
    /\ Persist(p, [memory[p] EXCEPT !.phase = "Committed"], Idle)

-----------------------------------------------------------------------------
(* Filesystem operations                                                   *)

Authorized(o) ==
    /\ o.kind # "write" => tree.files[o.from] # Absent
    /\ o.kind = "write" => o.structure = (o.from \in Nested \ tree.dirs)

\* The authorisation and record("checkpoint").
Start(p, o) ==
    /\ Ready(p, {"Active"})
    /\ o.kind = "write" => o.bytes \in setting.written
    /\ Authorized(o)
    /\ Persist(p, memory[p], [at |-> "begin", op |-> o])

\* Mutant: the marker is set in memory only.
begin_effect_Unsaved(p) ==
    /\ At(p, "begin")
    /\ ~memory[p].pending
    /\ Keep(p, [memory[p] EXCEPT !.pending = TRUE])
    /\ Goto(p, [task[p] EXCEPT !.at = "effect"])
    /\ UNCHANGED <<tree, commit, durable, synced, lease>>

begin_effect(p) ==
    /\ At(p, "begin")
    /\ \/ /\ memory[p].pending
          /\ Goto(p, Idle)
          /\ UNCHANGED <<tree, commit, durable, memory, synced, lease>>
       \/ /\ ~memory[p].pending
          /\ Persist(p, [memory[p] EXCEPT !.pending = TRUE], [task[p] EXCEPT !.at = "effect"])

\* secure_write creates missing parents, and the file with mode 0600.
Parents(o) == IF o.kind = "write" THEN tree.dirs \cup ({o.from} \cap Nested) ELSE tree.dirs

FilesAfter(files, o) ==
    CASE o.kind = "write" -> [files EXCEPT ![o.from] = [bytes |-> o.bytes, plain |-> FALSE]]
      [] o.kind = "chmod" -> [files EXCEPT ![o.from].plain = ~files[o.from].plain]
      [] o.kind = "delete" -> [files EXCEPT ![o.from] = Absent]
      [] o.kind = "rename" -> [files EXCEPT ![o.from] = Absent, ![o.to] = files[o.from]]

Applied(o) == [tree EXCEPT !.dirs = Parents(o), !.files = FilesAfter(tree.files, o)]

\* secure_rename does not create the parent of its target.
Possible(o) == o.kind = "rename" => o.to \notin Nested \ tree.dirs

Effect(p) ==
    /\ At(p, "effect")
    /\ Possible(task[p].op)
    /\ tree' = Applied(task[p].op)
    /\ Goto(p, [task[p] EXCEPT !.at = "journal"])
    /\ UNCHANGED <<commit, durable, memory, synced, lease>>

\* The handler returns the error; the marker stays set.
EffectFails(p) ==
    /\ At(p, "effect")
    /\ LET o == task[p].op
       IN \/ ~Possible(o) /\ UNCHANGED tree
          \/ /\ "effect" \in setting.faults
             /\ Possible(o)
             /\ tree' \in {tree, [tree EXCEPT !.dirs = Parents(o)], Applied(o)}
    /\ Goto(p, Idle)
    /\ UNCHANGED <<commit, durable, memory, synced, lease>>

\* A crash inside secure_write leaves its temporary file.
EffectTorn(p) ==
    /\ "torn" \in setting.faults
    /\ At(p, "effect")
    /\ task[p].op.kind = "write"
    /\ tree' = [tree EXCEPT !.dirs = Parents(task[p].op), !.litter = TRUE]
    /\ Close(p)
    /\ UNCHANGED <<commit, durable>>

\* finish_effect records the operation while the marker is still set.
JournalEffect(p) ==
    /\ At(p, "journal")
    /\ Persist(p, memory[p], [task[p] EXCEPT !.at = "settle"])

Changed(o) == {o.from} \cup (IF o.kind = "rename" THEN {o.to} ELSE {})

\* Mutant: a rename refreshes only its source.
Settled_SourceOnly(state, o) ==
    [state EXCEPT !.pending = FALSE, !.files = [@ EXCEPT ![o.from] = tree.files[o.from]],
                  !.head = tree.head]

\* Mutant: the rest is not fingerprinted again after directories were created.
Settled_ScopeOnly(state, o) ==
    [state EXCEPT
       !.pending = FALSE,
       !.files = [x \in Path |-> IF x \in Changed(o) THEN tree.files[x] ELSE @[x]],
       !.head = tree.head,
       !.missed = @ \ Changed(o)]

\* Only the changed paths are fingerprinted again, and the unscoped rest only
\* after a write that created directories.
Settled(state, o) ==
    [state EXCEPT
       !.pending = FALSE,
       !.files = [x \in Path |-> IF x \in Changed(o) THEN tree.files[x] ELSE @[x]],
       !.head = tree.head,
       !.missed = @ \ Changed(o),
       !.dirs = IF o.kind = "write" /\ o.structure THEN tree.dirs ELSE @,
       !.litter = IF o.kind = "write" /\ o.structure THEN tree.litter ELSE @]

finish_effect(p) ==
    /\ At(p, "settle")
    /\ Persist(p, Settled(memory[p], task[p].op), Idle)

\* The marker is cleared in memory before the fingerprints are taken.
FinishFails(p) ==
    /\ "fingerprint" \in setting.faults
    /\ At(p, "settle")
    /\ Keep(p, [memory[p] EXCEPT !.pending = FALSE, !.missed = @ \cup Changed(task[p].op)])
    /\ Goto(p, Idle)
    /\ UNCHANGED <<tree, commit, durable, synced, lease>>

-----------------------------------------------------------------------------
(* Rollback                                                                *)

Same(f, g) == f = g \/ (f # Absent /\ g # Absent /\ f.bytes = g.bytes)

\* git reset --hard: paths in the index get their base contents back, unless
\* git sees no difference; it sees bytes and the executable bit only.
ResetFiles(files, head) ==
    [x \in Path |->
       IF (Base[x] # Absent \/ (head = "delivered" /\ commit[x] # Absent))
          /\ ~Same(files[x], CheckedOut(x))
       THEN CheckedOut(x) ELSE files[x]]

\* git clean -fd: untracked files go, ignored ones stay.
CleanFiles(files) ==
    [x \in Path |-> IF Base[x] = Absent /\ x \notin setting.ignored THEN Absent ELSE files[x]]

Reset(t) ==
    LET files == ResetFiles(t.files, t.head)
    IN [t EXCEPT !.files = files, !.head = "base",
                 !.dirs = {x \in @ : files[x] # Absent \/ t.files[x] = Absent}]

Clean(t) ==
    LET files == CleanFiles(t.files)
    IN [t EXCEPT !.files = files, !.dirs = {x \in @ : files[x] # Absent}, !.litter = FALSE]

abort(p) ==
    /\ Ready(p, {"Active", "Interrupted"})
    /\ tree' = Reset(tree)
    /\ Goto(p, [at |-> "clean"])
    /\ UNCHANGED <<commit, durable, memory, synced, lease>>

\* Mutant: clean is not run.
AbortClean_Skipped(p) ==
    /\ At(p, "clean")
    /\ Goto(p, [at |-> "rollback"])
    /\ UNCHANGED <<tree, commit, durable, memory, synced, lease>>

AbortClean(p) ==
    /\ At(p, "clean")
    /\ \/ tree' = Clean(tree) /\ Goto(p, [at |-> "rollback"])
       \/ "git" \in setting.faults /\ UNCHANGED tree /\ Goto(p, Idle)
    /\ UNCHANGED <<commit, durable, memory, synced, lease>>

RolledBack(state) == [state EXCEPT !.phase = "Aborted", !.pending = FALSE, !.missed = {}]

AbortRecord(p) ==
    /\ At(p, "rollback")
    /\ Persist(p, Fingerprinted(RolledBack(memory[p])), Idle)

\* The phase is set in memory before the fingerprints are taken.
AbortFails(p) ==
    /\ "fingerprint" \in setting.faults
    /\ At(p, "rollback")
    /\ Keep(p, [RolledBack(memory[p]) EXCEPT !.missed = Path])
    /\ Goto(p, Idle)
    /\ UNCHANGED <<tree, commit, durable, synced, lease>>

-----------------------------------------------------------------------------
(* The candidate commit                                                    *)

\* External: the files are committed in the worktree for delivery.
Deliver(p) ==
    /\ Ready(p, {"Active"})
    /\ commit = None
    /\ \E x \in Path : ~Same(tree.files[x], CheckedOut(x))
    /\ commit' = tree.files
    /\ tree' = [tree EXCEPT !.head = "delivered"]
    /\ UNCHANGED <<durable, memory, synced, lease, task, setting>>

\* The commit holds and changes the path that is asked for.
read_at_commit(p) ==
    /\ Ready(p, {"Active"})
    /\ commit # None
    /\ \E x \in Path : commit[x] # Absent /\ ~Same(commit[x], CheckedOut(x))
    /\ Persist(p, memory[p], [at |-> "authorize"])

\* The bytes are the approved ones, and nothing changed outside the scope.
authorize_verified_candidate_commit(p) ==
    /\ At(p, "authorize")
    /\ \/ /\ Goto(p, Idle)
          /\ UNCHANGED <<tree, commit, durable, memory, synced, lease>>
       \/ /\ tree.dirs = memory[p].dirs /\ tree.litter = memory[p].litter
          /\ Persist(p, [Fingerprinted(memory[p]) EXCEPT !.candidate = TRUE, !.missed = {}], Idle)

Next ==
    \/ CreateFails
    \/ \E p \in Process :
          \/ create_for_task(p) \/ recover(p) \/ Crash(p)
          \/ mark_interrupted(p) \/ resume(p) \/ Record(p) \/ record_artifact(p)
          \/ CommitCheckpoint(p) \/ commit_local(p)
          \/ \E o \in Operation : Start(p, o)
          \/ begin_effect(p) \/ Effect(p) \/ EffectFails(p) \/ EffectTorn(p)
          \/ JournalEffect(p) \/ finish_effect(p) \/ FinishFails(p)
          \/ abort(p) \/ AbortClean(p) \/ AbortRecord(p) \/ AbortFails(p)
          \/ Deliver(p) \/ read_at_commit(p) \/ authorize_verified_candidate_commit(p)

Spec == Init /\ [][Next]_vars

-----------------------------------------------------------------------------
(* Properties                                                              *)

\* Without a pending marker every path holds the file its fingerprint describes,
\* or its base contents, which an unfinished rollback brought back: no crash or
\* failed save in write, delete, rename, chmod or abort leaves a third version,
\* unless finish_effect or abort could not take the new fingerprint.
JournaledOrRolledBack ==
    durable # None /\ ~durable.pending =>
       \A x \in Path \ durable.missed :
          tree.files[x] = durable.files[x] \/ Same(tree.files[x], CheckedOut(x))

\* Files of the worktree change only under a durable marker or by rollback:
\* the journal is saved "before the corresponding effect".
MutationIsMarked ==
    [][tree # None /\ tree'.files # tree.files =>
          durable.pending \/ tree' \in {Reset(tree), Clean(tree)}]_vars

\* A transaction recorded as rolled back is at base_sha, and every path that
\* git does not ignore has its contents there, whatever was half done, failed
\* or delivered when the rollback began.
RollbackRestoresContents ==
    durable # None /\ durable.phase = "Aborted" =>
       /\ tree.head = "base"
       /\ \A x \in Path \ setting.ignored : Same(tree.files[x], CheckedOut(x))

\* An interrupted transaction with an effect in doubt never becomes active
\* again, even when resume's own save fails and a later operation saves the
\* phase, or another process takes the transaction over in between.
ResumesOnlySettled ==
    [][durable # None /\ durable.phase = "Interrupted" /\ durable'.phase = "Active" =>
          ~durable.pending]_vars

\* From the marker to its removal the handle keeps the durable state to itself:
\* nobody recovers a transaction under a running effect.
EffectsAreOwned ==
    \A p \in Process :
       At(p, "effect") \/ At(p, "journal") \/ At(p, "settle") => synced = {p} /\ durable.pending

\* A transaction that nobody holds and that was not delivered can be recovered,
\* to be resumed or rolled back, unless its worktree shows a trace that no
\* fingerprint describes: the temporary file of a save or of a write that was
\* cut off, or what an abort had brought back or removed when it was cut off
\* before its record.
RefusesOnlyTraces ==
    durable # None /\ lease = None /\ tree.head = "base" /\ durable.head = "base"
      /\ "fingerprint" \notin setting.faults /\ ~Recoverable =>
       \/ tree.litter # durable.litter
       \/ ~(durable.dirs \subseteq tree.dirs)
       \/ \E x \in Path : tree.files[x] # durable.files[x] /\ Same(tree.files[x], CheckedOut(x))
=============================================================================
