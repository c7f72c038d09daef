# TLA+ models of axiomlang

This directory models the stateful parts of the stage1 toolchain
(`src/stage1/crates/axiomc/src`, below "the crate") in TLA+, checks the models
with TLC on small instances, and proves most of their safety properties with
TLAPS for every instance. File names are relative to the crate unless they start
with `docs/`.

## 1. The system and its parts

`axiomc` is a compiler with the tools around it. Most of its lines are
sequential tree and text transformations. The parts below keep state over many
calls, threads, processes or crashes, and are what the models are about.

| Part | What makes it hard | Model | Proofs |
|---|---|---|---|
| Runtime lifecycle, `runtime_lifecycle.rs` | links kept twice, aggregates that fall as a whole, errors in the middle | `Ownership`, `RuntimeLifecycle` | `OwnershipProofs` |
| Async runtime of generated programs, `codegen.rs` | worker threads, awaits that run other jobs on top of their own, timeouts, panics | `AsyncRuntime` | `AsyncProofs` |
| Observability, `runtime_observability.rs` | two limits, two overflow policies, a sink that fails, a deadline | `Observability` | `ObservabilityProofs` |
| Test runner, `project/bounded_test_runner.rs`, retries in `project.rs` | a child, its descendants and three threads against a deadline | `BoundedTestRunner` | `BoundedProofs` |
| Package resolver, `package_resolver.rs`, `package_version.rs`, `resolve_online` in `package_manager.rs` | backtracking: soundness, completeness, preference, budgets | `PackageResolver` | `ResolverProofs` |
| Package manager, cache admission and lockfile, `package_manager.rs`, `package_store.rs`, `lockfile.rs` | kills and losses of power between publications, reaping, compare-and-swap | `PackageManager` | `PackageProofs` |
| Vendor snapshots, `package_store.rs` | many processes, crashes between renames, stale leases, reused pids | `VendorSnapshots` | `VendorProofs` |
| Transactional workspace, `transactional_workspace.rs` | crash and failure at every save and effect | `TransactionalWorkspace` | `WorkspaceProofs` |
| Bounded executor, `bounded_executor.rs` | recovery of an old copy over a newer workspace | `BoundedExecutor` | `BoundedProofs` |

How they interact: the executor drives a transactional workspace and recovers
together with it. The package manager resolves, admits what it resolved to into
the cache and replaces the lockfile, all under its operation lock; it vendors
from the cache into a vendor directory, whose readers, and vendor directories
shared through `--out`, are not covered by that lock, which is why
`VendorSnapshots` has several processes. The test runner runs compiled programs;
those follow the runtime lifecycle and contain the async runtime and the
observability runtime. Two compositions are modelled as such: `PackageManager`
has the operation lock, the cache and the lockfile in one state, and
`RuntimeLifecycle` implements `Ownership`.

By lines the modelled parts are a small share of the crate, about one line in
thirty: most of it is the front end, the lowering and the backends. By state
that outlives a call they are its centre.

## 2. Modules

Every module names, in its comments, the function an action translates;
`PROJECT.json` gives the lines. An operator whose name has the form
`Action_Word` is a plausible mistake in that action; no specification uses it.

### Ownership and RuntimeLifecycle

`Ownership` is the abstract specification: every active owner is an entry of one
scope or a child of one owner; a scope exit destroys everything rooted in it. An
aggregate is the least set that contains its root and is closed under "is a
child of". `RuntimeLifecycle` has one action per public operation of
`LifecycleRuntime`; its variables are the fields of the struct, plus `result`
(the answer of the last call) and `trace` (what it released, in order).
Identities come from one counter, and every operation is called with wrong
identities too. The recursion of `drop_owner` is a recursive operator on the
children sequences. Left out: the bytes of allocations (only their size is
kept), provenance, capabilities and the operation log. `RuntimeLifecycle`
implements `Ownership` under the mapping at its end: tables are read as
functions over all identities, and the scope of an owner is the index of the
stack entry that lists it. A step that leaves every table as it was, as an
operation that fails or only reads does, is a stutter of `Ownership` whatever
the mapping is; `ChangeSpec`, which the refinement run uses, leaves those steps
out, and loses no reachable table by it.

### AsyncRuntime

The pool (`jobs`, `workers`), the condition variable (`asleep`), each thread's
stack of frames, the one-shot channel of each task, and the timer wheel. A task
is the sequence of runtime calls it makes; the values it computes are left out.
An await on a worker runs queued jobs on top of the waiting frame
(`try_run_one`), so a thread is a stack. Channels are left out: the language
moves them, so no two tasks share one.

What may run is a set of programs. `IsProgram` says what the language makes of
tasks and join handles, which are not `Copy` (`hir.rs:304`) and so are moved: a
task is started by one call; a handle is joined by the task that spawned it, or
by one that was given it when it was started, directly or inside a task it was
given; and since a handle exists only after its task was started, no set of tasks
can wait for each other in a circle. A task that returns a handle as its value is
outside this, as values are abstracted.

### Observability

One action per call of `ObservabilityRuntime` and outcome. An event is its
sequence number and its size. How far the sink gets within a drain, and when the
deadline is found passed, are choices of the step. Redaction, encoding and the
reports are left out.

### BoundedTestRunner

The runner as a program with labels (`pc`), two capture threads, the input thread,
and the program under test as the environment: it may write, read, close its
pipes, fork one helper, ignore SIGTERM, exit, or do nothing for ever. `open` says
of each of the three pipes which processes hold the program's end: a helper keeps
any of those the child has, inside or outside its process group. A reader sees the
end of its own pipe, and the writer fails when nobody holds stdin. Who ignores
SIGTERM is chosen when it is sent. Output and input are counted in units. Left
out: runs without limits, I/O errors of the readers, and platforms other than
Unix.

### PackageResolver

`resolve_packages` with `solve` as a stack of frames, every check, budget, early
return and error; the downloads the source holds and releases; and the checks of
`resolve_online` and `finish_online`. The inputs (catalogues, dependencies,
faults of the source, lock, mode, limits) are a constant set from which a
behaviour picks one. Paths along dependencies are defined by closed sets instead
of a walk. The trace is reduced to its limit and to the one event that is read.

### PackageManager

Operations are processes: acquire the operation lock, resolve (an arbitrary
choice of packages), admit each package (transaction directory, marker, reaping
of stale ones, then blob, tree, evidence and commit, each published and then
synced), compare and replace `axiom.lock` under its sidecar lock, drop the lock.
They may be killed at each label, a call may fail, the machine may lose power
(what is not synced is lost), and a user may delete the lock or edit
`axiom.lock`. Packages may share an archive.

### VendorSnapshots

Processes vendor a digest (lock, preflight, publish, verify, replace `CURRENT`,
reclaim) or read the current one (verify without the lock, lock, grant, write
the lease, read). A snapshot is whole, partial, empty or absent. A process may
crash at every label, a file operation may fail, `atomic_replace_file` may report
an error after its rename took effect, 24 hours may pass, and a pid may be used
again. `ProbesPids` distinguishes Unix from platforms where `process_is_alive`
cannot ask; the runs and the proofs are about Unix.

### TransactionalWorkspace

Processes hold handles on one transaction in turn. Each handler is cut at its
durable saves and its changes of the worktree, and a process may crash at each
cut. A setting selects the failures of the environment: a save that fails before
or after its rename, a crash inside a save or a write, a failing file effect,
fingerprint or git command. Handlers change the handle before they save it and
keep the change when the save fails, as the code does. The journal's events,
redaction and the path-authority checks are left out. Git is external: `reset
--hard` and `clean -fd` are modelled by what they restore (bytes, not the mode;
nothing ignored).

### BoundedExecutor

One action per operation, over a workspace reduced to its phase, the content of
the proposed path, the pending marker, whether it drifted from its journal, and
the authorised head. The workspace's handlers are atomic here; their inside is
the subject of `TransactionalWorkspace`. The caller saves the executor at any
time, loses it at any time (also inside a write) and recovers the last saved
copy, which may be old. The event chain, the seal and the signatures are left
out: saved bytes are not altered, and evidence is authentic or refused. Tokens
stand for the three budgets that only `charge_budget` touches.

## 3. Runs

| Run | Shows |
|---|---|
| `ownership` | The parents are a forest (`Forest`), and nothing is left when the last scope is (`NoLeak`) |
| `lifecycle` | What is kept twice agrees and every active value has one place (`WellFormed`), errors change nothing, each obligation is discharged once and in reverse order |
| `lifecycle_refines_ownership` | Every step that changes the runtime's tables is a step of `Ownership` |
| `async_runtime` | No job is lost or run twice (`WellFormed`), no wakeup is missed, the runtime hangs only when an await has buried a frame it waits for, and programs that keep their join handles end |
| `observability` | The queue keeps both limits, every event is accounted for once and in order, `Flushed` is never reported for anything undelivered |
| `test_runner` | The two threads share the output limit exactly, what is reported of an attempt is true, and a test ends unless a helper that outlives the child keeps the very pipe whose thread is joined |
| `resolver` | A resolution is a solution and the most preferred one, a conflict means that there is none, no budget is exceeded and only selected artifacts are held, and a candidate that was given up leaves no constraint behind |
| `packages` | What is committed is complete, the lockfile pins only committed packages, no live transaction is reaped, the lockfile is replaced only by who read it, every operation ends |
| `vendor` | `CURRENT` is complete, a reader keeps its tree, only garbage is reclaimed, the lifecycle lock is always released again |
| `vendor_crash_safe` | Violation, see section 5 |
| `workspace` | An unmarked worktree is the journaled one or partly rolled back, a recorded rollback restored the base, recovery refuses only the traces of a cut-off save, write or abort, nothing in doubt is resumed, files change only under a durable marker |
| `executor` | A resolved executor has its complete proof, an executor past `Planned` is right about the edit, and one with work left can be recovered |

Bounds, and why they are enough:

- ownership: 4 owners, 3 allocations, 2 borrows, 2 resources, 2 nested scopes: a
  parent with children of its own is attached, moved and dropped under a borrow.
- lifecycle and its refinement: 8 identities, of which 4 are owners, borrows or
  resources (`MaxHandles`; the others are allocations). This allows four owners,
  so a parent with three children or a chain of four; a parent with two children
  and a move of one of them, a move of the parent, a borrow or a resource; and a
  middle owner that is moved, each inside nested scopes. A `drop_owner` that
  releases only the youngest child is found.
- async runtime: main and four tasks on one or two workers, 384 programs; two
  levels of awaits on two threads are what it takes to bury a frame.
- observability: capacity 3, events of up to 4 bytes of which one is too large,
  5 calls of `emit`: an event that fits only after two evictions.
- test runner: a limit of 1 unit and 2 units written, so that either thread
  exceeds it; output pipes of 2; an input of 2 through a pipe of 1, so that the
  writer blocks; 1 retry. Running processes close stdin only (`Closable`): an
  output pipe without holders is also reached by exits and by helpers that do
  not keep it, and the proofs have no such bound.
- resolver: three packages with two versions each, some 12000 inputs: all small
  dependency graphs, cycles included, locks with yanked releases, and each fault
  and limit met in the middle of a search.
- packages: 2 operations, 2 packages with a common archive, 2 faults, 1
  intervention by hand: a loss of power after a kill, over an adopted entry.
- vendor: 3 processes, 2 digests, 1 fault: a reader is overtaken by two
  publishers, one of which reclaims.
- workspace: 2 processes, of which one holds the lease, and 2 paths, one of them
  absent at the base with an absent parent directory: every case of write,
  delete and rename.
- executor: two contents and two heads tell a right head from a wrong one; one
  retry and two recorded failures reach the exhausted budget; `TokenLimit = 0`
  makes the first token the one beyond the limit.

`MaxId`, `MaxDepth`, `MaxDeferred`, `MaxFaults`, `MaxInterventions`,
`MaxFailures`, `MaxAttempts`, `MaxWritten`, `MaxHandles` and `MaxWorkers` bound
counters in guards, and `Closable` the pipes that are closed early.

Deadlock is checked except where the system stops: a test is over, a search has
ended, a transaction is committed, aborted or beyond recovery, an executor is
terminal. Symmetry is used for identities, processes, digests and heads, only in
runs without liveness. `StoreView` hides the answer and the trace of the last
call from the lifecycle runs' state identity; the action properties read them
in the primed state, which TLC evaluates on every step, and no guard reads them.

Fairness is weak throughout, and only of what the code's own threads do: each
thread and worker of the async runtime and its clock; the runner, its threads
and the clock, but no step of the program under test; the steps of a running
package operation; and the steps a running process takes inside a vendor or
lease call. The operating system schedules a runnable
thread, and file operations return. Nothing is assumed of when calls start,
readers finish, programs act, crashes happen or users intervene.

## 4. Proofs

Each theorem below holds for every value of the constants under the named
assumptions of the component's module (`None` is none of the values it stands
beside, limits are naturals, inputs have their types); TLC evaluates them in the
runs. Every proof of `Spec => []P` goes through an inductive invariant `IInv`.

**OwnershipProofs.** `IInv` is the conjunction of `TypeOK`, `UniqueHome`,
`Forest`, `OneOwnerPerAllocation`, `BorrowDiscipline` and `ResourceHome`; none is
inductive alone. `UniqueHome` survives a drop only because aggregates fall as a
whole, which is the closure of `Subtree`; `Forest` survives `attach_child` because
of its `has_ancestor` guard. `NoLeak` follows: with no scope open, the active
owners would be a set closed under taking parents. Theorems `OwnershipIsAForest`,
`OneOwner`, `NothingLeaks`, `StepsAreSafe` (nothing borrowed and no part of an
aggregate is destroyed; nothing dead comes back).

**ObservabilityProofs.** `IInv` states the order without concatenation (the sink
is increasing, the queue is, and the one is before the other) and ties the
latched failure to the state. Theorems `AccountingHolds`, `OrderedHolds`,
`FlushedMeansDeliveredHolds`, `TerminalIsFinalHolds`, `LengthIsBounded`.

**AsyncProofs.** `IInv` says where each task is (nowhere, in the queue, or on one
stack, which is `Apart` and `Placed`), that a worker with frames has its flag set
and will find it set below (`Flags`, because the guard restores what it found),
that a frame holds handles of started tasks only (`Handles`), and that what a
frame is about to spawn was not started (`Fresh`). `WellFormed` needs `Fresh`:
a second start of a task would put it at two places. The hang needs the others.
Theorems `NoJobIsLost`, `NoWakeupIsMissed` and `HangsAreBurials`. The last one is
an argument about all threads at once: in a deadlock without a burial, what a
thread awaits is pending, is not queued (a worker is awake, and its flag is set,
so it would help), hence is on top of another thread; the tasks on top would all
wait for each other, which `IsProgram` excludes.

**BoundedProofs, test runner** (under `Limits`). The data is accounted for
without looking at the runner: what was written is counted, read, or in its
pipe, and what was counted is kept as long as the limit is not exceeded; only
running processes hold a pipe, a reader is done only when nobody holds its own
one, and the writer has failed only when nobody holds stdin; the runner's label
says which threads it has joined. Theorems `CaptureIsExact`,
`ReportIsTrueHolds`, `SignalsReachTheChild` (a group is signalled only while its
leader is not reaped, except for a service that exited before it was ready, see
section 5), `TestTypesHold`.

**ResolverProofs.** The search is correct for any catalogues, locks and limits.
`IInv` says of every state on the stack that it is a solution but for what is
still open (`Sane`), that a frame has selected what the frames below it tried,
and that no solution was passed over: each one extends the current state, or the
state of a frame by one of its remaining candidates (`Complete`). Soundness
(`ResolutionIsSolution`), completeness (`ConflictIsProof`) and preference
(`FirstIsFound`) are read off it; the lemmas on paths say that a new dependency
closes a cycle exactly if its target leads back. A second invariant, `Within`,
which also holds of a search that is over, bounds the states and the counters:
`BudgetsAreKept` and `TypesHold`. `NothingLeaks`: a candidate that was given up
leaves no constraint behind. `MatchesIsRange`: for all versions, `matches` decides
an interval.

**PackageProofs.** `IInv` records at each label what the operation has already
made safe (synced, or adopted from another one), and that it holds the locks and
the transaction it thinks it holds. Theorems `CommitIsComplete`,
`LockfileIsBacked`, `TransactionStays`, `OneAtATime`, `SwapIsCompared`,
`LockIsDropped`, `TypesHold`.

**VendorProofs** assume `ProbesPids`. Whatever takes a snapshot apart holds the
lifecycle lock, so `IInv` says what the holder has established at its label
(`CURRENT` is its digest while it reclaims, its victim is another one and
unleased) and that a granted reader has a lease file. Theorems
`SnapshotsAreWhole`, `ReadersAreSafe`, `LockIsHeld`, `OnlyGarbageGoes`,
`TypesHold`.

**WorkspaceProofs.** `IInv` says that the only handle is the lease holder's; what
its state describes of the worktree, outside the paths an effect under way may
have changed; and that whatever it saves next keeps the doubt the state file
records. It covers failed and torn saves, after which memory and file differ.
Theorems `NoThirdVersion`, `RollbackIsDone`, `EffectIsAlone`, `RefusalHasATrace`,
`DoubtIsKept`, `MutationHasMarker`.

**BoundedProofs, executor.** `IInv` says what an executor, and the copy its caller
saved, know of the workspace, and that the executor in memory has gone on from the
saved one and never back; this is what makes an old copy right after a recovery.
Theorems `ResolvedHasProof`, `EditIsThere`, `WorkIsPaid`, `WorkSurvives`,
`TypesHold`, `EndIsEnd`.

Properties stated by a theorem and by no run (`UniqueHome`,
`OneOwnerPerAllocation`, `DestroyWhole`, `DeadStaysDead`, `TerminalIsFinal`,
`SignalsOwnGroup`, `OneOperation`, `LockIsOwn`,
`LockMatchesPc`, `EffectsAreOwned`, `RetriesArePaid`, `TerminalIsTerminal`, and
most `TypeOK`) are defined in the component's module beside the others.

Only model-checked:

- liveness (`Terminates`, `EndsUnlessHeld`, `OperationsEnd`, `LockReleased`): the
  prover does not handle fairness;
- everything about `RuntimeLifecycle`, the refinement of `Ownership` included: its
  releases are computed by recursion over the children, and what a recursive
  definition computes for every input is beyond the prover;
- the limit on bytes in `QueueBounded`: the bytes of a queue are a sum over it,
  and its facts need an induction over data.

## 5. Disagreements between the code and what is said of it

Shown by a run: `vendor_crash_safe`. `docs/package.md:395` calls the vendor
lifecycle crash-safe. A crash inside the removal of a superseded snapshot leaves
a partial directory; `publish_directory` takes it for a published one, and every
later vendor call for that digest fails in its verification.

Met while modelling, without a run of its own. The properties are stated up to
these behaviours, which the code has; where one of them is a hazard of
`PROJECT.json`, its note says so:

- Async runtime: an await may run, on top of its own frame, a job that waits for
  a task further down the same stack; both then wait for ever
  (`HangsOnlyByBurial` says that this is the only way to hang).
  `docs/stage1-agent-grade-compiler.md:353` says that timeouts use the timer
  wheel; `axiom_async_timeout` (`codegen.rs:1018`) waits on its own channel.
- Test runner: when a helper that outlives the child keeps stdout or stderr open,
  or keeps stdin open without reading it while input is left, the join of that
  pipe's thread waits for it without a limit, although `project.rs:1012` promises
  an execution budget (`EndsUnlessHeld` names the case). A service that exits
  before it is ready after too much output is reaped first and its group signalled
  afterwards. A program that succeeds while input is left that did not fit its
  pipe is reported with a broken pipe (`bounded_test_runner.rs:170`).
- Package manager: an entry found in place is adopted without a sync
  (`package_store.rs:2217`). A killed operation leaves
  `.axiom-package-operation.lock` behind until it is deleted by hand. A
  transaction directory whose marker was not yet written is never reaped
  (`package_store.rs:1956`).
- Vendor: where pids cannot be probed, `process_is_alive` (`package_store.rs:2092`)
  answers false, and the lease of a running reader is deleted after 24 hours.
- Resolver: a release that was discarded and is selected again is not downloaded
  again (`package_resolver.rs:881`, `package_manager.rs:1353`), and the operation
  ends with `verified_artifact_missing`. A targeted update may end with
  `broader_update_required` although no frozen release stood in its way
  (`package_manager.rs:882`), and with `frozen_package_missing` when the update no
  longer needs a frozen package (`package_manager.rs:1889`).
- Workspace: when `finish_effect` (line 1052) cannot take a fingerprint, the
  marker is already cleared in memory, and the next save makes the old fingerprint
  durable without it. `commit_local` (`transactional_workspace.rs:702`) does not
  look at the pending marker, where `docs/transactional-workspace-v0.md:61` allows
  only rollback. A crash inside a save leaves a temporary file, and one inside
  abort a half-reset worktree, which `recover` refuses (lines 1500 and 1730): the
  transaction can then be neither resumed nor rolled back. Rollback does not
  restore a changed file mode, nor remove ignored files, where lines 54-55 of the
  document say that it restores the exact base.
- Executor: leaving `Interrupted` by escalation keeps `interrupted_from`
  (`bounded_executor.rs:624`), and `recover` refuses what it seals; no work is
  lost by it (`WorkIsRecoverable`). `docs/bounded-executor-v0.md:50` says that a
  dry run never mutates; `rollback` (line 865) does not look at `dry_run`. Lines
  82-83 say that identical fingerprints stop on their second occurrence;
  `retry_failure` (line 942) compares with the last failure only. Lines 84-86 say
  that a preimage mismatch escalates; `apply_proposal` (line 705) reports a
  `Conflict`, which the policy may retry.

## 6. Not modelled

`PROJECT.json` lists every other part with the reason:

- the front end, the borrow checker, MIR, code generation (other than the async
  runtime it emits), the Cranelift backend, the evaluator and the formatter:
  sequential transformations of programs whose input space is out of TLC's reach;
- package trust, the registry and its client, archives and the host services:
  parsing, cryptography and single I/O calls;
- the planner and the task, migration and intent documents: pure functions;
- the language server with its parse cache, and the debug adapter: one thread
  that answers one request after the other. The cache has one window: a file
  that changes between its parse and its fingerprint
  (`project/module_parse_cache.rs:140`) is taken for unchanged until it changes
  again;
- the command line and the project driver: orchestration and reports.

Within the modelled parts, the composition of `BoundedExecutor` with the full
`TransactionalWorkspace` is left to the reduced workspace of the former.
