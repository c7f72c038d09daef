-------------------------- MODULE BoundedExecutor ---------------------------
(***************************************************************************)
(* bounded_executor.rs: the executor that carries one proposal through a   *)
(* transactional workspace, and the caller that saves it, loses it in a    *)
(* crash and recovers it.                                                  *)
(*                                                                         *)
(* The workspace is reduced to what the executor sees of it; its handlers  *)
(* are atomic here, and TransactionalWorkspace is about their inside.  The *)
(* event chain, the seal and the digests are left out: a digest is what it *)
(* digests, and a saved executor is not tampered with.  Of the budgets,    *)
(* tokens stand for the three that only charge_budget touches.             *)
(***************************************************************************)
EXTENDS Naturals, Sequences

CONSTANTS
    Content,        \* contents of the proposed path
    base,           \* the one at base_sha
    Sha,           \* commits that may be presented as delivered
    Plan,           \* verification plans
    Report,         \* failures the caller may report
    ApprovedCause,  \* the causes the retry policy approves
    RetryLimit,     \* budgets of the task contract
    TokenLimit,
    MaxFailures,    \* bound on the failures a behaviour records
    None

Cause == {"Code", "Evidence", "Environment", "Conflict", "Policy", "Unknown"}

\* The codes of the failures that the operations find by themselves.
Code == {"rejected", "workspace_read", "candidate_base_changed", "workspace_write",
         "verification_schema", "verification_base", "verification_unchanged_head",
         "candidate_head_proof", "delivery_binding", "delivery_provider", "delivery_candidate"}

\* A failure is what its fingerprint digests.
Failure == [cause : Cause, code : Code] \cup Report

ASSUME ContractIsValid ==
    /\ base \in Content
    /\ \A f \in Report : f.cause \in Cause
    /\ ApprovedCause \subseteq Cause \ {"Policy", "Unknown"}
    /\ RetryLimit \in Nat /\ TokenLimit \in Nat /\ MaxFailures \in Nat

VARIABLES
    exec,       \* the executor in memory
    saved,      \* the executor its caller saved last
    workspace,  \* the transaction
    commits     \* the contents of the path at each commit

vars == <<exec, saved, workspace, commits>>

ExecutionState == {"Planned", "DryRun", "Edited", "EvidenceFailed", "VerificationPassed",
                   "Resolved", "RolledBack", "Rejected", "Escalated", "Interrupted"}

Terminal == {"Resolved", "RolledBack", "Rejected", "Escalated"}

Proposal == [before : Content, candidate : Content]

Verdict == [plan : Plan, head : Sha]

ASSUME NoneIsNoValue == None \notin ExecutionState /\ None \notin Verdict

Executor == [state : ExecutionState, interrupted_from : ExecutionState \cup {None},
             dry_run : BOOLEAN, bound : BOOLEAN, proposal : Proposal \cup {None},
             verification : Verdict \cup {None}, delivery : Verdict \cup {None},
             tokens : 0..TokenLimit, retries : 0..RetryLimit, failures : Seq(Failure)]

\* drift: the worktree is not the one its journal describes, as a failed
\* rollback leaves it.
Workspace == [phase : {"Active", "Interrupted", "Aborted"}, content : Content,
              pending : BOOLEAN, drift : BOOLEAN, candidate_head : Sha \cup {None}]

TypeOK ==
    /\ exec \in Executor \cup {None}
    /\ saved \in Executor \cup {None}
    /\ workspace \in Workspace
    /\ commits \in [Sha -> Content]

New(dry) ==
    [state |-> "Planned", interrupted_from |-> None, dry_run |-> dry, bound |-> FALSE,
     proposal |-> None, verification |-> None, delivery |-> None, tokens |-> 0, retries |-> 0,
     failures |-> <<>>]

Init ==
    /\ exec = None
    /\ saved = None
    /\ workspace = [phase |-> "Active", content |-> base, pending |-> FALSE, drift |-> FALSE,
                    candidate_head |-> None]
    /\ commits \in [Sha -> Content]

-----------------------------------------------------------------------------
(* Failures                                                                *)

\* retry_failure: what becomes of the executor.
RetryFailure(e, f) ==
    LET repeated == e.failures # <<>> /\ e.failures[Len(e.failures)] = f
        escalate == f.cause \notin ApprovedCause \/ repeated \/ e.retries + 1 > RetryLimit
    IN [e EXCEPT !.failures = Append(@, f),
                 !.state = IF escalate THEN "Escalated" ELSE @,
                 !.retries = IF escalate THEN @ ELSE @ + 1]

Fails(cause, code) == exec' = RetryFailure(exec, [cause |-> cause, code |-> code])

Rejected(e) ==
    [e EXCEPT !.state = "Rejected", !.failures = Append(@, [cause |-> "Policy", code |-> "rejected"])]

\* A call that passes the executor's guard and its demand on the state.
In(states) ==
    /\ exec # None
    /\ exec.state \in states
    /\ Len(exec.failures) < MaxFailures

Nonterminal == ExecutionState \ Terminal

RollbackStates == ExecutionState \ {"Resolved", "DryRun", "RolledBack"}

Valid == workspace.phase = "Active"

-----------------------------------------------------------------------------
(* Operations on the executor alone                                        *)

Create(dry) ==
    /\ exec = None /\ saved = None
    /\ exec' = New(dry)
    /\ UNCHANGED <<saved, workspace, commits>>

bind_transaction ==
    /\ In({"Planned"})
    /\ Valid
    /\ exec' = [exec EXCEPT !.bound = TRUE]
    /\ UNCHANGED <<saved, workspace, commits>>

propose_replace(p) ==
    /\ In({"Planned"})
    /\ exec' = [exec EXCEPT !.proposal = p, !.state = IF exec.dry_run THEN "DryRun" ELSE @]
    /\ UNCHANGED <<saved, workspace, commits>>

\* The path, the search text or its number of occurrences is wrong.
ProposalRejected ==
    /\ In({"Planned"})
    /\ exec' = Rejected(exec)
    /\ UNCHANGED <<saved, workspace, commits>>

charge_budget(tokens, retries) ==
    /\ In(Nonterminal)
    /\ exec' = IF exec.tokens + tokens > TokenLimit \/ exec.retries + retries > RetryLimit
               THEN [exec EXCEPT !.state = "Escalated"]
               ELSE [exec EXCEPT !.tokens = @ + tokens, !.retries = @ + retries]
    /\ UNCHANGED <<saved, workspace, commits>>

retry_failure(f) ==
    /\ In(Nonterminal)
    /\ exec' = RetryFailure(exec, f)
    /\ UNCHANGED <<saved, workspace, commits>>

interrupt ==
    /\ In(Nonterminal \ {"Interrupted"})
    /\ exec' = [exec EXCEPT !.interrupted_from = exec.state, !.state = "Interrupted"]
    /\ UNCHANGED <<saved, workspace, commits>>

\* Mutant: the interrupted state is kept after it was resumed.
resume_KeepsOrigin ==
    /\ In({"Interrupted"})
    /\ exec.interrupted_from # None
    /\ exec' = [exec EXCEPT !.state = exec.interrupted_from]
    /\ UNCHANGED <<saved, workspace, commits>>

resume ==
    /\ In({"Interrupted"})
    /\ exec.interrupted_from # None
    /\ exec' = [exec EXCEPT !.state = exec.interrupted_from, !.interrupted_from = None]
    /\ UNCHANGED <<saved, workspace, commits>>

-----------------------------------------------------------------------------
(* Operations on the workspace                                             *)

\* validate_workspace refuses a workspace that is not active or, which the
\* caller can always pass, one that belongs to another task.
WorkspaceRejected ==
    /\ In(RollbackStates)
    /\ exec' = Rejected(exec)
    /\ UNCHANGED <<saved, workspace, commits>>

CanApply == In({"Planned"}) /\ ~exec.dry_run /\ exec.proposal # None /\ Valid

\* write stops between its pending marker and the removal of it.
WriteInDoubt ==
    /\ ~workspace.pending
    /\ \E c \in {workspace.content, exec.proposal.candidate} :
          workspace' = [workspace EXCEPT !.content = c, !.pending = TRUE]

\* Mutant: the executor is marked before the write is known to have succeeded.
apply_proposal_MarkedEarly ==
    /\ CanApply
    /\ workspace.content = exec.proposal.before
    /\ WriteInDoubt
    /\ exec' = [exec EXCEPT !.state = "Edited", !.bound = TRUE]
    /\ UNCHANGED <<saved, commits>>

apply_proposal ==
    /\ CanApply
    /\ workspace.content = exec.proposal.before
    /\ ~workspace.pending
    /\ workspace' = [workspace EXCEPT !.content = exec.proposal.candidate]
    /\ exec' = [exec EXCEPT !.state = "Edited", !.bound = TRUE]
    /\ UNCHANGED <<saved, commits>>

\* The read fails, the preimage is another, or the write fails: then the
\* effect may have happened and stays pending.
ApplyFails ==
    /\ CanApply
    /\ \/ Fails("Environment", "workspace_read") /\ UNCHANGED workspace
       \/ /\ workspace.content # exec.proposal.before
          /\ Fails("Conflict", "candidate_base_changed")
          /\ UNCHANGED workspace
       \/ /\ workspace.content = exec.proposal.before
          /\ Fails("Policy", "workspace_write")
          /\ UNCHANGED workspace \/ WriteInDoubt
    /\ UNCHANGED <<saved, commits>>

CanVerify == In({"Edited"}) /\ Valid

\* The head changes the path, and to the candidate.
ContainsCandidate(sha) == commits[sha] = exec.proposal.candidate /\ commits[sha] # base

\* The fingerprints are taken again with it.
Authorized(sha) == [workspace EXCEPT !.candidate_head = sha, !.drift = FALSE]

\* Mutant: the head is bound without reading the candidate from it.
submit_verification_Unproven(v, status) ==
    /\ CanVerify
    /\ workspace' = Authorized(v.head)
    /\ exec' = [exec EXCEPT !.verification = v, !.state = status]
    /\ UNCHANGED <<saved, commits>>

\* authorize_verified_candidate_commit found the candidate at the head; a
\* verdict that contradicts itself is recorded and escalates.
submit_verification(v, status) ==
    /\ CanVerify
    /\ ContainsCandidate(v.head)
    /\ workspace' = Authorized(v.head)
    /\ exec' = [exec EXCEPT !.verification = v, !.state = status]
    /\ UNCHANGED <<saved, commits>>

VerificationFails ==
    /\ CanVerify
    /\ \/ Fails("Evidence", "verification_schema")
       \/ Fails("Conflict", "verification_base")
       \/ Fails("Evidence", "verification_unchanged_head")
    /\ UNCHANGED <<saved, workspace, commits>>

\* authorize_verified_candidate_commit refuses the head, or fails to save that
\* it authorised it.
ProofFails(sha) ==
    /\ CanVerify
    /\ Fails("Evidence", "candidate_head_proof")
    /\ \/ UNCHANGED workspace
       \/ ContainsCandidate(sha) /\ workspace' = Authorized(sha)
    /\ UNCHANGED <<saved, commits>>

\* The evidence is authentic, fresh and satisfactory, and bound to all members
\* of the candidate binding.
submit_delivery(evidence) ==
    /\ In({"VerificationPassed"}) /\ Valid
    /\ \/ /\ evidence = exec.verification
          /\ exec' = [exec EXCEPT !.delivery = evidence, !.state = "Resolved"]
       \/ evidence # exec.verification /\ Fails("Evidence", "delivery_binding")
       \/ Fails("Evidence", "delivery_provider")
       \/ Fails("Conflict", "delivery_candidate")
    /\ UNCHANGED <<saved, workspace, commits>>

\* A failed abort leaves the worktree as it was, or reset without a record.
rollback ==
    /\ In(RollbackStates) /\ Valid
    /\ \/ /\ workspace' = [workspace EXCEPT !.phase = "Aborted", !.content = base,
                                            !.pending = FALSE, !.drift = FALSE]
          /\ exec' = [exec EXCEPT !.state = "RolledBack"]
       \/ /\ workspace' \in {workspace, [workspace EXCEPT !.content = base, !.drift = TRUE]}
          /\ exec' = [exec EXCEPT !.state = "Escalated"]
    /\ UNCHANGED <<saved, commits>>

-----------------------------------------------------------------------------
(* The caller                                                              *)

Save ==
    /\ exec # None
    /\ saved' = exec
    /\ UNCHANGED <<exec, workspace, commits>>

\* The process is lost; a write it was in stays pending.
Crash ==
    /\ exec # None
    /\ exec' = None
    /\ \/ UNCHANGED workspace
       \/ CanApply /\ workspace.content = exec.proposal.before /\ WriteInDoubt
    /\ UNCHANGED <<saved, commits>>

\* recover's demands on the sealed state that it is not a tampered one.
Accepted(e) == e.bound /\ (e.state = "Interrupted" <=> e.interrupted_from # None)

\* The workspace is recovered first.
recover ==
    /\ exec = None /\ saved # None
    /\ workspace.pending \/ ~workspace.drift
    /\ Accepted(saved)
    /\ exec' = saved
    /\ UNCHANGED <<saved, workspace, commits>>

\* mark_interrupted and resume of the workspace.
WorkspaceInterrupted ==
    /\ workspace.phase = "Active"
    /\ workspace' = [workspace EXCEPT !.phase = "Interrupted"]
    /\ UNCHANGED <<exec, saved, commits>>

WorkspaceResumed ==
    /\ workspace.phase = "Interrupted"
    /\ ~workspace.pending /\ ~workspace.drift
    /\ workspace' = [workspace EXCEPT !.phase = "Active"]
    /\ UNCHANGED <<exec, saved, commits>>

Next ==
    \/ \E dry \in BOOLEAN : Create(dry)
    \/ bind_transaction \/ ProposalRejected \/ \E p \in Proposal : propose_replace(p)
    \/ \E tokens, retries \in 0..1 : charge_budget(tokens, retries)
    \/ \E f \in Report : retry_failure(f)
    \/ interrupt \/ resume
    \/ WorkspaceRejected \/ apply_proposal \/ ApplyFails
    \/ \E v \in Verdict, status \in {"EvidenceFailed", "VerificationPassed", "Escalated"} :
          submit_verification(v, status)
    \/ VerificationFails \/ \E sha \in Sha : ProofFails(sha)
    \/ \E v \in Verdict : submit_delivery(v)
    \/ rollback
    \/ Save \/ Crash \/ recover \/ WorkspaceInterrupted \/ WorkspaceResumed

Spec == Init /\ [][Next]_vars

-----------------------------------------------------------------------------
(* Properties                                                              *)

\* A resolved executor has the proof of it: the delivery evidence is for the
\* verified plan and head, the workspace authorised that head, the head holds
\* the exact candidate, and the work was neither a dry run nor rolled back;
\* whatever was retried, interrupted, lost and recovered before.
ResolvedIsProven ==
    exec # None /\ exec.state = "Resolved" =>
       /\ exec.delivery # None /\ exec.delivery = exec.verification
       /\ workspace.candidate_head = exec.verification.head
       /\ commits[workspace.candidate_head] = exec.proposal.candidate
       /\ workspace.content = exec.proposal.candidate
       /\ ~exec.dry_run /\ workspace.phase # "Aborted"

\* An executor that went on past Planned is right about the edit: as long as
\* the transaction is not rolled back, the workspace has the candidate.
EditedIsThere ==
    exec # None /\ workspace.phase # "Aborted"
       /\ exec.state \in {"Edited", "EvidenceFailed", "VerificationPassed", "Resolved"} =>
          workspace.content = exec.proposal.candidate

\* Work goes on only while every failure has been paid from the retry budget,
\* across interruptions and recoveries.
RetriesArePaid ==
    exec # None /\ exec.state \notin Terminal => Len(exec.failures) <= exec.retries

\* A terminal executor never returns to work, and a resolved or rolled back
\* one stays so.
TerminalIsTerminal ==
    [][exec # None /\ exec' # None /\ exec.state \in Terminal =>
          /\ exec'.state \in Terminal
          /\ exec.state \in {"Resolved", "RolledBack"} => exec'.state = exec.state]_vars

\* An executor with work left is never sealed in a state that recover refuses
\* as "stale recovery state": a handler that leaves Interrupted other than by
\* resume keeps interrupted_from, but it ends the work.
WorkIsRecoverable ==
    exec # None /\ exec.bound /\ exec.state \notin Terminal => Accepted(exec)
=============================================================================
