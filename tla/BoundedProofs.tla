--------------------------- MODULE BoundedProofs ---------------------------
(***************************************************************************)
(* Proofs about BoundedExecutor, for all contents, commits, plans, budgets *)
(* and retry policies; and, in the second part, about BoundedTestRunner,   *)
(* which is independent of it, for all limits, pipe sizes, inputs and      *)
(* numbers of retries.                                                     *)
(***************************************************************************)
EXTENDS BoundedExecutor, BoundedTestRunner, TLAPS

\* The states in which work goes on, and those in which the edit was made.
Work == {"Planned", "DryRun", "Edited", "EvidenceFailed", "VerificationPassed"}
Past == {"Edited", "EvidenceFailed", "VerificationPassed", "Resolved"}

\* The state an interruption hides.
Origin(e) == IF e.state = "Interrupted" THEN e.interrupted_from ELSE e.state

\* What an executor says of itself.
Good(e) ==
  /\ e \in Executor
  /\ e.state \notin Terminal => Len(e.failures) <= e.retries
  /\ e.state = "Interrupted" => e.interrupted_from \in Work
  /\ e.state \in Work => e.interrupted_from = None
  /\ Origin(e) \in Past => e.proposal \in Proposal /\ ~e.dry_run
  /\ Origin(e) \in {"VerificationPassed", "Resolved"} => e.verification \in Verdict
  /\ e.state = "Resolved" => e.delivery = e.verification

\* What an executor knows of the workspace and its commits.
Proven(e) ==
  /\ Origin(e) \in {"VerificationPassed", "Resolved"} =>
        /\ workspace.candidate_head = e.verification.head
        /\ commits[e.verification.head] = e.proposal.candidate
  /\ e.state = "Resolved" => workspace.phase # "Aborted"

ExecIsRight ==
  exec # None =>
    /\ Good(exec) /\ Proven(exec)
    /\ Origin(exec) \in Past /\ workspace.phase # "Aborted" =>
          ~workspace.pending /\ workspace.content = exec.proposal.candidate

\* A saved copy is right as long as recover would accept the workspace.
SavedIsRight ==
  saved # None =>
    /\ Good(saved) /\ Proven(saved)
    /\ Origin(saved) \in Past /\ workspace.phase # "Aborted" =>
          /\ ~workspace.pending
          /\ ~workspace.drift => workspace.content = saved.proposal.candidate

\* The executor in memory has gone on from the saved one, and never back.
Descends ==
  exec # None /\ saved # None =>
    /\ Origin(saved) \in Past =>
          Origin(exec) \in Past \cup Terminal /\ exec.proposal = saved.proposal
    /\ Origin(saved) = "VerificationPassed" => Origin(exec) \in Terminal \cup {"VerificationPassed"}
    /\ saved.state = "Resolved" => exec.state = "Resolved"

IInv ==
  /\ workspace \in Workspace /\ commits \in [Sha -> Content]
  /\ ExecIsRight /\ SavedIsRight /\ Descends

LEMMA InitInvariant == Init => IInv
  BY ContractIsValid, NoneIsNoValue
  DEF Init, IInv, Workspace, ExecIsRight, SavedIsRight, Descends

-----------------------------------------------------------------------------
\* What an operation may make of the executor: the work goes on where it was,
\* or is only being planned, or ends without being resolved.
Continues(e, f) ==
  \/ /\ Origin(f) = Origin(e) /\ (f.state = "Resolved" => e.state = "Resolved")
     /\ f.proposal = e.proposal /\ f.verification = e.verification
  \/ Origin(e) \in {"Planned", "DryRun"} /\ Origin(f) \in {"Planned", "DryRun"}
  \/ /\ e.state # "Resolved" /\ f.proposal = e.proposal
     /\ f.state \in Terminal \ {"Resolved"}

LEMMA ExecStep ==
  ASSUME IInv, exec # None, Good(exec'), Continues(exec, exec'), UNCHANGED <<saved, workspace, commits>>
  PROVE  IInv'
<1>1. Good(exec) /\ Proven(exec)
  BY DEF IInv, ExecIsRight
<1>2. CASE /\ Origin(exec') = Origin(exec) /\ (exec'.state = "Resolved" => exec.state = "Resolved")
           /\ exec'.proposal = exec.proposal /\ exec'.verification = exec.verification
  <2>1. ExecIsRight'
    BY <1>1, <1>2 DEF IInv, ExecIsRight, Proven
  <2>2. SavedIsRight'
    BY DEF IInv, SavedIsRight, Proven
  <2>3. exec.state = "Resolved" => exec'.state = "Resolved"
    BY <1>1, <1>2 DEF Good, Origin, Work
  <2>4. Descends'
    BY <1>2, <2>3 DEF IInv, Descends
  <2> QED BY <2>1, <2>2, <2>4 DEF IInv
<1>3. CASE Origin(exec) \in {"Planned", "DryRun"} /\ Origin(exec') \in {"Planned", "DryRun"}
  <2>1. Origin(exec') \notin Past /\ Origin(exec) \notin Past \cup Terminal
    BY <1>3 DEF Past, Terminal
  <2>2. exec'.state # "Resolved" /\ exec.state # "Resolved"
    BY <2>1, <1>3 DEF Origin
  <2>3. ExecIsRight'
    BY <1>3, <2>1, <2>2 DEF ExecIsRight, Proven
  <2>4. SavedIsRight'
    BY DEF IInv, SavedIsRight, Proven
  <2>5. Descends'
    BY <2>1, <2>2, <1>3 DEF IInv, Descends, Past
  <2> QED BY <2>3, <2>4, <2>5 DEF IInv
<1>4. CASE /\ exec.state # "Resolved" /\ exec'.proposal = exec.proposal
           /\ exec'.state \in Terminal \ {"Resolved"}
  <2>1. Origin(exec') = exec'.state /\ Origin(exec') \in Terminal /\ Origin(exec') \notin Past
    BY <1>4 DEF Origin, Terminal, Past
  <2>2. ExecIsRight'
    BY <1>4, <2>1 DEF ExecIsRight, Proven, Past
  <2>3. SavedIsRight'
    BY DEF IInv, SavedIsRight, Proven
  <2>4. Descends'
    BY <1>4, <2>1 DEF IInv, Descends
  <2> QED BY <2>2, <2>3, <2>4 DEF IInv
<1> QED BY <1>2, <1>3, <1>4 DEF Continues

\* retry_failure and reject keep an executor good, and it continues.
LEMMA FailureStep ==
  ASSUME NEW e, Good(e), NEW f \in Failure, e.state \in Work \cup {"Interrupted"}
  PROVE  Good(RetryFailure(e, f)) /\ Continues(e, RetryFailure(e, f))
<1>1. /\ e \in Executor /\ e.failures \in Seq(Failure) /\ e.retries \in 0..RetryLimit
      /\ e.state \in ExecutionState /\ e.state \notin Terminal /\ RetryLimit \in Nat
  BY ContractIsValid DEF Good, Executor, Work, Terminal
<1>2. Append(e.failures, f) \in Seq(Failure) /\ Len(Append(e.failures, f)) = Len(e.failures) + 1
  BY <1>1
<1> DEFINE r == RetryFailure(e, f)
<1>3. /\ r.failures = Append(e.failures, f) /\ r.proposal = e.proposal
      /\ r.interrupted_from = e.interrupted_from /\ r.verification = e.verification
      /\ r.delivery = e.delivery /\ r.dry_run = e.dry_run
      /\ \/ r.state = "Escalated" /\ r.retries = e.retries
         \/ r.state = e.state /\ r.retries = e.retries + 1 /\ ~(e.retries + 1 > RetryLimit)
  BY <1>1 DEF RetryFailure, Executor
<1>4. r.state \in ExecutionState /\ r.retries \in 0..RetryLimit
  BY <1>1, <1>3 DEF ExecutionState
<1>5. r \in Executor
  BY Zenon, <1>1, <1>2, <1>3, <1>4 DEF RetryFailure, Executor
<1> HIDE DEF r
<1>6. CASE r.state = "Escalated"
  BY <1>1, <1>3, <1>5, <1>6 DEF Good, Continues, Origin, Terminal, Work, Past, r
<1>7. CASE r.state = e.state /\ r.retries = e.retries + 1
  <2>1. Len(r.failures) <= r.retries
    BY <1>1, <1>2, <1>3, <1>7 DEF Good
  <2>2. Good(r) /\ Continues(e, r)
    BY <1>3, <1>5, <1>7, <2>1 DEF Good, Continues, Origin
  <2> QED BY <2>2 DEF r
<1> QED BY <1>3, <1>6, <1>7

LEMMA RejectStep ==
  ASSUME NEW e, Good(e), e.state # "Resolved"
  PROVE  Good(Rejected(e)) /\ Continues(e, Rejected(e))
<1>1. e \in Executor /\ e.failures \in Seq(Failure)
  BY DEF Good, Executor
<1>2. [cause |-> "Policy", code |-> "rejected"] \in Failure
  BY DEF Failure, Cause, Code
<1>3. Append(e.failures, [cause |-> "Policy", code |-> "rejected"]) \in Seq(Failure)
  BY <1>1, <1>2
<1>4. /\ Rejected(e) \in Executor /\ Rejected(e).state = "Rejected"
      /\ Rejected(e).proposal = e.proposal
  BY Zenon, <1>1, <1>3 DEF Rejected, Executor, ExecutionState
<1> QED BY <1>4 DEF Good, Continues, Origin, Terminal, Work, Past

-----------------------------------------------------------------------------
\* The operations on the executor alone.
LEMMA FailsStep ==
  ASSUME IInv, exec # None, NEW f \in Failure, exec.state \in Work \cup {"Interrupted"},
         exec' = RetryFailure(exec, f), UNCHANGED <<saved, workspace, commits>>
  PROVE  IInv'
<1>1. Good(exec') /\ Continues(exec, exec')
  BY FailureStep DEF IInv, ExecIsRight
<1> QED BY <1>1, ExecStep

LEMMA RejectedStep == ASSUME IInv, ProposalRejected \/ WorkspaceRejected PROVE IInv'
<1>1. /\ exec # None /\ exec.state # "Resolved" /\ exec' = Rejected(exec)
      /\ UNCHANGED <<saved, workspace, commits>>
  BY DEF ProposalRejected, WorkspaceRejected, In, RollbackStates
<1>2. Good(exec') /\ Continues(exec, exec')
  BY <1>1, RejectStep DEF IInv, ExecIsRight
<1> QED BY <1>1, <1>2, ExecStep

LEMMA CreateStep == ASSUME IInv, NEW dry \in BOOLEAN, Create(dry) PROVE IInv'
<1>1. /\ exec' = New(dry) /\ saved' = None /\ saved = None
      /\ UNCHANGED <<workspace, commits>>
  BY DEF Create
<1>2. /\ New(dry) \in Executor /\ New(dry).state = "Planned" /\ New(dry).interrupted_from = None
      /\ Len(New(dry).failures) = 0 /\ New(dry).retries = 0
  BY ContractIsValid DEF New, Executor, ExecutionState
<1>3. ExecIsRight'
  BY <1>1, <1>2 DEF ExecIsRight, Good, Proven, Origin, Past, Work
<1> QED BY <1>1, <1>3 DEF IInv, SavedIsRight, Descends

\* bind_transaction, propose_replace, charge_budget, interrupt and resume.
PlainStep ==
  \/ bind_transaction \/ interrupt \/ resume
  \/ \E p \in Proposal : propose_replace(p)
  \/ \E tokens, retries \in 0..1 : charge_budget(tokens, retries)

LEMMA PlainStepInvariant == ASSUME IInv, PlainStep PROVE IInv'
<1>1. /\ exec # None /\ exec.state \in Work \cup {"Interrupted"}
      /\ UNCHANGED <<saved, workspace, commits>>
  BY Zenon DEF PlainStep, bind_transaction, interrupt, resume, propose_replace, charge_budget, In,
         Nonterminal, ExecutionState, Terminal, Work
<1>2. Good(exec) /\ exec \in Executor
  BY <1>1 DEF IInv, ExecIsRight, Good
<1>3. CASE bind_transaction
  <2>1. exec' = [exec EXCEPT !.bound = TRUE]
    BY <1>3 DEF bind_transaction
  <2>2. /\ exec' \in Executor /\ exec'.state = exec.state /\ exec'.proposal = exec.proposal
        /\ exec'.interrupted_from = exec.interrupted_from /\ exec'.verification = exec.verification
        /\ exec'.delivery = exec.delivery /\ exec'.dry_run = exec.dry_run
        /\ exec'.retries = exec.retries /\ exec'.failures = exec.failures
    BY Zenon, <1>2, <2>1 DEF Executor
  <2>3. Good(exec') /\ Continues(exec, exec')
    BY <1>2, <2>2 DEF Good, Continues, Origin
  <2> QED BY <1>1, <2>3, ExecStep
<1>4. CASE interrupt
  <2>1. /\ exec' = [exec EXCEPT !.interrupted_from = exec.state, !.state = "Interrupted"]
        /\ exec.state \in Work
    BY <1>1, <1>4 DEF interrupt, In, Nonterminal
  <2>2. /\ exec' \in Executor /\ exec'.state = "Interrupted" /\ exec'.proposal = exec.proposal
        /\ exec'.interrupted_from = exec.state /\ exec'.verification = exec.verification
        /\ exec'.delivery = exec.delivery /\ exec'.dry_run = exec.dry_run
        /\ exec'.retries = exec.retries /\ exec'.failures = exec.failures
    BY Zenon, <1>2, <2>1 DEF Executor, ExecutionState, Work
  <2>3. Good(exec') /\ Continues(exec, exec')
    BY <1>2, <2>1, <2>2 DEF Good, Continues, Origin, Work, Terminal
  <2> QED BY <1>1, <2>3, ExecStep
<1>5. CASE resume
  <2>1. /\ exec' = [exec EXCEPT !.state = exec.interrupted_from, !.interrupted_from = None]
        /\ exec.state = "Interrupted" /\ exec.interrupted_from \in Work
    BY <1>2, <1>5 DEF resume, In, Good
  <2>2. /\ exec' \in Executor /\ exec'.state = exec.interrupted_from
        /\ exec'.proposal = exec.proposal
        /\ exec'.interrupted_from = None /\ exec'.verification = exec.verification
        /\ exec'.delivery = exec.delivery /\ exec'.dry_run = exec.dry_run
        /\ exec'.retries = exec.retries /\ exec'.failures = exec.failures
    BY Zenon, <1>2, <2>1 DEF Executor, ExecutionState, Work
  <2>3. Good(exec') /\ Continues(exec, exec')
    BY <1>2, <2>1, <2>2 DEF Good, Continues, Origin, Work, Terminal
  <2> QED BY <1>1, <2>3, ExecStep
<1>6. CASE \E p \in Proposal : propose_replace(p)
  <2>1. PICK p \in Proposal : propose_replace(p)
    BY <1>6
  <2>2. /\ exec.state = "Planned"
        /\ exec' = [exec EXCEPT !.proposal = p,
                                !.state = IF exec.dry_run THEN "DryRun" ELSE exec.state]
    BY <2>1 DEF propose_replace, In
  <2>3. /\ exec' \in Executor /\ exec'.state \in {"Planned", "DryRun"}
        /\ exec'.interrupted_from = exec.interrupted_from
        /\ exec'.retries = exec.retries /\ exec'.failures = exec.failures
    BY Zenon, <1>2, <2>2 DEF Executor, ExecutionState
  <2>4. Good(exec') /\ Continues(exec, exec')
    BY <1>2, <2>2, <2>3 DEF Good, Continues, Origin, Work, Terminal, Past
  <2> QED BY <1>1, <2>4, ExecStep
<1>7. CASE \E tokens, retries \in 0..1 : charge_budget(tokens, retries)
  <2>1. PICK tokens \in 0..1, retries \in 0..1 : charge_budget(tokens, retries)
    BY <1>7
  <2>2. CASE exec' = [exec EXCEPT !.state = "Escalated"]
    <3>1. exec' \in Executor /\ exec'.state = "Escalated" /\ exec'.proposal = exec.proposal
      BY <1>2, <2>2 DEF Executor, ExecutionState
    <3>2. Good(exec') /\ Continues(exec, exec')
      BY <1>1, <3>1 DEF Good, Continues, Origin, Work, Terminal, Past
    <3> QED BY <1>1, <3>2, ExecStep
  <2>3. CASE /\ ~(exec.tokens + tokens > TokenLimit \/ exec.retries + retries > RetryLimit)
             /\ exec' = [exec EXCEPT !.tokens = exec.tokens + tokens,
                                     !.retries = exec.retries + retries]
    <3>1. exec.tokens \in 0..TokenLimit /\ exec.retries \in 0..RetryLimit /\ exec.failures \in Seq(Failure)
      BY <1>2 DEF Executor
    <3>2. exec.tokens + tokens \in 0..TokenLimit /\ exec.retries + retries \in 0..RetryLimit
      <4>1. /\ ~(exec.tokens + tokens > TokenLimit) /\ ~(exec.retries + retries > RetryLimit)
            /\ RetryLimit \in Nat /\ TokenLimit \in Nat
        BY Zenon, <2>3, ContractIsValid
      <4> QED BY <3>1, <4>1
    <3>3. /\ exec' \in Executor /\ exec'.state = exec.state /\ exec'.proposal = exec.proposal
          /\ exec'.interrupted_from = exec.interrupted_from /\ exec'.verification = exec.verification
          /\ exec'.delivery = exec.delivery /\ exec'.dry_run = exec.dry_run
          /\ exec'.retries = exec.retries + retries /\ exec'.failures = exec.failures
      BY Zenon, <1>2, <2>3, <3>2 DEF Executor
    <3>4. exec.state \notin Terminal => Len(exec'.failures) <= exec'.retries
      BY <1>2, <3>1, <3>2, <3>3 DEF Good
    <3>5. Good(exec') /\ Continues(exec, exec')
      BY <1>2, <3>3, <3>4 DEF Good, Continues, Origin
    <3> QED BY <1>1, <3>5, ExecStep
  <2> QED BY <2>1, <2>2, <2>3 DEF charge_budget
<1> QED BY <1>3, <1>4, <1>5, <1>6, <1>7 DEF PlainStep

-----------------------------------------------------------------------------
\* The operations on the workspace.

\* While an executor is planned, no copy of it claims an edit, and the
\* contents of the workspace may change.
LEMMA DoubtStep ==
  ASSUME IInv, exec # None, exec.state = "Planned", UNCHANGED <<saved, commits>>,
         workspace' \in Workspace,
         exec' # None => Good(exec') /\ exec'.state \in {"Planned", "Escalated"}
  PROVE  IInv'
<1>1. Origin(exec) = "Planned"
  BY DEF Origin
<1>2. saved # None => Good(saved) /\ Origin(saved) \notin Past /\ saved.state # "Resolved"
  BY <1>1 DEF IInv, Descends, SavedIsRight, Past, Terminal
<1>3. exec' # None => Origin(exec') \notin Past /\ exec'.state # "Resolved"
  BY DEF Origin, Past
<1>4. ExecIsRight'
  BY <1>3 DEF ExecIsRight, Proven, Past
<1>5. SavedIsRight'
  BY <1>2 DEF SavedIsRight, Proven, Past
<1>6. Descends'
  BY <1>2 DEF Descends, Past
<1> QED BY <1>4, <1>5, <1>6 DEF IInv

LEMMA ApplyStep == ASSUME IInv, apply_proposal PROVE IInv'
<1>1. /\ exec # None /\ exec.state = "Planned" /\ ~exec.dry_run /\ exec.proposal # None
      /\ ~workspace.pending /\ workspace.phase = "Active" /\ UNCHANGED <<saved, commits>>
      /\ workspace' = [workspace EXCEPT !.content = exec.proposal.candidate]
      /\ exec' = [exec EXCEPT !.state = "Edited", !.bound = TRUE]
  BY DEF apply_proposal, CanApply, In, Valid
<1>2. /\ Good(exec) /\ exec \in Executor /\ exec.proposal \in Proposal
      /\ workspace \in Workspace /\ exec.proposal.candidate \in Content
  BY <1>1 DEF IInv, ExecIsRight, Good, Executor, Proposal
<1>3. /\ exec' \in Executor /\ exec'.state = "Edited" /\ exec'.proposal = exec.proposal
      /\ exec'.interrupted_from = exec.interrupted_from /\ ~exec'.dry_run
      /\ exec'.retries = exec.retries /\ exec'.failures = exec.failures
  BY Zenon, <1>1, <1>2 DEF Executor, ExecutionState
<1>4. Good(exec')
  BY <1>1, <1>2, <1>3 DEF Good, Origin, Work, Terminal, Past
<1>5. /\ workspace' \in Workspace /\ ~workspace'.pending
      /\ workspace'.content = exec.proposal.candidate
  BY <1>1, <1>2 DEF Workspace
<1>6. saved # None => Good(saved) /\ Origin(saved) \notin Past /\ saved.state # "Resolved"
  BY <1>1 DEF IInv, Descends, SavedIsRight, Past, Terminal, Origin
<1>7. ExecIsRight'
  BY <1>3, <1>4, <1>5 DEF ExecIsRight, Proven, Origin
<1>8. SavedIsRight' /\ Descends'
  BY <1>1, <1>6 DEF SavedIsRight, Descends, Proven, Past
<1> QED BY <1>1, <1>5, <1>7, <1>8 DEF IInv

LEMMA ApplyFailsStep == ASSUME IInv, ApplyFails PROVE IInv'
<1>1. /\ exec # None /\ exec.state = "Planned" /\ UNCHANGED <<saved, commits>>
      /\ exec.proposal # None
      /\ \E f \in Failure : exec' = RetryFailure(exec, f)
  BY DEF ApplyFails, CanApply, In, Fails, Failure, Cause, Code
<1>2. Good(exec) /\ exec.proposal \in Proposal /\ workspace \in Workspace
  BY <1>1 DEF IInv, ExecIsRight, Good, Executor
<1>3. PICK f \in Failure : exec' = RetryFailure(exec, f)
  BY <1>1
<1>4. Good(exec') /\ exec'.state \in {"Planned", "Escalated"}
  <2>1. Good(exec')
    BY <1>1, <1>2, <1>3, FailureStep DEF Work
  <2>2. exec'.state \in {"Planned", "Escalated"}
    BY <1>1, <1>2, <1>3 DEF RetryFailure, Good, Executor
  <2> QED BY <2>1, <2>2
<1>5. workspace' \in Workspace
  <2>1. CASE UNCHANGED workspace
    BY <1>2, <2>1
  <2>2. CASE WriteInDoubt
    BY Zenon, <1>2, <2>2 DEF WriteInDoubt, Workspace, Proposal
  <2> QED BY <2>1, <2>2 DEF ApplyFails
<1> QED BY <1>1, <1>4, <1>5, DoubtStep

\* A head is authorised only from Edited, so the copy that was saved has no
\* verification yet, and its edit is the one of the executor in memory.
LEMMA AuthorizeStep ==
  ASSUME IInv, exec # None, exec.state = "Edited", NEW sha \in Sha, workspace' = Authorized(sha),
         UNCHANGED <<saved, commits>>, Good(exec'), exec'.proposal = exec.proposal,
         exec'.state \in {"Edited", "EvidenceFailed", "VerificationPassed", "Escalated"},
         exec'.state = "VerificationPassed" =>
           exec'.verification.head = sha /\ commits[sha] = exec.proposal.candidate
  PROVE  IInv'
<1>1. Origin(exec) = "Edited" /\ Origin(exec) \in Past /\ Origin(exec) \notin Terminal
  BY DEF Origin, Past, Terminal
<1>2. /\ workspace' \in Workspace /\ workspace'.candidate_head = sha /\ ~workspace'.drift
      /\ workspace'.phase = workspace.phase /\ workspace'.content = workspace.content
      /\ workspace'.pending = workspace.pending
  BY Zenon DEF IInv, Authorized, Workspace
<1>3. workspace.phase # "Aborted" => ~workspace.pending /\ workspace.content = exec.proposal.candidate
  BY <1>1 DEF IInv, ExecIsRight
<1>4. ExecIsRight'
  BY <1>2, <1>3 DEF ExecIsRight, Proven, Origin
<1>5. saved # None => /\ Good(saved) /\ Origin(saved) \notin {"VerificationPassed", "Resolved"}
                      /\ saved.state # "Resolved"
                      /\ Origin(saved) \in Past => exec.proposal = saved.proposal
  <2>1. saved # None => (Origin(saved) = "Resolved" => saved.state = "Resolved")
    BY DEF IInv, SavedIsRight, Good, Origin, Work
  <2> QED BY <1>1, <2>1 DEF IInv, SavedIsRight, Descends
<1>6. SavedIsRight'
  BY <1>2, <1>3, <1>5 DEF SavedIsRight, Proven
<1>7. Origin(exec') = exec'.state /\ Origin(exec') \in Past \cup Terminal
  BY DEF Origin, Past, Terminal
<1>8. Descends'
  BY <1>5, <1>7 DEF Descends
<1> QED BY <1>2, <1>4, <1>6, <1>8 DEF IInv

LEMMA VerifyStep ==
  ASSUME IInv, NEW v \in Verdict, NEW status \in {"EvidenceFailed", "VerificationPassed", "Escalated"},
         submit_verification(v, status)
  PROVE  IInv'
<1>1. /\ exec # None /\ exec.state = "Edited" /\ v.head \in Sha /\ UNCHANGED <<saved, commits>>
      /\ workspace' = Authorized(v.head) /\ commits[v.head] = exec.proposal.candidate
      /\ exec' = [exec EXCEPT !.verification = v, !.state = status]
  BY DEF submit_verification, CanVerify, In, ContainsCandidate, Verdict
<1>2. Good(exec) /\ exec \in Executor
  BY <1>1 DEF IInv, ExecIsRight, Good
<1>3. /\ exec' \in Executor /\ exec'.state = status /\ exec'.proposal = exec.proposal
      /\ exec'.verification = v /\ exec'.dry_run = exec.dry_run
      /\ exec'.interrupted_from = exec.interrupted_from
      /\ exec'.retries = exec.retries /\ exec'.failures = exec.failures
  BY Zenon, <1>1, <1>2 DEF Executor, ExecutionState
<1>4. Good(exec')
  BY <1>1, <1>2, <1>3 DEF Good, Origin, Work, Terminal, Past
<1> QED BY <1>1, <1>3, <1>4, AuthorizeStep

LEMMA VerifyFailsStep ==
  ASSUME IInv, VerificationFails \/ \E sha \in Sha : ProofFails(sha)
  PROVE  IInv'
<1>1. /\ exec # None /\ exec.state = "Edited" /\ UNCHANGED <<saved, commits>>
      /\ \E f \in Failure : exec' = RetryFailure(exec, f)
      /\ UNCHANGED workspace \/ \E sha \in Sha : workspace' = Authorized(sha)
  BY DEF VerificationFails, ProofFails, CanVerify, In, Fails, Failure, Cause, Code
<1>2. Good(exec)
  BY <1>1 DEF IInv, ExecIsRight
<1>3. PICK f \in Failure : exec' = RetryFailure(exec, f)
  BY <1>1
<1>4. CASE UNCHANGED workspace
  BY Zenon, <1>1, <1>3, <1>4, FailsStep DEF Work
<1>5. CASE \E sha \in Sha : workspace' = Authorized(sha)
  <2>1. PICK sha \in Sha : workspace' = Authorized(sha)
    BY <1>5
  <2>2. Good(exec')
    BY <1>1, <1>2, <1>3, FailureStep DEF Work
  <2>3. exec'.state \in {"Edited", "Escalated"} /\ exec'.proposal = exec.proposal
    BY <1>1, <1>2, <1>3 DEF RetryFailure, Good, Executor
  <2> QED BY <1>1, <2>1, <2>2, <2>3, AuthorizeStep
<1> QED BY <1>1, <1>4, <1>5

LEMMA DeliveryStep == ASSUME IInv, NEW v \in Verdict, submit_delivery(v) PROVE IInv'
<1>1. /\ exec # None /\ exec.state = "VerificationPassed" /\ workspace.phase = "Active"
      /\ UNCHANGED <<saved, workspace, commits>>
  BY DEF submit_delivery, In, Valid
<1>2. Good(exec) /\ exec \in Executor /\ Origin(exec) = "VerificationPassed" /\ Proven(exec)
  BY <1>1 DEF IInv, ExecIsRight, Good, Origin
<1>3. CASE v = exec.verification /\ exec' = [exec EXCEPT !.delivery = v, !.state = "Resolved"]
  <2>1. /\ exec' \in Executor /\ exec'.state = "Resolved" /\ exec'.proposal = exec.proposal
        /\ exec'.verification = v /\ exec'.delivery = v /\ exec'.dry_run = exec.dry_run
    BY Zenon, <1>2, <1>3 DEF Executor, ExecutionState
  <2>2. Good(exec') /\ Origin(exec') = "Resolved"
    BY Zenon, <1>2, <2>1 DEF Good, Origin, Work, Terminal, Past
  <2>3. ExecIsRight'
    BY <1>1, <1>2, <1>3, <2>1, <2>2 DEF IInv, ExecIsRight, Proven, Past
  <2>4. Descends'
    BY <1>1, <1>2, <2>1, <2>2 DEF IInv, Descends, Past, Terminal
  <2> QED BY <1>1, <2>3, <2>4 DEF IInv, SavedIsRight, Proven
<1>4. CASE \E f \in Failure : exec' = RetryFailure(exec, f)
  BY <1>1, <1>4, FailsStep DEF Work
<1>5. \/ v = exec.verification /\ exec' = [exec EXCEPT !.delivery = v, !.state = "Resolved"]
      \/ \E f \in Failure : exec' = RetryFailure(exec, f)
  BY DEF submit_delivery, Fails, Failure, Cause, Code
<1> QED BY <1>3, <1>4, <1>5

LEMMA RollbackStep == ASSUME IInv, rollback PROVE IInv'
<1>1. /\ exec # None /\ exec.state # "Resolved" /\ UNCHANGED <<saved, commits>>
      /\ base \in Content /\ workspace \in Workspace
  BY ContractIsValid DEF IInv, rollback, In, RollbackStates
<1>2. Good(exec) /\ exec \in Executor
  BY <1>1 DEF IInv, ExecIsRight, Good
<1>3. PICK end \in {"RolledBack", "Escalated"} : exec' = [exec EXCEPT !.state = end]
  BY DEF rollback
<1>4. /\ exec' \in Executor /\ exec'.state = end /\ exec'.proposal = exec.proposal
      /\ Origin(exec') = end /\ end \in Terminal /\ end \notin Past
  BY <1>2, <1>3 DEF Executor, ExecutionState, Terminal, Past, Origin
<1>5. Good(exec') /\ Continues(exec, exec')
  BY <1>1, <1>4 DEF Good, Continues, Work, Past
<1>6. CASE UNCHANGED workspace
  BY <1>1, <1>5, <1>6, ExecStep
<1>7. CASE ~UNCHANGED workspace
  <2>1. /\ workspace' \in Workspace /\ workspace'.candidate_head = workspace.candidate_head
        /\ \/ workspace'.phase = "Aborted"
           \/ /\ workspace'.drift /\ workspace'.phase = workspace.phase
              /\ workspace'.pending = workspace.pending
    BY Zenon, <1>1, <1>7 DEF rollback, Workspace
  <2>2. ExecIsRight'
    BY <1>4, <1>5 DEF ExecIsRight, Proven, Past
  <2>3. saved # None => saved.state # "Resolved"
    BY <1>1 DEF IInv, Descends
  <2>4. SavedIsRight'
    BY <1>1, <2>1, <2>3 DEF IInv, SavedIsRight, Proven
  <2>5. Descends'
    BY <1>1, <1>4, <2>3 DEF IInv, Descends
  <2> QED BY <1>1, <2>1, <2>2, <2>4, <2>5 DEF IInv
<1> QED BY <1>6, <1>7

-----------------------------------------------------------------------------
\* The caller.
LEMMA SaveStep == ASSUME IInv, Save PROVE IInv'
<1>1. exec # None /\ saved' = exec /\ UNCHANGED <<exec, workspace, commits>>
  BY DEF Save
<1> QED BY <1>1 DEF IInv, ExecIsRight, SavedIsRight, Descends, Proven

LEMMA CrashStep == ASSUME IInv, Crash PROVE IInv'
<1>1. exec # None /\ exec' = None /\ UNCHANGED <<saved, commits>>
  BY Zenon DEF Crash
<1>2. CASE UNCHANGED workspace
  BY <1>1, <1>2 DEF IInv, ExecIsRight, SavedIsRight, Descends, Proven
<1>3. CASE CanApply /\ WriteInDoubt
  <2>1. exec.state = "Planned" /\ exec.proposal \in Proposal /\ workspace \in Workspace
    BY <1>1, <1>3 DEF CanApply, In, IInv, ExecIsRight, Good, Executor
  <2>2. workspace' \in Workspace
    BY Zenon, <1>3, <2>1 DEF WriteInDoubt, Workspace, Proposal
  <2> QED BY Zenon, <1>1, <2>1, <2>2, DoubtStep
<1> QED BY <1>2, <1>3 DEF Crash

\* The copy was right as long as the workspace is one that recover accepts.
LEMMA RecoverStep == ASSUME IInv, recover PROVE IInv'
<1>1. /\ exec = None /\ saved # None /\ exec' = saved /\ (workspace.pending \/ ~workspace.drift)
      /\ UNCHANGED <<saved, workspace, commits>>
  BY DEF recover
<1>2. ExecIsRight'
  BY Zenon, <1>1 DEF IInv, ExecIsRight, SavedIsRight, Proven
<1> QED BY <1>1, <1>2 DEF IInv, SavedIsRight, Descends, Proven

LEMMA PhaseStep == ASSUME IInv, WorkspaceInterrupted \/ WorkspaceResumed PROVE IInv'
<1>1. /\ UNCHANGED <<exec, saved, commits>> /\ workspace \in Workspace
      /\ workspace.phase # "Aborted"
      /\ \E ph \in {"Active", "Interrupted"} : workspace' = [workspace EXCEPT !.phase = ph]
  BY DEF IInv, WorkspaceInterrupted, WorkspaceResumed
<1>2. /\ workspace' \in Workspace /\ workspace'.candidate_head = workspace.candidate_head
      /\ workspace'.phase # "Aborted" /\ workspace'.pending = workspace.pending
      /\ workspace'.drift = workspace.drift /\ workspace'.content = workspace.content
  BY Zenon, <1>1 DEF Workspace
<1> QED BY <1>1, <1>2 DEF IInv, ExecIsRight, SavedIsRight, Descends, Proven

LEMMA StutterStep == ASSUME IInv, UNCHANGED vars PROVE IInv'
  BY DEF vars, IInv, ExecIsRight, SavedIsRight, Descends, Proven

LEMMA ReportStep == ASSUME IInv, NEW f \in Report, retry_failure(f) PROVE IInv'
<1>1. /\ exec # None /\ exec.state \in Work \cup {"Interrupted"} /\ f \in Failure
      /\ exec' = RetryFailure(exec, f) /\ UNCHANGED <<saved, workspace, commits>>
  BY DEF retry_failure, In, Nonterminal, ExecutionState, Terminal, Work, Failure
<1> QED BY <1>1, FailsStep

LEMMA StepInvariant == IInv /\ [Next]_vars => IInv'
<1> SUFFICES ASSUME IInv, [Next]_vars PROVE IInv'
  OBVIOUS
<1>1. CASE \/ \E dry \in BOOLEAN : Create(dry)
           \/ ProposalRejected \/ WorkspaceRejected \/ \E f \in Report : retry_failure(f)
  BY <1>1, CreateStep, RejectedStep, ReportStep
<1>2. CASE PlainStep
  BY <1>2, PlainStepInvariant
<1>3. CASE apply_proposal \/ ApplyFails \/ rollback
  BY <1>3, ApplyStep, ApplyFailsStep, RollbackStep
<1>4. CASE \/ \E v \in Verdict, status \in {"EvidenceFailed", "VerificationPassed", "Escalated"} :
                submit_verification(v, status)
           \/ VerificationFails \/ \E sha \in Sha : ProofFails(sha)
           \/ \E v \in Verdict : submit_delivery(v)
  BY <1>4, VerifyStep, VerifyFailsStep, DeliveryStep
<1>5. CASE Save \/ Crash \/ recover \/ WorkspaceInterrupted \/ WorkspaceResumed \/ UNCHANGED vars
  BY <1>5, SaveStep, CrashStep, RecoverStep, PhaseStep, StutterStep
<1> QED BY <1>1, <1>2, <1>3, <1>4, <1>5 DEF Next, PlainStep

\* What the executor and its saved copy know of the workspace stays true through
\* every operation, loss and recovery.
THEOREM Invariance == Spec => []IInv
  BY InitInvariant, StepInvariant, PTL DEF Spec

\* submit_delivery: a resolved executor has the complete proof of it, whatever
\* was retried, interrupted, lost and recovered before.
THEOREM ResolvedHasProof == Spec => []ResolvedIsProven
<1>1. IInv => ResolvedIsProven
  <2> SUFFICES ASSUME IInv, exec # None, exec.state = "Resolved"
               PROVE  /\ exec.delivery # None /\ exec.delivery = exec.verification
                      /\ workspace.candidate_head = exec.verification.head
                      /\ commits[workspace.candidate_head] = exec.proposal.candidate
                      /\ workspace.content = exec.proposal.candidate
                      /\ ~exec.dry_run /\ workspace.phase # "Aborted"
    BY DEF ResolvedIsProven
  <2>1. Origin(exec) = "Resolved" /\ Good(exec) /\ Proven(exec)
    BY DEF Origin, IInv, ExecIsRight
  <2>2. exec.delivery = exec.verification /\ exec.verification # None /\ ~exec.dry_run
    BY <2>1, NoneIsNoValue DEF Good, Past
  <2> QED BY <2>1, <2>2 DEF IInv, ExecIsRight, Proven, Past
<1> QED BY <1>1, Invariance, PTL

\* apply_proposal: an executor past Planned is right about its edit, also after
\* an older copy was recovered over a newer workspace.
THEOREM EditIsThere == Spec => []EditedIsThere
<1>1. IInv => EditedIsThere
  BY DEF IInv, ExecIsRight, EditedIsThere, Past, Origin
<1> QED BY <1>1, Invariance, PTL

\* retry_failure: work goes on only while every failure has been paid for.
THEOREM WorkIsPaid == Spec => []RetriesArePaid
<1>1. IInv => RetriesArePaid
  BY DEF IInv, ExecIsRight, Good, RetriesArePaid
<1> QED BY <1>1, Invariance, PTL

\* recover: an executor with work left, saved now, is one that is accepted later.
THEOREM WorkSurvives == Spec => []WorkIsRecoverable
<1>1. IInv => WorkIsRecoverable
  <2> SUFFICES ASSUME IInv, exec # None, exec.bound, exec.state \notin Terminal
               PROVE  Accepted(exec)
    BY DEF WorkIsRecoverable
  <2>1. Good(exec) /\ exec.state \in Work \cup {"Interrupted"}
    BY DEF IInv, ExecIsRight, Good, Executor, ExecutionState, Terminal, Work
  <2> QED BY <2>1, NoneIsNoValue DEF Good, Accepted, Work, ExecutionState
<1> QED BY <1>1, Invariance, PTL

\* Every variable has its type: charge_budget and retry_failure never take more
\* tokens or retries than the contract grants.
THEOREM TypesHold == Spec => []TypeOK
<1>1. IInv => TypeOK
  BY DEF IInv, ExecIsRight, SavedIsRight, Good, TypeOK
<1> QED BY <1>1, Invariance, PTL

\* ensure_nonterminal: nothing but a rejection or a rollback touches a terminal
\* executor, and neither touches a resolved or rolled back one.
THEOREM EndIsEnd == Spec => TerminalIsTerminal
<1>1. IInv /\ [Next]_vars =>
        [exec # None /\ exec' # None /\ exec.state \in Terminal =>
           /\ exec'.state \in Terminal
           /\ exec.state \in {"Resolved", "RolledBack"} => exec'.state = exec.state]_vars
  <2> SUFFICES ASSUME IInv, Next, exec # None, exec' # None, exec.state \in Terminal
               PROVE  /\ exec'.state \in Terminal
                      /\ exec.state \in {"Resolved", "RolledBack"} => exec'.state = exec.state
    OBVIOUS
  <2>1. exec \in Executor /\ exec.failures \in Seq(Failure)
    BY DEF IInv, ExecIsRight, Good, Executor
  <2>2. WorkspaceRejected \/ rollback \/ UNCHANGED exec
    BY Zenon DEF Next, Create, bind_transaction, ProposalRejected, propose_replace, charge_budget,
           retry_failure, interrupt, resume, apply_proposal, ApplyFails, CanApply, CanVerify,
           submit_verification, VerificationFails, ProofFails, submit_delivery, Save, Crash, recover,
           WorkspaceInterrupted, WorkspaceResumed, In, Terminal, Nonterminal
  <2>3. CASE WorkspaceRejected
    BY <2>1, <2>3 DEF WorkspaceRejected, Rejected, In, RollbackStates, Terminal, Executor
  <2>4. CASE rollback
    BY <2>1, <2>4 DEF rollback, In, RollbackStates, Terminal, Executor
  <2> QED BY <2>2, <2>3, <2>4
<1> QED BY <1>1, Invariance, PTL DEF Spec, TerminalIsTerminal

-----------------------------------------------------------------------------
(* The bounded test runner: what the two capture threads keep, what an     *)
(* attempt that is ok has returned, and what every attempt leaves behind.  *)
(* The data is accounted for without looking at the runner; the runner's   *)
(* label says which threads it has joined.                                 *)

ProcessState == {"none", "running", "zombie", "gone"}
Thread == [got : Nat, captured : Nat, done : BOOLEAN]
Input == [left : Nat, pipe : Nat, writer : {"writing", "done", "broken"}]

\* The processes that hold a pipe are running.
Holders ==
  /\ state \in [Process -> ProcessState] /\ open \in [Channel -> SUBSET Process]
  /\ \A c \in Channel : \A p \in open[c] : state[p] = "running"

\* What was written is counted, read or still in its pipe, and as long as the
\* limit is not exceeded, what was counted is kept.
Flow ==
  /\ pipe \in [Stream -> Nat] /\ written \in [Stream -> Nat]
  /\ reader \in [Stream -> Thread] /\ bytes \in Nat
  /\ bytes + reader["stdout"].got + reader["stderr"].got + Total(pipe) = Total(written)
  /\ \A s \in Stream : bytes <= MaxOutputBytes =>
        reader[s].captured + reader[s].got + pipe[s] = written[s]
  /\ CapturesTheLimit
  /\ \A s \in Stream : reader[s].done => pipe[s] = 0 /\ reader[s].got = 0 /\ open[s] = {}

Fed ==
  /\ stdin \in Input
  /\ stdin.writer = "done" => stdin.left = 0
  /\ stdin.writer = "broken" => stdin.left > 0 /\ mode = "stdin" /\ open["stdin"] = {}
  /\ stdin.writer = "writing" => mode = "stdin"

Data == Holders /\ Flow /\ Fed

\* What the runner has seen at its label, and why it has a result.
Joined(s) == pc \in (IF s = "stdout" THEN {"join_stderr", "join_stdin", "failed", "over"}
                                     ELSE {"join_stdin", "failed", "over"})
Control ==
  /\ pc \in Labels
  /\ \A s \in Stream : Joined(s) => reader[s].done
  /\ pc \in {"join_stdout", "join_stderr", "join_stdin", "failed", "over"} => state["child"] = "gone"
  /\ result = "ok" => /\ pc \in {"spawn", "failed", "over"}
                      /\ pc # "spawn" => bytes <= MaxOutputBytes /\ stdin.left = 0
  /\ pc # "spawn" => /\ result = "output_limit" => bytes > MaxOutputBytes
                     /\ result = "timed_out" => expired
                     /\ result = "broken_pipe" => stdin.writer = "broken"

TestIInv == Data /\ Control

LEMMA Streams == Stream \subseteq Channel /\ "stdin" \in Channel
  BY DEF Stream, Channel

LEMMA LimitIsNat ==
  /\ MaxOutputBytes \in Nat /\ InputSize \in Nat /\ Retries \in Nat /\ MaxWritten \in Nat
  /\ PipeSize \in Nat /\ PipeSize > 0 /\ InputRoom \in Nat /\ InputRoom > 0
  BY Limits

LEMMA FreshData ==
  ASSUME pipe = Nothing, written = Nothing,
         reader = [s \in Stream |-> Idle], bytes = 0
  PROVE  Flow
  BY LimitIsNat
  DEF Flow, Nothing, Idle, Thread, Stream, Total, CapturesTheLimit,
      Least

LEMMA TestInitInvariant == TestInit => TestIInv
<1> SUFFICES ASSUME TestInit PROVE TestIInv
  OBVIOUS
<1>1. Holders
  BY DEF TestInit, Holders, Closed, Process, ProcessState, Channel
<1>2. Flow
  BY FreshData DEF TestInit
<1>3. Fed
  BY DEF TestInit, Fed, Input
<1>4. Control
  BY DEF TestInit, Control, Labels, Joined
<1> QED BY <1>1, <1>2, <1>3, <1>4 DEF TestIInv, Data

\* Processes end or close their pipes, and nobody gets hold of a closed one.
Closing ==
  /\ state' \in [Process -> ProcessState] /\ open' \in [Channel -> SUBSET Process]
  /\ \A c \in Channel : \A q \in open'[c] : state'[q] = "running"
  /\ \A c \in Channel : open[c] = {} => open'[c] = {}

\* Nothing else happens to the data.
LEMMA DataKept ==
  ASSUME Data, UNCHANGED <<mode, pipe, written, reader, bytes, stdin>>, Closing
  PROVE  Data'
<1>1. Holders'
  BY DEF Data, Holders, Closing
<1>2. Flow'
  BY Streams DEF Data, Flow, CapturesTheLimit, Total, Closing
<1>3. Fed'
  BY Streams DEF Data, Fed, Closing
<1> QED BY <1>1, <1>2, <1>3 DEF Data

\* Steps of the runner by which a process may end: the labels that need a join
\* are reached from those that made it, and a new result has its cause.
LEMMA RunnerStep ==
  ASSUME TestIInv, UNCHANGED <<mode, pipe, written, reader, bytes, stdin, expired>>,
         Closing, state["child"] = "gone" => state'["child"] = "gone",
         pc # "spawn", pc' \in Labels,
         \A s \in Stream : Joined(s)' => reader[s].done,
         pc' \in {"join_stdout", "join_stderr", "join_stdin", "failed", "over"}
           => state'["child"] = "gone",
         result' # result => /\ result' = "ok" => /\ pc' \in {"failed", "over"}
                                                 /\ bytes <= MaxOutputBytes /\ stdin.left = 0
                             /\ result' = "output_limit" => bytes > MaxOutputBytes
                             /\ result' = "timed_out" => expired
                             /\ result' = "broken_pipe" => stdin.writer = "broken",
         pc \in {"failed", "over"} => pc' \in {"spawn", "failed", "over"}
  PROVE  TestIInv'
<1>1. Data'
  BY DataKept DEF TestIInv
<1>2. Control'
  BY DEF TestIInv, Control
<1> QED BY Zenon, <1>1, <1>2 DEF TestIInv

LEMMA SpawnStep == ASSUME TestIInv, Spawn PROVE TestIInv'
<1>1. Holders'
  BY DEF Spawn, Holders, Process, ProcessState, Channel
<1>2. Flow'
  BY LimitIsNat
  DEF Spawn, Flow, Nothing, Idle, Thread, Stream, Total,
      CapturesTheLimit, Least
<1>3. Fed'
  BY Zenon, LimitIsNat DEF Spawn, Fed, Input
<1>4. Control'
  BY DEF Spawn, Control, Labels, Joined
<1> QED BY Zenon, <1>1, <1>2, <1>3, <1>4 DEF TestIInv, Data

\* Goto and Stop: nothing but the label and the result.
LEMMA LabelStep ==
  ASSUME TestIInv, RunnerAlone, pc \notin {"spawn", "failed", "over"},
         pc' \in Labels,
         \A s \in Stream : Joined(s)' => reader[s].done,
         pc' \in {"join_stdout", "join_stderr", "join_stdin", "failed", "over"}
           => state["child"] = "gone",
         result' # result => /\ result' = "ok" => /\ pc' \in {"failed", "over"}
                                                 /\ bytes <= MaxOutputBytes /\ stdin.left = 0
                             /\ result' = "output_limit" => bytes > MaxOutputBytes
                             /\ result' = "timed_out" => expired
                             /\ result' = "broken_pipe" => stdin.writer = "broken"
  PROVE  TestIInv'
<1>1. UNCHANGED <<mode, pipe, written, reader, bytes, stdin, expired, state, open>>
  BY DEF RunnerAlone, timeVars, programVars, threadVars
<1>2. Holders
  BY DEF TestIInv, Data
<1>3. Closing
  BY <1>1, <1>2 DEF Holders, Closing
<1> QED BY <1>1, <1>3, RunnerStep

\* The turns of the polling loops that do not find the child's exit.
Turn ==
  \/ PollOutput \/ PollDeadline \/ HttpDeadline
  \/ HttpConnect \/ HttpRequest \/ HttpResponse
  \/ pc = "poll_wait" /\ Goto("poll_deadline")
  \/ pc = "http_wait" /\ Goto("http_connect")
  \/ pc = "grace" /\ Goto("kill")

LEMMA TurnStep == ASSUME TestIInv, Turn PROVE TestIInv'
<1>1. /\ RunnerAlone /\ pc \notin {"spawn", "failed", "over"}
      /\ pc' \in {"poll_output", "poll_wait", "poll_deadline", "http_deadline", "http_wait",
                  "http_connect", "http_request", "http_response", "term", "kill"}
  BY DEF Turn, PollOutput, PollDeadline, HttpDeadline, HttpConnect,
      HttpRequest, HttpResponse,
         Goto, Stop
<1>2. \/ result' = result \/ result' = "http_error"
      \/ result' = "output_limit" /\ bytes > MaxOutputBytes
      \/ result' = "timed_out" /\ expired
  BY DEF Turn, PollOutput, PollDeadline, HttpDeadline, HttpConnect,
      HttpRequest, HttpResponse,
         Goto, Stop, OutputExceeded
<1>3. \A s \in Stream : ~Joined(s)'
  BY <1>1 DEF Joined
<1>4. pc' \in Labels /\ pc' \notin {"join_stdout", "join_stderr", "join_stdin", "failed", "over"}
  BY Zenon, <1>1 DEF Labels
<1> QED BY Zenon, <1>1, <1>2, <1>3, <1>4, LabelStep

\* The turns that reap the child.
Reaping ==
  /\ Exited /\ Reap /\ pc \in {"poll_wait", "http_wait", "grace", "wait"}
  /\ pc' \in {"join_stdout", "poll_output"}
  /\ UNCHANGED <<mode, result, expired, open, pipe, written, reader, bytes, stdin>>

LEMMA ReapStep == ASSUME TestIInv, Reaping PROVE TestIInv'
<1>1. Closing /\ state'["child"] = "gone"
  BY DEF TestIInv, Data, Holders, Reaping, Exited, Reap, Process, ProcessState, Closing
<1>2. pc # "spawn" /\ pc' \in Labels /\ (\A s \in Stream : ~Joined(s)')
  BY Zenon DEF Reaping, Labels, Joined
<1> QED BY <1>1, <1>2, RunnerStep DEF Reaping

\* A signal ends running processes only, and takes their pipe ends with them.
LEMMA SignalStep ==
  ASSUME TestIInv, NEW ignoring \in SUBSET Process, Signalled(ignoring),
         pc \in {"term", "kill"},
         pc' \in {"grace", "wait"}
  PROVE  TestIInv'
<1> DEFINE hit == {p \in group \ ignoring : Alive(p)}
<1>1. /\ state' = [p \in Process |-> IF p \notin hit THEN state[p]
                                     ELSE IF p = "child" THEN "zombie" ELSE "gone"]
      /\ open' = [c \in Channel |-> open[c] \ hit]
      /\ UNCHANGED <<mode, pipe, written, reader, bytes, stdin, expired, result>>
  BY DEF Signalled, timeVars, threadVars
<1>2. Holders /\ \A p \in hit : state[p] = "running"
  BY DEF TestIInv, Data, Alive
<1> HIDE DEF hit
<1>3. Closing /\ (state["child"] = "gone" => state'["child"] = "gone")
  BY <1>1, <1>2 DEF Holders, Process, ProcessState, Closing
<1>4. pc # "spawn" /\ pc' \in Labels /\ (\A s \in Stream : ~Joined(s)')
  BY DEF Labels, Joined
<1> QED BY Zenon, <1>1, <1>3, <1>4, RunnerStep

LEMMA JoinStep == ASSUME TestIInv, Join PROVE TestIInv'
<1>1. /\ RunnerAlone /\ result' = result
      /\ \/ pc = "join_stdout" /\ pc' = "join_stderr" /\ reader["stdout"].done
         \/ pc = "join_stderr" /\ pc' = "join_stdin" /\ reader["stderr"].done
  BY DEF Join, Goto
<1>2. \A s \in Stream : Joined(s)' => reader[s].done
  BY <1>1 DEF TestIInv, Control, Joined, Stream
<1>3. state["child"] = "gone" /\ pc' \in Labels /\ pc \notin {"spawn", "failed", "over"}
  BY <1>1 DEF TestIInv, Control, Labels
<1> QED BY Zenon, <1>1, <1>2, <1>3, LabelStep

LEMMA EndStep == ASSUME TestIInv, End PROVE TestIInv'
<1>1. /\ RunnerAlone /\ pc = "join_stdin" /\ pc' \in {"failed", "over"}
      /\ result' = TestVerdict /\ stdin.writer # "writing"
  BY DEF End
<1>2. result # "ok" /\ state["child"] = "gone" /\ (\A s \in Stream : reader[s].done)
  BY <1>1 DEF TestIInv, Control, Joined, Stream
<1>3. bytes \in Nat /\ Fed
  BY DEF TestIInv, Data, Flow
<1>4. result' # result => /\ result' = "ok" => bytes <= MaxOutputBytes /\ stdin.left = 0
                          /\ result' = "output_limit" => bytes > MaxOutputBytes
                          /\ result' # "timed_out"
                          /\ result' = "broken_pipe" => stdin.writer = "broken"
  BY <1>1, <1>2, <1>3, LimitIsNat DEF TestVerdict, OutputExceeded, Fed, Input
<1>5. pc' \in Labels
  BY Zenon, <1>1 DEF Labels
<1> QED BY <1>1, <1>2, <1>4, <1>5, LabelStep

LEMMA RetryStep == ASSUME TestIInv, Retry PROVE TestIInv'
<1>1. /\ pc = "failed" /\ pc' \in {"spawn", "over"} /\ result' = result
      /\ UNCHANGED <<mode, pipe, written, reader, bytes, stdin, expired, state, open>>
  BY DEF Retry, timeVars, programVars, threadVars
<1>2. /\ Holders /\ state["child"] = "gone" /\ pc' \in Labels
      /\ \A s \in Stream : reader[s].done
  BY <1>1 DEF TestIInv, Data, Control, Joined, Stream, Labels
<1>3. Closing
  BY <1>1, <1>2 DEF Holders, Closing
<1> QED BY <1>1, <1>2, <1>3, RunnerStep

LEMMA RunnerInvariant == ASSUME TestIInv, Runner PROVE TestIInv'
<1>1. ASSUME PollWait \/ HttpWait \/ Grace \/ Wait PROVE Turn \/ Reaping
  BY <1>1
  DEF PollWait, HttpWait, Grace, Wait, Turn, Reaping, Exited,
      timeVars, threadVars
<1>2. ASSUME Terminate \/ Kill PROVE TestIInv'
  <2>1. {} \in SUBSET Process
    OBVIOUS
  <2> QED BY Zenon, <1>2, <2>1, SignalStep DEF Terminate, Kill
<1> QED
  BY Zenon, <1>1, <1>2, SpawnStep, TurnStep, ReapStep, JoinStep, EndStep, RetryStep DEF Runner, Turn

-----------------------------------------------------------------------------
\* The other steps leave the runner where it is.
LEMMA ControlKept ==
  ASSUME TestIInv, UNCHANGED <<pc, result>>, expired => expired',
         \A s \in Stream : reader[s].done => reader'[s].done,
         state["child"] = "gone" => state'["child"] = "gone",
         bytes' \in Nat, bytes' >= bytes,
         pc \in {"failed", "over"} => bytes' = bytes /\ stdin'.left = stdin.left,
         stdin.writer = "broken" => stdin'.writer = "broken"
  PROVE  Control'
<1>1. bytes \in Nat /\ MaxOutputBytes \in Nat
  BY Zenon, LimitIsNat DEF TestIInv, Data, Flow
<1>2. \A s \in Stream : Joined(s)' => reader'[s].done
  BY Zenon DEF TestIInv, Control, Joined
<1> QED BY <1>1, <1>2 DEF TestIInv, Control

LEMMA ReadStep == ASSUME TestIInv, NEW s \in Stream, Read(s) PROVE TestIInv'
<1>1. /\ Flow /\ Holders /\ Fed
      /\ UNCHANGED <<mode, pc, result, expired, state, open, written, bytes, stdin>>
  BY DEF TestIInv, Data, Read, ThreadAlone, timeVars
<1>2. /\ reader[s].got = 0 /\ ~reader[s].done
      /\ reader' = [reader EXCEPT ![s].got = pipe[s]] /\ pipe' = [pipe EXCEPT ![s] = 0]
  BY Zenon DEF Read
<1>3. Flow'
  <2>1. /\ reader' \in [Stream -> Thread] /\ pipe' \in [Stream -> Nat]
        /\ written' \in [Stream -> Nat] /\ bytes' \in Nat
    BY <1>1, <1>2 DEF Flow, Thread
  <2>2. CapturesTheLimit'
    BY <1>1, <1>2 DEF Flow, Thread, Stream, CapturesTheLimit
  <2>3. /\ bytes' + reader'["stdout"].got + reader'["stderr"].got + Total(pipe') = Total(written')
        /\ \A t \in Stream : bytes' <= MaxOutputBytes =>
              reader'[t].captured + reader'[t].got + pipe'[t] = written'[t]
    BY <1>1, <1>2, LimitIsNat DEF Flow, Thread, Stream, Total
  <2>4. \A t \in Stream : reader'[t].done => pipe'[t] = 0 /\ reader'[t].got = 0 /\ open'[t] = {}
    BY <1>1, <1>2 DEF Flow, Thread
  <2> QED BY Zenon, <2>1, <2>2, <2>3, <2>4 DEF Flow, Total
<1>4. Control'
  BY <1>1, <1>2, ControlKept DEF Flow, Thread
<1> QED BY Zenon, <1>1, <1>3, <1>4 DEF TestIInv, Data, Holders, Fed

LEMMA CountStep == ASSUME TestIInv, NEW s \in Stream, Count(s) PROVE TestIInv'
<1>1. /\ Flow /\ Holders /\ Fed
      /\ UNCHANGED <<mode, pc, result, expired, state, open, pipe, written, stdin>>
  BY DEF TestIInv, Data, Count, ThreadAlone, timeVars, programVars
<1>2. /\ reader[s].got \in Nat /\ reader[s].got > 0 /\ bytes \in Nat /\ reader[s].captured \in Nat
      /\ bytes' = bytes + reader[s].got
      /\ reader' = [reader EXCEPT ![s].captured = @ + Kept(s), ![s].got = 0]
  BY <1>1 DEF Count, Flow, Thread
<1>3. /\ Kept(s) \in Nat
      /\ bytes' <= MaxOutputBytes => Kept(s) = reader[s].got
      /\ Least(bytes', MaxOutputBytes) = Least(bytes, MaxOutputBytes) + Kept(s)
  BY <1>2, LimitIsNat DEF Kept, Least
<1>4. ~reader[s].done
  BY <1>1, <1>2 DEF Flow
<1> HIDE DEF Kept
<1>5. Flow'
  <2>1. reader' \in [Stream -> Thread] /\ bytes' \in Nat
    BY <1>1, <1>2, <1>3 DEF Flow, Thread
  <2>2. CapturesTheLimit'
    BY <1>1, <1>2, <1>3 DEF Flow, Thread, Stream, CapturesTheLimit
  <2>3. /\ bytes' + reader'["stdout"].got + reader'["stderr"].got + Total(pipe') = Total(written')
        /\ \A t \in Stream : bytes' <= MaxOutputBytes =>
              reader'[t].captured + reader'[t].got + pipe'[t] = written'[t]
    BY <1>1, <1>2, <1>3, LimitIsNat DEF Flow, Thread, Stream, Total
  <2>4. \A t \in Stream : reader'[t].done => pipe'[t] = 0 /\ reader'[t].got = 0 /\ open'[t] = {}
    <3>1. ~reader'[s].done /\ \A t \in Stream : t # s => reader'[t] = reader[t]
      BY <1>1, <1>2, <1>4 DEF Flow, Thread
    <3>2. \A t \in Stream : reader[t].done => pipe[t] = 0 /\ reader[t].got = 0 /\ open[t] = {}
      BY <1>1 DEF Flow
    <3> QED BY <1>1, <3>1, <3>2
  <2> QED BY Zenon, <1>1, <2>1, <2>2, <2>3, <2>4 DEF Flow, Total
<1>6. Control'
  <2>1. pc \notin {"failed", "over"}
    BY Zenon, <1>4 DEF TestIInv, Control, Joined, Stream
  <2> QED BY <1>1, <1>2, <2>1, ControlKept DEF Flow, Thread
<1> QED BY <1>1, <1>5, <1>6 DEF TestIInv, Data, Holders, Fed

LEMMA EofStep == ASSUME TestIInv, NEW s \in Stream, Eof(s) PROVE TestIInv'
<1>1. /\ Flow /\ Holders /\ Fed
      /\ UNCHANGED <<mode, pc, result, expired, state, open, pipe, written, bytes, stdin>>
  BY DEF TestIInv, Data, Eof, ThreadAlone, timeVars, programVars
<1>2. /\ reader[s].got = 0 /\ pipe[s] = 0 /\ open[s] = {}
      /\ reader' = [reader EXCEPT ![s].done = TRUE]
  BY DEF Eof, AtEof
<1>3. Flow'
  BY Zenon, <1>1, <1>2, LimitIsNat DEF Flow, Thread, Stream, Total, CapturesTheLimit
<1>4. Control'
  BY <1>1, <1>2, ControlKept DEF Flow, Thread
<1> QED BY Zenon, <1>1, <1>3, <1>4 DEF TestIInv, Data, Holders, Fed

LEMMA FeedStep ==
  ASSUME TestIInv, Feed \/ \E p \in Process : Consume(p)
  PROVE  TestIInv'
<1>1. /\ Flow /\ Holders /\ Fed /\ pc \notin {"failed", "over"}
      /\ UNCHANGED <<mode, pc, result, expired, state, open, pipe, written, reader, bytes>>
  BY DEF TestIInv, Data, Feed, Consume, Started, ThreadAlone,
      ProgramAlone, timeVars, programVars,
         threadVars
<1>2. Fed' /\ (stdin.writer = "broken" => stdin'.writer = "broken")
  <2>1. /\ stdin \in Input /\ mode' = mode /\ open' = open
        /\ stdin.writer = "done" => stdin.left = 0
        /\ stdin.writer = "broken" => stdin.left > 0 /\ mode = "stdin" /\ open["stdin"] = {}
        /\ stdin.writer = "writing" => mode = "stdin"
    BY <1>1 DEF Fed
  <2>2. CASE Feed
    <3>1. stdin.left \in Nat /\ stdin.pipe \in Nat /\ stdin.writer = "writing" /\ mode = "stdin"
      BY Zenon, <2>1, <2>2 DEF Feed, Input
    <3>2. CASE stdin.left = 0 /\ stdin' = [stdin EXCEPT !.writer = "done"]
      BY <2>1, <3>1, <3>2 DEF Fed, Input
    <3>3. CASE /\ stdin.left > 0
               /\ stdin' = [stdin EXCEPT !.left = stdin.left - 1, !.pipe = stdin.pipe + 1]
      <4>1. stdin.left - 1 \in Nat /\ stdin.pipe + 1 \in Nat
        BY <3>1, <3>3
      <4> QED BY Zenon, <2>1, <3>1, <3>3, <4>1 DEF Fed, Input
    <3>4. CASE stdin.left > 0 /\ open["stdin"] = {} /\ stdin' = [stdin EXCEPT !.writer = "broken"]
      BY <2>1, <3>1, <3>4 DEF Fed, Input
    <3> QED BY Zenon, <2>2, <3>2, <3>3, <3>4 DEF Feed
  <2>3. CASE \E p \in Process : Consume(p)
    BY <2>1, <2>3 DEF Consume, Fed, Input
  <2> QED BY Zenon, <2>2, <2>3
<1>3. Control'
  BY <1>1, <1>2, ControlKept DEF Flow
<1>4. Holders' /\ Flow'
  BY Zenon, <1>1 DEF Holders, Flow, CapturesTheLimit, Total
<1> QED BY Zenon, <1>2, <1>3, <1>4 DEF TestIInv, Data

LEMMA WriteStep ==
  ASSUME TestIInv, NEW p \in Process, NEW s \in Stream, Write(p, s)
  PROVE  TestIInv'
<1>1. /\ Flow /\ Holders /\ Fed
      /\ UNCHANGED <<mode, pc, result, expired, state, open, reader, bytes, stdin>>
  BY DEF TestIInv, Data, Write, ProgramAlone, timeVars, threadVars
<1>2. /\ p \in open[s] /\ pipe' = [pipe EXCEPT ![s] = @ + 1]
      /\ written' = [written EXCEPT ![s] = @ + 1]
  BY Zenon DEF Write
<1>3. Flow'
  BY <1>1, <1>2, LimitIsNat DEF Flow, Thread, Stream, Total, CapturesTheLimit
<1>4. Control'
  BY <1>1, ControlKept DEF Flow
<1> QED BY Zenon, <1>1, <1>3, <1>4 DEF TestIInv, Data, Holders, Fed

\* A helper gets no pipe that the child has closed.
LEMMA ForkStep ==
  ASSUME TestIInv, NEW kept \in SUBSET Channel, NEW leaves \in BOOLEAN, Fork(kept, leaves)
  PROVE  TestIInv'
<1>1. /\ Flow /\ Holders
      /\ UNCHANGED <<mode, pc, result, expired, pipe, written, reader, bytes, stdin>>
  BY Zenon DEF TestIInv, Data, Fork, ProgramAlone, timeVars, threadVars
<1>2. /\ state["child"] = "running" /\ state' = [state EXCEPT !["helper"] = "running"]
      /\ open' = [c \in Channel |-> IF c \in kept /\ "child" \in open[c]
                                    THEN open[c] \cup {"helper"} ELSE open[c]]
  BY Zenon DEF Fork, Alive
<1>3. Closing /\ (state["child"] = "gone" => state'["child"] = "gone")
  BY <1>1, <1>2 DEF Holders, Process, ProcessState, Closing
<1>4. Data'
  BY Zenon, <1>1, <1>3, DataKept DEF TestIInv
<1>5. Control'
  BY <1>1, <1>3, ControlKept DEF Flow
<1> QED BY Zenon, <1>4, <1>5 DEF TestIInv

LEMMA ExitStep == ASSUME TestIInv, NEW p \in Process, Exit(p) PROVE TestIInv'
<1>1. /\ Flow /\ Holders
      /\ UNCHANGED <<mode, pc, result, expired, pipe, written, reader, bytes, stdin>>
  BY DEF TestIInv, Data, Exit, ProgramAlone, timeVars, threadVars
<1>2. /\ state[p] = "running" /\ open' = [c \in Channel |-> open[c] \ {p}]
      /\ state' = [state EXCEPT ![p] = IF p = "child" THEN "zombie" ELSE "gone"]
  BY DEF Exit, Alive
<1>3. Closing /\ (state["child"] = "gone" => state'["child"] = "gone")
  BY <1>1, <1>2 DEF Holders, Process, ProcessState, Closing
<1>4. Data'
  BY Zenon, <1>1, <1>3, DataKept DEF TestIInv
<1>5. Control'
  BY <1>1, <1>3, ControlKept DEF Flow
<1> QED BY Zenon, <1>4, <1>5 DEF TestIInv

LEMMA CloseStep ==
  ASSUME TestIInv, NEW p \in Process, NEW c \in Channel, Close(p, c)
  PROVE  TestIInv'
<1>1. /\ Flow /\ Holders
      /\ UNCHANGED <<mode, pc, result, expired, state, pipe, written, reader, bytes, stdin>>
  BY DEF TestIInv, Data, Close, ProgramAlone, timeVars, threadVars
<1>2. open' = [open EXCEPT ![c] = @ \ {p}]
  BY DEF Close
<1>3. Closing
  BY <1>1, <1>2 DEF Holders, Closing
<1>4. Data'
  BY Zenon, <1>1, <1>3, DataKept DEF TestIInv
<1>5. Control'
  BY <1>1, ControlKept DEF Flow
<1> QED BY Zenon, <1>4, <1>5 DEF TestIInv

LEMMA TimeStep ==
  ASSUME TestIInv, Deadline \/ GraceEnds \/ UNCHANGED testVars
  PROVE  TestIInv'
<1>1. /\ Flow /\ Holders /\ (expired => expired')
      /\ UNCHANGED <<mode, pc, result, state, open, pipe, written, reader, bytes, stdin>>
  BY DEF TestIInv, Data, Deadline, GraceEnds, testVars, timeVars, programVars,
      threadVars
<1>2. Data'
  BY Zenon, <1>1, DataKept DEF TestIInv, Holders, Closing
<1>3. Control'
  BY <1>1, ControlKept DEF Flow
<1> QED BY Zenon, <1>2, <1>3 DEF TestIInv

LEMMA TestStepInvariant == TestIInv /\ [TestNext]_testVars => TestIInv'
  BY Zenon, RunnerInvariant, ReadStep, CountStep, EofStep, FeedStep, WriteStep, ForkStep, ExitStep,
      CloseStep, TimeStep
  DEF TestNext, Capture, Program

\* The accounting of the data and of the runner's joins is kept by every step.
THEOREM TestInvariance == TestSpec => []TestIInv
  BY TestInitInvariant, TestStepInvariant, PTL DEF TestSpec

\* capture_bounded_stream: the two threads, in any order, together keep exactly
\* what arrived up to max_output_bytes.
THEOREM CaptureIsExact == TestSpec => []CapturesTheLimit
<1>1. TestIInv => CapturesTheLimit
  BY Zenon DEF TestIInv, Data, Flow
<1> QED BY <1>1, TestInvariance, PTL

\* finish_bounded_child and stop_bounded_child: at the end of an attempt the child
\* is reaped and its output pipes are closed, what an attempt that is ok returns is
\* all that was written, and an error has its cause.
THEOREM ReportIsTrueHolds == TestSpec => []ReportIsTrue
<1>1. TestIInv => ReportIsTrue
  <2> SUFFICES ASSUME TestIInv, pc \in {"over", "failed"}
               PROVE  /\ state["child"] = "gone" /\ \A s \in Stream : open[s] = {}
                      /\ result = "ok" => /\ \A s \in Stream : reader[s].captured = written[s]
                                          /\ stdin.left = 0
                      /\ result = "output_limit" => Total(written) > MaxOutputBytes
                      /\ result = "timed_out" => expired
                      /\ result = "broken_pipe" => /\ mode = "stdin" /\ stdin.left > 0
                                                   /\ open["stdin"] = {}
    BY Zenon DEF ReportIsTrue
  <2>1. /\ \A s \in Stream : reader[s].done
        /\ state["child"] = "gone" /\ (result = "timed_out" => expired)
        /\ result = "ok" => bytes <= MaxOutputBytes /\ stdin.left = 0
        /\ result = "output_limit" => bytes > MaxOutputBytes
        /\ result = "broken_pipe" => stdin.writer = "broken"
    BY Zenon DEF TestIInv, Control, Joined, Stream
  <2>2. /\ \A s \in Stream : reader[s].got = 0 /\ pipe[s] = 0 /\ reader[s].captured \in Nat
        /\ \A s \in Stream : open[s] = {}
    BY Zenon, <2>1 DEF TestIInv, Data, Flow, Thread, Stream
  <2>3. Total(written) = bytes
    BY <2>2 DEF TestIInv, Data, Flow, Stream, Total
  <2>4. result = "ok" => \A s \in Stream : reader[s].captured = written[s]
    BY <2>1, <2>2 DEF TestIInv, Data, Flow
  <2> QED BY Zenon, <2>1, <2>2, <2>3, <2>4 DEF TestIInv, Data, Fed
<1> QED BY <1>1, TestInvariance, PTL

-----------------------------------------------------------------------------
\* The labels from the first poll to the last signal, at which the child has not
\* been waited for unless it was found to have exited before it was ready.
BeforeReap == {"poll_output", "poll_wait", "poll_deadline", "http_deadline", "http_wait",
               "http_connect", "http_request", "http_response", "term", "grace", "kill"}
Unreaped == pc \in BeforeReap /\ state["child"] = "gone" => early

LEMMA UnreapedStep == ASSUME TestIInv, Unreaped, [TestNext]_testVars PROVE Unreaped'
<1> USE DEF Unreaped, BeforeReap
<1>1. Holders
  BY Zenon DEF TestIInv, Data
<1>2. CASE Spawn
  BY Zenon, <1>2 DEF Spawn, Process
<1>3. CASE PollOutput \/ PollDeadline \/ HttpDeadline
           \/ HttpConnect \/ HttpRequest \/ HttpResponse
  BY Zenon, <1>3
  DEF PollOutput, PollDeadline, HttpDeadline, HttpConnect, HttpRequest,
      HttpResponse, Goto,
              Stop, RunnerAlone, programVars
<1>4. CASE PollWait \/ HttpWait \/ Grace \/ Wait
  BY Zenon, <1>4
  DEF PollWait, HttpWait, Grace, Wait, Goto, RunnerAlone,
      programVars
<1>5. CASE Terminate \/ Kill
  BY Zenon, <1>1, <1>5 DEF Terminate, Kill, Signalled, Alive, Process, Holders
<1>6. CASE Join \/ End \/ Retry
  BY <1>6 DEF Join, End, Retry, Goto, RunnerAlone, programVars
<1>7. CASE \E s \in Stream : Capture(s)
  BY <1>7 DEF Capture, Read, Count, Eof, ThreadAlone, programVars
<1>8. CASE Feed \/ Deadline \/ GraceEnds \/ UNCHANGED testVars
  BY <1>8
  DEF Feed, Deadline, GraceEnds, ThreadAlone, programVars, testVars
<1>9. CASE Program
  BY <1>1, <1>9
  DEF Program, Consume, Exit, Write, Close, Fork, ProgramAlone,
      programVars, Process, Holders
<1> QED BY Zenon, <1>2, <1>3, <1>4, <1>5, <1>6, <1>7, <1>8, <1>9 DEF TestNext, Runner

\* terminate_bounded_child: the group that is signalled is the child's own, for
\* as long as the child is not reaped its pid cannot be another one's.
THEOREM SignalsReachTheChild == TestSpec => SignalsOwnGroup
<1>1. TestInit => Unreaped
  BY DEF TestInit, Unreaped, BeforeReap
<1>2. Unreaped => [(pc \in {"term", "kill"} /\ pc' # pc) => (state["child"] # "gone" \/ early)]_testVars
  BY DEF Unreaped, BeforeReap
<1>3. TestSpec => []Unreaped
  BY <1>1, UnreapedStep, TestInvariance, PTL DEF TestSpec
<1> QED BY <1>2, <1>3, PTL DEF SignalsOwnGroup, TestSpec
-----------------------------------------------------------------------------
\* What the accounting leaves out of the types: the variables it does not look
\* at, and the sizes, which the pipes and MaxWritten bound.
Sizes ==
  /\ mode \in Modes /\ attempt \in 0..Retries
  /\ result \in Outcome \cup {"none"} /\ group \subseteq Process
  /\ early \in BOOLEAN /\ expired \in BOOLEAN /\ graceOver \in BOOLEAN
  /\ Total(written) <= MaxWritten
  /\ \A s \in Stream : pipe[s] <= PipeSize /\ reader[s].got <= PipeSize
  /\ stdin.left <= InputSize /\ stdin.pipe <= InputRoom

LEMMA SizesStep == ASSUME TestIInv, Sizes, [TestNext]_testVars PROVE Sizes'
<1>1. /\ pipe \in [Stream -> Nat] /\ written \in [Stream -> Nat]
      /\ reader \in [Stream -> Thread] /\ stdin \in Input
  BY Zenon DEF TestIInv, Data, Flow, Fed
<1> DEFINE Fits ==
      /\ \A s \in Stream : pipe[s] <= PipeSize /\ reader[s].got <= PipeSize
      /\ stdin.left <= InputSize /\ stdin.pipe <= InputRoom
<1>a. Fits
  BY Zenon DEF Sizes
<1> HIDE DEF Fits
<1>2. CASE Spawn
  <2>1. /\ Total(written') = 0 /\ stdin'.left \in {0, InputSize} /\ stdin'.pipe = 0
        /\ \A s \in Stream : pipe'[s] = 0 /\ reader'[s].got = 0
    BY <1>2 DEF Spawn, Nothing, Idle, Total, Stream
  <2>2. /\ mode' \in Modes /\ group' \subseteq Process
        /\ result' \in Outcome \cup {"none"} /\ attempt' \in 0..Retries
        /\ early' \in BOOLEAN /\ expired' \in BOOLEAN /\ graceOver' \in BOOLEAN
    BY Zenon, <1>2 DEF Spawn, Sizes, Process
  <2>3. Total(written') <= MaxWritten /\ stdin'.left <= InputSize /\ stdin'.pipe <= InputRoom
    BY <2>1, LimitIsNat
  <2>4. \A s \in Stream : pipe'[s] <= PipeSize /\ reader'[s].got <= PipeSize
    BY <2>1, LimitIsNat
  <2> QED BY Zenon, <2>2, <2>3, <2>4 DEF Sizes, Total
<1>3. CASE Runner /\ ~Spawn
  <2>1. /\ UNCHANGED <<mode, expired, graceOver, group, pipe, written, reader, stdin>>
        /\ early' \in {early, TRUE} /\ attempt' \in {attempt} \cup 0..Retries
        /\ result' \in Outcome \cup {"none"}
    <3>1. CASE PollOutput \/ PollDeadline \/ HttpDeadline
               \/ HttpConnect \/ HttpRequest \/ HttpResponse
      BY Zenon, <3>1
      DEF PollOutput, PollDeadline, HttpDeadline, HttpConnect,
          HttpRequest, HttpResponse, Goto, Stop, RunnerAlone,
          programVars, timeVars, threadVars, Sizes, Outcome
    <3>2. CASE PollWait \/ HttpWait \/ Grace \/ Wait
      BY Zenon, <3>2
      DEF PollWait, HttpWait, Grace, Wait, Goto, RunnerAlone,
          programVars, timeVars,
          threadVars, Sizes
    <3>3. CASE Terminate \/ Kill
      BY Zenon, <3>3
      DEF Terminate, Kill, Signalled, timeVars, threadVars, Sizes
    <3>4. CASE Join
      BY Zenon, <3>4
      DEF Join, Goto, RunnerAlone, programVars, timeVars, threadVars,
          Sizes
    <3>5. CASE End
      BY Zenon, <3>5
      DEF End, TestVerdict, Goto, RunnerAlone, programVars, timeVars,
          threadVars, Sizes, Outcome
    <3>6. CASE Retry
      BY <3>6, LimitIsNat DEF Retry, programVars, timeVars, threadVars, Sizes
    <3> QED BY Zenon, <1>3, <3>1, <3>2, <3>3, <3>4, <3>5, <3>6 DEF Runner
  <2> QED BY Zenon, <2>1 DEF Sizes, Total
<1>4. CASE \E s \in Stream : Capture(s)
  <2>1. PICK s \in Stream : Read(s) \/ Count(s) \/ Eof(s)
    BY Zenon, <1>4 DEF Capture
  <2>2. UNCHANGED <<mode, attempt, result, early, expired, graceOver, group, written, stdin>>
    BY Zenon, <2>1
    DEF Read, Count, Eof, ThreadAlone, timeVars, programVars
  <2>3. /\ pipe[s] \in Nat /\ reader[s] \in Thread /\ PipeSize \in Nat /\ PipeSize > 0
        /\ pipe[s] <= PipeSize /\ reader[s].got <= PipeSize
    BY <1>1, <1>a, LimitIsNat DEF Fits
  <2>4. pipe'[s] <= PipeSize /\ reader'[s].got <= PipeSize
    BY <1>1, <2>1, <2>3 DEF Read, Count, Eof, programVars, Thread
  <2>5. \A q \in Stream : q # s => pipe'[q] = pipe[q] /\ reader'[q] = reader[q]
    BY <1>1, <2>1 DEF Read, Count, Eof, programVars
  <2> QED BY Zenon, <2>2, <2>4, <2>5 DEF Sizes, Total
<1>5. CASE Feed
  <2>1. /\ UNCHANGED <<mode, attempt, result, early, expired, graceOver, group, pipe, written,
                        reader>>
        /\ stdin.left \in Nat /\ stdin.pipe \in Nat
    BY <1>1, <1>5
    DEF Feed, ThreadAlone, timeVars, programVars, threadVars, Input
  <2>2. \/ stdin'.left = stdin.left /\ stdin'.pipe = stdin.pipe
        \/ stdin'.left = stdin.left - 1 /\ stdin'.pipe = stdin.pipe + 1 /\ stdin.pipe < InputRoom
    BY Zenon, <1>1, <1>5 DEF Feed, Input
  <2>3. stdin'.left <= InputSize /\ stdin'.pipe <= InputRoom
    <3>1. stdin.left <= InputSize /\ stdin.pipe <= InputRoom
      BY Zenon, <1>a DEF Fits
    <3>2. CASE stdin'.left = stdin.left /\ stdin'.pipe = stdin.pipe
      BY Zenon, <3>1, <3>2
    <3>3. CASE stdin'.left = stdin.left - 1 /\ stdin'.pipe = stdin.pipe + 1 /\ stdin.pipe < InputRoom
      BY <2>1, <3>1, <3>3, LimitIsNat
    <3> QED BY Zenon, <2>2, <3>2, <3>3
  <2> QED BY Zenon, <2>1, <2>3 DEF Sizes, Total
<1>6. CASE Program
  <2>1. ASSUME NEW p \in Process, Consume(p) PROVE Sizes'
    BY <1>1, <2>1, LimitIsNat
    DEF Consume, ProgramAlone, timeVars, programVars, threadVars, Sizes,
        Total, Input
  <2>2. ASSUME NEW p \in Process, Exit(p) PROVE Sizes'
    BY Zenon, <2>2 DEF Exit, ProgramAlone, timeVars, threadVars, Sizes, Total
  <2>3. ASSUME NEW p \in Process, NEW s \in Stream, Write(p, s) PROVE Sizes'
    BY <1>1, <2>3, LimitIsNat
    DEF Write, ProgramAlone, timeVars, threadVars, Sizes, Total,
        Stream
  <2>4. ASSUME NEW kept \in SUBSET Channel, NEW leaves \in BOOLEAN, Fork(kept, leaves) PROVE Sizes'
    BY Zenon, <2>4 DEF Fork, ProgramAlone, timeVars, threadVars, Sizes, Total, Process
  <2>5. ASSUME NEW p \in Process, NEW c \in Channel, Close(p, c) PROVE Sizes'
    BY Zenon, <2>5 DEF Close, ProgramAlone, timeVars, threadVars, Sizes, Total
  <2> QED BY Zenon, <1>6, <2>1, <2>2, <2>3, <2>4, <2>5 DEF Program
<1>7. CASE Deadline \/ GraceEnds \/ UNCHANGED testVars
  BY Zenon, <1>7
  DEF Deadline, GraceEnds, testVars, timeVars, programVars, threadVars,
      Sizes, Total
<1> QED BY Zenon, <1>2, <1>3, <1>4, <1>5, <1>6, <1>7 DEF TestNext

\* Every variable has its type; no pipe and no read exceeds its size.
THEOREM TestTypesHold == TestSpec => []TestTypeOK
<1>1. TestInit => Sizes
  <2> SUFFICES ASSUME TestInit PROVE Sizes
    OBVIOUS
  <2>1. /\ Total(written) = 0 /\ stdin.left = 0 /\ stdin.pipe = 0 /\ attempt = 0
        /\ \A s \in Stream : pipe[s] = 0 /\ reader[s].got = 0
    BY DEF TestInit, Nothing, Idle, Total, Stream
  <2>2. /\ mode \in Modes  /\ group \subseteq Process
        /\ result \in Outcome \cup {"none"}
        /\ early \in BOOLEAN /\ expired \in BOOLEAN /\ graceOver \in BOOLEAN
    BY Zenon DEF TestInit, Process
  <2>3. attempt \in 0..Retries /\ Total(written) <= MaxWritten
    BY <2>1, LimitIsNat
  <2>4. stdin.left <= InputSize /\ stdin.pipe <= InputRoom
    BY <2>1, LimitIsNat
  <2>5. \A s \in Stream : pipe[s] <= PipeSize /\ reader[s].got <= PipeSize
    BY <2>1, LimitIsNat
  <2> QED BY Zenon, <2>2, <2>3, <2>4, <2>5 DEF Sizes
<1>2. TestIInv /\ Sizes => TestTypeOK
  <2> SUFFICES ASSUME TestIInv, Sizes PROVE TestTypeOK
    OBVIOUS
  <2>1. /\ pipe \in [Stream -> 0..PipeSize] /\ written \in [Stream -> 0..MaxWritten]
        /\ bytes \in 0..MaxWritten
    BY LimitIsNat DEF TestIInv, Data, Flow, Sizes, Total, Stream, Thread
  <2>2. reader \in [Stream -> [got : 0..PipeSize, captured : 0..MaxWritten, done : BOOLEAN]]
    <3>1. reader["stdout"].captured + reader["stderr"].captured <= MaxWritten
      BY <2>1, LimitIsNat DEF TestIInv, Data, Flow, CapturesTheLimit, Least
    <3> QED BY <3>1, LimitIsNat DEF TestIInv, Data, Flow, Thread, Stream, Sizes
  <2>3. stdin \in [left : 0..InputSize, pipe : 0..InputRoom, writer : {"writing", "done", "broken"}]
    BY LimitIsNat DEF TestIInv, Data, Fed, Input, Sizes
  <2>4. /\ pc \in Labels /\ state \in [Process -> {"none", "running", "zombie", "gone"}]
        /\ open \in [Channel -> SUBSET {p \in Process : Alive(p)}]
    BY DEF TestIInv, Data, Control, Holders, ProcessState, Alive
  <2> QED BY <2>1, <2>2, <2>3, <2>4 DEF Sizes, TestTypeOK
<1>3. TestSpec => []Sizes
  BY <1>1, SizesStep, TestInvariance, PTL DEF TestSpec
<1> QED BY <1>2, <1>3, TestInvariance, PTL
=============================================================================
