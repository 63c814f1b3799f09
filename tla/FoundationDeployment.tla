------------------------- MODULE FoundationDeployment -------------------------
(***************************************************************************)
(* The company development foundation: a workflow that plans and applies   *)
(* one ARM deployment at a time, in two stages, bootstrap and              *)
(* continuation.  A run may fail, be cancelled or lose its runner at any   *)
(* step while the deployment it started goes on in Azure, so every run     *)
(* leaves a checkpoint and a later run names the one it continues from.    *)
(* Between runs main moves, resources are altered, and the operator grants *)
(* and removes the writer's authority and hands the resources over.        *)
(*                                                                         *)
(* The concurrency group of the workflows lets one run at a time proceed.  *)
(* The operator inspects Azure and writes the context of a run when he     *)
(* dispatches it; a dispatch that the plan job refuses changes nothing, so *)
(* Plan stands for the dispatch and the plan job together.                 *)
(*                                                                         *)
(* Source: src/scripts/infra/company-development.mjs, -apply.mjs,          *)
(* -state.mjs, -completion.mjs, -completion-validation.mjs                 *)
(***************************************************************************)
EXTENDS Naturals

CONSTANTS
    MaxRevision,    \* bound: the revisions main goes through
    SourceOf,       \* the source, template and parameters of a revision
    MaxRuns,        \* bound: runs of the apply workflow
    None

Revisions == 1..MaxRevision
Stages == {"bootstrap", "continuation"}
Modes == {"initial", "reviewed-reentry"}
Terminal == {"succeeded", "failed"}

ASSUME BoundsAssumption ==
    /\ MaxRevision \in Nat \ {0} /\ MaxRuns \in Nat
    /\ DOMAIN SourceOf = Revisions

VARIABLES
    head,           \* the revision of main
    arm,            \* the deployment companydev-<stage>-<revision>
    stock,          \* the resources of each stage that exist
    altered,        \* a bootstrap resource is no longer what the template made
    handoff,        \* human grants and Defender are on
    writer,         \* the stage whose writes the apply identity may make
    window,         \* the bounded continuation authority
    runs,           \* runs planned so far
    run,            \* the workflow run in progress
    records         \* the checkpoints and receipts uploaded as artifacts

vars == <<head, arm, stock, altered, handoff, writer, window, runs, run, records>>
human == <<handoff, writer, window>>
azure == <<arm, stock, altered>>

Inventories == [Stages -> {"none", "partial", "complete"}]

\* What a checkpoint keeps.  A completion receipt is told apart by its mode.
Checkpoints == [stage : Stages, mode : Modes \union {"audit-readonly"}, completed : BOOLEAN,
                commitSha : Revisions, deployment : Revisions,
                stock : Inventories, altered : BOOLEAN]

\* A way to continue beside the plain one: verification of an original run's
\* success, the bounded authority, and its second attempt.
Routes == {"plain", "transition", "bounded", "recovery"}

Phases == {"planned", "bound", "verified", "assessed", "decided", "authenticated", "polling"}

Runs == [phase : Phases, stage : Stages, mode : Modes, route : Routes, rev : Revisions,
         pred : Checkpoints \union {None}, named : Revisions,
         base : [stock : Inventories, altered : BOOLEAN],
         perm : Stages \union {None}, local : Checkpoints \union {None}]

TypeOK ==
    /\ head \in Revisions
    /\ arm \in [Stages -> [Revisions -> {"absent", "running"} \union Terminal]]
    /\ stock \in Inventories
    /\ altered \in BOOLEAN /\ handoff \in BOOLEAN
    /\ writer \in Stages \union {None}
    /\ window \in {"closed", "open", "over"}
    /\ runs \in 0..MaxRuns
    /\ run \in Runs \union {None}
    /\ records \subseteq Checkpoints

Init ==
    /\ head = 1
    /\ arm = [s \in Stages |-> [r \in Revisions |-> "absent"]]
    /\ stock = [s \in Stages |-> "none"]
    /\ altered = FALSE /\ handoff = FALSE
    /\ writer = None /\ window = "closed"
    /\ runs = 0 /\ run = None /\ records = {}

------------------------------------------------------------------------------
\* What a run requires of the group and of its predecessor.

\* The initial bootstrap goes into an empty group without history.
EmptyDestination ==
    /\ \A s \in Stages : stock[s] = "none"
    /\ \A s \in Stages, r \in Revisions : arm[s][r] = "absent"

\* Mutant: only the deployment a run names is looked at, not the history.
NamedSettled(q) == arm[q.stage][q.named] # "running"

\* inspectDeployment and the loop over the history: whatever else is found
\* must be the terminal state the operator has reviewed.
HistorySettled(q) == \A s \in Stages, r \in Revisions : arm[s][r] # "running"

\* Nothing has changed since the operator froze the inventory, and no
\* continuation resource stands in the way of a bootstrap.
InventoryHolds(q) ==
    /\ q.base = [stock |-> stock, altered |-> altered]
    /\ q.stage = "bootstrap" => stock["continuation"] = "none"

\* The bootstrap resources of the predecessor are there unchanged; one
\* recorded half-way may have grown.
BootstrapUnchanged(q) ==
    /\ q.pred.stock["bootstrap"] = "complete" => altered = q.pred.altered
    /\ \/ q.stage = "bootstrap" /\ ~q.pred.completed
       \/ stock["bootstrap"] = q.pred.stock["bootstrap"]

PredecessorVisible(p) ==
    /\ arm[p.stage][p.deployment] \in Terminal
    /\ p.completed => arm[p.stage][p.deployment] = "succeeded"

\* The deployment the context names has been inspected; the one this revision
\* would make has not succeeded behind the predecessor's back.
Inspected(q) ==
    /\ q.mode = "initial" => q.named = q.rev /\ arm[q.stage][q.named] = "absent"
    /\ q.mode = "reviewed-reentry" =>
          /\ q.pred.stage = q.stage
          /\ q.named \in {q.rev, q.pred.deployment}
          /\ arm[q.stage][q.named] \in Terminal
    /\ arm[q.stage][q.rev] = "succeeded" =>
          q.pred.stage = q.stage /\ q.pred.deployment = q.rev

\* assertCompletedResources: every resource of the stage, as the template makes it.
Whole(s) == stock[s] = "complete"

\* Mutant: a full inventory is taken for success.
CompletedByInventory(q) == q.pred.stage = q.stage /\ Whole(q.stage)

\* The stage is complete: the run verifies it and writes nothing.
Completed(q) ==
    /\ q.pred.stage = q.stage
    /\ arm[q.stage][q.named] = "succeeded"
    /\ Whole(q.stage)

\* What is complete may only be verified, by the source that made it.
CompletedIsVerifiedOnly(q) ==
    /\ q.pred.stage = q.stage /\ q.pred.completed => Completed(q)
    /\ Completed(q) =>
          /\ q.mode = "reviewed-reentry"
          /\ q.route = "transition" \/ SourceOf[q.rev] = SourceOf[q.pred.commitSha]
          /\ q.pred.completed => [stock |-> stock, altered |-> altered]
                                 = [stock |-> q.pred.stock, altered |-> q.pred.altered]

\* Mutant: human grants and Defender are not looked for before a re-entry.
BootstrapStillOpenUnread(q) ==
    ~Completed(q) \/ q.route = "transition" => q.pred.stage = "bootstrap" /\ ~q.pred.completed

\* A bootstrap is resumed from an incomplete one, before any handoff.
BootstrapStillOpen(q) ==
    ~Completed(q) \/ q.route = "transition" =>
        q.pred.stage = "bootstrap" /\ ~q.pred.completed /\ ~handoff

\* readSecurity: Defender is on and the human grants are there.
HandedOver == handoff

\* assertWriterRevoked: the bootstrap's writer can write no more.  A preview looks
\* at its own identity instead, which no step grants anything.
WriterRevoked(q) == q.phase = "planned" \/ writer # "bootstrap"

\* The functional test is one made under exactly this security.
SecurityHandedOver(q) == HandedOver /\ WriterRevoked(q)

\* Mutant: any checkpoint of a bootstrap will do.
ContinuationFoundedAnyhow(q) ==
    /\ SecurityHandedOver(q)
    /\ q.pred.stage = "bootstrap" \/ q.mode = "reviewed-reentry"

\* A continuation follows a complete bootstrap or its own earlier run.
ContinuationFounded(q) ==
    /\ SecurityHandedOver(q)
    /\ IF q.pred.stage = "bootstrap"
       THEN q.pred.completed /\ stock["bootstrap"] = "complete"
       ELSE q.mode = "reviewed-reentry"

\* Verification-only: the first run of all failed after its deployment had
\* succeeded; its archive holds the complete inventory and nothing followed.
TransitionHolds(q) ==
    /\ q.pred.mode = "initial" /\ ~q.pred.completed
    /\ q.pred.stock["bootstrap"] = "complete"
    /\ q.named = q.pred.deployment /\ Completed(q)
    /\ arm["bootstrap"][q.rev] = "absent"
    /\ \A s \in Stages, r \in Revisions :
          arm[s][r] = "absent" \/ (s = "bootstrap" /\ r = q.pred.deployment)

\* The second attempt: access was recovered before anything was submitted.
RecoveryHolds == \A r \in Revisions : arm["continuation"][r] = "absent"

\* assertContinuationRecord.
AuthorityHolds(q) ==
    /\ q.route \in {"bounded", "recovery"} => window = "open"
    /\ q.route = "recovery" => RecoveryHolds

\* A continuation that follows the receipt of an audit.
ReceiptHolds(q) ==
    /\ q.stage = "continuation" /\ q.mode = "initial" /\ q.named = q.rev
    /\ stock["bootstrap"] = "complete"
    /\ SecurityHandedOver(q)
    /\ arm["continuation"][q.named] = "absent"
    /\ arm["bootstrap"][q.pred.deployment] = "succeeded"

\* assessStage, but for what it reads of the apply identity.
Admissible(q) ==
    /\ HistorySettled(q) /\ InventoryHolds(q) /\ AuthorityHolds(q)
    /\ \/ q.pred.mode = "audit-readonly" /\ ReceiptHolds(q)
       \/ /\ q.pred.mode # "audit-readonly"
          /\ BootstrapUnchanged(q) /\ PredecessorVisible(q.pred) /\ Inspected(q)
          /\ CompletedIsVerifiedOnly(q)
          /\ q.route = "transition" => TransitionHolds(q)
          /\ IF q.stage = "continuation" THEN ContinuationFounded(q) ELSE BootstrapStillOpen(q)

\* readStagePermissionReadiness in the apply job: exactly the writes of the
\* stage, which a verification does without.
Permitted(q) == writer = q.stage \/ (Completed(q) /\ writer = None)

\* The checkpoint of a run with what is recorded of the resources.
Checkpoint(q, completed, deployment, inventory) ==
    [stage |-> q.stage, mode |-> q.mode, completed |-> completed, commitSha |-> q.rev,
     deployment |-> deployment, stock |-> inventory.stock, altered |-> inventory.altered]

Inventory == [stock |-> stock, altered |-> altered]

------------------------------------------------------------------------------
\* The run.

\* stageInventory and assertImplementedStage: which contexts are well formed.
WellFormed(q) ==
    /\ q.pred = None <=> q.stage = "bootstrap" /\ q.mode = "initial"
    /\ q.route \in {"bounded", "recovery"} => q.stage = "continuation" /\ q.mode = "initial"
    /\ q.route = "transition" => q.stage = "bootstrap" /\ q.mode = "reviewed-reentry"
    /\ q.pred # None => (q.pred.mode = "audit-readonly" => q.stage = "continuation")

\* loadStagePredecessor: a predecessor is an artifact some run has uploaded.
Loadable(p) == p \in records \union {None}

\* preview_guard and plan: the preview is made and uploaded.
Plan(stage, mode, route, p, named) ==
    LET q == [phase |-> "planned", stage |-> stage, mode |-> mode, route |-> route, rev |-> head,
              pred |-> p, named |-> named, base |-> Inventory, perm |-> None, local |-> None]
    IN
    /\ run = None /\ runs < MaxRuns
    /\ WellFormed(q) /\ Loadable(p)
    /\ IF p = None THEN EmptyDestination /\ named = head ELSE Admissible(q)
    /\ run' = q
    /\ runs' = runs + 1
    /\ UNCHANGED <<head, azure, human, records>>

\* orderedControls: the run is the protected main's own, and main is still there.
ControlsHold == head = run.rev

\* The plan and the predecessor are loaded anew under the controls.
Authenticate(from, to) ==
    /\ run # None /\ run.phase = from
    /\ ControlsHold
    /\ run' = [run EXCEPT !.phase = to]
    /\ UNCHANGED <<head, azure, human, runs, records>>

\* The apply_guard job, and the apply job before it signs in.
Bind == Authenticate("planned", "bound")
Verify == Authenticate("bound", "verified")

\* The apply job up to its preview.  The initial bootstrap has no assessment.
Assess ==
    /\ run # None /\ run.phase = "verified"
    /\ IF run.pred = None THEN EmptyDestination /\ writer = "bootstrap"
                          ELSE Admissible(run) /\ Permitted(run)
    /\ run' = [run EXCEPT !.phase = IF run.pred = None THEN "decided" ELSE "assessed",
                          !.perm = writer]
    /\ UNCHANGED <<head, azure, human, runs, records>>

\* assertStageStateEqual: what was read before the preview and after it.
StateUnchanged == run.base = Inventory /\ run.perm = writer

\* After the fresh preview everything is assessed again and must be the same.
Reassess ==
    /\ run # None /\ run.phase = "assessed"
    /\ Admissible(run) /\ Permitted(run) /\ StateUnchanged
    /\ \/ /\ ~Completed(run)
          /\ run' = [run EXCEPT !.phase = "decided"]
          /\ UNCHANGED records
       \/ /\ Completed(run)     \* VerifiedNoOp
          /\ run' = None
          /\ records' = records \union {Checkpoint(run, TRUE, run.named, Inventory)}
    /\ UNCHANGED <<head, azure, human, runs>>

\* submit, up to the PUT: the checkpoint is on disk before anything is written.
Submit ==
    /\ run # None /\ run.phase = "decided"
    /\ ControlsHold
    /\ run.pred = None => EmptyDestination
    /\ run' = [run EXCEPT !.phase = "authenticated",
                          !.local = Checkpoint(run, FALSE, run.rev, run.base)]
    /\ UNCHANGED <<head, azure, human, runs, records>>

\* assertContinuationLifetime.
WithinLifetime == run.route \in {"bounded", "recovery"} => window = "open"

Started == arm' = [arm EXCEPT ![run.stage][run.rev] = "running"]

\* Mutant: the lifetime is compared before the slow checks only.
PutUntimed ==
    /\ run # None /\ run.phase = "authenticated"
    /\ writer = run.stage /\ Started
    /\ run' = [run EXCEPT !.phase = "polling"]
    /\ UNCHANGED <<head, stock, altered, human, runs, records>>

\* The PUT is accepted; its answer may be lost, which ends the run.
Put ==
    /\ run # None /\ run.phase = "authenticated"
    /\ WithinLifetime
    /\ writer = run.stage /\ Started
    /\ \/ run' = [run EXCEPT !.phase = "polling"] /\ UNCHANGED records
       \/ run' = None /\ records' = records \union {run.local}
    /\ UNCHANGED <<head, stock, altered, human, runs>>

\* The resources of the stage as the template makes them, under the security
\* a continuation needs.
Verified ==
    /\ Whole(run.stage)
    /\ run.stage = "continuation" => SecurityHandedOver(run)

\* A terminal state is recorded first and verified afterwards.
Poll ==
    LET ended == Checkpoint(run, FALSE, run.rev, Inventory)
        verified == Checkpoint(run, TRUE, run.rev, Inventory)
    IN
    /\ run # None /\ run.phase = "polling"
    /\ WithinLifetime
    /\ \/ /\ arm[run.stage][run.rev] = "failed"
          /\ records' = records \union {ended}
       \/ /\ arm[run.stage][run.rev] = "succeeded"
          /\ \/ records' = records \union {ended}      \* the verification fails
             \/ Verified /\ records' = records \union {verified}
       \/ /\ arm[run.stage][run.rev] = "running"       \* polling timed out
          /\ records' = records \union {ended}
    /\ run' = None
    /\ UNCHANGED <<head, azure, human, runs>>

\* Mutant: a checkpoint is expected of every run that stops.
StopUploading ==
    /\ run # None
    /\ run' = None
    /\ records' = records \union {run.local}
    /\ UNCHANGED <<head, azure, human, runs>>

\* A check fails, Azure refuses or the job is cancelled: what is on disk is uploaded.  When
\* the runner is lost, nothing is.
Stop ==
    /\ run # None
    /\ run' = None
    /\ \/ UNCHANGED records
       \/ run.local # None /\ records' = records \union {run.local}
    /\ UNCHANGED <<head, azure, human, runs>>

\* assertHistoricalState: a first run that failed although its deployment had
\* succeeded, with nothing of anybody else's in the history.
Auditable(c) ==
    /\ c.stage = "bootstrap" /\ c.mode = "initial" /\ ~c.completed
    /\ c.stock["bootstrap"] = "complete" /\ ~c.altered
    /\ arm["bootstrap"][c.deployment] = "succeeded"
    /\ \A s \in Stages, r \in Revisions :
          arm[s][r] = "absent" \/ (s = "bootstrap" /\ r = c.deployment)

Receipt(c) == [c EXCEPT !.mode = "audit-readonly", !.commitSha = head]

\* assertAuditGrants and validateObservation: the grants and the resources are
\* those the bootstrap left.
AsBootstrapLeft == ~handoff /\ ~altered

\* auditCompletion; its workflow shares the concurrency group.
AuditCompletion ==
    /\ run = None /\ AsBootstrapLeft
    /\ \E c \in records : Auditable(c) /\ records' = records \union {Receipt(c)}
    /\ UNCHANGED <<head, azure, human, runs, run>>

------------------------------------------------------------------------------
\* Azure, main and the operator.

\* A deployment goes on whether or not anybody watches it.
Deploy(s, r) ==
    /\ arm[s][r] = "running"
    /\ \/ /\ stock[s] # "complete"
          /\ stock' = [stock EXCEPT ![s] = IF @ = "none" THEN "partial" ELSE "complete"]
          /\ UNCHANGED arm
       \/ /\ \E t \in Terminal :
                /\ t = "succeeded" => stock[s] = "complete"
                /\ arm' = [arm EXCEPT ![s][r] = t]
          /\ UNCHANGED stock
    /\ UNCHANGED <<head, altered, human, runs, run, records>>

MoveMain ==
    /\ head < MaxRevision
    /\ head' = head + 1
    /\ UNCHANGED <<azure, human, runs, run, records>>

Alter ==
    /\ ~altered /\ stock["bootstrap"] # "none"
    /\ altered' = TRUE
    /\ UNCHANGED <<head, arm, stock, human, runs, run, records>>

\* The operator grants authority and hands over between two runs only; the
\* bootstrap writer is removed before the human grants.
Grant(s) ==
    /\ run = None /\ writer # s
    /\ writer' = s
    /\ window' = IF s = "continuation" THEN "open" ELSE window
    /\ UNCHANGED <<head, azure, handoff, runs, run, records>>

Revoke ==
    /\ writer # None
    /\ writer' = None
    /\ UNCHANGED <<head, azure, handoff, window, runs, run, records>>

HandOver ==
    /\ run = None /\ ~handoff
    /\ writer # "bootstrap" /\ stock["bootstrap"] # "none"
    /\ handoff' = TRUE
    /\ UNCHANGED <<head, azure, writer, window, runs, run, records>>

Deadline ==
    /\ window = "open"
    /\ window' = "over"
    /\ UNCHANGED <<head, azure, handoff, writer, runs, run, records>>

Workflow ==
    \/ \E s \in Stages, m \in Modes, t \in Routes, p \in records \union {None}, n \in Revisions :
          Plan(s, m, t, p, n)
    \/ Bind \/ Verify \/ Assess \/ Reassess \/ Submit \/ Put \/ Poll \/ Stop \/ AuditCompletion

Environment ==
    \/ \E s \in Stages, r \in Revisions : Deploy(s, r)
    \/ \E s \in Stages : Grant(s)
    \/ MoveMain \/ Alter \/ Revoke \/ HandOver \/ Deadline

Next == Workflow \/ Environment

Spec == Init /\ [][Next]_vars

------------------------------------------------------------------------------

\* "Running/unknown existing deployment; inspect before any write": whatever
\* became of the runs that started them, two deployments never run at once.
OneDeploymentAtATime ==
    \A s, t \in Stages, r, q \in Revisions :
        arm[s][r] = "running" /\ arm[t][q] = "running" => s = t /\ r = q

\* "Continuation requires verified completed bootstrap": under a continuation,
\* started from a checkpoint or from a receipt, lies a bootstrap that Azure
\* reports as succeeded, complete, and handed over.
ContinuationStandsOnBootstrap ==
    (\E r \in Revisions : arm["continuation"][r] # "absent") =>
        /\ \E r \in Revisions : arm["bootstrap"][r] = "succeeded"
        /\ stock["bootstrap"] = "complete"
        /\ handoff

\* A checkpoint that says completed is the record of a deployment that has
\* succeeded with its whole inventory, by whichever run it was written.
CompletedMeansDeployed ==
    \A c \in records : c.completed =>
        /\ arm[c.stage][c.deployment] = "succeeded"
        /\ c.stock[c.stage] = "complete"

\* Deployment r of stage s starts.
Starts(s, r) == arm[s][r] # "running" /\ arm'[s][r] = "running"

\* "Bootstrap cannot resume after human security handoff": not even when the
\* bootstrap writer is granted once more and an old checkpoint is presented.
NoBootstrapAfterHandoff ==
    [][\A r \in Revisions : Starts("bootstrap", r) => ~handoff]_vars

\* Bounded authority: the deadline passes while a run waits for its checks,
\* and then it neither starts a deployment nor reports one as completed.
WithinTheWindow ==
    [][run # None /\ run.route \in {"bounded", "recovery"} /\ window # "open"
       => /\ \A r \in Revisions : ~Starts("continuation", r)
          /\ \A c \in records' \ records : ~c.completed]_vars

\* "Completed bootstrap must never regain write authority" (assessStage).
CompletedBootstrapIsClosed ==
    [][\A r \in Revisions : Starts("bootstrap", r) =>
          ~\E c \in records : c.stage = "bootstrap" /\ c.completed]_vars
==============================================================================
