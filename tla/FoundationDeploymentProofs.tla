---------------------- MODULE FoundationDeploymentProofs ----------------------
(***************************************************************************)
(* What the checkpoints and the checks of a run guarantee, whatever the    *)
(* number of revisions and of runs, wherever runs stop and whatever        *)
(* becomes of the deployments they leave behind.                           *)
(***************************************************************************)
EXTENDS FoundationDeployment, TLAPS

NothingRuns == \A s \in Stages, r \in Revisions : arm[s][r] # "running"

BootstrapDone ==
    /\ \E r \in Revisions : arm["bootstrap"][r] = "succeeded"
    /\ stock["bootstrap"] = "complete"
    /\ handoff

\* What a run that is about to write has found out, and what nobody but itself
\* can undo.
MayDeploy(q) ==
    /\ arm[q.stage][q.rev] # "succeeded"
    /\ q.stage = "bootstrap" => ~handoff
    /\ q.stage = "continuation" => BootstrapDone

RunInv ==
    run # None =>
        /\ run.phase # "polling" => NothingRuns
        /\ run.pred # None => run.pred \in records
        /\ run.pred = None <=> run.stage = "bootstrap" /\ run.mode = "initial"
        /\ run.phase = "assessed" => run.pred # None
        /\ run.local # None => ~run.local.completed
        /\ run.phase \in {"decided", "authenticated"} => MayDeploy(run)
        /\ run.phase = "authenticated" => run.local \in Checkpoints /\ ~run.local.completed

HandoffHasStock == handoff => stock["bootstrap"] # "none"

SucceededIsComplete ==
    \A s \in Stages, r \in Revisions : arm[s][r] = "succeeded" => stock[s] = "complete"

DeploymentInv ==
    /\ TypeOK
    /\ HandoffHasStock
    /\ SucceededIsComplete
    /\ CompletedMeansDeployed
    /\ ContinuationStandsOnBootstrap
    /\ OneDeploymentAtATime
    /\ RunInv

\* The state formulas that do not look at the run.
StateInv ==
    /\ HandoffHasStock
    /\ SucceededIsComplete
    /\ CompletedMeansDeployed
    /\ ContinuationStandsOnBootstrap
    /\ OneDeploymentAtATime

\* A run that is assessed and does not find its stage complete may deploy: its
\* own deployment has not succeeded, a bootstrap has not been handed over, and
\* a continuation stands on a bootstrap.
LEMMA AdmissibleMayDeploy ==
    ASSUME DeploymentInv, NEW q \in Runs, q.pred \in records, Admissible(q),
           q.pred = None <=> q.stage = "bootstrap" /\ q.mode = "initial", ~Completed(q)
    PROVE  MayDeploy(q)
<1>1. q.pred \in Checkpoints /\ q.stage \in Stages /\ q.rev \in Revisions /\ q.named \in Revisions
  BY DEF DeploymentInv, TypeOK, Runs
<1>2. q.pred.stage \in Stages /\ q.pred.deployment \in Revisions /\ q.mode \in Modes
  BY <1>1 DEF Checkpoints, Runs
<1>3. CASE q.pred.mode = "audit-readonly"
  <2>1. ReceiptHolds(q)
    BY <1>3 DEF Admissible
  <2> QED
    BY <1>2, <2>1 DEF ReceiptHolds, MayDeploy, BootstrapDone, SecurityHandedOver, HandedOver
<1>4. CASE q.pred.mode # "audit-readonly"
  <2>1. /\ PredecessorVisible(q.pred) /\ Inspected(q)
        /\ IF q.stage = "continuation" THEN ContinuationFounded(q) ELSE BootstrapStillOpen(q)
    BY <1>4 DEF Admissible
  <2>2. arm[q.stage][q.rev] # "succeeded"
    <3>1. SUFFICES ASSUME arm[q.stage][q.rev] = "succeeded" PROVE FALSE
      OBVIOUS
    <3>2. q.pred.stage = q.stage /\ q.pred.deployment = q.rev
      BY <2>1, <3>1 DEF Inspected
    <3>3. q.named = q.rev
      BY <1>2, <2>1, <3>2 DEF Inspected, Modes
    <3>4. stock[q.stage] = "complete"
      BY <1>1, <3>1 DEF DeploymentInv, SucceededIsComplete
    <3> QED
      BY <3>1, <3>2, <3>3, <3>4 DEF Completed, Whole
  <2>3. q.stage = "bootstrap" => ~handoff
    BY <2>1 DEF BootstrapStillOpen
  <2>4. ASSUME q.stage = "continuation" PROVE BootstrapDone
    <3>1. CASE q.pred.stage = "bootstrap"
      <4>1. q.pred.completed /\ stock["bootstrap"] = "complete" /\ handoff
        BY <2>1, <2>4, <3>1 DEF ContinuationFounded, SecurityHandedOver, HandedOver
      <4>2. arm["bootstrap"][q.pred.deployment] = "succeeded"
        BY <3>1, <4>1 DEF DeploymentInv, CompletedMeansDeployed
      <4> QED
        BY <1>2, <4>1, <4>2 DEF BootstrapDone
    <3>2. CASE q.pred.stage = "continuation"
      <4>1. arm["continuation"][q.pred.deployment] # "absent"
        BY <2>1, <3>2 DEF PredecessorVisible, Terminal
      <4> QED
        BY <1>2, <4>1 DEF DeploymentInv, ContinuationStandsOnBootstrap, BootstrapDone
    <3> QED
      BY <1>2, <3>1, <3>2 DEF Stages
  <2> QED
    BY <2>2, <2>3, <2>4 DEF MayDeploy
<1> QED
  BY <1>3, <1>4

\* An initial bootstrap in an empty group may deploy.
LEMMA EmptyMayDeploy ==
    ASSUME DeploymentInv, NEW q \in Runs, EmptyDestination, q.stage = "bootstrap"
    PROVE  MayDeploy(q) /\ NothingRuns
  BY DEF DeploymentInv, HandoffHasStock, EmptyDestination, MayDeploy, NothingRuns, Runs, Stages

\* A step that changes nothing of Azure and hands nothing over keeps the state
\* formulas as long as what it records as completed is deployed.
LEMMA RecordsKeepState ==
    ASSUME StateInv, UNCHANGED <<azure, handoff>>,
           \A c \in records' \ records : c.completed =>
               arm[c.stage][c.deployment] = "succeeded" /\ c.stock[c.stage] = "complete"
    PROVE  StateInv'
<1>1. arm' = arm /\ stock' = stock /\ handoff' = handoff
  BY DEF azure
<1>2. CompletedMeansDeployed'
  BY <1>1 DEF StateInv, CompletedMeansDeployed
<1> QED
  BY <1>1, <1>2 DEF StateInv, HandoffHasStock, SucceededIsComplete, ContinuationStandsOnBootstrap,
     OneDeploymentAtATime

\* The type of a checkpoint.
LEMMA CheckpointType ==
    ASSUME TypeOK, NEW q \in Runs, NEW b \in BOOLEAN, NEW d \in Revisions,
           NEW i \in [stock : Inventories, altered : BOOLEAN]
    PROVE  /\ Checkpoint(q, b, d, i) \in Checkpoints
           /\ Checkpoint(q, b, d, i).completed = b
           /\ Checkpoint(q, b, d, i).stage = q.stage
           /\ Checkpoint(q, b, d, i).deployment = d
           /\ Checkpoint(q, b, d, i).stock = i.stock
  BY DEF Checkpoint, Checkpoints, Runs

\* The same of a checkpoint with what exists at the moment.
LEMMA InventoryCheckpoint ==
    ASSUME TypeOK, NEW q \in Runs, NEW b \in BOOLEAN, NEW d \in Revisions
    PROVE  /\ Checkpoint(q, b, d, Inventory) \in Checkpoints
           /\ Checkpoint(q, b, d, Inventory).completed = b
           /\ Checkpoint(q, b, d, Inventory).stage = q.stage
           /\ Checkpoint(q, b, d, Inventory).deployment = d
           /\ Checkpoint(q, b, d, Inventory).stock = stock
  BY DEF Checkpoint, Checkpoints, Runs, Inventory, TypeOK

\* A step of the run that only advances it.
LEMMA RunStep ==
    ASSUME DeploymentInv, run # None, UNCHANGED <<head, azure, human, runs, records>>,
           NEW p \in Phases \ {"polling"}, p = "assessed" => run.pred # None, NEW w \in Stages \union {None},
           NEW c \in Checkpoints \union {None}, c # None => ~c.completed,
           p = "authenticated" => c \in Checkpoints /\ ~c.completed, run.phase # "polling",
           run' = [run EXCEPT !.phase = p, !.perm = w, !.local = c],
           p \in {"decided", "authenticated"} => MayDeploy(run)
    PROVE  DeploymentInv'
<1>1. run \in Runs
  BY DEF DeploymentInv, TypeOK
<1>2. /\ run' \in Runs
      /\ run'.stage = run.stage /\ run'.rev = run.rev /\ run'.pred = run.pred /\ run'.mode = run.mode
      /\ run'.phase = p /\ run'.local = c
  BY <1>1 DEF Runs
<1>3. TypeOK'
  BY <1>2 DEF DeploymentInv, TypeOK, azure, human
<1>4. StateInv'
  BY RecordsKeepState DEF DeploymentInv, StateInv, human
<1>5. RunInv'
  BY <1>2 DEF DeploymentInv, RunInv, MayDeploy, BootstrapDone, NothingRuns, azure, human
<1> QED
  BY <1>3, <1>4, <1>5 DEF DeploymentInv, StateInv

\* A run that ends leaves behind what it records.
LEMMA RunEnds ==
    ASSUME DeploymentInv, UNCHANGED <<head, azure, human, runs>>, run' = None,
           records' \subseteq Checkpoints,
           \A c \in records' \ records : c.completed =>
               arm[c.stage][c.deployment] = "succeeded" /\ c.stock[c.stage] = "complete"
    PROVE  DeploymentInv'
<1>1. TypeOK'
  BY DEF DeploymentInv, TypeOK, azure, human
<1>2. StateInv'
  BY RecordsKeepState DEF DeploymentInv, StateInv, human
<1> QED
  BY <1>1, <1>2 DEF DeploymentInv, StateInv, RunInv

\* The invariant is inductive.
THEOREM FoundationHolds == Spec => []DeploymentInv
<1>1. Init => DeploymentInv
  <2> SUFFICES ASSUME Init PROVE DeploymentInv
    OBVIOUS
  <2>1. TypeOK
    <3>1. head \in Revisions /\ runs \in 0..MaxRuns
      BY BoundsAssumption DEF Init, Revisions
    <3>2. arm \in [Stages -> [Revisions -> {"absent", "running"} \union Terminal]]
      BY DEF Init
    <3>3. stock \in Inventories
      BY DEF Init, Inventories
    <3> QED
      BY <3>1, <3>2, <3>3 DEF Init, TypeOK
  <2>2. StateInv /\ RunInv
    BY DEF Init, StateInv, RunInv, HandoffHasStock, SucceededIsComplete, CompletedMeansDeployed,
       ContinuationStandsOnBootstrap, OneDeploymentAtATime, Stages
  <2> QED
    BY <2>1, <2>2 DEF DeploymentInv, StateInv
<1>2. DeploymentInv /\ [Next]_vars => DeploymentInv'
  <2> SUFFICES ASSUME DeploymentInv, [Next]_vars PROVE DeploymentInv'
    OBVIOUS
  <2>0. run # None => run \in Runs /\ run.local \in Checkpoints \union {None}
    BY DEF DeploymentInv, TypeOK, Runs
  <2>1. ASSUME NEW s \in Stages, NEW m \in Modes, NEW t \in Routes, NEW p \in records \union {None},
               NEW n \in Revisions, Plan(s, m, t, p, n)
        PROVE  DeploymentInv'
    <3> DEFINE q == [phase |-> "planned", stage |-> s, mode |-> m, route |-> t, rev |-> head,
                     pred |-> p, named |-> n, base |-> Inventory, perm |-> None, local |-> None]
    <3>1. /\ run = None /\ run' = q /\ runs < MaxRuns /\ runs' = runs + 1 /\ WellFormed(q)
          /\ UNCHANGED <<head, azure, human, records>>
          /\ IF p = None THEN EmptyDestination /\ n = head ELSE Admissible(q)
      BY <2>1 DEF Plan
    <3>2. q \in Runs
      BY DEF DeploymentInv, TypeOK, Runs, Phases, Inventory
    <3>3. TypeOK'
      BY <3>1, <3>2, BoundsAssumption DEF DeploymentInv, TypeOK, azure, human
    <3>4. StateInv'
      BY <3>1, RecordsKeepState DEF DeploymentInv, StateInv, human
    <3>5. NothingRuns
      BY <3>1 DEF NothingRuns, EmptyDestination, Admissible, HistorySettled
    <3>6. RunInv'
      BY <3>1, <3>5 DEF RunInv, WellFormed, NothingRuns, azure
    <3> QED
      BY <3>3, <3>4, <3>6 DEF DeploymentInv, StateInv
  <2>2. ASSUME NEW from \in {"planned", "bound"}, NEW to \in {"bound", "verified"}, Authenticate(from, to)
        PROVE  DeploymentInv'
    <3>1. run' = [run EXCEPT !.phase = to, !.perm = run.perm, !.local = run.local]
      BY <2>0, <2>2 DEF Authenticate, Runs
    <3>2. /\ run.perm \in Stages \union {None} /\ to \in Phases \ {"polling"}
          /\ to \notin {"assessed", "decided", "authenticated"} /\ run.phase # "polling"
      BY <2>0, <2>2 DEF Authenticate, Runs, Phases
    <3>3. run.local # None => ~run.local.completed
      BY <2>2 DEF Authenticate, DeploymentInv, RunInv
    <3> QED
      BY <2>0, <2>2, <3>1, <3>2, <3>3, RunStep DEF Authenticate
  <2>3. CASE Assess
    <3>1. run # None /\ run.phase = "verified" /\ UNCHANGED <<head, azure, human, runs, records>>
      BY <2>3 DEF Assess
    <3>2. run.local # None => ~run.local.completed
      BY <3>1 DEF DeploymentInv, RunInv
    <3>3. writer \in Stages \union {None}
      BY DEF DeploymentInv, TypeOK
    <3>4. CASE run.pred = None
      <4>1. EmptyDestination /\ run.stage = "bootstrap"
        BY <2>3, <3>1, <3>4 DEF Assess, DeploymentInv, RunInv
      <4>2. MayDeploy(run)
        BY <2>0, <3>1, <4>1, EmptyMayDeploy
      <4>3. run' = [run EXCEPT !.phase = "decided", !.perm = writer, !.local = run.local]
        BY <2>0, <2>3, <3>1, <3>4 DEF Assess, Runs
      <4>4. "decided" \in Phases \ {"polling"} /\ "decided" \notin {"assessed", "authenticated"}
        BY DEF Phases
      <4>5. run.local \in Checkpoints \union {None} /\ run.phase # "polling"
        BY <2>0, <3>1
      <4> QED
        BY <3>1, <3>2, <3>3, <4>2, <4>3, <4>4, <4>5, RunStep
    <3>5. CASE run.pred # None
      <4>1. run' = [run EXCEPT !.phase = "assessed", !.perm = writer, !.local = run.local]
        BY <2>0, <2>3, <3>1, <3>5 DEF Assess, Runs
      <4>2. "assessed" \in Phases \ {"polling"} /\ "assessed" \notin {"decided", "authenticated"}
        BY DEF Phases
      <4>3. run.local \in Checkpoints \union {None} /\ run.phase # "polling"
        BY <2>0, <3>1
      <4> QED
        BY <3>1, <3>2, <3>3, <3>5, <4>1, <4>2, <4>3, RunStep
    <3> QED
      BY <3>4, <3>5
  <2>4. CASE Reassess
    <3>1. /\ run # None /\ run.phase = "assessed" /\ Admissible(run)
          /\ UNCHANGED <<head, azure, human, runs>>
      BY <2>4 DEF Reassess
    <3>2. CASE ~Completed(run)
      <4>1. run' = [run EXCEPT !.phase = "decided", !.perm = run.perm, !.local = run.local]
            /\ UNCHANGED records
        BY <2>0, <2>4, <3>1, <3>2 DEF Reassess, Runs
      <4>2. run.pred # None /\ run.pred \in records /\ (run.local # None => ~run.local.completed)
            /\ (run.pred = None <=> run.stage = "bootstrap" /\ run.mode = "initial")
        BY <3>1 DEF DeploymentInv, RunInv
      <4>3. MayDeploy(run)
        BY <2>0, <3>1, <3>2, <4>2, AdmissibleMayDeploy
      <4>4. run.perm \in Stages \union {None} /\ run.local \in Checkpoints \union {None}
        BY <2>0, <3>1 DEF Runs
      <4>5. "decided" \in Phases \ {"polling"} /\ "decided" \notin {"assessed", "authenticated"}
        BY DEF Phases
      <4>6. run.phase # "polling"
        BY <3>1
      <4> QED
        BY <3>1, <4>1, <4>2, <4>3, <4>4, <4>5, <4>6, RunStep
    <3>3. CASE Completed(run)
      <4> DEFINE c == Checkpoint(run, TRUE, run.named, Inventory)
      <4>1. run' = None /\ records' = records \union {c}
        BY <2>4, <3>3 DEF Reassess
      <4>2. run.named \in Revisions
        BY <2>0, <3>1 DEF Runs
      <4>3. c \in Checkpoints /\ c.stage = run.stage /\ c.deployment = run.named /\ c.stock = stock
        <5>1. TypeOK /\ run \in Runs
          BY <2>0, <3>1 DEF DeploymentInv
        <5>2. \A b \in BOOLEAN : LET d == Checkpoint(run, b, run.named, Inventory)
                                IN  d \in Checkpoints /\ d.stage = run.stage
                                    /\ d.deployment = run.named /\ d.stock = stock
          BY <4>2, <5>1, InventoryCheckpoint
        <5> QED
          BY <5>2
      <4>4. records \subseteq Checkpoints
        BY DEF DeploymentInv, TypeOK
      <4> QED
        BY <3>1, <3>3, <4>1, <4>3, <4>4, RunEnds DEF Completed, Whole
    <3> QED
      BY <3>2, <3>3
  <2>5. CASE Submit
    <3>1. run # None /\ run.phase = "decided" /\ UNCHANGED <<head, azure, human, runs, records>>
      BY <2>5 DEF Submit
    <3>2. run.base \in [stock : Inventories, altered : BOOLEAN] /\ run.rev \in Revisions
          /\ run.perm \in Stages \union {None} /\ MayDeploy(run)
      BY <2>0, <3>1 DEF Runs, DeploymentInv, RunInv
    <3> DEFINE c == Checkpoint(run, FALSE, run.rev, run.base)
    <3>3. c \in Checkpoints /\ ~c.completed
      BY <2>0, <3>1, <3>2, CheckpointType DEF DeploymentInv
    <3>4. run' = [run EXCEPT !.phase = "authenticated", !.perm = run.perm, !.local = c]
      BY <2>0, <2>5, <3>1 DEF Submit, Runs
    <3> QED
      BY <3>1, <3>2, <3>3, <3>4, RunStep DEF Phases
  <2>6. CASE Put
    <3>1. /\ run # None /\ run.phase = "authenticated" /\ run \in Runs /\ NothingRuns /\ MayDeploy(run)
          /\ run.local # None => ~run.local.completed
          /\ UNCHANGED <<head, stock, altered, human, runs>>
          /\ arm' = [arm EXCEPT ![run.stage][run.rev] = "running"]
      BY <2>0, <2>6 DEF Put, Started, DeploymentInv, RunInv
    <3>2. run.stage \in Stages /\ run.rev \in Revisions
      BY <3>1 DEF Runs
    <3>3. /\ arm' \in [Stages -> [Revisions -> {"absent", "running"} \union Terminal]]
          /\ \A s \in Stages, r \in Revisions :
                arm'[s][r] = IF s = run.stage /\ r = run.rev THEN "running" ELSE arm[s][r]
      BY <3>1, <3>2 DEF DeploymentInv, TypeOK
    <3>4. /\ run' \in Runs \union {None}
          /\ run' # None => /\ run'.phase = "polling" /\ run'.pred = run.pred /\ run'.stage = run.stage
                            /\ run'.mode = run.mode /\ run'.local = run.local
      BY <2>6, <3>1 DEF Put, Runs, Phases
    <3>5. /\ records \subseteq records' /\ records' \subseteq Checkpoints
          /\ \A c \in records' \ records : ~c.completed
      <4>1. CASE UNCHANGED records
        BY <4>1 DEF DeploymentInv, TypeOK
      <4>2. CASE records' = records \union {run.local}
        <5>1. run.local \in Checkpoints /\ ~run.local.completed
          BY <3>1 DEF DeploymentInv, RunInv
        <5> QED
          BY <4>2, <5>1 DEF DeploymentInv, TypeOK
      <4> QED
        BY <2>6, <4>1, <4>2 DEF Put
    <3>6. TypeOK'
      BY <3>1, <3>3, <3>4, <3>5 DEF DeploymentInv, TypeOK, human
    <3>7. CompletedMeansDeployed'
      BY <3>1, <3>2, <3>3, <3>5, <3>6 DEF DeploymentInv, CompletedMeansDeployed, MayDeploy, TypeOK, Checkpoints
    <3>8. ContinuationStandsOnBootstrap'
      <4>1. CASE run.stage = "bootstrap"
        BY <3>1, <3>2, <3>3, <4>1 DEF DeploymentInv, ContinuationStandsOnBootstrap, MayDeploy, human, Stages
      <4>2. CASE run.stage = "continuation"
        BY <3>1, <3>2, <3>3, <4>2 DEF MayDeploy, BootstrapDone, ContinuationStandsOnBootstrap, human, Stages
      <4> QED
        BY <3>2, <4>1, <4>2 DEF Stages
    <3>9. OneDeploymentAtATime' /\ SucceededIsComplete' /\ HandoffHasStock'
      BY <3>1, <3>2, <3>3 DEF OneDeploymentAtATime, NothingRuns, DeploymentInv, SucceededIsComplete,
         HandoffHasStock, human
    <3>10. RunInv'
      BY <3>1, <3>4, <3>5 DEF DeploymentInv, RunInv
    <3> QED
      BY <3>6, <3>7, <3>8, <3>9, <3>10 DEF DeploymentInv
  <2>7. CASE Poll
    <3>1. /\ run # None /\ run' = None /\ UNCHANGED <<head, azure, human, runs>> /\ run \in Runs
      BY <2>0, <2>7 DEF Poll
    <3>2. run.rev \in Revisions
      BY <3>1 DEF Runs
    <3> DEFINE c(b) == Checkpoint(run, b, run.rev, Inventory)
    <3>3. \A b \in BOOLEAN : /\ c(b) \in Checkpoints /\ c(b).completed = b
                             /\ c(b).stage = run.stage /\ c(b).deployment = run.rev /\ c(b).stock = stock
      BY <3>1, <3>2, InventoryCheckpoint DEF DeploymentInv
    <3>4. PICK b \in BOOLEAN : records' = records \union {c(b)}
             /\ (b => arm[run.stage][run.rev] = "succeeded" /\ stock[run.stage] = "complete")
      BY <2>7 DEF Poll, Verified, Whole
    <3>5. records \subseteq Checkpoints
      BY DEF DeploymentInv, TypeOK
    <3> HIDE DEF c
    <3>6. records' \subseteq Checkpoints
          /\ \A d \in records' \ records : d.completed =>
                 arm[d.stage][d.deployment] = "succeeded" /\ d.stock[d.stage] = "complete"
      BY <3>3, <3>4, <3>5
    <3> QED
      BY <3>1, <3>6, RunEnds
  <2>8. CASE Stop
    <3>1. records' \subseteq Checkpoints /\ \A d \in records' \ records : ~d.completed
      BY <2>0, <2>8 DEF Stop, DeploymentInv, TypeOK, RunInv
    <3> QED
      BY <2>8, <3>1, RunEnds DEF Stop
  <2>9. CASE AuditCompletion
    <3>1. PICK c \in records : Auditable(c) /\ records' = records \union {Receipt(c)}
      BY <2>9 DEF AuditCompletion
    <3>2. Receipt(c) \in Checkpoints /\ ~Receipt(c).completed
      <4>1. c \in Checkpoints /\ head \in Revisions /\ ~c.completed
        BY <3>1 DEF Auditable, DeploymentInv, TypeOK
      <4> QED
        BY <4>1 DEF Receipt, Checkpoints
    <3>3. records' \subseteq Checkpoints /\ \A d \in records' \ records : ~d.completed
      BY <3>1, <3>2 DEF DeploymentInv, TypeOK
    <3>4. run' = None /\ UNCHANGED <<head, azure, human, runs>>
      BY <2>9 DEF AuditCompletion
    <3> QED
      BY <3>3, <3>4, RunEnds
  <2>10. ASSUME NEW s \in Stages, NEW r \in Revisions, Deploy(s, r) PROVE DeploymentInv'
    <3>1. /\ arm[s][r] = "running" /\ UNCHANGED <<head, altered, human, runs, run, records>>
          /\ \/ /\ stock[s] # "complete" /\ arm' = arm
                /\ stock' = [stock EXCEPT ![s] = IF @ = "none" THEN "partial" ELSE "complete"]
             \/ /\ stock' = stock
                /\ \E t \in Terminal :
                      /\ t = "succeeded" => stock[s] = "complete"
                      /\ arm' = [arm EXCEPT ![s][r] = t]
      BY <2>10 DEF Deploy
    <3>2. stock' \in Inventories
          /\ \A t \in Stages :
                /\ stock[t] = "complete" => stock'[t] = "complete"
                /\ stock[t] # "none" => stock'[t] # "none"
      BY <3>1 DEF DeploymentInv, TypeOK, Inventories
    <3>3. /\ arm' \in [Stages -> [Revisions -> {"absent", "running"} \union Terminal]]
          /\ \A t \in Stages, n \in Revisions :
                \/ arm'[t][n] = arm[t][n]
                \/ /\ arm[t][n] = "running" /\ arm'[t][n] \in Terminal
                   /\ arm'[t][n] = "succeeded" => stock[t] = "complete"
      BY <3>1 DEF DeploymentInv, TypeOK
    <3>4. TypeOK'
      BY <3>1, <3>2, <3>3 DEF DeploymentInv, TypeOK, human
    <3>5. HandoffHasStock' /\ SucceededIsComplete'
      <4>1. handoff' = handoff
        BY <2>10 DEF Deploy, human
      <4>2. HandoffHasStock'
        <5>1. "bootstrap" \in Stages
          BY DEF Stages
        <5> QED
          BY <3>2, <4>1, <5>1 DEF DeploymentInv, HandoffHasStock
      <4>3. SucceededIsComplete'
        <5>1. ASSUME NEW t \in Stages, NEW n \in Revisions, arm'[t][n] = "succeeded"
              PROVE  stock'[t] = "complete"
          BY <3>2, <3>3, <5>1 DEF DeploymentInv, SucceededIsComplete
        <5> QED
          BY <5>1 DEF SucceededIsComplete
      <4> QED
        BY <4>2, <4>3
    <3>6. CompletedMeansDeployed'
      BY <3>1, <3>3, <3>4 DEF DeploymentInv, CompletedMeansDeployed, TypeOK, Checkpoints
    <3>7. ContinuationStandsOnBootstrap'
      <4>1. \A n \in Revisions :
               /\ arm'["continuation"][n] # "absent" => arm["continuation"][n] # "absent"
               /\ arm["bootstrap"][n] = "succeeded" => arm'["bootstrap"][n] = "succeeded"
        BY <3>3 DEF Stages
      <4>2. handoff' = handoff
        BY <2>10 DEF Deploy, human
      <4>3. stock["bootstrap"] = "complete" => stock'["bootstrap"] = "complete"
        BY <3>2 DEF Stages
      <4> QED
        BY <4>1, <4>2, <4>3 DEF DeploymentInv, ContinuationStandsOnBootstrap
    <3>8. OneDeploymentAtATime'
      BY <3>3 DEF DeploymentInv, OneDeploymentAtATime, Terminal
    <3>9. RunInv'
      BY <3>1 DEF DeploymentInv, RunInv, NothingRuns, MayDeploy
    <3> QED
      BY <3>4, <3>5, <3>6, <3>7, <3>8, <3>9 DEF DeploymentInv
  \* What else people do touches neither Azure nor the records.
  <2>11. ASSUME UNCHANGED <<arm, stock, runs, run, records>>, head' \in Revisions,
                altered' \in BOOLEAN, handoff' \in BOOLEAN, writer' \in Stages \union {None},
                window' \in {"closed", "open", "over"}, handoff => handoff',
                handoff' # handoff => run = None /\ stock["bootstrap"] # "none"
         PROVE  DeploymentInv'
    <3>1. TypeOK'
      BY <2>11 DEF DeploymentInv, TypeOK
    <3>2. StateInv'
      BY <2>11 DEF DeploymentInv, StateInv, HandoffHasStock, SucceededIsComplete, CompletedMeansDeployed,
         ContinuationStandsOnBootstrap, OneDeploymentAtATime
    <3>3. RunInv'
      BY <2>11 DEF DeploymentInv, RunInv, NothingRuns, MayDeploy, BootstrapDone
    <3> QED
      BY <3>1, <3>2, <3>3 DEF DeploymentInv, StateInv
  <2>12. ASSUME NEW s \in Stages, Grant(s) PROVE DeploymentInv'
    BY <2>11, <2>12 DEF Grant, DeploymentInv, TypeOK, azure
  <2>13. CASE MoveMain
    BY <2>11, <2>13, BoundsAssumption DEF MoveMain, DeploymentInv, TypeOK, azure, human, Revisions
  <2>14. CASE Alter
    BY <2>11, <2>14 DEF Alter, DeploymentInv, TypeOK, human
  <2>15. CASE Revoke \/ HandOver \/ Deadline
    BY <2>11, <2>15 DEF Revoke, HandOver, Deadline, DeploymentInv, TypeOK, azure
  <2>16. CASE UNCHANGED vars
    BY <2>11, <2>16 DEF vars, DeploymentInv, TypeOK
  <2> QED
    BY <2>1, <2>2, <2>3, <2>4, <2>5, <2>6, <2>7, <2>8, <2>9, <2>10, <2>12, <2>13, <2>14, <2>15, <2>16
    DEF Next, Workflow, Environment, Bind, Verify
<1> QED
  BY <1>1, <1>2, PTL DEF Spec

\* Deployments, stocks, records and the run keep their shape.
THEOREM TypeCorrect == Spec => []TypeOK
<1>1. DeploymentInv => TypeOK
  BY DEF DeploymentInv
<1> QED
  BY <1>1, FoundationHolds, PTL

\* Two deployments never run at once, whatever became of the runs that started
\* them.
THEOREM DeploymentsAlone == Spec => []OneDeploymentAtATime
<1>1. DeploymentInv => OneDeploymentAtATime
  BY DEF DeploymentInv
<1> QED
  BY <1>1, FoundationHolds, PTL

\* A checkpoint marked completed records a deployment that has succeeded.
THEOREM CompletedIsTrue == Spec => []CompletedMeansDeployed
<1>1. DeploymentInv => CompletedMeansDeployed
  BY DEF DeploymentInv
<1> QED
  BY <1>1, FoundationHolds, PTL

\* A continuation stands on a complete bootstrap that was handed over.
THEOREM ContinuationFounds == Spec => []ContinuationStandsOnBootstrap
<1>1. DeploymentInv => ContinuationStandsOnBootstrap
  BY DEF DeploymentInv
<1> QED
  BY <1>1, FoundationHolds, PTL

\* The one step that starts a deployment.
LEMMA OnlyPutStarts ==
    ASSUME DeploymentInv, [Next]_vars, NEW s \in Stages, NEW r \in Revisions, Starts(s, r)
    PROVE  Put /\ run # None /\ run.phase = "authenticated" /\ run.stage = s
<1>1. CASE Put
  <2>1. /\ run # None /\ run.phase = "authenticated" /\ run.stage \in Stages /\ run.rev \in Revisions
        /\ arm' = [arm EXCEPT ![run.stage][run.rev] = "running"]
    BY <1>1 DEF Put, Started, DeploymentInv, TypeOK, Runs
  <2>2. arm'[s][r] = IF s = run.stage /\ r = run.rev THEN "running" ELSE arm[s][r]
    BY <2>1 DEF DeploymentInv, TypeOK
  <2> QED
    BY <1>1, <2>1, <2>2 DEF Starts
<1>2. ASSUME NEW t \in Stages, NEW n \in Revisions, Deploy(t, n) PROVE FALSE
  BY <1>2 DEF Deploy, Starts, Terminal, DeploymentInv, TypeOK
<1>3. CASE UNCHANGED arm
  BY <1>3 DEF Starts
<1> QED
  BY <1>1, <1>2, <1>3 DEF Next, Workflow, Environment, Plan, Bind, Verify, Authenticate, Assess, Reassess,
     Submit, Poll, Stop, AuditCompletion, Grant, MoveMain, Alter, Revoke, HandOver, Deadline, vars, azure

\* No bootstrap starts once the resources were handed over.
THEOREM HandoffIsFinal == Spec => NoBootstrapAfterHandoff
<1>1. DeploymentInv /\ [Next]_vars => [\A r \in Revisions : Starts("bootstrap", r) => ~handoff]_vars
  <2> SUFFICES ASSUME DeploymentInv, [Next]_vars, NEW r \in Revisions, Starts("bootstrap", r)
               PROVE  ~handoff
    OBVIOUS
  <2>1. run # None /\ run.phase = "authenticated" /\ run.stage = "bootstrap"
    BY OnlyPutStarts DEF Stages
  <2> QED
    BY <2>1 DEF DeploymentInv, RunInv, MayDeploy
<1> QED
  BY <1>1, FoundationHolds, PTL DEF Spec, NoBootstrapAfterHandoff

\* Outside the window a bounded run starts nothing and completes nothing.
THEOREM BoundedAuthority == Spec => WithinTheWindow
<1> DEFINE Bounded == run # None /\ run.route \in {"bounded", "recovery"} /\ window # "open"
<1>1. DeploymentInv /\ [Next]_vars =>
         [Bounded => /\ \A r \in Revisions : ~Starts("continuation", r)
                     /\ \A c \in records' \ records : ~c.completed]_vars
  <2> SUFFICES ASSUME DeploymentInv, Next, Bounded
               PROVE  /\ \A r \in Revisions : ~Starts("continuation", r)
                      /\ \A c \in records' \ records : ~c.completed
    OBVIOUS
  <2>1. ~Put /\ ~Poll
    BY DEF Put, Poll, WithinLifetime
  <2>2. ASSUME NEW r \in Revisions PROVE ~Starts("continuation", r)
    BY <2>1, OnlyPutStarts DEF Stages
  <2>3. ~Reassess
    BY DEF Reassess, Admissible, AuthorityHolds
  <2>4. CASE Stop
    BY <2>2, <2>4 DEF Stop, DeploymentInv, RunInv
  <2>5. CASE UNCHANGED records
    BY <2>2, <2>5
  <2> QED
    BY <2>1, <2>2, <2>3, <2>4, <2>5 DEF Next, Workflow, Environment, Plan, Bind, Verify, Authenticate, Assess,
       Submit, AuditCompletion, Deploy, Grant, MoveMain, Alter, Revoke, HandOver, Deadline
<1> QED
  BY <1>1, FoundationHolds, PTL DEF Spec, WithinTheWindow
==============================================================================
