----------------------------- MODULE K8sProofs -----------------------------
(***************************************************************************)
(* Proofs about the Kubernetes rollout, for any number of nodes, jobs,     *)
(* crashes and failed calls.                                               *)
(***************************************************************************)
EXTENDS K8sRollout, TLAPS

\* What a pass knows at each point: it has a control-plane node from FindVersion on, whose
\* snapshot is complete when UpgradeK8s is called; and when a pass that called it has come
\* to DONE, the nodes stay as Verify has seen them until the job is stored.
PassKnows ==
    /\ ex.pc \in {"job", "begin", "list"} => ex.cp = 0
    /\ ex.pc \in {"snapshot", "copy", "upgrade", "verify"} => ex.cp \in ControlPlane
    /\ ex.pc = "upgrade" => snap[ex.cp] = "complete"
    /\ ex.pc \in {"settle", "finish"} => ex.outcome # "none"
    /\ ex.pc \in {"settle", "finish"} /\ ex.outcome = "DONE" /\ ex.cp # 0
         => \A n \in Nodes : ver[n] = ex.copy.target

\* A request, a job and the pass that runs it have a version to go to.
TargetsGiven ==
    /\ req.stage # "none" => req.target \in Versions
    /\ job.state # "NONE" => job.target \in Versions
    /\ ex.pc # "idle" => ex.copy.target \in Versions

K8sInv == K8sTypeOK /\ PassKnows /\ TargetsGiven

\* The executor between two passes.
LEMMA IdleFacts ==
  /\ Idle \in Executor /\ Idle.pc = "idle" /\ NoJob \in Job /\ NoJob.state = "NONE"
  /\ NoRequest \in Request /\ NoRequest.stage = "none"
BY DEF Idle, Executor, PCs, NoJob, Job, NoRequest, Request, MaybeVersion

\* No control-plane node is number 0.
LEMMA ControlPlaneNodes == ControlPlane \subseteq Nodes /\ 0 \notin ControlPlane
BY K8sNodesAssumption

\* What is left alone by a step of the executor keeps its type.
LEMMA ExecTyped ==
  ASSUME K8sTypeOK, ExecRest, job' \in Job, phase' \in {"IDLE", "UPGRADING", "FAILED"}, ex' \in Executor,
         ver' \in [Nodes -> Versions], snap' \in [Nodes -> {"absent", "partial", "complete"}],
         UNCHANGED faults \/ Fails
  PROVE  K8sTypeOK'
<1>1. faults' \in 0..MaxFaults
  BY K8sBoundsAssumption DEF K8sTypeOK, Fails
<1> QED
  BY Zenon, <1>1 DEF K8sTypeOK, ExecRest

\* Every step leaves the versions to go to given.
LEMMA TargetsKept ==
  ASSUME K8sTypeOK, TargetsGiven, Next \/ UNCHANGED vars
  PROVE  TargetsGiven'
<1>0. ex \in Executor /\ job \in Job /\ req \in Request
  BY Zenon DEF K8sTypeOK
<1>1. ASSUME (\E b \in BOOLEAN : setRolloutsEnabled(b)) \/ UNCHANGED vars PROVE TargetsGiven'
  BY Zenon, <1>1 DEF setRolloutsEnabled, ApiRest, vars, TargetsGiven
<1>2. ASSUME NEW v \in Versions, CreateRollout(v) PROVE TargetsGiven'
  BY Zenon, <1>2 DEF CreateRollout, ApiRest, TargetsGiven
<1>3. ASSUME SetDesired \/ PutJob \/ Crash PROVE TargetsGiven'
  BY <1>0, <1>3, IdleFacts DEF SetDesired, PutJob, Crash, ApiRest, TargetsGiven, Request
<1>4. ASSUME RunOnce \/ SkipJob PROVE TargetsGiven'
  <2>1. ex' = Idle \/ (ex'.copy = job /\ job.state # "NONE")
    BY Zenon, <1>4 DEF RunOnce, SkipJob, actionable, Idle
  <2> QED
    BY Zenon, <1>4, <2>1, IdleFacts DEF RunOnce, SkipJob, ExecRest, TargetsGiven
<1>5. ASSUME StartJob PROVE TargetsGiven'
  <2>1. ex.pc # "idle" /\ job'.target = ex.copy.target /\ ex'.copy.target = ex.copy.target
    BY Zenon, <1>0, <1>5 DEF StartJob, Executor, Job
  <2> QED
    BY Zenon, <1>5, <2>1 DEF StartJob, ExecRest, TargetsGiven
<1>6. ASSUME \/ Begin \/ FindVersion \/ SnapshotOpen \/ SnapshotCopied \/ CallFails
             \/ (\E n \in Nodes : UpgradeNode(n)) \/ UpgradeDone \/ Verify \/ Settle
      PROVE TargetsGiven'
  <2>1. ex.pc # "idle" /\ ex'.copy = ex.copy /\ UNCHANGED job
    BY Zenon, <1>0, <1>6 DEF Begin, FindVersion, SnapshotOpen, SnapshotCopied, CallFails, UpgradeNode, UpgradeDone,
                     Verify, Settle, Executor
  <2>2. ExecRest
    BY Zenon, <1>6 DEF Begin, FindVersion, SnapshotOpen, SnapshotCopied, CallFails, UpgradeNode, UpgradeDone,
                Verify, Settle
  <2> QED
    BY Zenon, <2>1, <2>2 DEF ExecRest, TargetsGiven
<1>7. ASSUME finish PROVE TargetsGiven'
  <2>1. ex.pc # "idle" /\ job'.target = ex.copy.target
    BY Zenon, <1>0, <1>7 DEF finish, Executor, Job
  <2> QED
    BY Zenon, <1>7, <2>1, IdleFacts DEF finish, ExecRest, TargetsGiven
<1> QED
  BY Zenon, <1>1, <1>2, <1>3, <1>4, <1>5, <1>6, <1>7 DEF Next, Step

\* The requests and a crash leave what a pass relies on alone, or end the pass.
LEMMA OthersK8s ==
  ASSUME K8sInv,
         \/ \E b \in BOOLEAN : setRolloutsEnabled(b)
         \/ \E v \in Versions : CreateRollout(v)
         \/ SetDesired \/ PutJob \/ Crash \/ UNCHANGED vars
  PROVE  K8sInv' /\ UNCHANGED ver /\ (job' = job \/ job'.state = "PENDING")
<1>0. K8sTypeOK /\ PassKnows /\ TargetsGiven
  BY Zenon DEF K8sInv
<1>t. TargetsGiven'
  BY Zenon, <1>0, TargetsKept DEF Next, Step
<1>1. UNCHANGED <<ver, snap>> /\ (UNCHANGED ex \/ ex' = Idle) /\ (job' = job \/ job'.state = "PENDING")
  BY DEF setRolloutsEnabled, CreateRollout, SetDesired, PutJob, Crash, ApiRest, vars
<1>2. PassKnows'
  BY Zenon, <1>0, <1>1, IdleFacts DEF PassKnows
<1>3. ASSUME NEW b \in BOOLEAN, setRolloutsEnabled(b) PROVE K8sTypeOK'
  BY <1>0, <1>3, K8sBoundsAssumption DEF K8sTypeOK, setRolloutsEnabled, ApiRest
<1>4. ASSUME NEW v \in Versions, CreateRollout(v) PROVE K8sTypeOK'
  BY <1>0, <1>4, K8sBoundsAssumption DEF K8sTypeOK, CreateRollout, ApiRest, Request, MaybeVersion
<1>5. ASSUME SetDesired PROVE K8sTypeOK'
  BY Zenon, <1>0, <1>5 DEF K8sTypeOK, SetDesired, ApiRest, Request
<1>6. ASSUME PutJob PROVE K8sTypeOK'
  BY Zenon, <1>0, <1>6, IdleFacts DEF K8sTypeOK, PutJob, ApiRest, Request, Job
<1>7. ASSUME Crash PROVE K8sTypeOK'
  BY <1>0, <1>7, IdleFacts, K8sBoundsAssumption DEF K8sTypeOK, Crash
<1>8. ASSUME UNCHANGED vars PROVE K8sTypeOK'
  BY Zenon, <1>0, <1>8 DEF K8sTypeOK, vars
<1> QED
  BY Zenon, <1>t, <1>1, <1>2, <1>3, <1>4, <1>5, <1>6, <1>7, <1>8 DEF K8sInv

\* The steps before FindVersion.
LEMMA BeginK8s ==
  ASSUME K8sInv, RunOnce \/ SkipJob \/ StartJob \/ Begin
  PROVE  K8sInv' /\ UNCHANGED ver /\ job'.state \in {job.state, "RUNNING"}
<1>0. K8sTypeOK /\ PassKnows /\ TargetsGiven /\ ex \in Executor /\ job \in Job
  BY Zenon DEF K8sInv, K8sTypeOK
<1>t. TargetsGiven'
  BY Zenon, <1>0, TargetsKept DEF Next, Step
<1>1. CASE RunOnce
  <2>1. ex' \in Executor /\ ex'.pc = "job" /\ ex'.cp = 0
    BY Zenon, <1>0, <1>1, IdleFacts DEF RunOnce, Idle, Executor, PCs
  <2>2. K8sTypeOK'
    BY Zenon, <1>0, <1>1, <2>1, ExecTyped DEF RunOnce, K8sTypeOK
  <2> QED
    BY Zenon, <1>t, <1>1, <2>1, <2>2 DEF RunOnce, K8sInv, PassKnows
<1>2. CASE SkipJob
  <2>1. K8sTypeOK'
    BY Zenon, <1>0, <1>2, IdleFacts, ExecTyped DEF SkipJob, K8sTypeOK
  <2> QED
    BY Zenon, <1>t, <1>2, <2>1, IdleFacts DEF SkipJob, K8sInv, PassKnows
<1>3. CASE StartJob
  <2>1. ex' \in Executor /\ ex'.pc = "begin" /\ ex'.cp = ex.cp
    BY Zenon, <1>0, <1>3 DEF StartJob, Executor, Job, PCs
  <2>2. job' \in Job /\ job'.state = "RUNNING"
    BY Zenon, <1>0, <1>3 DEF StartJob, Executor, Job
  <2>3. K8sTypeOK'
    BY Zenon, <1>0, <1>3, <2>1, <2>2, ExecTyped DEF StartJob, K8sTypeOK
  <2> QED
    BY Zenon, <1>t, <1>0, <1>3, <2>1, <2>2, <2>3 DEF StartJob, K8sInv, PassKnows
<1>4. CASE Begin
  <2>1. ex' \in Executor /\ ex'.pc = "list" /\ ex'.cp = ex.cp
    BY Zenon, <1>0, <1>4 DEF Begin, Executor, PCs
  <2>2. K8sTypeOK'
    BY Zenon, <1>0, <1>4, <2>1, ExecTyped DEF Begin, K8sTypeOK
  <2> QED
    BY Zenon, <1>t, <1>0, <1>4, <2>1, <2>2 DEF Begin, K8sInv, PassKnows
<1> QED
  BY Zenon, <1>1, <1>2, <1>3, <1>4

\* FindVersion, and the snapshot of the node it found.
LEMMA SnapshotK8s ==
  ASSUME K8sInv, FindVersion \/ SnapshotOpen \/ SnapshotCopied
  PROVE  K8sInv' /\ UNCHANGED <<ver, job>>
<1>0. /\ K8sTypeOK /\ PassKnows /\ TargetsGiven /\ ex \in Executor
      /\ snap \in [Nodes -> {"absent", "partial", "complete"}]
  BY Zenon DEF K8sInv, K8sTypeOK
<1>t. TargetsGiven'
  BY Zenon, <1>0, TargetsKept DEF Next, Step
<1>1. CASE FindVersion
  <2>1. PICK n \in Nodes :
          /\ LastControlPlane(n)
          /\ ex' = IF ver[n] = ex.copy.target
                   THEN [ex EXCEPT !.pc = "settle", !.outcome = "DONE"]
                   ELSE [ex EXCEPT !.pc = "snapshot", !.cp = n]
    BY Zenon, <1>1 DEF FindVersion
  <2>2. CASE ver[n] = ex.copy.target
    <3>1. ex' = [ex EXCEPT !.pc = "settle", !.outcome = "DONE"]
      BY Zenon, <2>1, <2>2
    <3>2. ex' \in Executor /\ ex'.pc = "settle" /\ ex'.cp = 0 /\ ex'.outcome = "DONE"
      BY Zenon, <1>0, <1>1, <3>1 DEF FindVersion, Executor, PCs, PassKnows
    <3>3. K8sTypeOK'
      BY Zenon, <1>0, <1>1, <3>2, ExecTyped DEF FindVersion, K8sTypeOK
    <3> QED
      BY Zenon, <1>t, <1>1, <3>2, <3>3 DEF FindVersion, K8sInv, PassKnows
  <2>3. CASE ver[n] # ex.copy.target
    <3>1. ex' = [ex EXCEPT !.pc = "snapshot", !.cp = n]
      BY Zenon, <2>1, <2>3
    <3>2. ex' \in Executor /\ ex'.pc = "snapshot" /\ ex'.cp \in ControlPlane
      BY Zenon, <1>0, <2>1, <3>1 DEF Executor, PCs, LastControlPlane
    <3>3. K8sTypeOK'
      BY Zenon, <1>0, <1>1, <3>2, ExecTyped DEF FindVersion, K8sTypeOK
    <3> QED
      BY Zenon, <1>t, <1>1, <3>2, <3>3 DEF FindVersion, K8sInv, PassKnows
  <2> QED
    BY Zenon, <2>2, <2>3
<1>2. CASE SnapshotOpen
  <2>1. ex' \in Executor /\ ex'.pc = "copy" /\ ex'.cp \in ControlPlane
    BY Zenon, <1>0, <1>2 DEF SnapshotOpen, Executor, PCs, PassKnows
  <2>2. snap' \in [Nodes -> {"absent", "partial", "complete"}]
    BY Zenon, <1>0, <1>2 DEF SnapshotOpen
  <2>3. K8sTypeOK'
    BY Zenon, <1>0, <1>2, <2>1, <2>2, ExecTyped DEF SnapshotOpen, K8sTypeOK
  <2> QED
    BY Zenon, <1>t, <1>2, <2>1, <2>3 DEF SnapshotOpen, K8sInv, PassKnows
<1>3. CASE SnapshotCopied
  <2>1. ex' \in Executor /\ ex'.pc = "upgrade" /\ ex'.cp = ex.cp /\ ex.cp \in ControlPlane
    BY Zenon, <1>0, <1>3 DEF SnapshotCopied, Executor, PCs, PassKnows
  <2>2. snap' \in [Nodes -> {"absent", "partial", "complete"}] /\ snap'[ex.cp] = "complete"
    BY Zenon, <1>0, <1>3, <2>1, ControlPlaneNodes DEF SnapshotCopied
  <2>3. K8sTypeOK'
    BY Zenon, <1>0, <1>3, <2>1, <2>2, ExecTyped DEF SnapshotCopied, K8sTypeOK
  <2> QED
    BY Zenon, <1>t, <1>3, <2>1, <2>2, <2>3 DEF SnapshotCopied, K8sInv, PassKnows
<1> QED
  BY Zenon, <1>1, <1>2, <1>3

\* The upgrade, which is the only step that changes a version.
LEMMA UpgradeK8s ==
  ASSUME K8sInv, (\E n \in Nodes : UpgradeNode(n)) \/ UpgradeDone
  PROVE  K8sInv' /\ UNCHANGED job /\ \E n \in ControlPlane : snap[n] = "complete"
<1>0. K8sTypeOK /\ PassKnows /\ TargetsGiven /\ ex \in Executor /\ ver \in [Nodes -> Versions]
  BY Zenon DEF K8sInv, K8sTypeOK
<1>t. TargetsGiven'
  BY Zenon, <1>0, TargetsKept DEF Next, Step
<1>1. \E n \in ControlPlane : snap[n] = "complete"
  BY Zenon, <1>0 DEF UpgradeNode, UpgradeDone, PassKnows
<1>2. ASSUME NEW n \in Nodes, UpgradeNode(n) PROVE K8sInv' /\ UNCHANGED job
  <2>1. ver' \in [Nodes -> Versions]
    BY Zenon, <1>0, <1>2 DEF UpgradeNode, TargetsGiven
  <2>2. K8sTypeOK'
    BY Zenon, <1>0, <1>2, <2>1, ExecTyped DEF UpgradeNode, K8sTypeOK
  <2> QED
    BY Zenon, <1>t, <1>0, <1>2, <2>2 DEF UpgradeNode, K8sInv, PassKnows
<1>3. CASE UpgradeDone
  <2>1. ex' \in Executor /\ ex'.pc = "verify" /\ ex'.cp = ex.cp
    BY Zenon, <1>0, <1>3 DEF UpgradeDone, Executor, PCs
  <2>2. K8sTypeOK'
    BY Zenon, <1>0, <1>3, <2>1, ExecTyped DEF UpgradeDone, K8sTypeOK
  <2> QED
    BY Zenon, <1>t, <1>0, <1>1, <1>3, <2>1, <2>2 DEF UpgradeDone, K8sInv, PassKnows
<1> QED
  BY Zenon, <1>1, <1>2, <1>3

\* The end of ReconcileK8s, with the outcome of the pass.
LEMMA SettleK8s ==
  ASSUME K8sInv, Verify \/ CallFails \/ Settle
  PROVE  K8sInv' /\ UNCHANGED <<ver, job>>
<1>0. K8sTypeOK /\ PassKnows /\ TargetsGiven /\ ex \in Executor
  BY Zenon DEF K8sInv, K8sTypeOK
<1>t. TargetsGiven'
  BY Zenon, <1>0, TargetsKept DEF Next, Step
<1>1. CASE Verify
  <2>1. PICK o \in {"DONE", "FAILED"} :
          /\ ex' = [ex EXCEPT !.pc = "settle", !.outcome = o]
          /\ o = "DONE" => \A n \in Nodes : ver[n] = ex.copy.target
    BY Zenon, <1>1 DEF Verify
  <2>2. ex' \in Executor /\ ex'.pc = "settle" /\ ex'.outcome = o /\ ex'.copy = ex.copy
    BY Zenon, <1>0, <2>1 DEF Executor, PCs
  <2>3. K8sTypeOK'
    BY Zenon, <1>0, <1>1, <2>2, ExecTyped DEF Verify, K8sTypeOK
  <2> QED
    BY Zenon, <1>t, <1>1, <2>1, <2>2, <2>3 DEF Verify, K8sInv, PassKnows
<1>2. CASE CallFails
  <2>1. ex' \in Executor /\ ex'.pc = "settle" /\ ex'.outcome = "FAILED"
    BY Zenon, <1>0, <1>2 DEF CallFails, Executor, PCs
  <2>2. K8sTypeOK'
    BY Zenon, <1>0, <1>2, <2>1, ExecTyped DEF CallFails, K8sTypeOK
  <2> QED
    BY Zenon, <1>t, <1>2, <2>1, <2>2 DEF CallFails, K8sInv, PassKnows
<1>3. CASE Settle
  <2>1. /\ ex' \in Executor /\ ex'.pc = "finish" /\ ex'.outcome = ex.outcome /\ ex'.copy = ex.copy
        /\ ex'.cp = ex.cp
    BY Zenon, <1>0, <1>3 DEF Settle, Executor, PCs
  <2>2. K8sTypeOK'
    BY Zenon, <1>0, <1>3, <2>1, ExecTyped DEF Settle, K8sTypeOK
  <2> QED
    BY Zenon, <1>t, <1>0, <1>3, <2>1, <2>2 DEF Settle, K8sInv, PassKnows
<1> QED
  BY Zenon, <1>1, <1>2, <1>3

\* Executor.finish stores what the pass came to.
LEMMA FinishK8s ==
  ASSUME K8sInv, finish
  PROVE  /\ K8sInv' /\ UNCHANGED ver
         /\ (job'.state = "DONE" /\ ex.cp # 0) => \A n \in Nodes : ver[n] = job'.target
<1>0. K8sTypeOK /\ PassKnows /\ TargetsGiven /\ ex \in Executor
  BY Zenon DEF K8sInv, K8sTypeOK
<1>t. TargetsGiven'
  BY Zenon, <1>0, TargetsKept DEF Next, Step
<1>1. job' \in Job /\ job'.state = ex.outcome /\ job'.target = ex.copy.target
  BY Zenon, <1>0 DEF finish, Executor, Job, PassKnows
<1>2. K8sTypeOK'
  BY Zenon, <1>0, <1>1, IdleFacts, ExecTyped DEF finish, K8sTypeOK
<1>3. PassKnows'
  BY Zenon, IdleFacts DEF finish, PassKnows
<1>4. (job'.state = "DONE" /\ ex.cp # 0) => \A n \in Nodes : ver[n] = job'.target
  BY Zenon, <1>0, <1>1 DEF finish, PassKnows
<1> QED
  BY Zenon, <1>t, <1>2, <1>3, <1>4 DEF finish, K8sInv

\* What every step of the rollout keeps, and the two things that it may not do.
LEMMA K8sStep ==
  ASSUME K8sInv, [Next]_vars
  PROVE  /\ K8sInv'
         /\ ver' # ver => \E n \in ControlPlane : snap[n] = "complete"
         /\ (job'.state = "DONE" /\ job.state # "DONE" /\ ex.cp # 0)
              => \A n \in Nodes : ver[n] = job'.target
<1>1. CASE \/ \E b \in BOOLEAN : setRolloutsEnabled(b)
           \/ \E v \in Versions : CreateRollout(v)
           \/ SetDesired \/ PutJob \/ Crash \/ UNCHANGED vars
  BY Zenon, <1>1, OthersK8s
<1>2. CASE RunOnce \/ SkipJob \/ StartJob \/ Begin
  BY Zenon, <1>2, BeginK8s
<1>3. CASE FindVersion \/ SnapshotOpen \/ SnapshotCopied
  BY Zenon, <1>3, SnapshotK8s
<1>4. CASE (\E n \in Nodes : UpgradeNode(n)) \/ UpgradeDone
  BY Zenon, <1>4, UpgradeK8s
<1>5. CASE Verify \/ CallFails \/ Settle
  BY Zenon, <1>5, SettleK8s
<1>6. CASE finish
  BY Zenon, <1>6, FinishK8s
<1> QED
  BY Zenon, <1>1, <1>2, <1>3, <1>4, <1>5, <1>6 DEF Next, Step

\* What a pass of ReconcileK8s relies on holds throughout.
LEMMA K8sInvariance == Spec => []K8sInv
<1>1. ASSUME Init PROVE K8sInv
  <2>1. enabled \in BOOLEAN
    BY Zenon, <1>1 DEF Init
  <2>2. K8sTypeOK
    BY <1>1, <2>1, IdleFacts, K8sVersionsAssumption, K8sBoundsAssumption DEF Init, K8sTypeOK, MaybeVersion
  <2>3. PassKnows /\ TargetsGiven
    BY Zenon, <1>1, IdleFacts DEF Init, PassKnows, TargetsGiven
  <2> QED
    BY Zenon, <2>2, <2>3 DEF K8sInv
<1> QED
  BY <1>1, K8sStep, PTL DEF Spec

\* No kubelet is upgraded before the snapshot that ReconcileK8s insists on is complete on
\* disk, whatever crashes and failed calls came before.
THEOREM SnapshotBeforeK8s == Spec => K8sSnapshotFirst
<1>1. K8sInv /\ [Next]_vars => [ver' # ver => \E n \in ControlPlane : snap[n] = "complete"]_vars
  BY Zenon, K8sStep
<1> QED
  BY <1>1, K8sInvariance, PTL DEF Spec, K8sSnapshotFirst

\* A pass that has called UpgradeK8s stores its job as DONE only when every node runs the
\* target: nothing between Verify and Executor.finish makes that stale.
THEOREM DoneIsVerified == Spec => K8sDoneVerified
<1>1. K8sInv /\ [Next]_vars
        => [(job'.state = "DONE" /\ job.state # "DONE" /\ ex.cp # 0)
              => \A n \in Nodes : ver[n] = job'.target]_vars
  BY Zenon, K8sStep
<1> QED
  BY <1>1, K8sInvariance, PTL DEF Spec, K8sDoneVerified
============================================================================
