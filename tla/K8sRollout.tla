---------------------------- MODULE K8sRollout -----------------------------
(***************************************************************************)
(* The cluster-wide Kubernetes rollout: createKubernetesRollout in         *)
(* internal/server/server.go, the KUBERNETES case of Executor.runJob and   *)
(* Reconciler.ReconcileK8s in internal/rollout.                            *)
(*                                                                         *)
(* Talos's upgrade-k8s runs inside Medea's process, as a library call: it  *)
(* takes the nodes to the target one by one, the control plane first, and  *)
(* a crash or an error leaves it where it got to.                          *)
(***************************************************************************)
EXTENDS Integers, FiniteSets

CONSTANTS
    Nodes,        \* the nodes, in the order in which Kubernetes lists them
    ControlPlane, \* the control-plane nodes
    Versions,     \* Kubernetes versions, without the leading "v"
    NoVersion,    \* no version
    InitVersion,  \* the version of every kubelet at first
    MaxJobs,      \* bound: CreateRollout requests
    MaxEdits,     \* bound: EnableRollouts and DisableRollouts
    MaxCrashes,   \* bound: crashes of the server
    MaxFaults     \* bound: calls that fail

ASSUME K8sNodesAssumption == Nodes \subseteq Nat \ {0} /\ ControlPlane \subseteq Nodes
ASSUME K8sVersionsAssumption == InitVersion \in Versions /\ NoVersion \notin Versions
ASSUME K8sBoundsAssumption ==
    /\ MaxJobs \in Nat
    /\ MaxEdits \in Nat
    /\ MaxCrashes \in Nat
    /\ MaxFaults \in Nat

VARIABLES
    enabled,   \* Cluster.RolloutsEnabled
    desired,   \* Cluster.Desired.KubernetesVersion
    job,       \* the Rollout job under the empty pool name
    phase,     \* ClusterRollout.Phase
    req,       \* the CreateRollout request being served
    ex,        \* the executor goroutine
    ver,       \* KubeletVersion of each node
    snap,      \* the etcd snapshot file of each node
    created,   \* CreateRollout requests so far
    edits,     \* edits so far
    crashes,   \* crashes so far
    faults     \* failed calls so far

bounds == <<created, edits, crashes, faults>>
vars == <<enabled, desired, job, phase, req, ex, ver, snap, created, edits, crashes, faults>>

MaybeVersion == Versions \cup {NoVersion}
Job == [state : {"NONE", "PENDING", "RUNNING", "DONE", "FAILED"}, target : MaybeVersion]
NoJob == [state |-> "NONE", target |-> NoVersion]

actionable(s) == s \in {"PENDING", "RUNNING"}

Request == [stage : {"none", "checked", "desired"}, target : MaybeVersion]
NoRequest == [stage |-> "none", target |-> NoVersion]

PCs == {"idle", "job", "begin", "list", "snapshot", "copy", "upgrade", "verify", "settle", "finish"}

\* The executor's locals: its copy of the job, the control-plane node it found,
\* and how ReconcileK8s ended.
Executor == [pc : PCs, copy : Job, cp : Nodes \cup {0}, outcome : {"none", "DONE", "FAILED"}]
Idle == [pc |-> "idle", copy |-> NoJob, cp |-> 0, outcome |-> "none"]

Init ==
    /\ enabled = FALSE
    /\ desired = InitVersion
    /\ job = NoJob
    /\ phase = "IDLE"
    /\ req = NoRequest
    /\ ex = Idle
    /\ ver = [n \in Nodes |-> InitVersion]
    /\ snap = [n \in Nodes |-> "absent"]
    /\ created = 0 /\ edits = 0 /\ crashes = 0 /\ faults = 0

-----------------------------------------------------------------------------
(* The API.                                                                *)

ApiRest == UNCHANGED <<phase, ex, ver, snap, crashes, faults>>

setRolloutsEnabled(b) ==
    /\ edits < MaxEdits /\ edits' = edits + 1
    /\ enabled' = b
    /\ UNCHANGED <<desired, job, req, created>> /\ ApiRest

\* CreateRollout's guards.
CreateRollout(v) ==
    /\ created < MaxJobs /\ created' = created + 1
    /\ req.stage = "none"
    /\ enabled
    /\ req' = [stage |-> "checked", target |-> v]
    /\ UNCHANGED <<enabled, desired, job, edits>> /\ ApiRest

\* createKubernetesRollout: the desired version, then the job.
SetDesired ==
    /\ req.stage = "checked"
    /\ desired' = req.target
    /\ req' = [req EXCEPT !.stage = "desired"]
    /\ UNCHANGED <<enabled, job, created, edits>> /\ ApiRest

PutJob ==
    /\ req.stage = "desired"
    /\ job' = [state |-> "PENDING", target |-> req.target]
    /\ req' = NoRequest
    /\ UNCHANGED <<enabled, desired, created, edits>> /\ ApiRest

-----------------------------------------------------------------------------
(* The executor.                                                           *)

ExecRest == UNCHANGED <<enabled, desired, req, created, edits, crashes>>

\* A call that may fail.
Fails == faults < MaxFaults /\ faults' = faults + 1

\* RunOnce: the guard, then the job as it is stored.
RunOnce ==
    /\ ex.pc = "idle"
    /\ enabled
    /\ actionable(job.state)
    /\ ex' = [Idle EXCEPT !.pc = "job", !.copy = job]
    /\ UNCHANGED <<job, phase, ver, snap, faults>> /\ ExecRest

\* runJob: a factory that fails leaves the job for the next pass.
SkipJob ==
    /\ ex.pc = "job"
    /\ Fails
    /\ ex' = Idle
    /\ UNCHANGED <<job, phase, ver, snap>> /\ ExecRest

StartJob ==
    /\ ex.pc = "job"
    /\ job' = [ex.copy EXCEPT !.state = "RUNNING"]
    /\ ex' = [ex EXCEPT !.pc = "begin", !.copy.state = "RUNNING"]
    /\ UNCHANGED <<phase, ver, snap, faults>> /\ ExecRest

\* setClusterPhase(UPGRADING).
Begin ==
    /\ ex.pc = "begin"
    /\ phase' = "UPGRADING"
    /\ ex' = [ex EXCEPT !.pc = "list"]
    /\ UNCHANGED <<job, ver, snap, faults>> /\ ExecRest

\* The control-plane node that is listed last.
LastControlPlane(n) == n \in ControlPlane /\ \A m \in ControlPlane : m <= n

\* ListNodes; the version of one control-plane node decides whether to upgrade.
FindVersion ==
    /\ ex.pc = "list"
    /\ \E n \in Nodes :
         /\ LastControlPlane(n)
         /\ ex' = IF ver[n] = ex.copy.target
                  THEN [ex EXCEPT !.pc = "settle", !.outcome = "DONE"]
                  ELSE [ex EXCEPT !.pc = "snapshot", !.cp = n]
    /\ UNCHANGED <<job, phase, ver, snap, faults>> /\ ExecRest

\* snapshot: the file is truncated, then written.
SnapshotOpen ==
    /\ ex.pc = "snapshot"
    /\ snap' = [snap EXCEPT ![ex.cp] = "partial"]
    /\ ex' = [ex EXCEPT !.pc = "copy"]
    /\ UNCHANGED <<job, phase, ver, faults>> /\ ExecRest

\* Mutant: an error of the copy is ignored.
SnapshotCopiedMutant ==
    /\ ex.pc = "copy"
    /\ ex' = [ex EXCEPT !.pc = "upgrade"]
    /\ UNCHANGED <<job, phase, ver, snap, faults>> /\ ExecRest

SnapshotCopied ==
    /\ ex.pc = "copy"
    /\ snap' = [snap EXCEPT ![ex.cp] = "complete"]
    /\ ex' = [ex EXCEPT !.pc = "upgrade"]
    /\ UNCHANGED <<job, phase, ver, faults>> /\ ExecRest

\* Within UpgradeK8s: one more node is brought to the target.
UpgradeNode(n) ==
    /\ ex.pc = "upgrade"
    /\ ver[n] # ex.copy.target
    /\ n \in ControlPlane \/ \A m \in ControlPlane : ver[m] = ex.copy.target
    /\ ver' = [ver EXCEPT ![n] = ex.copy.target]
    /\ UNCHANGED <<job, phase, ex, snap, faults>> /\ ExecRest

\* UpgradeK8s returns without an error; a worker's Node object may not report the
\* new kubelet yet.
UpgradeDone ==
    /\ ex.pc = "upgrade"
    /\ \A n \in ControlPlane : ver[n] = ex.copy.target
    /\ ex' = [ex EXCEPT !.pc = "verify"]
    /\ UNCHANGED <<job, phase, ver, snap, faults>> /\ ExecRest

\* Mutant: only the control plane is looked at.
VerifyMutant ==
    /\ ex.pc = "verify"
    /\ ex' = [ex EXCEPT !.pc = "settle",
                !.outcome = IF \A n \in ControlPlane : ver[n] = ex.copy.target
                            THEN "DONE" ELSE "FAILED"]
    /\ UNCHANGED <<job, phase, ver, snap, faults>> /\ ExecRest

\* ListNodes again: every node must report the target.
Verify ==
    /\ ex.pc = "verify"
    /\ ex' = [ex EXCEPT !.pc = "settle",
                !.outcome = IF \A n \in Nodes : ver[n] = ex.copy.target THEN "DONE" ELSE "FAILED"]
    /\ UNCHANGED <<job, phase, ver, snap, faults>> /\ ExecRest

\* One of these calls fails: failCluster.  Without a control-plane node there is
\* nothing to go by.
CallFails ==
    /\ \/ ex.pc \in {"list", "snapshot", "copy", "upgrade", "verify"} /\ Fails
       \/ ex.pc = "list" /\ ControlPlane = {} /\ UNCHANGED faults
    /\ ex' = [ex EXCEPT !.pc = "settle", !.outcome = "FAILED"]
    /\ UNCHANGED <<job, phase, ver, snap>> /\ ExecRest

\* The last setClusterPhase of ReconcileK8s.
Settle ==
    /\ ex.pc = "settle"
    /\ phase' = IF ex.outcome = "DONE" THEN "IDLE" ELSE "FAILED"
    /\ ex' = [ex EXCEPT !.pc = "finish"]
    /\ UNCHANGED <<job, ver, snap, faults>> /\ ExecRest

\* Mutant: the outcome is not stored.
finishMutant ==
    /\ ex.pc = "finish"
    /\ ex' = Idle
    /\ UNCHANGED <<job, phase, ver, snap, faults>> /\ ExecRest

\* Executor.finish: the copy is stored over whatever is there.
finish ==
    /\ ex.pc = "finish"
    /\ job' = [ex.copy EXCEPT !.state = ex.outcome]
    /\ ex' = Idle
    /\ UNCHANGED <<phase, ver, snap, faults>> /\ ExecRest

\* The server dies, with the request it serves and the upgrade it drives; it is
\* restarted and takes up what is stored.
Crash ==
    /\ crashes < MaxCrashes /\ crashes' = crashes + 1
    /\ ex' = Idle
    /\ req' = NoRequest
    /\ UNCHANGED <<enabled, desired, job, phase, ver, snap, created, edits, faults>>

Step ==
    \/ StartJob
    \/ Begin
    \/ FindVersion
    \/ SnapshotOpen
    \/ SnapshotCopied
    \/ \E n \in Nodes : UpgradeNode(n)
    \/ UpgradeDone
    \/ Verify
    \/ Settle
    \/ finish

Next ==
    \/ \E b \in BOOLEAN : setRolloutsEnabled(b)
    \/ \E v \in Versions : CreateRollout(v)
    \/ SetDesired
    \/ PutJob
    \/ RunOnce
    \/ SkipJob
    \/ CallFails
    \/ Step
    \/ Crash

Spec == Init /\ [][Next]_vars

\* The executor's ticker keeps running passes, and a pass runs to its end: every
\* call returns.
FairSpec == Spec /\ WF_vars(RunOnce) /\ WF_vars(Step \/ CallFails)

-----------------------------------------------------------------------------
(* Properties.                                                             *)

\* The variables keep the types their declarations give them.
K8sTypeOK ==
    /\ enabled \in BOOLEAN
    /\ desired \in MaybeVersion
    /\ job \in Job
    /\ phase \in {"IDLE", "UPGRADING", "FAILED"}
    /\ req \in Request
    /\ ex \in Executor
    /\ ver \in [Nodes -> Versions]
    /\ snap \in [Nodes -> {"absent", "partial", "complete"}]
    /\ created \in 0..MaxJobs /\ edits \in 0..MaxEdits
    /\ crashes \in 0..MaxCrashes /\ faults \in 0..MaxFaults

\* No kubelet changes its version unless a complete snapshot of a control-plane
\* node is on disk: the mandatory snapshot of ReconcileK8s, also when a crash cut
\* an earlier one short and left a truncated file.
K8sSnapshotFirst ==
    [][ver' # ver => \E n \in ControlPlane : snap[n] = "complete"]_vars

\* A job that did trigger the upgrade is finished as DONE only when every node runs
\* its target, whatever an earlier job or a crash had left behind.
K8sDoneVerified ==
    [][(job'.state = "DONE" /\ job.state # "DONE" /\ ex.cp # 0)
         => \A n \in Nodes : ver[n] = job'.target]_vars

\* A job is finished as DONE only when every node runs its target ("confirms every
\* node reached the target").
K8sDoneConverged ==
    [][job'.state = "DONE" /\ job.state # "DONE" => \A n \in Nodes : ver[n] = job'.target]_vars

\* A job that is waiting is finished, unless rollouts are disabled: after a crash
\* the stored RUNNING job is taken up again.
K8sJobsEnd == actionable(job.state) ~> (~actionable(job.state) \/ ~enabled)
============================================================================
