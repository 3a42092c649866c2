------------------------------ MODULE Rollout ------------------------------
(***************************************************************************)
(* The operating-system rollout of one cluster: the API handlers that      *)
(* authorise a job (internal/server), the executor goroutine that drives   *)
(* it (internal/rollout/executor.go), the reconciler that takes the nodes  *)
(* of a pool through the upgrade one after the other                       *)
(* (internal/rollout/rollout.go), and the nodes themselves.                *)
(*                                                                         *)
(* One step of the executor is one call to the outside (kube, Talos, disk) *)
(* or one write to the store, so a crash or an API request can fall        *)
(* between any two of them.  Reads that precede a write in the same step   *)
(* are of data no other actor changes, or are steps of their own.          *)
(***************************************************************************)
EXTENDS Integers, FiniteSets

CONSTANTS
    Nodes,          \* node addresses; their order is the order of sort.Strings
    Pools,          \* node pools; their order is the key order of the jobs bucket
    Versions,       \* Talos versions
    NoVersion,      \* the empty version string
    InitMembers,    \* the members of each pool as the cluster was seeded
    InitVersion,    \* the version every node runs at first
    ControlPlane,   \* the pools whose role is control plane
    SnapshotPools,  \* the pools whose strategy asks for a snapshot
    MaxUnavailable, \* NodePool.Strategy.MaxUnavailable, 0 when there is none
    MaxJobs,        \* bound: CreateRollout requests
    MaxK8sJobs,     \* bound: CreateRollout requests for the Kubernetes version
    MaxEdits,       \* bound: other API requests and membership changes
    MaxCrashes,     \* bound: crashes and SIGTERMs of the server
    MaxFaults       \* bound: node failures

ASSUME NodesAssumption == Nodes \subseteq Nat \ {0}
ASSUME PoolsAssumption == Pools \subseteq Nat \ {0}
ASSUME VersionsAssumption == InitVersion \in Versions /\ NoVersion \notin Versions
ASSUME MembersAssumption == InitMembers \in [Pools -> SUBSET Nodes]
ASSUME DisjointAssumption ==
    \A p, q \in Pools : p # q => InitMembers[p] \cap InitMembers[q] = {}
ASSUME RolesAssumption == ControlPlane \subseteq Pools /\ SnapshotPools \subseteq Pools
ASSUME BoundsAssumption ==
    /\ MaxUnavailable \in Nat
    /\ MaxJobs \in Nat
    /\ MaxK8sJobs \in Nat
    /\ MaxEdits \in Nat
    /\ MaxCrashes \in Nat
    /\ MaxFaults \in Nat

VARIABLES
    \* The store.
    enabled,    \* Cluster.RolloutsEnabled
    talos,      \* Cluster.Desired.TalosVersion
    pool,       \* NodePool records: members, desired version, paused
    job,        \* Rollout job records, one per pool
    k8sJob,     \* the Kubernetes job is one the executor acts on
    mr,         \* MachineRollout records, one per node
    \* The server process.
    req,        \* the CreateRollout requests, served concurrently
    ex,         \* the executor goroutine
    stopping,   \* SIGTERM was received: the executor's context is cancelled
    \* The managed cluster.
    live,       \* the nodes
    snap,       \* the snapshot file of each node
    \* History and bounds.
    sent,       \* nodes asked to upgrade since their record was last DONE or FAILED
    failedBy,   \* the job that last marked the node FAILED, 0 if none
    deferred,   \* pools whose last job ended DONE with nodes left for later
    created,    \* jobs created so far; stands for the clock of CreatedAt
    k8sCreated, \* Kubernetes jobs created so far
    edits,      \* other requests so far
    crashes,    \* crashes and SIGTERMs so far
    faults      \* node failures so far

storeVars == <<enabled, talos, pool, job, k8sJob, mr>>
liveVars == <<live, snap>>
histVars == <<sent, failedBy, deferred>>
bounds == <<created, k8sCreated, edits, crashes, faults>>
vars == <<storeVars, req, ex, stopping, liveVars, histVars, bounds>>

-----------------------------------------------------------------------------
(* Records.                                                                *)

JobStates == {"none", "PENDING", "RUNNING", "DONE", "FAILED"}
RolloutStates == {"IDLE", "DRAINING", "UPGRADING", "WAITING_HEALTHY", "DONE", "FAILED"}
MaybeVersion == Versions \cup {NoVersion}

\* A rollout job.  CreatedAt, the time of its creation, tells it from the others.
Job == [createdAt : 0..MaxJobs, state : JobStates, target : MaybeVersion,
        planned : SUBSET Nodes]

NoJob == [createdAt |-> 0, state |-> "none", target |-> NoVersion, planned |-> {}]

MachineRollout == [state : RolloutStates, target : MaybeVersion]

\* Mutant: failed jobs are taken up again.
actionableMutant(s) == s \in {"PENDING", "RUNNING", "FAILED"}

\* The job states the executor acts on.
actionable(s) == s \in {"PENDING", "RUNNING"}

\* Mutant: a node recorded UPGRADING is started again.
InFlightMutant == {"WAITING_HEALTHY"}

\* The record states a node is resumed from rather than started again.
InFlight == {"UPGRADING", "WAITING_HEALTHY"}

\* A node: the version it runs, the version it boots next (NoVersion when no
\* upgrade is pending), whether it is up, and its Node object in the cluster:
\* whether there is one, whether it says Ready, whether it is cordoned.
Node == [ver : Versions, next : MaybeVersion, up : BOOLEAN,
         joined : BOOLEAN, ready : BOOLEAN, cordoned : BOOLEAN]

\* What is on disk of a node's etcd snapshot: nothing, the whole of it, or a file
\* opened and not yet complete, by which of the two kinds of job.
Snapshots == {"absent", "complete", "partial", "k8sPartial"}

\* Where the executor is.  "idle" waits for the ticker; "k8s" to "k8sUpgrade" are
\* the Kubernetes job; "pick" is the loop over the other jobs; "pool" and "list"
\* are the head of ReconcilePool and "node" its loop; "snapshot" to "markDone" are
\* upgradeNode and finishUpgrade; "finish" stores the outcome of the job.
PCs == {"idle", "k8s", "k8sCopying", "k8sUpgrade", "pick", "pool", "list", "node",
        "snapshot", "copying", "drain", "cordon", "evict", "upgrade", "wait", "polling",
        "uncordon", "markDone", "finish"}

\* What ReconcilePool returned: an error, nil at the end of its loop, or nil before,
\* with nodes left for a later pass.
Outcomes == {"none", "FAILED", "DONE", "DEFERRED"}

\* The executor's local state: the jobs of this pass it has still to run, the
\* copies it read of them, and the locals of runJob and ReconcilePool.
Executor == [pc : PCs, batch : SUBSET Pools, copy : [Pools -> Job],
             pool : Pools \cup {0}, target : MaybeVersion, members : SUBSET Nodes,
             listed : SUBSET Nodes, ready : SUBSET Nodes, todo : SUBSET Nodes,
             node : Nodes \cup {0}, cp : Nodes \cup {0}, outcome : Outcomes]

ExIdle == [pc |-> "idle", batch |-> {}, copy |-> [p \in Pools |-> NoJob],
           pool |-> 0, target |-> NoVersion, members |-> {}, listed |-> {},
           ready |-> {}, todo |-> {}, node |-> 0, cp |-> 0, outcome |-> "none"]

\* A CreateRollout request: not yet made, past the guards, past the write of the
\* desired version, answered.
Request == [stage : {"none", "checked", "desired", "over"}, pool : Pools \cup {0},
            target : MaybeVersion, planned : SUBSET Nodes]

NoRequest == [stage |-> "none", pool |-> 0, target |-> NoVersion, planned |-> {}]

Init ==
    /\ enabled \in BOOLEAN
    /\ talos = InitVersion
    /\ pool = [p \in Pools |-> [members |-> InitMembers[p], desired |-> NoVersion,
                                paused |-> FALSE]]
    /\ job = [p \in Pools |-> NoJob]
    /\ k8sJob = FALSE
    /\ mr = [n \in Nodes |-> [state |-> "IDLE", target |-> NoVersion]]
    /\ req = [i \in 1..MaxJobs |-> NoRequest]
    /\ ex = ExIdle
    /\ stopping = FALSE
    /\ live = [n \in Nodes |-> [ver |-> InitVersion, next |-> NoVersion, up |-> TRUE,
                                joined |-> TRUE, ready |-> TRUE, cordoned |-> FALSE]]
    /\ snap = [n \in Nodes |-> "absent"]
    /\ sent = {}
    /\ failedBy = [n \in Nodes |-> 0]
    /\ deferred = {}
    /\ created = 0 /\ k8sCreated = 0 /\ edits = 0 /\ crashes = 0 /\ faults = 0

-----------------------------------------------------------------------------
(* The API.  A read-modify-write of one record is one step: Store shows    *)
(* what the compare-and-swap under it makes of concurrent ones.            *)

Edit == ~stopping /\ edits < MaxEdits /\ edits' = edits + 1

EditRest ==
    UNCHANGED <<job, k8sJob, mr, req, ex, stopping, liveVars, histVars, created,
                k8sCreated, crashes, faults>>

\* EnableRollouts, DisableRollouts.
setRolloutsEnabled(b) ==
    /\ Edit
    /\ enabled' = b
    /\ UNCHANGED <<talos, pool>> /\ EditRest

\* SetClusterVersions: any version, the empty one too.
SetClusterVersions(v) ==
    /\ Edit
    /\ talos' = v
    /\ UNCHANGED <<enabled, pool>> /\ EditRest

SetNodePoolVersion(p, v) ==
    /\ Edit
    /\ pool' = [pool EXCEPT ![p].desired = v]
    /\ UNCHANGED <<enabled, talos>> /\ EditRest

\* PauseRollout, ResumeRollout.
setPaused(p, b) ==
    /\ Edit
    /\ pool' = [pool EXCEPT ![p].paused = b]
    /\ UNCHANGED <<enabled, talos>> /\ EditRest

\* The provisioning plane adds a joined node to a pool.
bind(p, n) ==
    /\ Edit
    /\ \A q \in Pools : n \notin pool[q].members
    /\ live[n].joined
    /\ pool' = [pool EXCEPT ![p].members = @ \cup {n}]
    /\ UNCHANGED <<enabled, talos>> /\ EditRest

ReqRest ==
    UNCHANGED <<enabled, talos, k8sJob, mr, ex, stopping, liveVars, histVars, k8sCreated,
                edits, crashes, faults>>

\* CreateRollout: the guards, and the read of the members the plan names.
CreateRollout(i, p, v) ==
    /\ ~stopping
    /\ req[i].stage = "none"
    /\ \A j \in 1..(i - 1) : req[j].stage # "none"
    /\ enabled
    /\ req' = [req EXCEPT ![i] = [stage |-> "checked", pool |-> p, target |-> v,
                                  planned |-> pool[p].members]]
    /\ UNCHANGED <<pool, job, created>> /\ ReqRest

\* createTalosRollout: the desired version of the pool.
SetDesired(i) ==
    /\ req[i].stage = "checked"
    /\ pool' = [pool EXCEPT ![req[i].pool].desired = req[i].target]
    /\ req' = [req EXCEPT ![i].stage = "desired"]
    /\ UNCHANGED <<job, created>> /\ ReqRest

\* createTalosRollout: the job, over whatever job the pool had.
PutJob(i) ==
    /\ req[i].stage = "desired"
    /\ job' = [job EXCEPT ![req[i].pool] =
                 [createdAt |-> created + 1, state |-> "PENDING", target |-> req[i].target,
                  planned |-> req[i].planned]]
    /\ created' = created + 1
    /\ req' = [req EXCEPT ![i].stage = "over"]
    /\ UNCHANGED pool /\ ReqRest

\* createKubernetesRollout; K8sRollout has its steps.
CreateK8sRollout ==
    /\ ~stopping
    /\ enabled
    /\ k8sCreated < MaxK8sJobs
    /\ k8sJob' = TRUE
    /\ k8sCreated' = k8sCreated + 1
    /\ UNCHANGED <<enabled, talos, pool, job, mr, req, ex, stopping, liveVars, histVars,
                   created, edits, crashes, faults>>

-----------------------------------------------------------------------------
(* The executor.  A call to the outside can fail at any time; it can only  *)
(* succeed while its server is up and the context is not cancelled.        *)

\* Kubernetes answers while some control-plane node is up.
ApiUp ==
    LET cps == UNION {InitMembers[p] : p \in ControlPlane}
    IN  cps = {} \/ \E n \in cps : live[n].up

Kube == ApiUp /\ ~stopping
Talos(n) == live[n].up /\ ~stopping

Goto(pc) == ex' = [ex EXCEPT !.pc = pc]

ExecRest == UNCHANGED <<enabled, talos, pool, k8sJob, req, stopping, bounds>>

\* Every record written by the reconciler carries the target of this pass.
setState(n, s) == mr' = [mr EXCEPT ![n] = [state |-> s, target |-> ex.target]]

\* Mutant: the loop goes on with the next node.
failMutant(n) ==
    /\ setState(n, "FAILED")
    /\ ex' = [ex EXCEPT !.pc = "node", !.todo = @ \ {n}, !.node = 0]
    /\ sent' = sent \ {n}
    /\ failedBy' = [failedBy EXCEPT ![n] = ex.copy[ex.pool].createdAt]
    /\ UNCHANGED deferred

\* fail: record the node FAILED, return the error that halts the pool.
fail(n) ==
    /\ setState(n, "FAILED")
    /\ ex' = [ex EXCEPT !.pc = "finish", !.outcome = "FAILED"]
    /\ sent' = sent \ {n}
    /\ failedBy' = [failedBy EXCEPT ![n] = ex.copy[ex.pool].createdAt]
    /\ UNCHANGED deferred

\* Executor.RunOnce: the guard, and the actionable jobs, read once per pass.  The
\* Kubernetes job comes first: its key has the empty pool name.
RunOnce ==
    /\ ex.pc = "idle"
    /\ enabled
    /\ LET batch == {p \in Pools : actionable(job[p].state)}
       IN  /\ k8sJob \/ batch # {}
           /\ ex' = [ex EXCEPT !.pc = IF k8sJob THEN "k8s" ELSE "pick",
                               !.batch = batch, !.copy = job]
    /\ UNCHANGED <<job, mr, liveVars, histVars>> /\ ExecRest

\* runJob for the Kubernetes job, a factory fails: it is left for the next pass.
K8sSkip ==
    /\ ex.pc = "k8s"
    /\ Goto("pick")
    /\ UNCHANGED <<job, mr, liveVars, histVars>> /\ ExecRest

\* ReconcileK8s lists the nodes, finds a control-plane node that is not at the
\* target and opens the file of its snapshot, the one an operating-system rollout
\* of the node uses.
K8sSnapshotOpen(n) ==
    /\ ex.pc = "k8s"
    /\ Kube /\ live[n].joined
    /\ \E p \in ControlPlane : n \in pool[p].members
    /\ snap' = [snap EXCEPT ![n] = "k8sPartial"]
    /\ ex' = [ex EXCEPT !.pc = "k8sCopying", !.cp = n]
    /\ UNCHANGED <<job, mr, live, histVars>> /\ ExecRest

K8sSnapshotCopied ==
    /\ ex.pc = "k8sCopying"
    /\ Talos(ex.cp)
    /\ snap' = [snap EXCEPT ![ex.cp] = "complete"]
    /\ Goto("k8sUpgrade")
    /\ UNCHANGED <<job, mr, live, histVars>> /\ ExecRest

\* The end of the Kubernetes job: nothing to do, UpgradeK8s returned, or one of the
\* calls failed.  The kubelets it moves are K8sRollout's.
K8sFinish ==
    /\ ex.pc \in {"k8s", "k8sCopying", "k8sUpgrade"}
    /\ k8sJob' = FALSE
    /\ ex' = [ex EXCEPT !.pc = "pick", !.cp = 0]
    /\ UNCHANGED <<enabled, talos, pool, job, mr, req, stopping, liveVars, histVars,
                   bounds>>

\* The end of the pass.
PassOver ==
    /\ ex.pc = "pick"
    /\ ex.batch = {}
    /\ ex' = ExIdle
    /\ UNCHANGED <<job, mr, liveVars, histVars>> /\ ExecRest

\* The next job of the pass.  runJob tests the guard on the Cluster record
\* RunOnce read, so the test cannot fail here.
NextJob(p) == ex.pc = "pick" /\ p \in ex.batch /\ \A q \in ex.batch : p <= q

\* runJob, the client factory fails: the job is left for the next pass.
SkipJob(p) ==
    /\ NextJob(p)
    /\ ex' = [ex EXCEPT !.batch = @ \ {p}]
    /\ UNCHANGED <<job, mr, liveVars, histVars>> /\ ExecRest

\* runJob: the job is RUNNING; the record is overwritten with the copy.
StartJob(p) ==
    /\ NextJob(p)
    /\ job' = [job EXCEPT ![p] = [ex.copy[p] EXCEPT !.state = "RUNNING"]]
    /\ ex' = [ex EXCEPT !.pc = "pool", !.pool = p]
    /\ UNCHANGED <<mr, liveVars, histVars>> /\ ExecRest

\* ReconcilePool returned: nil is DONE, an error is FAILED.
finish ==
    /\ ex.pc = "finish"
    /\ job' = [job EXCEPT ![ex.pool] =
                 [ex.copy[ex.pool] EXCEPT !.state = IF ex.outcome = "FAILED" THEN "FAILED"
                                                    ELSE "DONE"]]
    /\ deferred' = IF ex.outcome = "DEFERRED" THEN deferred \cup {ex.pool}
                   ELSE deferred \ {ex.pool}
    /\ ex' = [ExIdle EXCEPT !.pc = "pick", !.batch = ex.batch \ {ex.pool},
                            !.copy = ex.copy]
    /\ UNCHANGED <<mr, liveVars, sent, failedBy>> /\ ExecRest

\* The pool's version, or else the cluster's.
targetVersion(p) == IF pool[p].desired # NoVersion THEN pool[p].desired ELSE talos

\* ReconcilePool reads the pool: paused returns nil, no target is an error, and so
\* is a record that cannot be read or was deleted with its cluster.
ReadPool ==
    /\ ex.pc = "pool"
    /\ LET target == targetVersion(ex.pool)
       IN  \/ /\ pool[ex.pool].paused
              /\ ex' = [ex EXCEPT !.pc = "finish", !.outcome = "DEFERRED"]
           \/ ex' = [ex EXCEPT !.pc = "finish", !.outcome = "FAILED"]
           \/ /\ ~pool[ex.pool].paused
              /\ target # NoVersion
              /\ ex' = [ex EXCEPT !.pc = "list", !.target = target,
                                  !.members = pool[ex.pool].members,
                                  !.todo = pool[ex.pool].members]
    /\ UNCHANGED <<job, mr, liveVars, histVars>> /\ ExecRest

\* ReconcilePool lists the cluster's nodes, once for the whole pass.
ListNodes ==
    /\ ex.pc = "list"
    /\ \/ /\ Kube
          /\ ex' = [ex EXCEPT !.pc = "node",
                              !.listed = {n \in Nodes : live[n].joined},
                              !.ready = {n \in Nodes : live[n].joined /\ live[n].ready}]
       \/ ex' = [ex EXCEPT !.pc = "finish", !.outcome = "FAILED"]
    /\ UNCHANGED <<job, mr, liveVars, histVars>> /\ ExecRest

\* The loop over the members has come to its end.
PoolConverged ==
    /\ ex.pc = "node"
    /\ ex.todo = {}
    /\ ex' = [ex EXCEPT !.pc = "finish", !.outcome = "DONE"]
    /\ UNCHANGED <<job, mr, liveVars, histVars>> /\ ExecRest

\* The next member in the order of the addresses.
NextNode(n) == ex.pc = "node" /\ n \in ex.todo /\ \A m \in ex.todo : n <= m

\* Mutant: a node left in flight that the cluster does not list is passed over.
ResumeNodeMutant(n) ==
    /\ NextNode(n)
    /\ mr[n].state \in InFlight
    /\ \/ /\ n \in ex.listed
          /\ setState(n, "WAITING_HEALTHY")
          /\ ex' = [ex EXCEPT !.pc = "polling", !.node = n]
       \/ /\ n \notin ex.listed
          /\ ex' = [ex EXCEPT !.todo = @ \ {n}]
          /\ UNCHANGED mr
    /\ UNCHANGED <<job, liveVars, histVars>> /\ ExecRest

\* A node left in flight is waited for, whatever its version; a node the
\* cluster does not list fails.
ResumeNode(n) ==
    /\ NextNode(n)
    /\ mr[n].state \in InFlight
    /\ \/ /\ n \in ex.listed
          /\ setState(n, "WAITING_HEALTHY")
          /\ ex' = [ex EXCEPT !.pc = "polling", !.node = n]
          /\ UNCHANGED histVars
       \/ n \notin ex.listed /\ fail(n)
    /\ UNCHANGED <<job, liveVars>> /\ ExecRest

\* The version of a node that is not in flight cannot be read.
VersionFails(n) ==
    /\ NextNode(n)
    /\ mr[n].state \notin InFlight
    /\ fail(n)
    /\ UNCHANGED <<job, liveVars>> /\ ExecRest

\* The node runs the target already.
AtTarget(n) ==
    /\ NextNode(n)
    /\ mr[n].state \notin InFlight
    /\ Talos(n)
    /\ live[n].ver = ex.target
    /\ setState(n, "DONE")
    /\ ex' = [ex EXCEPT !.todo = @ \ {n}]
    /\ UNCHANGED <<job, liveVars, histVars>> /\ ExecRest

unavailableOthers(n) == Cardinality({m \in ex.members \ {n} : m \notin ex.ready})

Budget == IF MaxUnavailable < 1 THEN 1 ELSE MaxUnavailable

\* Too many other members are unavailable: ReconcilePool returns nil.
OverBudget(n) ==
    /\ NextNode(n)
    /\ mr[n].state \notin InFlight
    /\ Talos(n)
    /\ live[n].ver # ex.target
    /\ unavailableOthers(n) >= Budget
    /\ ex' = [ex EXCEPT !.pc = "finish", !.outcome = "DEFERRED"]
    /\ UNCHANGED <<job, mr, liveVars, histVars>> /\ ExecRest

\* upgradeNode begins: a node the cluster does not list fails, a control-plane
\* node is snapshotted first if the strategy says so.
StartNode(n) ==
    /\ NextNode(n)
    /\ mr[n].state \notin InFlight
    /\ Talos(n)
    /\ live[n].ver # ex.target
    /\ unavailableOthers(n) < Budget
    /\ \/ n \notin ex.listed /\ fail(n)
       \/ /\ n \in ex.listed
          /\ ex' = [ex EXCEPT !.node = n,
                              !.pc = IF ex.pool \in ControlPlane \cap SnapshotPools
                                     THEN "snapshot" ELSE "drain"]
          /\ UNCHANGED <<mr, histVars>>
    /\ UNCHANGED <<job, liveVars>> /\ ExecRest

\* snapshot opens the file with O_TRUNC: what it held is gone.
SnapshotOpen ==
    /\ ex.pc = "snapshot"
    /\ snap' = [snap EXCEPT ![ex.node] = "partial"]
    /\ Goto("copying")
    /\ UNCHANGED <<job, mr, live, histVars>> /\ ExecRest

\* Mutant: an error of the copy is ignored.
SnapshotCopiedMutant ==
    /\ ex.pc = "copying"
    /\ Goto("drain")
    /\ UNCHANGED <<job, mr, liveVars, histVars>> /\ ExecRest

\* snapshot streams etcd into the file and closes it.
SnapshotCopied ==
    /\ ex.pc = "copying"
    /\ Talos(ex.node)
    /\ snap' = [snap EXCEPT ![ex.node] = "complete"]
    /\ Goto("drain")
    /\ UNCHANGED <<job, mr, live, histVars>> /\ ExecRest

MarkDraining ==
    /\ ex.pc = "drain"
    /\ setState(ex.node, "DRAINING")
    /\ Goto("cordon")
    /\ UNCHANGED <<job, liveVars, histVars>> /\ ExecRest

\* Mutant: the pods are evicted from a node that still takes new ones.
CordonMutant ==
    /\ ex.pc = "cordon"
    /\ Kube
    /\ Goto("evict")
    /\ UNCHANGED <<job, mr, liveVars, histVars>> /\ ExecRest

\* Drain first cordons the node ...
Cordon ==
    /\ ex.pc = "cordon"
    /\ Kube
    /\ live' = [live EXCEPT ![ex.node].cordoned = TRUE]
    /\ Goto("evict")
    /\ UNCHANGED <<job, mr, snap, histVars>> /\ ExecRest

\* ... then evicts its pods; the record is UPGRADING before the upgrade is sent.
DrainDone ==
    /\ ex.pc = "evict"
    /\ Kube
    /\ setState(ex.node, "UPGRADING")
    /\ Goto("upgrade")
    /\ UNCHANGED <<job, liveVars, histVars>> /\ ExecRest

\* Mutant: the call is repeated when its answer is lost.
UpgradeOSMutant ==
    /\ ex.pc = "upgrade"
    /\ Talos(ex.node)
    /\ live' = [live EXCEPT ![ex.node].next = ex.target]
    /\ sent' = sent \cup {ex.node}
    /\ Goto("wait") \/ Goto("upgrade")
    /\ UNCHANGED <<job, mr, snap, failedBy, deferred>> /\ ExecRest

\* UpgradeOS reaches the node, which will boot the image of the target version.
\* The answer may be lost.
UpgradeOS ==
    /\ ex.pc = "upgrade"
    /\ Talos(ex.node)
    /\ live' = [live EXCEPT ![ex.node].next = ex.target]
    /\ \/ /\ sent' = sent \cup {ex.node}
          /\ Goto("wait")
          /\ UNCHANGED <<mr, failedBy, deferred>>
       \/ fail(ex.node)
    /\ UNCHANGED <<job, snap>> /\ ExecRest

\* finishUpgrade.
MarkWaiting ==
    /\ ex.pc = "wait"
    /\ setState(ex.node, "WAITING_HEALTHY")
    /\ Goto("polling")
    /\ UNCHANGED <<job, liveVars, histVars>> /\ ExecRest

\* Mutant: a node that is Ready is taken for upgraded.
HealthyMutant ==
    /\ ex.pc = "polling"
    /\ Kube /\ live[ex.node].joined /\ live[ex.node].ready
    /\ Goto("uncordon")
    /\ UNCHANGED <<job, mr, liveVars, histVars>> /\ ExecRest

\* waitHealthy sees the node Ready and at the target version.
Healthy ==
    /\ ex.pc = "polling"
    /\ Kube /\ live[ex.node].joined /\ live[ex.node].ready
    /\ Talos(ex.node) /\ live[ex.node].ver = ex.target
    /\ Goto("uncordon")
    /\ UNCHANGED <<job, mr, liveVars, histVars>> /\ ExecRest

Uncordon ==
    /\ ex.pc = "uncordon"
    /\ Kube
    /\ live' = [live EXCEPT ![ex.node].cordoned = FALSE]
    /\ Goto("markDone")
    /\ UNCHANGED <<job, mr, snap, histVars>> /\ ExecRest

MarkDone ==
    /\ ex.pc = "markDone"
    /\ setState(ex.node, "DONE")
    /\ ex' = [ex EXCEPT !.pc = "node", !.todo = @ \ {ex.node}, !.node = 0]
    /\ sent' = sent \ {ex.node}
    /\ UNCHANGED <<job, liveVars, failedBy, deferred>> /\ ExecRest

\* Mutant: waitHealthy has no deadline.
CallFailsMutant ==
    /\ ex.pc \in {"snapshot", "copying", "cordon", "evict", "upgrade", "uncordon"}
    /\ fail(ex.node)
    /\ UNCHANGED <<job, liveVars>> /\ ExecRest

\* Mutant: the error is returned and the node's record left as it is.
CallFailsSilentMutant ==
    /\ ex.pc \in {"snapshot", "copying", "cordon", "evict", "upgrade", "polling",
                  "uncordon"}
    /\ ex' = [ex EXCEPT !.pc = "finish", !.outcome = "FAILED"]
    /\ UNCHANGED <<job, mr, liveVars, histVars>> /\ ExecRest

\* Any of the calls of upgradeNode and finishUpgrade fails without effect: a
\* refusal, a connection error, a drain or wait that times out, a cancelled
\* context.
CallFails ==
    /\ ex.pc \in {"snapshot", "copying", "cordon", "evict", "upgrade", "polling",
                  "uncordon"}
    /\ fail(ex.node)
    /\ UNCHANGED <<job, liveVars>> /\ ExecRest

ExecK8s ==
    \/ K8sSkip
    \/ \E n \in Nodes : K8sSnapshotOpen(n)
    \/ K8sSnapshotCopied
    \/ K8sFinish

Exec ==
    \/ RunOnce
    \/ PassOver
    \/ \E p \in Pools : SkipJob(p) \/ StartJob(p)
    \/ finish
    \/ ReadPool
    \/ ListNodes
    \/ PoolConverged
    \/ \E n \in Nodes : \/ ResumeNode(n)
                        \/ VersionFails(n)
                        \/ AtTarget(n)
                        \/ OverBudget(n)
                        \/ StartNode(n)
    \/ SnapshotOpen
    \/ SnapshotCopied
    \/ MarkDraining
    \/ Cordon
    \/ DrainDone
    \/ UpgradeOS
    \/ MarkWaiting
    \/ Healthy
    \/ Uncordon
    \/ MarkDone
    \/ CallFails

-----------------------------------------------------------------------------
(* The process.  Whatever it held in memory is lost; the store and the     *)
(* snapshot files stay.                                                    *)

Restart ==
    /\ ex' = ExIdle
    /\ req' = [i \in 1..MaxJobs |->
                 IF req[i].stage = "none" THEN NoRequest
                 ELSE [NoRequest EXCEPT !.stage = "over"]]
    /\ stopping' = FALSE
    /\ UNCHANGED <<storeVars, liveVars, histVars, created, k8sCreated, edits, faults>>

Crash ==
    /\ ~stopping
    /\ crashes < MaxCrashes
    /\ crashes' = crashes + 1
    /\ Restart

\* SIGTERM cancels the executor's context; runServe goes on until the requests
\* in progress are served, and does not wait for the executor.
Sigterm ==
    /\ ~stopping
    /\ crashes < MaxCrashes
    /\ crashes' = crashes + 1
    /\ stopping' = TRUE
    /\ UNCHANGED <<storeVars, req, ex, liveVars, histVars, created, k8sCreated, edits, faults>>

\* GracefulStop has returned and the store is closed; the next process starts.
Exit ==
    /\ stopping
    /\ \A i \in 1..MaxJobs : req[i].stage \notin {"checked", "desired"}
    /\ Restart
    /\ UNCHANGED crashes

-----------------------------------------------------------------------------
(* The managed cluster.                                                    *)

EnvRest == UNCHANGED <<storeVars, req, ex, stopping, snap, histVars, created, k8sCreated,
                       edits, crashes>>

Fault == faults < MaxFaults /\ faults' = faults + 1

\* The node goes down to boot the version it was sent.
Reboot(n) ==
    /\ live[n].up /\ live[n].next # NoVersion
    /\ live' = [live EXCEPT ![n].up = FALSE]
    /\ UNCHANGED faults /\ EnvRest

\* The node comes up, with the version it was sent if there is one.
Boot(n) ==
    /\ ~live[n].up
    /\ live' = [live EXCEPT ![n].up = TRUE, ![n].next = NoVersion,
                            ![n].ver = IF live[n].next = NoVersion THEN @
                                       ELSE live[n].next]
    /\ UNCHANGED faults /\ EnvRest

\* The new version does not boot and the node falls back to the old one.
Rollback(n) ==
    /\ Fault
    /\ ~live[n].up /\ live[n].next # NoVersion
    /\ live' = [live EXCEPT ![n].up = TRUE, ![n].next = NoVersion]
    /\ EnvRest

\* The node goes down by itself.
PowerLoss(n) ==
    /\ Fault
    /\ live[n].up
    /\ live' = [live EXCEPT ![n].up = FALSE]
    /\ EnvRest

\* The Node object is deleted, or the node's address changes.
Leave(n) ==
    /\ Fault
    /\ live[n].joined
    /\ live' = [live EXCEPT ![n].joined = FALSE, ![n].ready = FALSE]
    /\ EnvRest

\* Kubernetes learns, with some delay, that the node is up or down.
ReportStatus(n) ==
    /\ ApiUp
    /\ live[n].joined /\ live[n].ready # live[n].up
    /\ live' = [live EXCEPT ![n].ready = live[n].up]
    /\ UNCHANGED faults /\ EnvRest

Env == \E n \in Nodes : \/ Reboot(n)
                        \/ Boot(n)
                        \/ Rollback(n)
                        \/ PowerLoss(n)
                        \/ Leave(n)
                        \/ ReportStatus(n)

Api ==
    \/ \E b \in BOOLEAN : setRolloutsEnabled(b)
    \/ \E v \in MaybeVersion : SetClusterVersions(v)
    \/ \E p \in Pools, v \in MaybeVersion : SetNodePoolVersion(p, v)
    \/ \E p \in Pools, b \in BOOLEAN : setPaused(p, b)
    \/ \E p \in Pools, n \in Nodes : bind(p, n)
    \/ \E i \in 1..MaxJobs : \/ \E p \in Pools, v \in Versions : CreateRollout(i, p, v)
                             \/ SetDesired(i)
                             \/ PutJob(i)
    \/ CreateK8sRollout

Next == Exec \/ ExecK8s \/ Api \/ Env \/ Crash \/ Sigterm \/ Exit

Spec == Init /\ [][Next]_vars

\* The executor goroutine keeps running, its calls return (the drain and the wait
\* have timeouts), the credentials are readable again and again, and a process
\* told to stop stops.
FairSpec ==
    /\ Spec
    /\ WF_vars(Exec \/ ExecK8s)
    /\ \A p \in Pools : SF_vars(StartJob(p))
    /\ WF_vars(Exit)

-----------------------------------------------------------------------------
(* Properties.                                                             *)

\* The type of every variable.
TypeOK ==
    /\ enabled \in BOOLEAN
    /\ talos \in MaybeVersion
    /\ pool \in [Pools -> [members : SUBSET Nodes, desired : MaybeVersion,
                           paused : BOOLEAN]]
    /\ job \in [Pools -> Job]
    /\ k8sJob \in BOOLEAN
    /\ mr \in [Nodes -> MachineRollout]
    /\ req \in [1..MaxJobs -> Request]
    /\ ex \in Executor
    /\ stopping \in BOOLEAN
    /\ live \in [Nodes -> Node]
    /\ snap \in [Nodes -> Snapshots]
    /\ sent \in SUBSET Nodes
    /\ failedBy \in [Nodes -> 0..MaxJobs]
    /\ deferred \in SUBSET Pools
    /\ created \in 0..MaxJobs
    /\ k8sCreated \in 0..MaxK8sJobs
    /\ edits \in 0..MaxEdits
    /\ crashes \in 0..MaxCrashes
    /\ faults \in 0..MaxFaults

\* When the executor is about to call UpgradeOS on a node, no earlier UpgradeOS
\* on it is still unaccounted for, however many restarts came in between
\* (ReconcilePool resumes UPGRADING and WAITING_HEALTHY into finishUpgrade).
NoDoubleUpgrade == ex.pc = "upgrade" => ex.node \notin sent

\* Pools whose strategy asks for the snapshot of a control-plane node: the etcd
\* snapshot of the node is complete when UpgradeOS is called, and while its record
\* says it is being upgraded no operating-system rollout, resumed or new, truncates
\* it.  Only a Kubernetes job that the executor runs first after a restart may: it
\* snapshots into the same file.
SnapshotHeld ==
    \A p \in ControlPlane \cap SnapshotPools :
        /\ ex.pc = "upgrade" /\ ex.pool = p => snap[ex.node] = "complete"
        /\ \A n \in pool[p].members :
             mr[n].state \in InFlight => snap[n] \in {"complete", "k8sPartial"}

\* A node whose record says UPGRADING is cordoned: Drain came before UpgradeOS,
\* and no restart, retry or second job uncordoned the node since.
DrainedBeforeUpgrade == \A n \in Nodes : mr[n].state = "UPGRADING" => live[n].cordoned

\* A finished job stays as it is until a new job replaces it: no restart and no
\* write of an older copy by the executor makes it actionable again.
FinishedJobIsFinal ==
    [][\A p \in Pools :
          (job[p].state \in {"DONE", "FAILED"} /\ job'[p].createdAt = job[p].createdAt)
          => job'[p] = job[p]]_vars

\* Every node's record goes through the life NodeLifecycle allows.
Lifecycle == INSTANCE NodeLifecycle WITH state <- [n \in Nodes |-> mr[n].state]
ImplementsLifecycle == Lifecycle!Spec

\* A node recorded DONE runs the version the record names.
DoneAtTarget == \A n \in Nodes : mr[n].state = "DONE" => live[n].ver = mr[n].target

\* A node is recorded DONE only after it was uncordoned ("uncordon -> Done").
DoneUncordoned == \A n \in Nodes : mr[n].state = "DONE" => ~live[n].cordoned

\* The first node a job marks FAILED is the last one it touches: while the
\* executor works on a node, no node has been failed by the same job
\* (ReconcilePool returns the first error, runJob makes the job FAILED).  A crash
\* between the two writes takes the job up again.
HaltOnFailure ==
    crashes = 0 /\ ex.node # 0 /\ ex.pc # "finish" =>
        \A n \in Nodes : failedBy[n] # ex.copy[ex.pool].createdAt

\* A job is DONE only when every member of its pool runs its target.
DoneJobConverged ==
    \A p \in Pools : job[p].state = "DONE" =>
        \A n \in pool[p].members : live[n].ver = job[p].target

\* A job is DONE only when every member of its pool runs its target, unless
\* ReconcilePool returned early, because the pool was paused or its budget used
\* up: whatever restarts, resumed nodes and failed calls came before.
ConvergedUnlessDeferred ==
    \A p \in Pools \ deferred : job[p].state = "DONE" =>
        \A n \in pool[p].members : live[n].ver = job[p].target

\* A job that can run comes to an end, unless rollouts are disabled.
JobsEnd ==
    \A p \in Pools : actionable(job[p].state) ~> (~actionable(job[p].state) \/ ~enabled)

\* A job that has ended leaves no node of its pool half way: none is recorded
\* draining, upgrading or waiting any more.  After a restart a resumed pass may
\* end without having come to every such node.
NoNodeAbandoned ==
    \A p \in Pools : crashes = 0 /\ job[p].state \in {"DONE", "FAILED"} =>
        \A n \in pool[p].members : mr[n].state \notin InFlight \cup {"DRAINING"}
============================================================================
