--------------------------- MODULE RolloutProofs ---------------------------
(***************************************************************************)
(* Proofs about the operating-system rollout, for any number of nodes,     *)
(* pools, jobs, requests, crashes and faults, except where a theorem says  *)
(* that it is about one life of the process or about one job.              *)
(***************************************************************************)
EXTENDS Rollout, FiniteSetTheorems, TLAPS

\* The steps of upgradeNode and finishUpgrade.
Working == {"snapshot", "copying", "drain", "cordon", "evict", "upgrade", "wait",
            "polling", "uncordon", "markDone"}

\* The steps at which the executor has no pool's job in hand.
Between == {"idle", "k8s", "k8sCopying", "k8sUpgrade", "pick"}
USE DEF Between

\* The executor has a pool while it runs a job, and a node while it upgrades one.
Located ==
    /\ ex.pc \notin Between => ex.pool \in Pools
    /\ ex.pc \in Working => ex.node \in Nodes

Served == {i \in 1..MaxJobs : req[i].stage = "over"}

\* A job was created by a request that is over.
JobsCounted == created <= Cardinality(Served)

TypeInv == TypeOK /\ Located /\ JobsCounted

\* The record of the node the executor works on says how far it is.
Recorded ==
    /\ ex.pc \in {"snapshot", "copying", "drain"} => mr[ex.node].state \notin InFlight
    /\ ex.pc \in {"cordon", "evict"} => mr[ex.node].state = "DRAINING"
    /\ ex.pc \in {"upgrade", "wait"} => mr[ex.node].state = "UPGRADING"
    /\ ex.pc \in {"polling", "uncordon", "markDone"} => mr[ex.node].state = "WAITING_HEALTHY"

\* An upgrade that was sent is on record until it is accounted for, so that a
\* restarted executor finds it.
SentInFlight == \A n \in sent : mr[n].state \in InFlight

\* What makes NoDoubleUpgrade inductive.
ResumeInv == Recorded /\ SentInFlight /\ NoDoubleUpgrade

\* What makes DrainedBeforeUpgrade inductive.
DrainInv ==
    /\ DrainedBeforeUpgrade
    /\ ex.pc = "evict" => live[ex.node].cordoned

\* Who works on what: a node belongs to one pool, the executor works on nodes of the
\* pool whose job it runs, and only members have a record.
MembersInv ==
    /\ \A p, q \in Pools : p # q => pool[p].members \cap pool[q].members = {}
    /\ ex.pc \in {"list", "node"} \cup Working => ex.todo \subseteq pool[ex.pool].members
    /\ ex.pc \in Working => ex.node \in pool[ex.pool].members
    /\ ex.node # 0 => ex.pc \in Working \cup {"finish"}
    /\ \A n \in Nodes : mr[n].state # "IDLE" => \E p \in Pools : n \in pool[p].members

\* What makes SnapshotHeld inductive: the snapshot of the node in hand, up to UpgradeOS.
SnapshotInv ==
    /\ ex.pc \in {"drain", "cordon", "evict", "upgrade"} /\ ex.pool \in ControlPlane \cap SnapshotPools
         => snap[ex.node] = "complete"
    /\ SnapshotHeld

\* The times a pool's jobs were created at, as the store and the executor know them.
Times(p) == {job[p].createdAt, ex.copy[p].createdAt}

\* What the executor's copies of the jobs are worth: none is newer than the clock or
\* is of another pool, and a job it has still to run has not ended.
JobInv ==
    /\ \A p \in Pools : \A t \in Times(p) : t <= created
    /\ \A p, q \in Pools : p # q => Times(p) \cap Times(q) \subseteq {0}
    /\ \A p \in Pools : actionable(job[p].state) => job[p].createdAt # 0
    /\ \A p \in ex.batch : /\ ex.copy[p].createdAt # 0
                           /\ job[p].createdAt = ex.copy[p].createdAt => actionable(job[p].state)
    /\ ex.pc \notin Between => ex.pool \in ex.batch /\ actionable(job[ex.pool].state)

\* What makes HaltOnFailure inductive while the process lives: a job that has failed a
\* node is at its end, and neither the store nor the executor holds it to run again.
HaltInv ==
    /\ ~stopping
    /\ \A n \in Nodes : failedBy[n] <= created
    /\ \A n \in Nodes, p \in Pools :
         /\ failedBy[n] # 0
         /\ \/ p \in ex.batch /\ ex.copy[p].createdAt = failedBy[n]
            \/ actionable(job[p].state) /\ job[p].createdAt = failedBy[n]
         => ex.pc = "finish" /\ p = ex.pool

\* While the process lives, a record half way is that of the node in hand.
InHand ==
    /\ ~stopping
    /\ \A n \in Nodes : mr[n].state \in InFlight \cup {"DRAINING"} => ex.pc \in Working /\ n = ex.node

\* The steps at which the executor knows what it upgrades the nodes to.
Aiming == {"list", "node"} \cup Working

\* The pool has had a job, and the versions the jobs ask for.
Ordered(p) == job[p].createdAt # 0
Aimed(v) == \E p \in Pools : Ordered(p) /\ job[p].target = v

\* With one job and no edits, CreateRollout, the pool, the job, the executor's copy of it and
\* the target the executor reads from the pool all name the same version.
OrderInv ==
    /\ \A p \in Pools : Ordered(p) => /\ \A i \in 1..MaxJobs : req[i].stage = "over"
                                      /\ pool[p].desired = job[p].target
                                      /\ job[p].target # NoVersion
    /\ \A i \in 1..MaxJobs : req[i].stage \in {"checked", "desired"} =>
                               req[i].pool \in Pools /\ req[i].target # NoVersion
    /\ \A i \in 1..MaxJobs : req[i].stage = "desired" => pool[req[i].pool].desired = req[i].target
    /\ \A p \in Pools : ex.copy[p].createdAt # 0 => Ordered(p) /\ ex.copy[p].target = job[p].target
    /\ ex.pc \in Aiming => ex.target = job[ex.pool].target

\* What makes DoneAtTarget inductive: whatever a node has still to boot is the version of a
\* job, and Uncordon and markDone follow only a look at the version the node runs.
VersionInv ==
    /\ \A n \in Nodes : live[n].next # NoVersion => Aimed(live[n].next)
    /\ \A n \in Nodes : mr[n].state = "DONE" => Aimed(mr[n].target)
    /\ ex.pc \in {"uncordon", "markDone"} => live[ex.node].ver = ex.target
    /\ DoneAtTarget

\* What makes ConvergedUnlessDeferred inductive: the members the loop has left behind run the
\* target, and so do all of them once it has ended well.
ConvergeInv ==
    /\ ex.pc \in Aiming =>
         \A n \in pool[ex.pool].members \ ex.todo : live[n].ver = ex.target
    /\ ex.pc = "finish" /\ ex.outcome \notin {"DEFERRED", "FAILED"} =>
         \A n \in pool[ex.pool].members : live[n].ver = job[ex.pool].target
    /\ \A p \in Pools : job[p].state = "DONE" => Ordered(p)
    /\ ConvergedUnlessDeferred

-----------------------------------------------------------------------------
(* What the building blocks of the executor's steps do.                    *)

\* The executor that has just been started.
LEMMA IdleFacts == ExIdle \in Executor /\ ExIdle.pc = "idle"
<1>1. NoJob \in Job
  BY BoundsAssumption DEF NoJob, Job, JobStates, MaybeVersion
<1>2. [p \in Pools |-> NoJob] \in [Pools -> Job]
  BY Zenon, <1>1
<1> QED
  BY Zenon, <1>2 DEF ExIdle, Executor, Outcomes, PCs, MaybeVersion

\* Goto moves the executor and leaves its other locals alone.
LEMMA GotoFacts ==
    ASSUME ex \in Executor, NEW pc \in PCs, Goto(pc)
    PROVE  /\ ex' \in Executor
           /\ ex'.pc = pc
           /\ ex'.pool = ex.pool /\ ex'.node = ex.node /\ ex'.target = ex.target
           /\ ex'.copy = ex.copy /\ ex'.todo = ex.todo /\ ex'.batch = ex.batch
BY DEF Goto, Executor

\* setState writes one record, with the target of the pass.
LEMMA SetStateFacts ==
    ASSUME TypeOK, NEW n \in Nodes, NEW s \in RolloutStates, setState(n, s)
    PROVE  /\ mr' \in [Nodes -> MachineRollout]
           /\ mr'[n].state = s
           /\ \A m \in Nodes \ {n} : mr'[m] = mr[m]
BY DEF TypeOK, setState, Executor, MachineRollout

\* fail records the node FAILED and ends the pass over the pool.
LEMMA FailFacts ==
    ASSUME TypeOK, NEW n \in Nodes, ex.pool \in Pools, fail(n)
    PROVE  /\ mr' \in [Nodes -> MachineRollout]
           /\ mr'[n].state = "FAILED"
           /\ \A m \in Nodes \ {n} : mr'[m] = mr[m]
           /\ sent' = sent \ {n} /\ UNCHANGED deferred
           /\ failedBy' \in [Nodes -> 0..MaxJobs]
           /\ ex' \in Executor
           /\ ex'.pc = "finish" /\ ex'.pool = ex.pool /\ ex'.copy = ex.copy
           /\ ex'.batch = ex.batch /\ ex'.outcome = "FAILED"
<1>1. ex \in Executor /\ failedBy \in [Nodes -> 0..MaxJobs]
  BY Zenon DEF TypeOK
<1>2. setState(n, "FAILED") /\ "FAILED" \in RolloutStates
  BY Zenon DEF fail, RolloutStates
<1>3. ex.copy[ex.pool].createdAt \in 0..MaxJobs
  BY Zenon, <1>1 DEF Executor, Job
<1>4. failedBy' \in [Nodes -> 0..MaxJobs]
  BY Zenon, <1>1, <1>3 DEF fail
<1>5. /\ ex' \in Executor
      /\ ex'.pc = "finish" /\ ex'.pool = ex.pool /\ ex'.copy = ex.copy
      /\ ex'.batch = ex.batch /\ ex'.outcome = "FAILED"
  BY Zenon, <1>1 DEF fail, Executor, Outcomes, PCs
<1> QED
  BY Zenon, <1>2, <1>4, <1>5, SetStateFacts DEF fail

-----------------------------------------------------------------------------
(* Type correctness.                                                       *)

\* The executor's steps keep the types: what it stores in a job, a record or its
\* own locals comes from a pool, a node and a copy it has read.
LEMMA ExecType == TypeInv /\ Exec => TypeOK' /\ Located'
<1> SUFFICES ASSUME TypeInv, Exec PROVE TypeOK' /\ Located'
  OBVIOUS
<1>0. /\ TypeOK /\ Located
      /\ ex \in Executor /\ job \in [Pools -> Job]
      /\ pool \in [Pools -> [members : SUBSET Nodes, desired : MaybeVersion, paused : BOOLEAN]]
      /\ talos \in MaybeVersion /\ live \in [Nodes -> Node]
      /\ snap \in [Nodes -> Snapshots]
  BY Zenon DEF TypeInv, TypeOK
<1>b. ex \in Executor
  BY Zenon, <1>0
<1>a. {"DRAINING", "UPGRADING", "WAITING_HEALTHY", "DONE"} \subseteq RolloutStates
  BY Zenon DEF RolloutStates
<1>1. CASE RunOnce
  <2>1. ex' \in Executor /\ ex'.pc \in Between
    BY <1>0, <1>1, Zenon DEF RunOnce, Executor, Outcomes, PCs
  <2> QED
    BY Zenon, <1>0, <1>1, <2>1 DEF RunOnce, TypeOK, Located, Working, ExecRest, liveVars, histVars, bounds
<1>2. CASE PassOver
  <2>1. ex' \in Executor /\ ex'.pc = "idle"
    BY Zenon, <1>2, IdleFacts DEF PassOver
  <2> QED
    BY Zenon, <1>0, <1>2, <2>1 DEF PassOver, TypeOK, Located, Working, ExecRest, liveVars, histVars, bounds
<1>3. ASSUME NEW p \in Pools, SkipJob(p) PROVE TypeOK' /\ Located'
  <2>1. ex' \in Executor /\ ex'.pc = "pick"
    BY Zenon, <1>0, <1>3 DEF SkipJob, NextJob, Executor, Outcomes, PCs
  <2> QED
    BY Zenon, <1>0, <1>3, <2>1 DEF SkipJob, TypeOK, Located, Working, ExecRest, liveVars, histVars, bounds
<1>4. ASSUME NEW p \in Pools, StartJob(p) PROVE TypeOK' /\ Located'
  <2>1. ex' \in Executor /\ ex'.pc = "pool" /\ ex'.pool = p
    BY Zenon, <1>0, <1>4 DEF StartJob, Executor, Outcomes, PCs
  <2>2. ex.copy[p] \in Job
    BY Zenon, <1>0 DEF Executor
  <2>3. job' \in [Pools -> Job]
    BY Zenon, <1>0, <1>4, <2>2 DEF StartJob, Job, JobStates
  <2> QED
    BY Zenon, <1>0, <1>4, <2>1, <2>3 DEF StartJob, TypeOK, Located, Working, ExecRest, liveVars, histVars, bounds
<1>5. CASE finish
  <2>1. ex.pool \in Pools
    BY Zenon, <1>0, <1>5 DEF finish, Located
  <2>2. ex' \in Executor /\ ex'.pc = "pick"
    BY Zenon, <1>0, <1>5 DEF finish, ExIdle, Executor, Outcomes, PCs, MaybeVersion
  <2>3. ex.copy[ex.pool] \in Job /\ {"DONE", "FAILED"} \subseteq JobStates
    BY Zenon, <1>0, <2>1 DEF Executor, JobStates
  <2>4. job' \in [Pools -> Job]
    BY Zenon, <1>0, <1>5, <2>3 DEF finish, Job
  <2>5. deferred' \in SUBSET Pools
    BY Zenon, <1>0, <1>5, <2>1 DEF finish, TypeOK
  <2> QED
    BY Zenon, <1>0, <1>5, <2>2, <2>4, <2>5 DEF finish, TypeOK, Located, Working, ExecRest, liveVars, histVars, bounds
<1>6. CASE ReadPool
  <2>1. ex.pool \in Pools
    BY Zenon, <1>0, <1>6 DEF ReadPool, Located
  <2>2. targetVersion(ex.pool) \in MaybeVersion /\ pool[ex.pool].members \in SUBSET Nodes
    BY Zenon, <1>0, <2>1 DEF targetVersion
  <2>3. \/ ex' = [ex EXCEPT !.pc = "finish", !.outcome = "DEFERRED"]
        \/ ex' = [ex EXCEPT !.pc = "finish", !.outcome = "FAILED"]
        \/ ex' = [ex EXCEPT !.pc = "list", !.target = targetVersion(ex.pool),
                            !.members = pool[ex.pool].members,
                            !.todo = pool[ex.pool].members]
    BY Zenon, <1>6 DEF ReadPool
  <2>4. ex' \in Executor /\ ex'.pc \in {"finish", "list"} /\ ex'.pool = ex.pool
    <3>1. ASSUME NEW o \in {"DEFERRED", "FAILED"}, ex' = [ex EXCEPT !.pc = "finish", !.outcome = o]
          PROVE  ex' \in Executor /\ ex'.pc = "finish" /\ ex'.pool = ex.pool
      BY Zenon, <1>b, <3>1 DEF Executor, Outcomes, PCs
    <3>2. ASSUME NEW t \in MaybeVersion, NEW m \in SUBSET Nodes,
                 ex' = [ex EXCEPT !.pc = "list", !.target = t, !.members = m, !.todo = m]
          PROVE  ex' \in Executor /\ ex'.pc = "list" /\ ex'.pool = ex.pool
      BY Zenon, <1>b, <3>2 DEF Executor, Outcomes, PCs
    <3> QED
      BY Zenon, <2>2, <2>3, <3>1, <3>2
  <2> QED
    BY Zenon, <1>0, <1>6, <2>1, <2>4 DEF ReadPool, TypeOK, Located, Working, ExecRest, liveVars, histVars, bounds
<1>7. CASE ListNodes
  <2>1. \/ \E l, r \in SUBSET Nodes : ex' = [ex EXCEPT !.pc = "node", !.listed = l, !.ready = r]
        \/ ex' = [ex EXCEPT !.pc = "finish", !.outcome = "FAILED"]
    <3>1. {n \in Nodes : live[n].joined} \in SUBSET Nodes
      OBVIOUS
    <3>2. {n \in Nodes : live[n].joined /\ live[n].ready} \in SUBSET Nodes
      OBVIOUS
    <3> QED
      BY <1>7, <3>1, <3>2, Zenon DEF ListNodes
  <2>2. ex' \in Executor /\ ex'.pc \in {"finish", "node"} /\ ex'.pool = ex.pool
    <3>1. ASSUME NEW l \in SUBSET Nodes, NEW r \in SUBSET Nodes,
                 ex' = [ex EXCEPT !.pc = "node", !.listed = l, !.ready = r]
          PROVE  ex' \in Executor /\ ex'.pc = "node" /\ ex'.pool = ex.pool
      BY Zenon, <1>b, <3>1 DEF Executor, Outcomes, PCs
    <3>2. CASE ex' = [ex EXCEPT !.pc = "finish", !.outcome = "FAILED"]
      BY Zenon, <1>b, <3>2 DEF Executor, Outcomes, PCs
    <3> QED
      BY Zenon, <2>1, <3>1, <3>2
  <2> QED
    BY Zenon, <1>0, <1>7, <2>2 DEF ListNodes, TypeOK, Located, Working, ExecRest, liveVars, histVars, bounds
<1>8. CASE PoolConverged
  <2>1. ex' \in Executor /\ ex'.pc = "finish" /\ ex'.pool = ex.pool
    BY Zenon, <1>0, <1>8 DEF PoolConverged, Executor, Outcomes, PCs
  <2> QED
    BY Zenon, <1>0, <1>8, <2>1 DEF PoolConverged, TypeOK, Located, Working, ExecRest, liveVars, histVars, bounds
<1>9. ASSUME NEW n \in Nodes, NextNode(n), fail(n), UNCHANGED <<job, liveVars>>, ExecRest
      PROVE  TypeOK' /\ Located'
  <2>1. ex.pool \in Pools
    BY Zenon, <1>0, <1>9 DEF NextNode, Located
  <2> QED
    BY Zenon, <1>0, <1>9, <2>1, FailFacts DEF TypeOK, Located, Working, ExecRest, liveVars, bounds
<1>10. ASSUME NEW n \in Nodes, ResumeNode(n) PROVE TypeOK' /\ Located'
  <2>1. CASE fail(n)
    BY Zenon, <1>9, <1>10, <2>1 DEF ResumeNode
  <2>2. CASE ~fail(n)
    <3>1. /\ setState(n, "WAITING_HEALTHY")
          /\ ex' = [ex EXCEPT !.pc = "polling", !.node = n]
          /\ ex.pc = "node" /\ UNCHANGED histVars
      BY Zenon, <1>10, <2>2 DEF ResumeNode, NextNode
    <3>2. ex' \in Executor /\ ex'.pc = "polling" /\ ex'.pool = ex.pool /\ ex'.node = n
      BY Zenon, <1>0, <3>1 DEF Executor, Outcomes, PCs
    <3>3. mr' \in [Nodes -> MachineRollout]
      BY Zenon, <1>0, <1>a, <3>1, SetStateFacts
    <3> QED
      BY Zenon, <1>0, <1>10, <3>1, <3>2, <3>3 DEF ResumeNode, TypeOK, Located, Working, ExecRest,
         liveVars, histVars, bounds
  <2> QED
    BY Zenon, <2>1, <2>2
<1>11. ASSUME NEW n \in Nodes, VersionFails(n) PROVE TypeOK' /\ Located'
  BY Zenon, <1>9, <1>11 DEF VersionFails
<1>12. ASSUME NEW n \in Nodes, AtTarget(n) PROVE TypeOK' /\ Located'
  <2>1. ex' \in Executor /\ ex'.pc = "node" /\ ex'.pool = ex.pool
    BY Zenon, <1>0, <1>12 DEF AtTarget, NextNode, Executor
  <2>2. mr' \in [Nodes -> MachineRollout] /\ ex.pool \in Pools
    BY Zenon, <1>0, <1>a, <1>12, SetStateFacts DEF AtTarget, NextNode, Located
  <2> QED
    BY Zenon, <1>0, <1>12, <2>1, <2>2 DEF AtTarget, TypeOK, Located, Working, ExecRest, liveVars,
       histVars, bounds
<1>13. ASSUME NEW n \in Nodes, OverBudget(n) PROVE TypeOK' /\ Located'
  <2>1. ex' \in Executor /\ ex'.pc = "finish" /\ ex'.pool = ex.pool
    BY Zenon, <1>0, <1>13 DEF OverBudget, Executor, Outcomes, PCs
  <2> QED
    BY Zenon, <1>0, <1>13, <2>1 DEF OverBudget, NextNode, TypeOK, Located, Working, ExecRest,
       liveVars, histVars, bounds
<1>14. ASSUME NEW n \in Nodes, StartNode(n) PROVE TypeOK' /\ Located'
  <2>1. CASE fail(n)
    BY Zenon, <1>9, <1>14, <2>1 DEF StartNode
  <2>2. CASE ~fail(n)
    <3>1. /\ \/ ex' = [ex EXCEPT !.node = n, !.pc = "snapshot"]
             \/ ex' = [ex EXCEPT !.node = n, !.pc = "drain"]
          /\ ex.pc = "node" /\ UNCHANGED <<mr, histVars>>
      BY Zenon, <1>14, <2>2 DEF StartNode, NextNode
    <3>2. ex' \in Executor /\ ex'.pc \in {"snapshot", "drain"} /\ ex'.pool = ex.pool /\ ex'.node = n
      <4>1. CASE ex' = [ex EXCEPT !.node = n, !.pc = "snapshot"]
        BY Zenon, <1>b, <4>1 DEF Executor, Outcomes, PCs
      <4>2. CASE ex' = [ex EXCEPT !.node = n, !.pc = "drain"]
        BY Zenon, <1>b, <4>2 DEF Executor, Outcomes, PCs
      <4> QED
        BY Zenon, <3>1, <4>1, <4>2
    <3> QED
      BY Zenon, <1>0, <1>14, <3>1, <3>2 DEF StartNode, TypeOK, Located, Working, ExecRest,
         liveVars, histVars, bounds
  <2> QED
    BY Zenon, <2>1, <2>2
<1>15. CASE SnapshotOpen \/ SnapshotCopied
  <2>1. ex' \in Executor /\ ex'.pc \in {"copying", "drain"} /\ ex'.pool = ex.pool /\ ex'.node = ex.node
    BY Zenon, <1>0, <1>15, GotoFacts DEF SnapshotOpen, SnapshotCopied, PCs
  <2> QED
    BY Zenon, <1>0, <1>15, <2>1 DEF SnapshotOpen, SnapshotCopied, Snapshots, TypeOK, Located, Working,
       ExecRest, histVars, bounds
<1>16. CASE MarkDraining \/ DrainDone \/ MarkWaiting
  <2>1. /\ ex' \in Executor /\ ex'.pc \in {"cordon", "upgrade", "polling"}
        /\ ex'.pool = ex.pool /\ ex'.node = ex.node
    BY Zenon, <1>0, <1>16, GotoFacts DEF MarkDraining, DrainDone, MarkWaiting, PCs
  <2>2. ex.node \in Nodes /\ ex.pool \in Pools
    BY Zenon, <1>0, <1>16 DEF MarkDraining, DrainDone, MarkWaiting, Located, Working
  <2>3. mr' \in [Nodes -> MachineRollout]
    BY Zenon, <1>0, <1>a, <1>16, <2>2, SetStateFacts DEF MarkDraining, DrainDone, MarkWaiting
  <2> QED
    BY Zenon, <1>0, <1>16, <2>1, <2>2, <2>3 DEF MarkDraining, DrainDone, MarkWaiting, TypeOK,
       Located, Working, ExecRest, liveVars, histVars, bounds
<1>17. CASE Cordon \/ Uncordon
  <2>1. /\ ex' \in Executor /\ ex'.pc \in {"evict", "markDone"}
        /\ ex'.pool = ex.pool /\ ex'.node = ex.node
    BY Zenon, <1>0, <1>17, GotoFacts DEF Cordon, Uncordon, PCs
  <2>2. live' \in [Nodes -> Node]
    <3>1. PICK b \in BOOLEAN : live' = [live EXCEPT ![ex.node].cordoned = b]
      BY Zenon, <1>17 DEF Cordon, Uncordon
    <3>2. live \in [Nodes -> Node]
      BY Zenon, <1>0
    <3> QED
      BY Zenon, <3>1, <3>2 DEF Node
  <2> QED
    BY Zenon, <1>0, <1>17, <2>1, <2>2 DEF Cordon, Uncordon, TypeOK, Located, Working, ExecRest,
       histVars, bounds
<1>18. CASE Healthy
  <2>1. ex' \in Executor /\ ex'.pc = "uncordon" /\ ex'.pool = ex.pool /\ ex'.node = ex.node
    BY Zenon, <1>0, <1>18, GotoFacts DEF Healthy, PCs
  <2> QED
    BY Zenon, <1>0, <1>18, <2>1 DEF Healthy, TypeOK, Located, Working, ExecRest, liveVars, histVars,
       bounds
<1>19. CASE MarkDone
  <2>1. ex' \in Executor /\ ex'.pc = "node" /\ ex'.pool = ex.pool
    BY Zenon, <1>0, <1>19 DEF MarkDone, Executor, Outcomes, PCs
  <2>2. ex.node \in Nodes /\ ex.pool \in Pools
    BY Zenon, <1>0, <1>19 DEF MarkDone, Located, Working
  <2>3. mr' \in [Nodes -> MachineRollout]
    BY Zenon, <1>0, <1>a, <1>19, <2>2, SetStateFacts DEF MarkDone
  <2> QED
    BY Zenon, <1>0, <1>19, <2>1, <2>2, <2>3 DEF MarkDone, TypeOK, Located, Working, ExecRest,
       liveVars, bounds
<1>20. CASE UpgradeOS
  <2>1. ex.node \in Nodes /\ ex.pool \in Pools
    BY Zenon, <1>0, <1>20 DEF UpgradeOS, Located, Working
  <2>2. live' \in [Nodes -> Node]
    <3>1. ex.target \in MaybeVersion
      BY Zenon, <1>0 DEF Executor
    <3> QED
      BY Zenon, <1>0, <1>20, <3>1 DEF UpgradeOS, Node
  <2>3. CASE fail(ex.node)
    BY Zenon, <1>0, <1>20, <2>1, <2>2, <2>3, FailFacts DEF UpgradeOS, TypeOK, Located, Working,
       ExecRest, bounds
  <2>4. CASE ~fail(ex.node)
    <3>1. /\ Goto("wait") /\ sent' = sent \cup {ex.node} /\ UNCHANGED <<mr, failedBy, deferred>>
      BY Zenon, <1>20, <2>4 DEF UpgradeOS
    <3>2. ex' \in Executor /\ ex'.pc = "wait" /\ ex'.pool = ex.pool /\ ex'.node = ex.node
      BY Zenon, <1>0, <3>1, GotoFacts DEF PCs
    <3> QED
      BY Zenon, <1>0, <1>20, <2>1, <2>2, <3>1, <3>2 DEF UpgradeOS, TypeOK, Located, Working,
         ExecRest, bounds
  <2> QED
    BY Zenon, <2>3, <2>4
<1>21. CASE CallFails
  <2>1. ex.node \in Nodes /\ ex.pool \in Pools
    BY Zenon, <1>0, <1>21 DEF CallFails, Located, Working
  <2> QED
    BY <1>0, <1>21, <2>1, FailFacts DEF CallFails, TypeOK, Located, Working, ExecRest,
       liveVars, bounds
<1> QED
  BY Zenon, <1>1, <1>2, <1>3, <1>4, <1>5, <1>6, <1>7, <1>8, <1>10, <1>11, <1>12, <1>13, <1>14,
     <1>15, <1>16, <1>17, <1>18, <1>19, <1>20, <1>21 DEF Exec

\* No step of the executor creates a job or serves a request.
LEMMA ExecCounted == Exec => UNCHANGED <<req, created>>
BY Zenon DEF Exec, RunOnce, PassOver, SkipJob, StartJob, finish, ReadPool, ListNodes, PoolConverged,
   ResumeNode, VersionFails, AtTarget, OverBudget, StartNode, SnapshotOpen, SnapshotCopied,
   MarkDraining, Cordon, DrainDone, UpgradeOS, MarkWaiting, Healthy, Uncordon, MarkDone,
   CallFails, ExecRest, bounds

\* A step of the Kubernetes job moves the executor between the pools' jobs, and touches
\* nothing else that the pools' jobs use but the snapshot of a control-plane node.
K8sMove ==
    /\ ex.pc \in Between \ {"idle", "pick"} /\ ex'.pc \in Between /\ ex' \in Executor
    /\ ex'.batch = ex.batch /\ ex'.copy = ex.copy /\ ex'.pool = ex.pool
    /\ ex'.node = ex.node /\ ex'.todo = ex.todo

LEMMA K8sFacts ==
    ASSUME TypeOK, ExecK8s
    PROVE  /\ UNCHANGED <<enabled, talos, pool, job, mr, req, stopping, live, histVars, bounds>>
           /\ k8sJob' \in BOOLEAN /\ snap' \in [Nodes -> Snapshots] /\ K8sMove
           /\ \A n \in Nodes : snap'[n] \in {snap[n], "k8sPartial", "complete"}
<1>0. ex \in Executor /\ snap \in [Nodes -> Snapshots] /\ k8sJob \in BOOLEAN
  BY Zenon DEF TypeOK
<1>1. CASE K8sSkip
  <2>1. K8sMove
    BY Zenon, <1>0, <1>1 DEF K8sSkip, Goto, K8sMove, Executor, PCs
  <2> QED
    BY Zenon, <1>0, <1>1, <2>1 DEF K8sSkip, ExecRest, liveVars
<1>2. ASSUME NEW n \in Nodes, K8sSnapshotOpen(n)
      PROVE  /\ UNCHANGED <<enabled, talos, pool, job, mr, req, stopping, live, histVars, bounds>>
             /\ k8sJob' \in BOOLEAN /\ snap' \in [Nodes -> Snapshots] /\ K8sMove
             /\ \A m \in Nodes : snap'[m] \in {snap[m], "k8sPartial", "complete"}
  <2>1. K8sMove
    BY Zenon, <1>0, <1>2 DEF K8sSnapshotOpen, K8sMove, Executor, PCs
  <2>2. snap' \in [Nodes -> Snapshots] /\ \A m \in Nodes : snap'[m] \in {snap[m], "k8sPartial", "complete"}
    BY Zenon, <1>0, <1>2 DEF K8sSnapshotOpen, Snapshots
  <2> QED
    BY Zenon, <1>0, <1>2, <2>1, <2>2 DEF K8sSnapshotOpen, ExecRest
<1>3. CASE K8sSnapshotCopied
  <2>1. K8sMove
    BY Zenon, <1>0, <1>3 DEF K8sSnapshotCopied, Goto, K8sMove, Executor, PCs
  <2>2. snap' \in [Nodes -> Snapshots] /\ \A m \in Nodes : snap'[m] \in {snap[m], "k8sPartial", "complete"}
    BY Zenon, <1>0, <1>3 DEF K8sSnapshotCopied, Snapshots
  <2> QED
    BY Zenon, <1>0, <1>3, <2>1, <2>2 DEF K8sSnapshotCopied, ExecRest
<1>4. CASE K8sFinish
  <2>1. K8sMove
    BY Zenon, <1>0, <1>4 DEF K8sFinish, K8sMove, Executor, PCs
  <2> QED
    BY Zenon, <1>0, <1>4, <2>1 DEF K8sFinish, liveVars
<1> QED
  BY Zenon, <1>1, <1>2, <1>3, <1>4 DEF ExecK8s

\* Of the requests that are over there are at most as many as the bound allows.
LEMMA ServedFinite ==
    /\ IsFiniteSet(Served)
    /\ Cardinality(Served) \in Nat
    /\ Cardinality(Served) <= MaxJobs
<1>1. IsFiniteSet(1..MaxJobs) /\ Cardinality(1..MaxJobs) = MaxJobs
  BY BoundsAssumption, FS_Interval
<1>2. Served \subseteq 1..MaxJobs
  BY Zenon DEF Served
<1> QED
  BY Zenon, <1>1, <1>2, FS_Subset, FS_CardinalityType

\* The requests keep the types, and a job is created only by a request that is
\* then over.
LEMMA ApiType == TypeInv /\ Api => TypeInv'
<1> SUFFICES ASSUME TypeInv, Api PROVE TypeInv'
  OBVIOUS
<1>0. /\ TypeOK /\ Located /\ JobsCounted
      /\ pool \in [Pools -> [members : SUBSET Nodes, desired : MaybeVersion, paused : BOOLEAN]]
      /\ req \in [1..MaxJobs -> Request] /\ job \in [Pools -> Job]
      /\ created \in 0..MaxJobs /\ edits \in 0..MaxEdits /\ k8sCreated \in 0..MaxK8sJobs
  BY Zenon DEF TypeInv, TypeOK
<1>1. ASSUME Edit PROVE edits' \in 0..MaxEdits
  BY <1>0, <1>1, BoundsAssumption DEF Edit
<1>2. ASSUME NEW b \in BOOLEAN, setRolloutsEnabled(b) PROVE TypeInv'
  BY Zenon, <1>0, <1>1, <1>2 DEF setRolloutsEnabled, EditRest, TypeInv, TypeOK, Located, Working,
     JobsCounted, Served, liveVars, histVars
<1>3. ASSUME NEW v \in MaybeVersion, SetClusterVersions(v) PROVE TypeInv'
  BY Zenon, <1>0, <1>1, <1>3 DEF SetClusterVersions, EditRest, TypeInv, TypeOK, Located, Working,
     JobsCounted, Served, liveVars, histVars
<1>4. ASSUME Edit, UNCHANGED <<enabled, talos>>, EditRest,
             pool' \in [Pools -> [members : SUBSET Nodes, desired : MaybeVersion, paused : BOOLEAN]]
      PROVE  TypeInv'
  BY Zenon, <1>0, <1>1, <1>4 DEF EditRest, TypeInv, TypeOK, Located, Working, JobsCounted, Served,
     liveVars, histVars
<1>5. ASSUME NEW p \in Pools, NEW v \in MaybeVersion, SetNodePoolVersion(p, v) PROVE TypeInv'
  BY Zenon, <1>0, <1>4, <1>5 DEF SetNodePoolVersion
<1>6. ASSUME NEW p \in Pools, NEW b \in BOOLEAN, setPaused(p, b) PROVE TypeInv'
  BY Zenon, <1>0, <1>4, <1>6 DEF setPaused
<1>7. ASSUME NEW p \in Pools, NEW n \in Nodes, bind(p, n) PROVE TypeInv'
  BY Zenon, <1>0, <1>4, <1>7 DEF bind
<1>8. ASSUME NEW i \in 1..MaxJobs, NEW p \in Pools, NEW v \in Versions, CreateRollout(i, p, v)
      PROVE  TypeInv'
  <2>1. req' \in [1..MaxJobs -> Request]
    BY Zenon, <1>0, <1>8 DEF CreateRollout, Request, MaybeVersion
  <2>2. Served' = Served
    BY Zenon, <1>0, <1>8 DEF CreateRollout, Served, Request
  <2> QED
    BY Zenon, <1>0, <1>8, <2>1, <2>2 DEF CreateRollout, ReqRest, TypeInv, TypeOK, Located, Working,
       JobsCounted, liveVars, histVars
<1>9. ASSUME NEW i \in 1..MaxJobs, SetDesired(i) PROVE TypeInv'
  <2>1. req' \in [1..MaxJobs -> Request]
    BY Zenon, <1>0, <1>9 DEF SetDesired, Request
  <2>2. Served' = Served
    BY Zenon, <1>0, <1>9 DEF SetDesired, Served, Request
  <2>3. pool' \in [Pools -> [members : SUBSET Nodes, desired : MaybeVersion, paused : BOOLEAN]]
    BY Zenon, <1>0, <1>9 DEF SetDesired, Request
  <2> QED
    BY Zenon, <1>0, <1>9, <2>1, <2>2, <2>3 DEF SetDesired, ReqRest, TypeInv, TypeOK, Located, Working,
       JobsCounted, liveVars, histVars
<1>10. ASSUME NEW i \in 1..MaxJobs, PutJob(i) PROVE TypeInv'
  <2>1. req' \in [1..MaxJobs -> Request]
    BY Zenon, <1>0, <1>10 DEF PutJob, Request
  <2>2. Served' = Served \cup {i} /\ i \notin Served
    BY Zenon, <1>0, <1>10 DEF PutJob, Served, Request
  <2>3. Cardinality(Served') = Cardinality(Served) + 1 /\ Cardinality(Served) + 1 <= MaxJobs
    <3>1. IsFiniteSet(1..MaxJobs) /\ Cardinality(1..MaxJobs) = MaxJobs
      BY BoundsAssumption, FS_Interval
    <3>2. Served \cup {i} \subseteq 1..MaxJobs
      BY Zenon DEF Served
    <3>3. Cardinality(Served \cup {i}) = Cardinality(Served) + 1
      BY Zenon, <2>2, ServedFinite, FS_AddElement
    <3> QED
      BY Zenon, <2>2, <3>1, <3>2, <3>3, FS_Subset
  <2>4. created' \in 0..MaxJobs /\ created' <= Cardinality(Served')
    BY <1>0, <1>10, <2>3, ServedFinite, BoundsAssumption DEF PutJob, JobsCounted
  <2>5. job' \in [Pools -> Job]
    BY Zenon, <1>0, <1>10, <2>4 DEF PutJob, Job, JobStates, Request
  <2> QED
    BY Zenon, <1>0, <1>10, <2>1, <2>4, <2>5 DEF PutJob, ReqRest, TypeInv, TypeOK, Located, Working,
       JobsCounted, liveVars, histVars
<1>11. ASSUME CreateK8sRollout PROVE TypeInv'
  <2>1. k8sCreated' \in 0..MaxK8sJobs
    BY <1>0, <1>11, BoundsAssumption DEF CreateK8sRollout
  <2> QED
    BY Zenon, <1>0, <1>11, <2>1 DEF CreateK8sRollout, TypeInv, TypeOK, Located, Working,
       JobsCounted, Served, liveVars, histVars
<1> QED
  BY Zenon, <1>2, <1>3, <1>5, <1>6, <1>7, <1>8, <1>9, <1>10, <1>11 DEF Api

\* The managed cluster changes nothing but its nodes.
LEMMA EnvType == TypeInv /\ Env => TypeInv'
<1> SUFFICES ASSUME TypeInv, Env PROVE TypeInv'
  OBVIOUS
<1>0. /\ TypeOK /\ Located /\ JobsCounted
      /\ live \in [Nodes -> Node] /\ faults \in 0..MaxFaults
  BY Zenon DEF TypeInv, TypeOK
<1>1. PICK n \in Nodes : \/ Reboot(n) \/ Boot(n) \/ Rollback(n)
                         \/ PowerLoss(n) \/ Leave(n) \/ ReportStatus(n)
  BY Zenon DEF Env
<1>2. EnvRest
  BY Zenon, <1>1 DEF Reboot, Boot, Rollback, PowerLoss, Leave, ReportStatus
<1>3. faults' \in 0..MaxFaults
  BY <1>0, <1>1, BoundsAssumption DEF Reboot, Boot, Rollback, PowerLoss, Leave, ReportStatus,
     Fault
<1>4. live' \in [Nodes -> Node]
  <2>1. live[n] \in Node
    BY Zenon, <1>0
  <2>2. CASE Boot(n)
    BY Zenon, <1>0, <2>1, <2>2 DEF Boot, Node, MaybeVersion
  <2>3. CASE Reboot(n) \/ PowerLoss(n)
    BY <1>0, <2>1, <2>3, ZenonT(30) DEF Reboot, PowerLoss, Node
  <2>4. CASE Rollback(n)
    BY Zenon, <1>0, <2>1, <2>4 DEF Rollback, Node, MaybeVersion
  <2>5. CASE Leave(n)
    BY Zenon, <1>0, <2>1, <2>5 DEF Leave, Node
  <2>6. CASE ReportStatus(n)
    BY Zenon, <1>0, <2>1, <2>6 DEF ReportStatus, Node
  <2> QED
    BY Zenon, <1>1, <2>2, <2>3, <2>4, <2>5, <2>6
<1> QED
  BY Zenon, <1>0, <1>2, <1>3, <1>4 DEF EnvRest, TypeInv, TypeOK, Located, Working, JobsCounted,
     Served, storeVars, histVars

\* A restart keeps the store and makes every request in progress over.
LEMMA RestartType ==
    ASSUME TypeInv, Restart, crashes' \in 0..MaxCrashes
    PROVE  TypeInv'
<1>0. TypeOK /\ Located /\ JobsCounted /\ req \in [1..MaxJobs -> Request]
  BY Zenon DEF TypeInv, TypeOK
<1>1. req' \in [1..MaxJobs -> Request]
  BY Zenon, <1>0 DEF Restart, NoRequest, Request, MaybeVersion
<1>2. Served \subseteq Served'
  BY Zenon, <1>0 DEF Restart, Served, NoRequest
<1>3. Cardinality(Served) <= Cardinality(Served')
  <2>1. IsFiniteSet(Served')
    <3>1. Served' \subseteq 1..MaxJobs
      BY Zenon DEF Served
    <3>2. IsFiniteSet(1..MaxJobs)
      BY BoundsAssumption, FS_Interval
    <3> QED
      BY Zenon, <3>1, <3>2, FS_Subset
  <2> QED
    BY Zenon, <1>2, <2>1, FS_Subset
<1>4. Cardinality(Served') \in Nat
  <2>1. Served' \subseteq 1..MaxJobs
    BY Zenon DEF Served
  <2>2. IsFiniteSet(1..MaxJobs)
    BY BoundsAssumption, FS_Interval
  <2> QED
    BY Zenon, <2>1, <2>2, FS_Subset, FS_CardinalityType
<1>5. JobsCounted'
  <2>1. created' = created /\ created \in Nat
    BY <1>0, BoundsAssumption DEF Restart, TypeOK
  <2> QED
    BY <1>0, <1>3, <1>4, <2>1, ServedFinite DEF JobsCounted
<1> QED
  BY Zenon, <1>0, <1>1, <1>5, IdleFacts DEF Restart, TypeInv, TypeOK, Located, Working, storeVars,
     liveVars, histVars

\* Every step keeps the types.
LEMMA TypeStep == ASSUME TypeInv, [Next]_vars PROVE TypeInv'
<1>1. CASE Exec
  BY Zenon, <1>1, ExecType, ExecCounted DEF TypeInv, JobsCounted, Served
<1>2. CASE Api
  BY Zenon, <1>2, ApiType
<1>3. CASE Env
  BY Zenon, <1>3, EnvType
<1>4. CASE Crash
  BY <1>4, RestartType, BoundsAssumption DEF Crash, TypeInv, TypeOK
<1>5. CASE Sigterm
  BY <1>5, BoundsAssumption DEF Sigterm, TypeInv, TypeOK, Located, Working, JobsCounted,
     Served, storeVars, liveVars, histVars
<1>6. CASE Exit
  BY Zenon, <1>6, RestartType DEF Exit, TypeInv, TypeOK
<1>7. CASE UNCHANGED vars
  BY Zenon, <1>7 DEF vars, storeVars, liveVars, histVars, bounds, TypeInv, TypeOK, Located, Working,
     JobsCounted, Served
<1>8. CASE ExecK8s
  <2>1. TypeOK /\ JobsCounted /\ Located
    BY Zenon DEF TypeInv
  <2>2. Located'
    BY Zenon, <1>8, <2>1, K8sFacts DEF K8sMove, Located, Working
  <2> QED
    BY Zenon, <1>8, <2>1, <2>2, K8sFacts DEF K8sMove, TypeInv, TypeOK, JobsCounted, Served,
       histVars, bounds
<1> QED
  BY Zenon, <1>1, <1>2, <1>3, <1>4, <1>5, <1>6, <1>7, <1>8 DEF Next

\* The inductive strengthening of the type invariant.
LEMMA TypeInvariance == Spec => []TypeInv
<1>1. Init => TypeInv
  <2> SUFFICES ASSUME Init PROVE TypeInv
    OBVIOUS
  <2>1. ex \in Executor /\ ex.pc = "idle"
    BY Zenon, IdleFacts DEF Init
  <2>2. pool \in [Pools -> [members : SUBSET Nodes, desired : MaybeVersion, paused : BOOLEAN]]
    BY Zenon, MembersAssumption DEF Init, MaybeVersion
  <2>3. job \in [Pools -> Job]
    BY BoundsAssumption DEF Init, NoJob, Job, JobStates, MaybeVersion
  <2>4. mr \in [Nodes -> MachineRollout]
    BY Zenon DEF Init, MachineRollout, RolloutStates, MaybeVersion
  <2>5. req \in [1..MaxJobs -> Request]
    BY Zenon DEF Init, NoRequest, Request, MaybeVersion
  <2>6. live \in [Nodes -> Node]
    BY Zenon, VersionsAssumption DEF Init, Node, MaybeVersion
  <2>7. JobsCounted
    BY ServedFinite DEF Init, JobsCounted
  <2>8. enabled \in BOOLEAN /\ stopping \in BOOLEAN /\ talos \in MaybeVersion
    BY Zenon, VersionsAssumption DEF Init, MaybeVersion
  <2>9. /\ snap \in [Nodes -> Snapshots] /\ sent \in SUBSET Nodes /\ k8sJob \in BOOLEAN
        /\ deferred \in SUBSET Pools
    BY Zenon DEF Init, Snapshots
  <2>10. /\ failedBy \in [Nodes -> 0..MaxJobs] /\ created \in 0..MaxJobs
         /\ k8sCreated \in 0..MaxK8sJobs /\ edits \in 0..MaxEdits /\ crashes \in 0..MaxCrashes /\ faults \in 0..MaxFaults
    BY BoundsAssumption DEF Init
  <2>11. Located
    BY Zenon, <2>1 DEF Located, Working
  <2> QED
    BY Zenon, <2>1, <2>2, <2>3, <2>4, <2>5, <2>6, <2>7, <2>8, <2>9, <2>10, <2>11 DEF TypeInv, TypeOK
<1>2. TypeInv /\ [Next]_vars => TypeInv'
  BY Zenon, TypeStep
<1> QED
  BY <1>1, <1>2, PTL DEF Spec

\* Every variable has its type, for any number of nodes, pools, jobs, requests,
\* crashes and faults.
THEOREM TypeCorrect == Spec => []TypeOK
<1>1. TypeInv => TypeOK
  BY Zenon DEF TypeInv
<1> QED
  BY <1>1, TypeInvariance, PTL

-----------------------------------------------------------------------------
(* No node is upgraded twice.                                              *)

\* Steps of other actors touch neither the records nor the executor, or start the
\* executor afresh; those of the Kubernetes job leave the records alone.
LEMMA OthersKeep ==
    ASSUME TypeInv, ExecK8s \/ Api \/ Env \/ Crash \/ Sigterm \/ Exit \/ UNCHANGED vars
    PROVE  UNCHANGED <<mr, histVars>> /\ (UNCHANGED ex \/ ex' = ExIdle \/ K8sMove)
<1>1. CASE Api
  BY Zenon, <1>1 DEF Api, setRolloutsEnabled, SetClusterVersions, SetNodePoolVersion, setPaused, bind,
     CreateRollout, SetDesired, PutJob, CreateK8sRollout, EditRest, ReqRest
<1>2. CASE Env
  BY Zenon, <1>2 DEF Env, Reboot, Boot, Rollback, PowerLoss, Leave, ReportStatus, EnvRest, storeVars
<1>3. CASE Crash \/ Sigterm \/ Exit
  BY Zenon, <1>3 DEF Crash, Sigterm, Exit, Restart, storeVars
<1>4. CASE UNCHANGED vars
  BY Zenon, <1>4 DEF vars, storeVars
<1>5. CASE ExecK8s
  BY Zenon, <1>5, K8sFacts DEF TypeInv
<1> QED
  BY Zenon, <1>1, <1>2, <1>3, <1>4, <1>5

\* The steps of the pass over the jobs and the pools.
PassStep ==
    \/ RunOnce \/ PassOver \/ finish \/ ReadPool \/ ListNodes \/ PoolConverged
    \/ \E p \in Pools : SkipJob(p) \/ StartJob(p)
    \/ \E n \in Nodes : OverBudget(n)

\* The steps of the executor, with those of the pass taken together.
LEMMA ExecSteps ==
    Exec => \/ PassStep
            \/ \E n \in Nodes : ResumeNode(n) \/ VersionFails(n) \/ AtTarget(n) \/ StartNode(n)
            \/ SnapshotOpen \/ SnapshotCopied \/ MarkDraining \/ Cordon \/ DrainDone
            \/ UpgradeOS \/ MarkWaiting \/ Healthy \/ Uncordon \/ MarkDone \/ CallFails
BY Zenon DEF Exec, PassStep

\* The steps of the pass change no record of a node and no node.
LEMMA PassFacts ==
    ASSUME TypeOK, PassStep
    PROVE  /\ UNCHANGED <<mr, liveVars, sent, failedBy>>
           /\ ex'.pc \in Between \cup {"pool", "list", "node", "finish"}
<1>0. ex \in Executor
  BY Zenon DEF TypeOK
<1>1. UNCHANGED <<mr, liveVars, sent, failedBy>>
  BY Zenon DEF PassStep, RunOnce, PassOver, finish, ReadPool, ListNodes, PoolConverged, SkipJob,
     StartJob, OverBudget, histVars
<1>2. ex'.pc \in Between \cup {"pool", "list", "node", "finish"}
  <2>1. CASE RunOnce
    BY Zenon, <1>0, <2>1 DEF RunOnce, Executor
  <2>2. CASE PassOver
    BY Zenon, <2>2, IdleFacts DEF PassOver
  <2>3. CASE finish
    BY Zenon, <2>3, IdleFacts DEF finish, Executor
  <2>4. CASE ReadPool
    BY Zenon, <1>0, <2>4 DEF ReadPool, Executor
  <2>5. CASE ListNodes
    BY Zenon, <1>0, <2>5 DEF ListNodes, Executor
  <2>6. CASE PoolConverged
    BY Zenon, <1>0, <2>6 DEF PoolConverged, Executor
  <2>7. ASSUME NEW p \in Pools, SkipJob(p) \/ StartJob(p) PROVE ex'.pc \in {"pick", "pool"}
    BY Zenon, <1>0, <2>7 DEF SkipJob, StartJob, NextJob, Executor
  <2>8. ASSUME NEW n \in Nodes, OverBudget(n) PROVE ex'.pc = "finish"
    BY Zenon, <1>0, <2>8 DEF OverBudget, Executor
  <2> QED
    BY Zenon, <2>1, <2>2, <2>3, <2>4, <2>5, <2>6, <2>7, <2>8 DEF PassStep
<1> QED
  BY Zenon, <1>1, <1>2

\* A failed node has no upgrade on record any more, and the executor leaves it.
LEMMA FailResumes ==
    ASSUME TypeInv, ResumeInv, NEW n \in Nodes, ex.pool \in Pools, fail(n)
    PROVE  ResumeInv'
<1>1. /\ mr'[n].state = "FAILED" /\ \A m \in Nodes \ {n} : mr'[m] = mr[m]
      /\ sent' = sent \ {n} /\ ex'.pc = "finish" /\ sent \subseteq Nodes
  BY Zenon, FailFacts DEF TypeInv, TypeOK
<1>2. SentInFlight'
  BY <1>1 DEF ResumeInv, SentInFlight
<1> QED
  BY <1>1, <1>2 DEF ResumeInv, Recorded, NoDoubleUpgrade

\* Every step of the executor keeps the records in step with what was sent.
LEMMA ExecResumes == TypeInv /\ ResumeInv /\ Exec => ResumeInv'
<1> SUFFICES ASSUME TypeInv, ResumeInv, Exec PROVE ResumeInv'
  OBVIOUS
<1>0. TypeOK /\ Located /\ ex \in Executor /\ sent \subseteq Nodes
  BY Zenon DEF TypeInv, TypeOK
<1>a. {"DRAINING", "UPGRADING", "WAITING_HEALTHY", "DONE"} \subseteq RolloutStates
  BY Zenon DEF RolloutStates
<1>1. CASE PassStep
  BY Zenon, <1>0, <1>1, PassFacts DEF ResumeInv, Recorded, SentInFlight, NoDoubleUpgrade, histVars
<1>4. ASSUME NEW n \in Nodes, NextNode(n), fail(n) PROVE ResumeInv'
  BY Zenon, <1>0, <1>4, FailResumes DEF NextNode, Located
<1>5. ASSUME NEW n \in Nodes, ResumeNode(n) PROVE ResumeInv'
  <2>1. CASE fail(n)
    BY Zenon, <1>4, <1>5, <2>1 DEF ResumeNode
  <2>2. CASE ~fail(n)
    <3>1. /\ setState(n, "WAITING_HEALTHY")
          /\ ex' = [ex EXCEPT !.pc = "polling", !.node = n]
          /\ UNCHANGED histVars
      BY Zenon, <1>5, <2>2 DEF ResumeNode
    <3>2. ex'.pc = "polling" /\ ex'.node = n
      BY Zenon, <1>0, <3>1 DEF Executor
    <3> QED
      BY <1>0, <1>a, <3>1, <3>2, SetStateFacts DEF ResumeInv, Recorded, SentInFlight,
         NoDoubleUpgrade, InFlight, histVars
  <2> QED
    BY Zenon, <2>1, <2>2
<1>6. ASSUME NEW n \in Nodes, VersionFails(n) PROVE ResumeInv'
  BY Zenon, <1>4, <1>6 DEF VersionFails
<1>7. ASSUME NEW n \in Nodes, AtTarget(n) PROVE ResumeInv'
  <2>1. ex'.pc = "node" /\ n \notin sent
    BY Zenon, <1>0, <1>7 DEF AtTarget, NextNode, Executor, ResumeInv, SentInFlight
  <2> QED
    BY <1>0, <1>a, <1>7, <2>1, SetStateFacts DEF AtTarget, ResumeInv, Recorded, SentInFlight,
       NoDoubleUpgrade, histVars
<1>9. ASSUME NEW n \in Nodes, StartNode(n) PROVE ResumeInv'
  <2>1. CASE fail(n)
    BY Zenon, <1>4, <1>9, <2>1 DEF StartNode
  <2>2. CASE ~fail(n)
    <3>1. /\ ex'.pc \in {"snapshot", "drain"} /\ ex'.node = n
          /\ mr[n].state \notin InFlight /\ UNCHANGED <<mr, histVars>>
      BY Zenon, <1>0, <1>9, <2>2 DEF StartNode, Executor
    <3> QED
      BY Zenon, <3>1 DEF ResumeInv, Recorded, SentInFlight, NoDoubleUpgrade, histVars
  <2> QED
    BY Zenon, <2>1, <2>2
<1>10. CASE SnapshotOpen \/ SnapshotCopied \/ Cordon \/ Healthy \/ Uncordon
  <2>1. /\ ex'.node = ex.node
        /\ ex.pc \in {"snapshot", "copying"} => ex'.pc \in {"copying", "drain"}
        /\ ex.pc = "cordon" => ex'.pc = "evict"
        /\ ex.pc \in {"polling", "uncordon"} => ex'.pc \in {"uncordon", "markDone"}
        /\ ex.pc \in {"snapshot", "copying", "cordon", "polling", "uncordon"}
    BY Zenon, <1>0, <1>10 DEF SnapshotOpen, SnapshotCopied, Cordon, Healthy, Uncordon, Goto, Executor
  <2>2. UNCHANGED <<mr, histVars>>
    BY Zenon, <1>10 DEF SnapshotOpen, SnapshotCopied, Cordon, Healthy, Uncordon
  <2> QED
    BY Zenon, <2>1, <2>2 DEF ResumeInv, Recorded, SentInFlight, NoDoubleUpgrade, histVars
<1>11. CASE MarkDraining \/ DrainDone \/ MarkWaiting
  <2>1. ex.node \in Nodes
    BY Zenon, <1>0, <1>11 DEF MarkDraining, DrainDone, MarkWaiting, Located, Working
  <2>2. CASE MarkDraining
    <3>1. ex'.pc = "cordon" /\ ex'.node = ex.node
      BY Zenon, <1>0, <2>2, GotoFacts DEF MarkDraining, PCs
    <3>2. ex.node \notin sent
      BY Zenon, <2>2 DEF MarkDraining, ResumeInv, Recorded, SentInFlight
    <3> QED
      BY <1>0, <1>a, <2>1, <2>2, <3>1, <3>2, SetStateFacts DEF MarkDraining, ResumeInv, Recorded,
         SentInFlight, NoDoubleUpgrade, histVars
  <2>3. CASE DrainDone
    <3>1. ex'.pc = "upgrade" /\ ex'.node = ex.node
      BY Zenon, <1>0, <2>3, GotoFacts DEF DrainDone, PCs
    <3>2. ex.node \notin sent
      BY Zenon, <2>3 DEF DrainDone, ResumeInv, Recorded, SentInFlight, InFlight
    <3> QED
      BY Zenon, <1>0, <1>a, <2>1, <2>3, <3>1, <3>2, SetStateFacts DEF DrainDone, ResumeInv, Recorded,
         SentInFlight, NoDoubleUpgrade, histVars
  <2>4. CASE MarkWaiting
    <3>1. ex'.pc = "polling" /\ ex'.node = ex.node
      BY Zenon, <1>0, <2>4, GotoFacts DEF MarkWaiting, PCs
    <3> QED
      BY <1>0, <1>a, <2>1, <2>4, <3>1, SetStateFacts DEF MarkWaiting, ResumeInv, Recorded,
         SentInFlight, NoDoubleUpgrade, InFlight, histVars
  <2> QED
    BY Zenon, <1>11, <2>2, <2>3, <2>4
<1>12. CASE UpgradeOS
  <2>1. ex.node \in Nodes /\ ex.pool \in Pools /\ mr[ex.node].state = "UPGRADING"
    BY Zenon, <1>0, <1>12 DEF UpgradeOS, Located, Working, ResumeInv, Recorded
  <2>2. CASE fail(ex.node)
    BY Zenon, <2>1, <2>2, FailResumes
  <2>3. CASE ~fail(ex.node)
    <3>1. Goto("wait") /\ sent' = sent \cup {ex.node} /\ UNCHANGED mr
      BY Zenon, <1>12, <2>3 DEF UpgradeOS
    <3>2. ex'.pc = "wait" /\ ex'.node = ex.node
      BY Zenon, <1>0, <3>1, GotoFacts DEF PCs
    <3> QED
      BY Zenon, <2>1, <3>1, <3>2 DEF ResumeInv, Recorded, SentInFlight, NoDoubleUpgrade, InFlight
  <2> QED
    BY Zenon, <2>2, <2>3
<1>13. CASE MarkDone
  <2>1. ex'.pc = "node" /\ ex.node \in Nodes
    BY Zenon, <1>0, <1>13 DEF MarkDone, Executor, Located, Working
  <2> QED
    BY Zenon, <1>0, <1>a, <1>13, <2>1, SetStateFacts DEF MarkDone, ResumeInv, Recorded, SentInFlight,
       NoDoubleUpgrade
<1>14. CASE CallFails
  <2>1. ex.node \in Nodes /\ ex.pool \in Pools
    BY Zenon, <1>0, <1>14 DEF CallFails, Located, Working
  <2> QED
    BY Zenon, <1>14, <2>1, FailResumes DEF CallFails
<1> QED
  BY Zenon, <1>1, <1>5, <1>6, <1>7, <1>9, <1>10, <1>11, <1>12, <1>13, <1>14, ExecSteps

\* The inductive strengthening of NoDoubleUpgrade.
LEMMA ResumeInvariance == Spec => []ResumeInv
<1>1. Init => ResumeInv
  BY SMTT(30) DEF Init, ExIdle, ResumeInv, Recorded, SentInFlight, NoDoubleUpgrade
<1>2. TypeInv /\ ResumeInv /\ [Next]_vars => ResumeInv'
  <2> SUFFICES ASSUME TypeInv, ResumeInv, [Next]_vars PROVE ResumeInv'
    OBVIOUS
  <2>1. CASE Exec
    BY Zenon, <2>1, ExecResumes
  <2>2. CASE ~Exec
    <3>1. UNCHANGED <<mr, histVars>> /\ (UNCHANGED ex \/ ex' = ExIdle \/ K8sMove)
      BY Zenon, <2>2, OthersKeep DEF Next
    <3>2. CASE UNCHANGED ex
      BY Zenon, <3>1, <3>2 DEF ResumeInv, Recorded, SentInFlight, NoDoubleUpgrade, histVars
    <3>3. CASE ex'.pc \in Between
      BY Zenon, <3>1, <3>3 DEF ResumeInv, Recorded, SentInFlight, NoDoubleUpgrade, histVars
    <3> QED
      BY Zenon, <3>1, <3>2, <3>3, IdleFacts DEF K8sMove
  <2> QED
    BY Zenon, <2>1, <2>2
<1> QED
  BY <1>1, <1>2, TypeInvariance, PTL DEF Spec

\* UpgradeOS is never called on a node with an earlier upgrade unaccounted for,
\* whatever crashes, retries and requests came in between.
THEOREM UpgradedOnce == Spec => []NoDoubleUpgrade
<1>1. ResumeInv => NoDoubleUpgrade
  BY Zenon DEF ResumeInv
<1> QED
  BY <1>1, ResumeInvariance, PTL

-----------------------------------------------------------------------------
(* No node is upgraded before it is drained.                               *)

\* A node reboots, leaves and comes back without being uncordoned.
LEMMA OthersCordon ==
    ASSUME TypeInv, ExecK8s \/ Api \/ Env \/ Crash \/ Sigterm \/ Exit \/ UNCHANGED vars
    PROVE  \A n \in Nodes : live'[n].cordoned = live[n].cordoned
<1>1. CASE Api
  BY Zenon, <1>1 DEF Api, setRolloutsEnabled, SetClusterVersions, SetNodePoolVersion, setPaused, bind,
     CreateRollout, SetDesired, PutJob, CreateK8sRollout, EditRest, ReqRest, liveVars
<1>2. CASE Env
  <2>1. live \in [Nodes -> Node]
    BY Zenon DEF TypeInv, TypeOK
  <2>2. PICK n \in Nodes : Reboot(n) \/ Boot(n) \/ Rollback(n) \/ PowerLoss(n) \/ Leave(n)
                             \/ ReportStatus(n)
    BY Zenon, <1>2 DEF Env
  <2>3. /\ live'[n].cordoned = live[n].cordoned
        /\ \A m \in Nodes \ {n} : live'[m] = live[m]
    BY <2>1, <2>2 DEF Reboot, Boot, Rollback, PowerLoss, Leave, ReportStatus, Node
  <2> QED
    BY Zenon, <2>3
<1>3. CASE Crash \/ Sigterm \/ Exit
  BY Zenon, <1>3 DEF Crash, Sigterm, Exit, Restart, liveVars
<1>4. CASE UNCHANGED vars
  BY Zenon, <1>4 DEF vars, liveVars
<1>5. CASE ExecK8s
  BY Zenon, <1>5, K8sFacts DEF TypeInv
<1> QED
  BY Zenon, <1>1, <1>2, <1>3, <1>4, <1>5

\* Among the executor's steps only Cordon and Uncordon change the cordon, and
\* only DrainDone records a node UPGRADING.
LEMMA ExecDrains == TypeInv /\ ResumeInv /\ DrainInv /\ Exec => DrainInv'
<1> SUFFICES ASSUME TypeInv, ResumeInv, DrainInv, Exec PROVE DrainInv'
  OBVIOUS
<1>0. TypeOK /\ Located /\ ex \in Executor /\ live \in [Nodes -> Node]
  BY Zenon DEF TypeInv, TypeOK
<1>a. {"DRAINING", "UPGRADING", "WAITING_HEALTHY", "DONE"} \subseteq RolloutStates
  BY Zenon DEF RolloutStates
<1>1. ASSUME ex'.pc # "evict", UNCHANGED live,
             \A n \in Nodes : mr'[n].state = "UPGRADING" => mr[n].state = "UPGRADING"
      PROVE  DrainInv'
  BY Zenon, <1>1 DEF DrainInv, DrainedBeforeUpgrade
<1>2. CASE PassStep
  BY Zenon, <1>0, <1>1, <1>2, PassFacts DEF liveVars
<1>4. ASSUME NEW n \in Nodes, fail(n), ex.pool \in Pools, \A m \in Nodes : live'[m].cordoned = live[m].cordoned
      PROVE  DrainInv'
  BY Zenon, <1>0, <1>4, FailFacts DEF DrainInv, DrainedBeforeUpgrade
<1>5. ASSUME NEW n \in Nodes, NextNode(n), fail(n), UNCHANGED liveVars PROVE DrainInv'
  <2>1. ex.pool \in Pools
    BY Zenon, <1>0, <1>5 DEF NextNode, Located
  <2> QED
    BY Zenon, <1>4, <1>5, <2>1 DEF liveVars
<1>6. ASSUME NEW n \in Nodes, ResumeNode(n) PROVE DrainInv'
  <2>1. CASE fail(n)
    BY Zenon, <1>5, <1>6, <2>1 DEF ResumeNode
  <2>2. CASE ~fail(n)
    <3>1. setState(n, "WAITING_HEALTHY") /\ ex' = [ex EXCEPT !.pc = "polling", !.node = n]
      BY Zenon, <1>6, <2>2 DEF ResumeNode
    <3>2. ex'.pc = "polling"
      BY Zenon, <1>0, <3>1 DEF Executor
    <3>3. \A m \in Nodes : mr'[m].state = "UPGRADING" => mr[m].state = "UPGRADING"
      BY Zenon, <1>0, <1>a, <3>1, SetStateFacts
    <3> QED
      BY Zenon, <1>1, <1>6, <3>2, <3>3 DEF ResumeNode, liveVars
  <2> QED
    BY Zenon, <2>1, <2>2
<1>7. ASSUME NEW n \in Nodes, VersionFails(n) PROVE DrainInv'
  BY Zenon, <1>5, <1>7 DEF VersionFails
<1>8. ASSUME NEW n \in Nodes, AtTarget(n) PROVE DrainInv'
  <2>1. ex'.pc = "node"
    BY Zenon, <1>0, <1>8 DEF AtTarget, NextNode, Executor
  <2>2. \A m \in Nodes : mr'[m].state = "UPGRADING" => mr[m].state = "UPGRADING"
    BY Zenon, <1>0, <1>a, <1>8, SetStateFacts DEF AtTarget
  <2> QED
    BY Zenon, <1>1, <1>8, <2>1, <2>2 DEF AtTarget, liveVars
<1>10. ASSUME NEW n \in Nodes, StartNode(n) PROVE DrainInv'
  <2>1. CASE fail(n)
    BY Zenon, <1>5, <1>10, <2>1 DEF StartNode
  <2>2. CASE ~fail(n)
    <3>1. ex'.pc \in {"snapshot", "drain"} /\ UNCHANGED mr
      BY Zenon, <1>0, <1>10, <2>2 DEF StartNode, Executor
    <3> QED
      BY Zenon, <1>1, <1>10, <3>1 DEF StartNode, liveVars
  <2> QED
    BY Zenon, <2>1, <2>2
<1>11. CASE SnapshotOpen \/ SnapshotCopied \/ Healthy
  <2>1. ex'.pc \in {"copying", "drain", "uncordon"}
    BY Zenon, <1>0, <1>11 DEF SnapshotOpen, SnapshotCopied, Healthy, Goto, Executor
  <2> QED
    BY Zenon, <1>1, <1>11, <2>1 DEF SnapshotOpen, SnapshotCopied, Healthy, liveVars
<1>12. CASE MarkDraining \/ MarkWaiting \/ MarkDone
  <2>1. ex.node \in Nodes
    BY Zenon, <1>0, <1>12 DEF MarkDraining, MarkWaiting, MarkDone, Located, Working
  <2>2. ex'.pc # "evict"
    BY Zenon, <1>0, <1>12 DEF MarkDraining, MarkWaiting, MarkDone, Goto, Executor
  <2>3. \A m \in Nodes : mr'[m].state = "UPGRADING" => mr[m].state = "UPGRADING"
    BY <1>0, <1>a, <1>12, <2>1, SetStateFacts DEF MarkDraining, MarkWaiting, MarkDone
  <2> QED
    BY Zenon, <1>1, <1>12, <2>2, <2>3 DEF MarkDraining, MarkWaiting, MarkDone, liveVars
<1>13. CASE Cordon
  <2>1. ex.node \in Nodes /\ ex'.pc = "evict" /\ ex'.node = ex.node /\ UNCHANGED mr
    BY Zenon, <1>0, <1>13, GotoFacts DEF Cordon, PCs, Located, Working
  <2>2. live'[ex.node].cordoned /\ \A m \in Nodes \ {ex.node} : live'[m] = live[m]
    BY Zenon, <1>0, <1>13, <2>1 DEF Cordon, Node
  <2> QED
    BY Zenon, <2>1, <2>2 DEF DrainInv, DrainedBeforeUpgrade
<1>14. CASE Uncordon
  <2>1. ex.node \in Nodes /\ ex'.pc = "markDone" /\ UNCHANGED mr
    BY Zenon, <1>0, <1>14, GotoFacts DEF Uncordon, PCs, Located, Working
  <2>2. \A m \in Nodes \ {ex.node} : live'[m] = live[m]
    BY Zenon, <1>0, <1>14, <2>1 DEF Uncordon
  <2>3. mr[ex.node].state = "WAITING_HEALTHY"
    BY Zenon, <1>14 DEF Uncordon, ResumeInv, Recorded
  <2> QED
    BY Zenon, <2>1, <2>2, <2>3 DEF DrainInv, DrainedBeforeUpgrade
<1>15. CASE DrainDone
  <2>1. ex.node \in Nodes /\ ex'.pc = "upgrade" /\ UNCHANGED live
    BY Zenon, <1>0, <1>15, GotoFacts DEF DrainDone, PCs, Located, Working, liveVars
  <2>2. \A m \in Nodes \ {ex.node} : mr'[m] = mr[m]
    BY Zenon, <1>0, <1>a, <1>15, <2>1, SetStateFacts DEF DrainDone
  <2>3. live[ex.node].cordoned
    BY Zenon, <1>15 DEF DrainDone, DrainInv
  <2> QED
    BY Zenon, <2>1, <2>2, <2>3 DEF DrainInv, DrainedBeforeUpgrade
<1>16. CASE UpgradeOS
  <2>1. ex.node \in Nodes /\ ex.pool \in Pools
    BY Zenon, <1>0, <1>16 DEF UpgradeOS, Located, Working
  <2>2. \A m \in Nodes : live'[m].cordoned = live[m].cordoned
    BY Zenon, <1>0, <1>16, <2>1 DEF UpgradeOS, Node
  <2>3. CASE fail(ex.node)
    BY Zenon, <1>4, <2>1, <2>2, <2>3
  <2>4. CASE ~fail(ex.node)
    <3>1. ex'.pc = "wait" /\ UNCHANGED mr
      BY Zenon, <1>0, <1>16, <2>4, GotoFacts DEF UpgradeOS, PCs
    <3> QED
      BY Zenon, <2>2, <3>1 DEF DrainInv, DrainedBeforeUpgrade
  <2> QED
    BY Zenon, <2>3, <2>4
<1>17. CASE CallFails
  <2>1. ex.node \in Nodes /\ ex.pool \in Pools
    BY Zenon, <1>0, <1>17 DEF CallFails, Located, Working
  <2> QED
    BY Zenon, <1>4, <1>17, <2>1 DEF CallFails, liveVars
<1> QED
  BY Zenon, <1>2, <1>6, <1>7, <1>8, <1>10, <1>11, <1>12, <1>13, <1>14, <1>15, <1>16, <1>17,
     ExecSteps

\* A node recorded UPGRADING is cordoned, however many passes, restarts and
\* reboots lie between its drain and the end of its upgrade.
THEOREM DrainedFirst == Spec => []DrainedBeforeUpgrade
<1>1. Init => DrainInv
  BY SMTT(30) DEF Init, ExIdle, DrainInv, DrainedBeforeUpgrade
<1>2. TypeInv /\ ResumeInv /\ DrainInv /\ [Next]_vars => DrainInv'
  <2> SUFFICES ASSUME TypeInv, ResumeInv, DrainInv, [Next]_vars PROVE DrainInv'
    OBVIOUS
  <2>1. CASE Exec
    BY Zenon, <2>1, ExecDrains
  <2>2. CASE ~Exec
    <3>1. UNCHANGED mr /\ (UNCHANGED ex \/ ex' = ExIdle \/ K8sMove)
      BY Zenon, <2>2, OthersKeep DEF Next
    <3>2. \A n \in Nodes : live'[n].cordoned = live[n].cordoned
      BY Zenon, <2>2, OthersCordon DEF Next
    <3>3. ex'.pc = "evict" => ex' = ex /\ ex.node \in Nodes
      BY Zenon, <3>1, IdleFacts DEF K8sMove, TypeInv, Located, Working
    <3> QED
      BY Zenon, <3>1, <3>2, <3>3 DEF DrainInv, DrainedBeforeUpgrade
  <2> QED
    BY Zenon, <2>1, <2>2
<1>3. DrainInv => DrainedBeforeUpgrade
  BY Zenon DEF DrainInv
<1> QED
  BY <1>1, <1>2, <1>3, TypeInvariance, ResumeInvariance, PTL DEF Spec

-----------------------------------------------------------------------------
(* The rollout implements the life of a node's record.                     *)

\* The refinement mapping: the state of each record.
States == [n \in Nodes |-> mr[n].state]

\* Writing a record writes one state.
LEMMA StatesWritten ==
    ASSUME TypeOK, NEW n \in Nodes, NEW s \in RolloutStates, setState(n, s)
    PROVE  States' = [States EXCEPT ![n] = s]
BY Zenon, SetStateFacts DEF States

\* A failure is a Fail step of NodeLifecycle.
LEMMA FailRefines ==
    ASSUME TypeOK, NEW n \in Nodes, fail(n)
    PROVE  Lifecycle!Next
<1>1. setState(n, "FAILED") /\ "FAILED" \in RolloutStates /\ sent' = sent \ {n}
  BY Zenon DEF fail, RolloutStates
<1>2. States' = [States EXCEPT ![n] = "FAILED"]
  BY Zenon, <1>1, StatesWritten
<1>3. Lifecycle!Fail(n)
  BY Zenon, <1>1, <1>2 DEF Lifecycle!Fail, States
<1> QED
  BY Zenon, <1>3 DEF Lifecycle!Next

\* Every step of the executor is one step of one node's life, or none.
LEMMA ExecRefines == TypeInv /\ ResumeInv /\ Exec => [Lifecycle!Next]_(Lifecycle!vars)
<1> SUFFICES ASSUME TypeInv, ResumeInv, Exec PROVE [Lifecycle!Next]_(Lifecycle!vars)
  OBVIOUS
<1>0. TypeOK /\ Located
  BY Zenon DEF TypeInv
<1>a. {"DRAINING", "UPGRADING", "WAITING_HEALTHY", "DONE"} \subseteq RolloutStates
  BY Zenon DEF RolloutStates
<1>b. ASSUME NEW n \in Nodes,
             Lifecycle!Drain(n) \/ Lifecycle!Upgrade(n) \/ Lifecycle!Wait(n) \/ Lifecycle!Complete(n)
      PROVE  Lifecycle!Next
  BY Zenon, <1>b DEF Lifecycle!Next
<1>1. ASSUME UNCHANGED <<mr, sent>> PROVE UNCHANGED Lifecycle!vars
  BY Zenon, <1>1 DEF Lifecycle!vars
<1>2. CASE PassStep \/ SnapshotOpen \/ SnapshotCopied \/ Cordon \/ Healthy \/ Uncordon
  BY Zenon, <1>0, <1>1, <1>2, PassFacts DEF SnapshotOpen, SnapshotCopied, Cordon, Healthy, Uncordon,
     histVars
<1>3. ASSUME NEW n \in Nodes, ResumeNode(n) PROVE Lifecycle!Next
  <2>1. CASE fail(n)
    BY Zenon, <1>0, <2>1, FailRefines
  <2>2. CASE ~fail(n)
    <3>1. setState(n, "WAITING_HEALTHY") /\ States[n] \in InFlight /\ UNCHANGED sent
      BY Zenon, <1>3, <2>2 DEF ResumeNode, histVars, States
    <3>2. States' = [States EXCEPT ![n] = "WAITING_HEALTHY"]
      BY Zenon, <1>0, <1>a, <3>1, StatesWritten
    <3>3. Lifecycle!Wait(n)
      BY Zenon, <3>1, <3>2 DEF Lifecycle!Wait, Lifecycle!Waiting, States, InFlight
    <3> QED
      BY Zenon, <3>3 DEF Lifecycle!Next
  <2> QED
    BY Zenon, <2>1, <2>2
<1>4. ASSUME NEW n \in Nodes, VersionFails(n) PROVE Lifecycle!Next
  BY Zenon, <1>0, <1>4, FailRefines DEF VersionFails
<1>5. ASSUME NEW n \in Nodes, AtTarget(n) PROVE Lifecycle!Next
  <2>1. setState(n, "DONE") /\ States[n] # "UPGRADING" /\ n \notin sent /\ UNCHANGED sent
    BY Zenon, <1>5 DEF AtTarget, histVars, States, InFlight, ResumeInv, SentInFlight
  <2>2. States' = [States EXCEPT ![n] = "DONE"]
    BY Zenon, <1>0, <1>a, <2>1, StatesWritten
  <2>3. Lifecycle!Complete(n)
    BY Zenon, <2>1, <2>2 DEF Lifecycle!Complete, States
  <2> QED
    BY Zenon, <2>3 DEF Lifecycle!Next
<1>6. ASSUME NEW n \in Nodes, StartNode(n) PROVE [Lifecycle!Next]_(Lifecycle!vars)
  <2>1. CASE fail(n)
    BY Zenon, <1>0, <2>1, FailRefines
  <2>2. CASE ~fail(n)
    BY Zenon, <1>1, <1>6, <2>2 DEF StartNode, histVars
  <2> QED
    BY Zenon, <2>1, <2>2
<1>7. CASE MarkDraining
  <2>0. PICK n \in Nodes : ex.node = n
    BY Zenon, <1>0, <1>7 DEF MarkDraining, Located, Working
  <2>1. /\ setState(n, "DRAINING") /\ UNCHANGED sent
        /\ States[n] \notin InFlight
    BY Zenon, <2>0, <1>7 DEF MarkDraining, histVars, ResumeInv, Recorded, States
  <2>2. States' = [States EXCEPT ![n] = "DRAINING"]
    BY Zenon, <1>0, <1>a, <2>0, <2>1, StatesWritten
  <2>3. Lifecycle!Drain(n)
    BY Zenon, <2>1, <2>2 DEF Lifecycle!Drain, Lifecycle!Waiting, States, InFlight
  <2> QED
    BY Zenon, <1>b, <2>3
<1>8. CASE DrainDone
  <2>0. PICK n \in Nodes : ex.node = n
    BY Zenon, <1>0, <1>8 DEF DrainDone, Located, Working
  <2>1. /\ setState(n, "UPGRADING") /\ UNCHANGED sent
        /\ States[n] = "DRAINING"
    BY Zenon, <2>0, <1>8 DEF DrainDone, histVars, ResumeInv, Recorded, States
  <2>2. States' = [States EXCEPT ![n] = "UPGRADING"]
    BY Zenon, <1>0, <1>a, <2>0, <2>1, StatesWritten
  <2>3. Lifecycle!Upgrade(n)
    BY Zenon, <2>1, <2>2 DEF Lifecycle!Upgrade, States
  <2> QED
    BY Zenon, <1>b, <2>3
<1>9. CASE UpgradeOS
  <2>1. ex.node \in Nodes /\ States[ex.node] = "UPGRADING" /\ ex.node \notin sent
    BY Zenon, <1>0, <1>9 DEF UpgradeOS, Located, Working, ResumeInv, Recorded, NoDoubleUpgrade, States
  <2>2. CASE fail(ex.node)
    BY Zenon, <1>0, <2>1, <2>2, FailRefines
  <2>3. CASE ~fail(ex.node)
    <3>1. sent' = sent \cup {ex.node} /\ States' = States
      BY Zenon, <1>9, <2>3 DEF UpgradeOS, States
    <3>2. Lifecycle!Send(ex.node)
      BY Zenon, <2>1, <3>1 DEF Lifecycle!Send, States
    <3> QED
      BY Zenon, <2>1, <3>2 DEF Lifecycle!Next
  <2> QED
    BY Zenon, <2>2, <2>3
<1>10. CASE MarkWaiting
  <2>0. PICK n \in Nodes : ex.node = n
    BY Zenon, <1>0, <1>10 DEF MarkWaiting, Located, Working
  <2>1. /\ setState(n, "WAITING_HEALTHY") /\ UNCHANGED sent
        /\ States[n] = "UPGRADING"
    BY Zenon, <2>0, <1>10 DEF MarkWaiting, histVars, ResumeInv, Recorded, States
  <2>2. States' = [States EXCEPT ![n] = "WAITING_HEALTHY"]
    BY Zenon, <1>0, <1>a, <2>0, <2>1, StatesWritten
  <2>3. Lifecycle!Wait(n)
    BY Zenon, <2>1, <2>2 DEF Lifecycle!Wait, Lifecycle!Waiting, States
  <2> QED
    BY Zenon, <1>b, <2>3
<1>11. CASE MarkDone
  <2>0. PICK n \in Nodes : ex.node = n
    BY Zenon, <1>0, <1>11 DEF MarkDone, Located, Working
  <2>1. /\ setState(n, "DONE") /\ sent' = sent \ {n}
        /\ States[n] = "WAITING_HEALTHY"
    BY Zenon, <1>11, <2>0 DEF MarkDone, ResumeInv, Recorded, States
  <2>2. States' = [States EXCEPT ![n] = "DONE"]
    BY Zenon, <1>0, <1>a, <2>0, <2>1, StatesWritten
  <2>3. Lifecycle!Complete(n)
    BY Zenon, <2>1, <2>2 DEF Lifecycle!Complete, States
  <2> QED
    BY Zenon, <1>b, <2>3
<1>12. CASE CallFails
  <2>1. ex.node \in Nodes
    BY Zenon, <1>0, <1>12 DEF CallFails, Located, Working
  <2> QED
    BY Zenon, <1>0, <1>12, <2>1, FailRefines DEF CallFails
<1> QED
  BY Zenon, <1>2, <1>3, <1>4, <1>5, <1>6, <1>7, <1>8, <1>9, <1>10, <1>11, <1>12, ExecSteps

\* The rollout implements NodeLifecycle: whatever crashes, fails or is asked of
\* the server, every record goes through the life that module allows.
THEOREM LifecycleImplemented == Spec => ImplementsLifecycle
<1>1. Init => Lifecycle!Init
  BY SMTT(30) DEF Init, Lifecycle!Init
<1>2. TypeInv /\ ResumeInv /\ [Next]_vars => [Lifecycle!Next]_(Lifecycle!vars)
  <2> SUFFICES ASSUME TypeInv, ResumeInv, [Next]_vars PROVE [Lifecycle!Next]_(Lifecycle!vars)
    OBVIOUS
  <2>1. CASE Exec
    BY Zenon, <2>1, ExecRefines
  <2>2. CASE ~Exec
    <3>1. UNCHANGED <<mr, histVars>>
      BY Zenon, <2>2, OthersKeep DEF Next
    <3> QED
      BY Zenon, <3>1 DEF Lifecycle!vars, histVars
  <2> QED
    BY Zenon, <2>1, <2>2
<1> QED
  BY <1>1, <1>2, TypeInvariance, ResumeInvariance, PTL DEF Spec, ImplementsLifecycle,
     Lifecycle!Spec
-----------------------------------------------------------------------------
(* The executor's locals.                                                  *)

\* A step of the executor on node n, which is the next of the pass or the one in hand:
\* it stays in hand, or it is DONE and the loop goes on, or it is FAILED and the pass ends.
NodeStep(n) ==
    /\ \/ ex.pc = "node" /\ n \in ex.todo
       \/ ex.pc \in Working /\ n = ex.node
    /\ UNCHANGED job
    /\ \A m \in Nodes \ {n} : mr'[m] = mr[m]
    /\ ex'.batch = ex.batch /\ ex'.copy = ex.copy /\ ex'.pool = ex.pool /\ ex'.todo \subseteq ex.todo
    /\ \/ ex'.pc \in Working /\ ex'.node = n /\ UNCHANGED failedBy
       \/ /\ ex'.pc = "node" /\ mr'[n].state = "DONE" /\ UNCHANGED failedBy
          /\ ex'.node = 0 \/ (ex.pc = "node" /\ ex'.node = ex.node)
       \/ /\ ex'.pc = "finish" /\ mr'[n].state = "FAILED"
          /\ failedBy' = [failedBy EXCEPT ![n] = ex.copy[ex.pool].createdAt]

\* A call that fails is a step of that kind.
LEMMA FailSteps ==
    ASSUME TypeInv, NEW n \in Nodes, ex.pool \in Pools, fail(n), UNCHANGED job,
           \/ ex.pc = "node" /\ n \in ex.todo
           \/ ex.pc \in Working /\ n = ex.node
    PROVE  NodeStep(n)
<1>1. ex \in Executor
  BY Zenon DEF TypeInv, TypeOK
<1>2. ex'.todo = ex.todo
  BY Zenon, <1>1 DEF fail, Executor
<1>3. failedBy' = [failedBy EXCEPT ![n] = ex.copy[ex.pool].createdAt]
  BY Zenon DEF fail
<1> QED
  BY Zenon, <1>2, <1>3, FailFacts DEF NodeStep, TypeInv

\* All steps of the executor on nodes are.
LEMMA NodeSteps == ASSUME TypeInv, Exec, ~PassStep PROVE \E n \in Nodes : NodeStep(n)
<1>0. TypeOK /\ Located /\ ex \in Executor
  BY Zenon DEF TypeInv, TypeOK
<1>a. {"DRAINING", "UPGRADING", "WAITING_HEALTHY", "DONE"} \subseteq RolloutStates
  BY Zenon DEF RolloutStates
<1>b. ex.pc = "node" => ex.pool \in Pools
  BY Zenon, <1>0 DEF Located
<1>1. ASSUME NEW n \in Nodes, ResumeNode(n) PROVE NodeStep(n)
  <2>1. NextNode(n) /\ ex.pc = "node" /\ n \in ex.todo /\ UNCHANGED job
    BY Zenon, <1>1 DEF ResumeNode, NextNode
  <2>2. CASE fail(n)
    BY Zenon, <1>b, <2>1, <2>2, FailSteps
  <2>3. CASE ~fail(n)
    <3>1. /\ setState(n, "WAITING_HEALTHY")
          /\ ex' = [ex EXCEPT !.pc = "polling", !.node = n]
          /\ UNCHANGED histVars
      BY Zenon, <1>1, <2>3 DEF ResumeNode
    <3>2. /\ ex'.pc = "polling" /\ ex'.node = n /\ ex'.batch = ex.batch /\ ex'.copy = ex.copy
          /\ ex'.pool = ex.pool /\ ex'.todo = ex.todo
      BY Zenon, <1>0, <3>1 DEF Executor
    <3> QED
      BY Zenon, <1>0, <1>a, <2>1, <3>1, <3>2, SetStateFacts DEF NodeStep, Working, histVars
  <2> QED
    BY Zenon, <2>2, <2>3
<1>2. ASSUME NEW n \in Nodes, VersionFails(n) PROVE NodeStep(n)
  BY Zenon, <1>b, <1>2, FailSteps DEF VersionFails, NextNode
<1>3. ASSUME NEW n \in Nodes, AtTarget(n) PROVE NodeStep(n)
  <2>1. /\ ex.pc = "node" /\ n \in ex.todo /\ UNCHANGED <<job, histVars>> /\ setState(n, "DONE")
        /\ ex' = [ex EXCEPT !.todo = @ \ {n}]
    BY Zenon, <1>3 DEF AtTarget, NextNode
  <2>2. /\ ex'.pc = "node" /\ ex'.node = ex.node /\ ex'.batch = ex.batch /\ ex'.copy = ex.copy
        /\ ex'.pool = ex.pool /\ ex'.todo \subseteq ex.todo
    BY Zenon, <1>0, <2>1 DEF Executor
  <2> QED
    BY Zenon, <1>0, <1>a, <2>1, <2>2, SetStateFacts DEF NodeStep, histVars
<1>4. ASSUME NEW n \in Nodes, StartNode(n) PROVE NodeStep(n)
  <2>1. NextNode(n) /\ ex.pc = "node" /\ n \in ex.todo /\ UNCHANGED job
    BY Zenon, <1>4 DEF StartNode, NextNode
  <2>2. CASE fail(n)
    BY Zenon, <1>b, <2>1, <2>2, FailSteps
  <2>3. CASE ~fail(n)
    <3>1. /\ UNCHANGED <<mr, histVars>>
          /\ \E pc \in {"snapshot", "drain"} : ex' = [ex EXCEPT !.node = n, !.pc = pc]
      BY Zenon, <1>4, <2>3 DEF StartNode
    <3>2. /\ ex'.pc \in {"snapshot", "drain"} /\ ex'.node = n /\ ex'.batch = ex.batch
          /\ ex'.copy = ex.copy /\ ex'.pool = ex.pool /\ ex'.todo = ex.todo
      BY Zenon, <1>0, <3>1 DEF Executor
    <3> QED
      BY Zenon, <2>1, <3>1, <3>2 DEF NodeStep, Working, histVars
  <2> QED
    BY Zenon, <2>2, <2>3
<1>5. ASSUME NEW pc \in Working, Goto(pc), ex.pc \in Working, UNCHANGED <<job, mr, failedBy>>
      PROVE  NodeStep(ex.node)
  BY Zenon, <1>0, <1>5, GotoFacts DEF NodeStep, Working, PCs
<1>6. CASE SnapshotOpen \/ SnapshotCopied \/ Cordon \/ Healthy \/ Uncordon
  <2>1. ex.pc \in Working /\ UNCHANGED <<job, mr, failedBy>> /\ \E pc \in Working : Goto(pc)
    BY Zenon, <1>6 DEF SnapshotOpen, SnapshotCopied, Cordon, Healthy, Uncordon, Working, histVars
  <2> QED
    BY Zenon, <1>0, <1>5, <2>1 DEF Located
<1>7. CASE MarkDraining \/ DrainDone \/ MarkWaiting
  <2>1. /\ ex.pc \in Working /\ UNCHANGED <<job, failedBy>> /\ \E pc \in Working : Goto(pc)
        /\ \E s \in RolloutStates : setState(ex.node, s)
    BY Zenon, <1>a, <1>7 DEF MarkDraining, DrainDone, MarkWaiting, Working, histVars
  <2>2. ex.node \in Nodes
    BY Zenon, <1>0, <2>1 DEF Located
  <2>3. \A n \in Nodes \ {ex.node} : mr'[n] = mr[n]
    BY Zenon, <1>0, <2>1, <2>2, SetStateFacts
  <2> QED
    BY Zenon, <1>0, <2>1, <2>2, <2>3, GotoFacts DEF NodeStep, Working, PCs
<1>8. CASE UpgradeOS
  <2>1. ex.pc \in Working /\ ex.node \in Nodes /\ ex.pool \in Pools /\ UNCHANGED job
    BY Zenon, <1>0, <1>8 DEF UpgradeOS, Located, Working
  <2>2. CASE fail(ex.node)
    BY Zenon, <2>1, <2>2, FailSteps
  <2>3. CASE ~fail(ex.node)
    <3>1. Goto("wait") /\ UNCHANGED <<mr, failedBy>> /\ "wait" \in Working
      BY Zenon, <1>8, <2>3 DEF UpgradeOS, Working
    <3> QED
      BY Zenon, <1>5, <2>1, <3>1
  <2> QED
    BY Zenon, <2>1, <2>2, <2>3
<1>9. CASE MarkDone
  <2>1. /\ ex.pc \in Working /\ ex.node \in Nodes /\ UNCHANGED <<job, failedBy>>
        /\ setState(ex.node, "DONE")
        /\ ex' = [ex EXCEPT !.pc = "node", !.todo = @ \ {ex.node}, !.node = 0]
    BY Zenon, <1>0, <1>9 DEF MarkDone, Located, Working
  <2>2. /\ ex'.pc = "node" /\ ex'.node = 0 /\ ex'.batch = ex.batch /\ ex'.copy = ex.copy
        /\ ex'.pool = ex.pool /\ ex'.todo \subseteq ex.todo
    BY Zenon, <1>0, <2>1 DEF Executor
  <2> QED
    BY Zenon, <1>0, <1>a, <2>1, <2>2, SetStateFacts DEF NodeStep
<1>10. CASE CallFails
  <2>1. ex.pc \in Working /\ ex.node \in Nodes /\ ex.pool \in Pools /\ UNCHANGED job /\ fail(ex.node)
    BY <1>0, <1>10 DEF CallFails, Located, Working
  <2> QED
    BY Zenon, <2>1, FailSteps
<1> QED
  BY Zenon, <1>1, <1>2, <1>3, <1>4, <1>6, <1>7, <1>8, <1>9, <1>10, ExecSteps

\* The executor changes no pool, and none of what the API and the process count.
LEMMA ExecLeaves == Exec => UNCHANGED <<pool, stopping, created, crashes>>
BY Zenon DEF Exec, RunOnce, PassOver, SkipJob, StartJob, finish, ReadPool, ListNodes, PoolConverged,
   ResumeNode, VersionFails, AtTarget, OverBudget, StartNode, SnapshotOpen, SnapshotCopied,
   MarkDraining, Cordon, DrainDone, UpgradeOS, MarkWaiting, Healthy, Uncordon, MarkDone,
   CallFails, ExecRest, bounds

\* The steps within the pass over a pool leave the jobs alone.
LEMMA PoolSteps ==
    ASSUME TypeInv, ReadPool \/ ListNodes \/ PoolConverged \/ \E n \in Nodes : OverBudget(n)
    PROVE  /\ ex.pc \in {"pool", "list", "node"} /\ ex'.pc \in {"list", "node", "finish"}
           /\ UNCHANGED job
           /\ ex'.batch = ex.batch /\ ex'.copy = ex.copy /\ ex'.pool = ex.pool /\ ex'.node = ex.node
           /\ \/ ex'.todo = ex.todo
              \/ ex.pc = "pool" /\ ex'.pc = "list" /\ ex'.todo = pool[ex.pool].members
           /\ ex.pc = "pool" => ex'.pc # "node" /\ (ex'.pc = "list" => ex'.todo = pool[ex.pool].members)
<1>0. ex \in Executor
  BY Zenon DEF TypeInv, TypeOK
<1>1. CASE ReadPool
  <2>1. /\ ex.pc = "pool" /\ UNCHANGED job
        /\ \/ \E o \in {"DEFERRED", "FAILED"} : ex' = [ex EXCEPT !.pc = "finish", !.outcome = o]
           \/ \E t : ex' = [ex EXCEPT !.pc = "list", !.target = t,
                                      !.members = pool[ex.pool].members,
                                      !.todo = pool[ex.pool].members]
    BY <1>1, Zenon DEF ReadPool
  <2> QED
    BY Zenon, <1>0, <2>1 DEF Executor
<1>2. CASE ListNodes
  <2>1. /\ ex.pc = "list" /\ UNCHANGED job
        /\ \/ ex' = [ex EXCEPT !.pc = "finish", !.outcome = "FAILED"]
           \/ \E l, r : ex' = [ex EXCEPT !.pc = "node", !.listed = l, !.ready = r]
    BY <1>2, Zenon DEF ListNodes
  <2> QED
    BY Zenon, <1>0, <2>1 DEF Executor
<1>3. CASE PoolConverged \/ \E n \in Nodes : OverBudget(n)
  <2>1. /\ ex.pc = "node" /\ UNCHANGED job
        /\ \E o \in {"DONE", "DEFERRED"} : ex' = [ex EXCEPT !.pc = "finish", !.outcome = o]
    BY Zenon, <1>3 DEF PoolConverged, OverBudget, NextNode
  <2> QED
    BY Zenon, <1>0, <2>1 DEF Executor
<1> QED
  BY Zenon, <1>1, <1>2, <1>3
-----------------------------------------------------------------------------
(* The executor works on members of the pool whose job it runs.            *)

\* A node is bound to a pool while it is in no other, and nothing else changes the
\* members of a pool.
LEMMA OthersMembers ==
    ASSUME TypeInv, MembersInv, ExecK8s \/ Api \/ Env \/ Crash \/ Sigterm \/ Exit \/ UNCHANGED vars
    PROVE  /\ \A p \in Pools : pool[p].members \subseteq pool'[p].members
           /\ \A p, q \in Pools : p # q => pool'[p].members \cap pool'[q].members = {}
           /\ \A p \in Pools : \A n \in pool'[p].members \ pool[p].members :
                \A q \in Pools : n \notin pool[q].members
<1>0. pool \in [Pools -> [members : SUBSET Nodes, desired : MaybeVersion, paused : BOOLEAN]]
  BY Zenon DEF TypeInv, TypeOK
<1>1. ASSUME \A p \in Pools : pool'[p].members = pool[p].members
      PROVE  /\ \A p \in Pools : pool[p].members \subseteq pool'[p].members
             /\ \A p, q \in Pools : p # q => pool'[p].members \cap pool'[q].members = {}
             /\ \A p \in Pools : \A n \in pool'[p].members \ pool[p].members :
                  \A q \in Pools : n \notin pool[q].members
  BY Zenon, <1>1 DEF MembersInv
<1>2. CASE UNCHANGED pool
  BY Zenon, <1>1, <1>2
<1>3. ASSUME NEW p \in Pools, NEW v, pool' = [pool EXCEPT ![p].desired = v]
      PROVE  \A q \in Pools : pool'[q].members = pool[q].members
  BY Zenon, <1>0, <1>3
<1>4. ASSUME NEW p \in Pools, NEW b, pool' = [pool EXCEPT ![p].paused = b]
      PROVE  \A q \in Pools : pool'[q].members = pool[q].members
  BY Zenon, <1>0, <1>4
<1>5. ASSUME NEW p \in Pools, NEW n \in Nodes, bind(p, n)
      PROVE  /\ \A q \in Pools : pool[q].members \subseteq pool'[q].members
             /\ \A q, r \in Pools : q # r => pool'[q].members \cap pool'[r].members = {}
             /\ \A q \in Pools : \A m \in pool'[q].members \ pool[q].members :
                  \A r \in Pools : m \notin pool[r].members
  <2>1. /\ pool'[p].members = pool[p].members \cup {n}
        /\ \A q \in Pools \ {p} : pool'[q].members = pool[q].members
        /\ \A q \in Pools : n \notin pool[q].members
    BY Zenon, <1>0, <1>5 DEF bind
  <2> QED
    BY <2>1, SMTT(30) DEF MembersInv
<1>6. CASE Api
  <2>1. \/ UNCHANGED pool
        \/ \E p \in Pools, v \in MaybeVersion : SetNodePoolVersion(p, v)
        \/ \E p \in Pools, b \in BOOLEAN : setPaused(p, b)
        \/ \E p \in Pools, n \in Nodes : bind(p, n)
        \/ \E i \in 1..MaxJobs : SetDesired(i)
    BY <1>6, Zenon DEF Api, setRolloutsEnabled, SetClusterVersions, CreateRollout, PutJob,
       CreateK8sRollout
  <2>2. ASSUME NEW i \in 1..MaxJobs, SetDesired(i)
        PROVE  \A q \in Pools : pool'[q].members = pool[q].members
    BY Zenon, <1>0, <2>2 DEF SetDesired
  <2>3. ASSUME NEW p \in Pools, NEW v \in MaybeVersion, SetNodePoolVersion(p, v)
        PROVE  \A q \in Pools : pool'[q].members = pool[q].members
    BY Zenon, <1>3, <2>3 DEF SetNodePoolVersion
  <2>4. ASSUME NEW p \in Pools, NEW b \in BOOLEAN, setPaused(p, b)
        PROVE  \A q \in Pools : pool'[q].members = pool[q].members
    BY Zenon, <1>4, <2>4 DEF setPaused
  <2> QED
    BY Zenon, <1>1, <1>2, <1>5, <2>1, <2>2, <2>3, <2>4
<1>7. CASE Env \/ Crash \/ Sigterm \/ Exit \/ UNCHANGED vars
  BY Zenon, <1>2, <1>7 DEF Env, Reboot, Boot, Rollback, PowerLoss, Leave, ReportStatus, EnvRest, Crash,
     Sigterm, Exit, Restart, vars, storeVars
<1>8. CASE ExecK8s
  BY Zenon, <1>2, <1>8, K8sFacts DEF TypeInv
<1> QED
  BY Zenon, <1>6, <1>7, <1>8

\* The inductive invariant of the members, the loop over them and their records.
LEMMA MembersInvariance == Spec => []MembersInv
<1>1. Init => MembersInv
  <2> SUFFICES ASSUME Init PROVE MembersInv
    OBVIOUS
  <2>1. ex.pc = "idle" /\ ex.node = 0 /\ ex.todo = {}
    BY Zenon DEF Init, ExIdle
  <2>2. \A p \in Pools : pool[p].members = InitMembers[p]
    BY Zenon DEF Init
  <2>3. \A n \in Nodes : mr[n].state = "IDLE"
    BY Zenon DEF Init
  <2> QED
    BY Zenon, <2>1, <2>2, <2>3, DisjointAssumption DEF MembersInv, Working
<1>2. TypeInv /\ MembersInv /\ [Next]_vars => MembersInv'
  <2> SUFFICES ASSUME TypeInv, MembersInv, [Next]_vars PROVE MembersInv'
    OBVIOUS
  <2>0. ex \in Executor /\ Located
    BY Zenon DEF TypeInv, TypeOK
  <2>1. CASE Exec /\ ~PassStep
    <3>1. PICK n \in Nodes : NodeStep(n)
      BY Zenon, <2>1, NodeSteps
    <3>2. UNCHANGED pool
      BY Zenon, <2>1, ExecLeaves
    <3>3. ex.pool \in Pools /\ n \in pool[ex.pool].members
      BY Zenon, <2>0, <3>1 DEF NodeStep, MembersInv, Located, Working
    <3>4. ex'.todo \subseteq pool[ex.pool].members
      BY Zenon, <3>1 DEF NodeStep, MembersInv
    <3>5. ex'.node # 0 => ex'.pc \in Working \cup {"finish"}
      BY Zenon, <3>1 DEF NodeStep, MembersInv, Working
    <3> QED
      <4>1. ex'.pool = ex.pool /\ (ex'.pc \in Working => ex'.node = n)
        BY Zenon, <3>1 DEF NodeStep, Working
      <4>2. ASSUME NEW m \in Nodes, mr'[m].state # "IDLE"
            PROVE  \E p \in Pools : m \in pool[p].members
        BY Zenon, <3>1, <3>3, <4>2 DEF NodeStep, MembersInv
      <4>3. \A p, q \in Pools : p # q => pool[p].members \cap pool[q].members = {}
        BY Zenon DEF MembersInv
      <4> QED
        BY Zenon, <3>2, <3>3, <3>4, <3>5, <4>1, <4>2, <4>3 DEF MembersInv
  <2>2. CASE ReadPool \/ ListNodes \/ PoolConverged \/ \E n \in Nodes : OverBudget(n)
    <3>1. UNCHANGED <<pool, mr>>
      BY Zenon, <2>2 DEF ReadPool, ListNodes, PoolConverged, OverBudget, ExecRest
    <3>2. /\ ex'.pc \in {"list", "node", "finish"} /\ ex'.pool = ex.pool /\ ex'.node = ex.node
          /\ ex.node = 0
          /\ ex'.pc \in {"list", "node"} => ex'.todo \subseteq pool[ex.pool].members
      BY Zenon, <2>2, PoolSteps DEF MembersInv, Working
    <3> QED
      BY Zenon, <3>1, <3>2 DEF MembersInv, Working
  <2>3. CASE RunOnce \/ PassOver \/ finish \/ \E p \in Pools : SkipJob(p) \/ StartJob(p)
    <3>1. UNCHANGED <<pool, mr>>
      BY Zenon, <2>3 DEF RunOnce, PassOver, finish, SkipJob, StartJob, ExecRest
    <3>2. ex'.pc \in Between \cup {"pool"} /\ ex'.node = 0
      <4>1. CASE PassOver
        BY Zenon, <4>1 DEF PassOver, ExIdle
      <4>2. CASE finish
        BY Zenon, <4>2 DEF finish, ExIdle
      <4>3. CASE RunOnce
        BY Zenon, <2>0, <4>3 DEF RunOnce, Executor, MembersInv, Working
      <4>4. ASSUME NEW p \in Pools, SkipJob(p) \/ StartJob(p) PROVE ex'.pc \in Between \cup {"pool"} /\ ex'.node = 0
        BY Zenon, <2>0, <4>4 DEF SkipJob, StartJob, NextJob, Executor, MembersInv, Working
      <4> QED
        BY Zenon, <2>3, <4>1, <4>2, <4>3, <4>4
    <3> QED
      BY Zenon, <3>1, <3>2 DEF MembersInv, Working
  <2>4. CASE ~Exec
    <3>1. UNCHANGED <<mr, histVars>> /\ (UNCHANGED ex \/ ex' = ExIdle \/ K8sMove)
      BY Zenon, <2>4, OthersKeep DEF Next
    <3>2. /\ \A p \in Pools : pool[p].members \subseteq pool'[p].members
          /\ \A p, q \in Pools : p # q => pool'[p].members \cap pool'[q].members = {}
      BY Zenon, <2>4, OthersMembers DEF Next
    <3>3. CASE UNCHANGED ex
      BY Zenon, <2>0, <3>1, <3>2, <3>3 DEF MembersInv, Located, Working
    <3>4. CASE ex' = ExIdle
      BY Zenon, <3>1, <3>2, <3>4 DEF MembersInv, ExIdle, Working
    <3>5. CASE K8sMove
      BY Zenon, <3>1, <3>2, <3>5 DEF MembersInv, K8sMove, Working
    <3> QED
      BY Zenon, <3>1, <3>3, <3>4, <3>5
  <2> QED
    BY <2>1, <2>2, <2>3, <2>4, Zenon DEF PassStep
<1> QED
  BY <1>1, <1>2, TypeInvariance, PTL DEF Spec
-----------------------------------------------------------------------------
(* The snapshot of a node in flight is complete.                           *)

\* A step that puts no further node in flight, touches no snapshot and leads to no drain.
LEMMA SnapshotKept ==
    ASSUME TypeInv, SnapshotInv, UNCHANGED <<pool, snap>>,
           ex'.pc \notin {"drain", "cordon", "evict", "upgrade"},
           \A n \in Nodes : mr'[n].state \in InFlight => mr[n].state \in InFlight
    PROVE  SnapshotInv'
<1>1. \A p \in ControlPlane \cap SnapshotPools : pool[p].members \subseteq Nodes
  BY Zenon, RolesAssumption DEF TypeInv, TypeOK
<1> QED
  BY Zenon, <1>1 DEF SnapshotInv, SnapshotHeld

\* The executor drains a node when its snapshot is complete, and truncates only the
\* snapshot of a node that is not in flight.
LEMMA ExecSnapshots ==
    ASSUME TypeInv, MembersInv, ResumeInv, SnapshotInv, Exec
    PROVE  SnapshotInv'
<1>0. TypeOK /\ Located /\ ex \in Executor /\ UNCHANGED pool
      /\ snap \in [Nodes -> Snapshots]
  BY Zenon, ExecLeaves DEF TypeInv, TypeOK
<1>a. {"DRAINING", "UPGRADING", "WAITING_HEALTHY", "DONE"} \subseteq RolloutStates
  BY Zenon DEF RolloutStates
<1>b. \A p \in ControlPlane \cap SnapshotPools : p \in Pools /\ pool[p].members \subseteq Nodes
  BY Zenon, RolesAssumption DEF TypeInv, TypeOK
<1>1. CASE PassStep
  BY Zenon, <1>0, <1>1, PassFacts, SnapshotKept DEF liveVars
<1>2. ASSUME NEW n \in Nodes, ex.pool \in Pools, fail(n), UNCHANGED snap PROVE SnapshotInv'
  BY Zenon, <1>0, <1>2, FailFacts, SnapshotKept DEF InFlight
<1>3. ASSUME NEW n \in Nodes, NextNode(n), fail(n), UNCHANGED liveVars PROVE SnapshotInv'
  BY Zenon, <1>0, <1>2, <1>3 DEF NextNode, Located, liveVars
<1>4. ASSUME NEW n \in Nodes, ResumeNode(n) PROVE SnapshotInv'
  <2>1. CASE fail(n)
    BY Zenon, <1>3, <1>4, <2>1 DEF ResumeNode
  <2>2. CASE ~fail(n)
    <3>1. /\ setState(n, "WAITING_HEALTHY") /\ mr[n].state \in InFlight /\ UNCHANGED snap
          /\ ex' = [ex EXCEPT !.pc = "polling", !.node = n]
      BY Zenon, <1>4, <2>2 DEF ResumeNode, liveVars
    <3>2. ex'.pc = "polling"
      BY Zenon, <1>0, <3>1 DEF Executor
    <3> QED
      BY Zenon, <1>0, <1>a, <3>1, <3>2, SetStateFacts, SnapshotKept
  <2> QED
    BY Zenon, <2>1, <2>2
<1>5. ASSUME NEW n \in Nodes, VersionFails(n) PROVE SnapshotInv'
  BY Zenon, <1>3, <1>5 DEF VersionFails
<1>6. ASSUME NEW n \in Nodes, AtTarget(n) PROVE SnapshotInv'
  <2>1. ex'.pc = "node" /\ setState(n, "DONE") /\ UNCHANGED snap
    BY Zenon, <1>0, <1>6 DEF AtTarget, NextNode, Executor, liveVars
  <2> QED
    BY Zenon, <1>0, <1>a, <2>1, SetStateFacts, SnapshotKept DEF InFlight
<1>7. ASSUME NEW n \in Nodes, StartNode(n) PROVE SnapshotInv'
  <2>1. CASE fail(n)
    BY Zenon, <1>3, <1>7, <2>1 DEF StartNode
  <2>2. CASE ~fail(n)
    <3>1. /\ UNCHANGED <<mr, snap>> /\ ex'.pool = ex.pool
          /\ ex'.pc = IF ex.pool \in ControlPlane \cap SnapshotPools THEN "snapshot" ELSE "drain"
      BY Zenon, <1>0, <1>7, <2>2 DEF StartNode, Executor, liveVars
    <3> QED
      BY Zenon, <1>0, <3>1 DEF SnapshotInv, SnapshotHeld
  <2> QED
    BY Zenon, <2>1, <2>2
<1>8. CASE SnapshotOpen
  <2>1. /\ ex.node \in Nodes /\ mr[ex.node].state \notin InFlight /\ UNCHANGED mr
        /\ snap' = [snap EXCEPT ![ex.node] = "partial"]
    BY Zenon, <1>0, <1>8 DEF SnapshotOpen, Located, Working, ResumeInv, Recorded
  <2>2. ex'.pc = "copying"
    BY Zenon, <1>0, <1>8, GotoFacts DEF SnapshotOpen, PCs
  <2> QED
    BY Zenon, <1>0, <1>b, <2>1, <2>2 DEF SnapshotInv, SnapshotHeld
<1>9. CASE SnapshotCopied
  <2>1. /\ ex.node \in Nodes /\ UNCHANGED mr /\ ex'.node = ex.node /\ ex'.pc = "drain"
        /\ snap' = [snap EXCEPT ![ex.node] = "complete"]
    BY Zenon, <1>0, <1>9, GotoFacts DEF SnapshotCopied, Located, Working, PCs
  <2> QED
    BY Zenon, <1>0, <1>b, <2>1 DEF SnapshotInv, SnapshotHeld
<1>10. CASE MarkDraining \/ Cordon
  <2>1. /\ ex.pc \in {"drain", "cordon"} /\ ex.node \in Nodes /\ UNCHANGED snap
        /\ ex'.node = ex.node /\ ex'.pool = ex.pool /\ ex'.pc # "upgrade"
    BY Zenon, <1>0, <1>10, GotoFacts DEF MarkDraining, Cordon, Located, Working, PCs, liveVars
  <2>2. \A n \in Nodes : mr'[n].state \in InFlight => mr[n].state \in InFlight
    BY Zenon, <1>0, <1>a, <1>10, <2>1, SetStateFacts DEF MarkDraining, Cordon, InFlight
  <2> QED
    BY Zenon, <1>0, <1>b, <2>1, <2>2 DEF SnapshotInv, SnapshotHeld
<1>11. CASE DrainDone
  <2>1. /\ ex.pc = "evict" /\ ex.node \in Nodes /\ ex.node \in pool[ex.pool].members /\ ex.pool \in Pools
        /\ setState(ex.node, "UPGRADING") /\ UNCHANGED snap
    BY Zenon, <1>0, <1>11 DEF DrainDone, Located, Working, MembersInv, liveVars
  <2>2. ex'.pc = "upgrade" /\ ex'.node = ex.node /\ ex'.pool = ex.pool
    BY Zenon, <1>0, <1>11, GotoFacts DEF DrainDone, PCs
  <2>3. \A n \in Nodes \ {ex.node} : mr'[n] = mr[n]
    BY Zenon, <1>0, <1>a, <2>1, SetStateFacts
  <2>4. \A p \in ControlPlane \cap SnapshotPools : ex.node \in pool[p].members => p = ex.pool
    BY Zenon, <1>b, <2>1 DEF MembersInv
  <2>5. \A p \in ControlPlane \cap SnapshotPools : ex.node \in pool[p].members => snap[ex.node] = "complete"
    BY Zenon, <2>1, <2>4 DEF SnapshotInv
  <2> QED
    BY Zenon, <1>0, <1>b, <2>1, <2>2, <2>3, <2>5 DEF SnapshotInv, SnapshotHeld
<1>12. CASE UpgradeOS \/ MarkWaiting \/ Healthy \/ Uncordon \/ MarkDone \/ CallFails
  <2>1. ex.pc \in Working /\ ex.node \in Nodes /\ ex.pool \in Pools /\ UNCHANGED snap
    BY Zenon, <1>0, <1>12 DEF UpgradeOS, MarkWaiting, Healthy, Uncordon, MarkDone, CallFails, Located, Working, liveVars
  <2>2. CASE fail(ex.node)
    BY Zenon, <1>2, <2>1, <2>2
  <2>3. CASE ~fail(ex.node)
    <3>1. ex'.pc \in {"wait", "polling", "uncordon", "markDone", "node"}
      <4>1. CASE MarkDone
        BY Zenon, <1>0, <4>1 DEF MarkDone, Executor
      <4>2. CASE ~MarkDone
        BY Zenon, <1>0, <1>12, <2>3, <4>2, GotoFacts DEF UpgradeOS, MarkWaiting, Healthy, Uncordon, CallFails, PCs
      <4> QED
        BY Zenon, <4>1, <4>2
    <3>2. \A n \in Nodes : mr'[n].state \in InFlight => mr[n].state \in InFlight
      <4>1. CASE MarkDone
        BY Zenon, <1>0, <1>a, <2>1, <4>1, SetStateFacts DEF MarkDone, InFlight
      <4>2. CASE MarkWaiting
        BY Zenon, <1>0, <1>a, <2>1, <4>2, SetStateFacts DEF MarkWaiting, InFlight, ResumeInv, Recorded
      <4>3. CASE UNCHANGED mr
        BY Zenon, <4>3
      <4> QED
        BY Zenon, <1>12, <2>3, <4>1, <4>2, <4>3 DEF UpgradeOS, Healthy, Uncordon, CallFails
    <3> QED
      BY Zenon, <1>0, <2>1, <3>1, <3>2, SnapshotKept
  <2> QED
    BY Zenon, <2>2, <2>3
<1> QED
  BY Zenon, <1>1, <1>4, <1>5, <1>6, <1>7, <1>8, <1>9, <1>10, <1>11, <1>12, ExecSteps

\* UpgradeOS finds the etcd snapshot of a control-plane node complete, and while the node
\* is in flight nothing but a Kubernetes job truncates it, for any pools, whatever crashes,
\* retries and requests come in between: also for a node that is bound to the pool meanwhile.
THEOREM SnapshotFirst == Spec => []SnapshotHeld
<1>1. Init => SnapshotInv
  <2> SUFFICES ASSUME Init PROVE SnapshotInv
    OBVIOUS
  <2>1. \A p \in ControlPlane \cap SnapshotPools : pool[p].members \subseteq Nodes
    BY Zenon, RolesAssumption, MembersAssumption DEF Init
  <2>2. \A n \in Nodes : mr[n].state \notin InFlight
    BY Zenon DEF Init, InFlight
  <2>3. ex.pc = "idle"
    BY Zenon, IdleFacts DEF Init
  <2> QED
    BY Zenon, <2>1, <2>2, <2>3 DEF SnapshotInv, SnapshotHeld
<1>2. TypeInv /\ MembersInv /\ ResumeInv /\ SnapshotInv /\ [Next]_vars => SnapshotInv'
  <2> SUFFICES ASSUME TypeInv, MembersInv, ResumeInv, SnapshotInv, [Next]_vars PROVE SnapshotInv'
    OBVIOUS
  <2>1. CASE Exec
    BY Zenon, <2>1, ExecSnapshots
  <2>2. CASE ~Exec
    <3>1. UNCHANGED mr /\ (UNCHANGED ex \/ ex'.pc \in Between)
      BY Zenon, <2>2, OthersKeep, IdleFacts DEF Next, K8sMove
    <3>a. ASSUME ~ExecK8s PROVE UNCHANGED snap
      <4>1. UNCHANGED snap
        BY Zenon, <2>2, <3>a DEF Next, Api, setRolloutsEnabled, SetClusterVersions, SetNodePoolVersion, setPaused, bind,
           CreateRollout, SetDesired, PutJob, CreateK8sRollout, EditRest, ReqRest, Env, Reboot, Boot,
           Rollback, PowerLoss, Leave, ReportStatus, EnvRest, Crash, Sigterm, Exit, Restart, vars, liveVars
      <4> QED
        BY Zenon, <4>1
    <3>b. ASSUME ExecK8s
          PROVE  ex'.pc \in Between /\ \A n \in Nodes : snap'[n] \in {snap[n], "k8sPartial", "complete"}
      BY Zenon, <3>b, K8sFacts DEF TypeInv, K8sMove
    <3>2. \/ UNCHANGED snap
          \/ /\ ex'.pc \in Between
             /\ \A n \in Nodes : snap'[n] \in {snap[n], "k8sPartial", "complete"}
      BY Zenon, <3>a, <3>b
    <3>3. \A p \in Pools : \A n \in pool'[p].members \ pool[p].members :
            \A q \in Pools : n \notin pool[q].members
      BY Zenon, <2>2, OthersMembers DEF Next
    <3>4. ASSUME NEW p \in ControlPlane \cap SnapshotPools, NEW n \in pool'[p].members, mr[n].state \in InFlight
          PROVE  n \in pool[p].members /\ n \in Nodes
      <4>1. p \in Pools /\ n \in Nodes
        <5>1. TypeInv'
          BY Zenon, TypeStep
        <5> QED
          BY Zenon, <5>1, RolesAssumption DEF TypeInv, TypeOK
      <4>2. \E q \in Pools : n \in pool[q].members
        BY Zenon, <3>4, <4>1 DEF MembersInv, InFlight
      <4> QED
        BY Zenon, <3>3, <3>4, <4>1, <4>2
    <3> QED
      BY Zenon, <3>1, <3>2, <3>4 DEF SnapshotInv, SnapshotHeld
  <2> QED
    BY Zenon, <2>1, <2>2
<1>3. SnapshotInv => SnapshotHeld
  BY Zenon DEF SnapshotInv
<1> QED
  BY <1>1, <1>2, <1>3, TypeInvariance, MembersInvariance, ResumeInvariance, PTL DEF Spec
-----------------------------------------------------------------------------
(* A job that has ended stays as it is.                                    *)

\* Steps that give no pool a new time.
LEMMA TimesKept ==
    ASSUME JobInv, created \in Nat, created' = created, \A p \in Pools : Times(p)' \subseteq Times(p) \cup {0}
    PROVE  /\ \A p \in Pools : \A t \in Times(p)' : t <= created'
           /\ \A p, q \in Pools : p # q => Times(p)' \cap Times(q)' \subseteq {0}
<1>1. \A p \in Pools : \A t \in Times(p) : t <= created
  BY Zenon DEF JobInv
<1>2. \A p, q \in Pools : p # q => Times(p) \cap Times(q) \subseteq {0}
  BY Zenon DEF JobInv
<1>3. \A p \in Pools : \A t \in Times(p)' : t <= created'
  BY <1>1
<1>4. \A p, q \in Pools : p # q => Times(p)' \cap Times(q)' \subseteq {0}
  BY Zenon, <1>2
<1> QED
  BY Zenon, <1>3, <1>4

\* Steps that leave the jobs and the executor's copies alone.
LEMMA JobsKept ==
    ASSUME JobInv, created \in Nat, UNCHANGED <<job, created>>, ex'.batch = ex.batch, ex'.copy = ex.copy,
           ex'.pool = ex.pool, ex'.pc \in Between \/ ex.pc \notin Between
    PROVE  JobInv'
<1>1. \A p \in Pools : Times(p)' = Times(p)
  BY Zenon DEF Times
<1>2. \A p \in Pools : actionable(job'[p].state) => job'[p].createdAt # 0
  BY Zenon DEF JobInv
<1>3. \A p \in ex'.batch : /\ ex'.copy[p].createdAt # 0
                           /\ job'[p].createdAt = ex'.copy[p].createdAt => actionable(job'[p].state)
  BY Zenon DEF JobInv
<1>4. ex'.pc \notin Between => ex'.pool \in ex'.batch /\ actionable(job'[ex'.pool].state)
  BY Zenon DEF JobInv
<1> QED
  BY Zenon, <1>1, <1>2, <1>3, <1>4, TimesKept DEF JobInv

\* Steps after which the executor has no job in hand.
LEMMA NoneInHand ==
    ASSUME JobInv, created \in Nat, UNCHANGED <<job, created>>, ex'.pc \in Between,
           \A p \in Pools : ex'.copy[p].createdAt \in Times(p) \cup {0},
           \A p \in ex'.batch : /\ ex'.copy[p].createdAt # 0
                                /\ job[p].createdAt = ex'.copy[p].createdAt => actionable(job[p].state)
    PROVE  JobInv'
<1>1. \A p \in Pools : Times(p)' = {job[p].createdAt, ex'.copy[p].createdAt}
  BY Zenon DEF Times
<1>2. \A p \in Pools : job[p].createdAt \in Times(p)
  BY Zenon DEF Times
<1>3. \A p \in Pools : Times(p)' \subseteq Times(p) \cup {0}
  BY Zenon, <1>1, <1>2
<1>4. \A p \in Pools : actionable(job'[p].state) => job'[p].createdAt # 0
  BY Zenon DEF JobInv
<1> QED
  <2>1. /\ \A p \in Pools : \A t \in Times(p)' : t <= created'
        /\ \A p, q \in Pools : p # q => Times(p)' \cap Times(q)' \subseteq {0}
    BY Zenon, <1>3, TimesKept
  <2>2. \A p \in ex'.batch : /\ ex'.copy[p].createdAt # 0
                             /\ job'[p].createdAt = ex'.copy[p].createdAt => actionable(job'[p].state)
    OBVIOUS
  <2> QED
    BY Zenon, <1>4, <2>1, <2>2 DEF JobInv

\* The executor writes back copies of jobs it has read, and takes up none that ended.
LEMMA ExecJobs ==
    ASSUME TypeInv, JobInv, Exec
    PROVE  /\ JobInv'
           /\ \A p \in Pools :
                job[p].state \in {"DONE", "FAILED"} /\ job'[p].createdAt = job[p].createdAt => job'[p] = job[p]
<1>0. /\ ex \in Executor /\ Located /\ job \in [Pools -> Job] /\ created \in Nat /\ UNCHANGED created
      /\ ex.copy \in [Pools -> Job] /\ ex.batch \subseteq Pools
  BY ExecLeaves, BoundsAssumption DEF TypeInv, TypeOK, Executor
<1>1. CASE ~PassStep
  <2>1. PICK n \in Nodes : NodeStep(n)
    BY Zenon, <1>1, NodeSteps
  <2> QED
    BY Zenon, <1>0, <2>1, JobsKept DEF NodeStep, Working
<1>2. CASE ReadPool \/ ListNodes \/ PoolConverged \/ \E n \in Nodes : OverBudget(n)
  BY Zenon, <1>0, <1>2, PoolSteps, JobsKept
<1>3. CASE RunOnce
  <2>1. /\ ex'.pc \in Between /\ ex'.copy = job /\ UNCHANGED job
        /\ ex'.batch = {p \in Pools : actionable(job[p].state)}
    BY Zenon, <1>0, <1>3 DEF RunOnce, Executor
  <2>2. \A p \in Pools : ex'.copy[p].createdAt \in Times(p)
    BY Zenon, <2>1 DEF Times
  <2>3. \A p \in ex'.batch : ex'.copy[p].createdAt # 0 /\ actionable(job[p].state)
    BY Zenon, <2>1 DEF JobInv
  <2> QED
    BY Zenon, <1>0, <2>1, <2>2, <2>3, NoneInHand
<1>4. CASE PassOver
  <2>1. ex'.pc = "idle" /\ ex'.copy = [p \in Pools |-> NoJob] /\ UNCHANGED job /\ ex'.batch = {}
    BY Zenon, <1>4 DEF PassOver, ExIdle
  <2>2. \A p \in Pools : ex'.copy[p].createdAt = 0
    <3>1. NoJob.createdAt = 0
      BY Zenon DEF NoJob
    <3> QED
      BY Zenon, <2>1, <3>1
  <2> QED
    BY Zenon, <1>0, <2>1, <2>2, NoneInHand
<1>5. ASSUME NEW p \in Pools, SkipJob(p)
      PROVE  JobInv' /\ UNCHANGED job
  <2>1. ex'.pc = "pick" /\ ex'.copy = ex.copy /\ UNCHANGED job /\ ex'.batch = ex.batch \ {p}
    BY Zenon, <1>0, <1>5 DEF SkipJob, NextJob, Executor
  <2>2. \A q \in Pools : ex'.copy[q].createdAt \in Times(q)
    BY Zenon, <2>1 DEF Times
  <2>3. \A q \in ex'.batch : /\ ex'.copy[q].createdAt # 0
                             /\ job[q].createdAt = ex'.copy[q].createdAt => actionable(job[q].state)
    BY Zenon, <2>1 DEF JobInv
  <2> QED
    BY Zenon, <1>0, <2>1, <2>2, <2>3, NoneInHand
<1>6. ASSUME NEW p \in Pools, StartJob(p)
      PROVE  /\ JobInv'
             /\ \A q \in Pools :
                  job[q].state \in {"DONE", "FAILED"} /\ job'[q].createdAt = job[q].createdAt => job'[q] = job[q]
  <2>1. /\ ex'.pc = "pool" /\ ex'.pool = p /\ ex'.copy = ex.copy /\ ex'.batch = ex.batch /\ p \in ex.batch
    BY Zenon, <1>0, <1>6 DEF StartJob, NextJob, Executor
  <2>2. /\ job'[p].createdAt = ex.copy[p].createdAt /\ job'[p].state = "RUNNING"
        /\ \A q \in Pools \ {p} : job'[q] = job[q]
    BY Zenon, <1>0, <1>6 DEF StartJob, Job
  <2>3. \A q \in Pools : Times(q)' \subseteq Times(q)
    BY Zenon, <2>1, <2>2 DEF Times
  <2>4. JobInv'
    <3>1. actionable(job'[p].state) /\ ex.copy[p].createdAt # 0
      BY Zenon, <2>1, <2>2 DEF JobInv, actionable
    <3>2. \A q \in Pools : actionable(job'[q].state) => job'[q].createdAt # 0
      BY Zenon, <2>2, <3>1 DEF JobInv
    <3>3. \A q \in ex.batch : /\ ex.copy[q].createdAt # 0
                              /\ job'[q].createdAt = ex.copy[q].createdAt => actionable(job'[q].state)
      BY Zenon, <1>0, <2>2, <3>1 DEF JobInv
    <3> QED
      BY Zenon, <1>0, <2>1, <2>3, <3>1, <3>2, <3>3, TimesKept DEF JobInv
  <2>5. job[p].state \in {"DONE", "FAILED"} => job[p].createdAt # ex.copy[p].createdAt
    BY Zenon, <2>1 DEF JobInv, actionable
  <2> QED
    BY Zenon, <2>1, <2>2, <2>4, <2>5
<1>7. CASE finish
  <2>1. ex.pool \in ex.batch /\ ex.pool \in Pools /\ actionable(job[ex.pool].state)
    BY Zenon, <1>0, <1>7 DEF finish, JobInv
  <2>2. ex'.pc = "pick" /\ ex'.copy = ex.copy /\ ex'.batch = ex.batch \ {ex.pool}
    BY Zenon, <1>7 DEF finish, ExIdle
  <2>3. /\ job'[ex.pool].createdAt = ex.copy[ex.pool].createdAt /\ job'[ex.pool].state \in {"DONE", "FAILED"}
        /\ \A q \in Pools \ {ex.pool} : job'[q] = job[q]
    BY Zenon, <1>0, <1>7, <2>1 DEF finish, Job
  <2>4. \A q \in Pools : Times(q)' \subseteq Times(q)
    BY Zenon, <2>2, <2>3 DEF Times
  <2>5. ~actionable(job'[ex.pool].state)
    BY Zenon, <1>0, <2>3 DEF Executor, actionable
  <2>6. JobInv'
    BY Zenon, <1>0, <2>1, <2>2, <2>3, <2>4, <2>5 DEF JobInv
  <2> QED
    BY Zenon, <2>1, <2>3, <2>6 DEF actionable
<1> QED
  BY Zenon, <1>1, <1>2, <1>3, <1>4, <1>5, <1>6, <1>7 DEF PassStep, RunOnce, PassOver

\* The API puts a new job, with a time no job or copy has, and touches no other.
LEMMA PutJobs ==
    ASSUME TypeInv, NEW i \in 1..MaxJobs, PutJob(i)
    PROVE  /\ created \in Nat /\ created' = created + 1 /\ UNCHANGED <<ex, stopping, histVars>>
           /\ \A q \in Pools : \/ job'[q] = job[q]
                               \/ /\ q = req[i].pool /\ job'[q].createdAt = created'
                                  /\ job'[q].state = "PENDING"
BY BoundsAssumption DEF TypeInv, TypeOK, PutJob, ReqRest

\* Other steps leave the jobs alone.
LEMMA OthersJobs ==
    ASSUME TypeInv, ExecK8s \/ Api \/ Env \/ Crash \/ Sigterm \/ Exit \/ UNCHANGED vars, ~\E i \in 1..MaxJobs : PutJob(i)
    PROVE  UNCHANGED <<job, created>>
<1>1. CASE Api
  BY <1>1, Zenon DEF Api, setRolloutsEnabled, SetClusterVersions, SetNodePoolVersion, setPaused, bind,
     CreateRollout, SetDesired, CreateK8sRollout, EditRest
<1>2. CASE ExecK8s
  BY Zenon, <1>2, K8sFacts DEF TypeInv, bounds
<1>3. CASE ~Api /\ ~ExecK8s
  BY Zenon, <1>3 DEF Env, Reboot, Boot, Rollback, PowerLoss, Leave, ReportStatus, EnvRest,
     Crash, Sigterm, Exit, Restart, vars, storeVars, bounds
<1> QED
  BY Zenon, <1>1, <1>2, <1>3

\* Every step keeps the jobs and the copies in step.
LEMMA JobStep == ASSUME TypeInv, JobInv, [Next]_vars PROVE JobInv'
<1>0. created \in Nat /\ ex \in Executor
  BY BoundsAssumption DEF TypeInv, TypeOK
<1>1. CASE Exec
  BY Zenon, <1>1, ExecJobs
<1>2. ASSUME NEW i \in 1..MaxJobs, PutJob(i) PROVE JobInv'
  <2>1. \A p, q \in Pools : p # q => Times(p)' \cap Times(q)' \subseteq {0}
    <3> SUFFICES ASSUME NEW p \in Pools, NEW q \in Pools, p # q, NEW t \in Times(p)', t \in Times(q)'
                 PROVE  t = 0
      BY Zenon
    <3>1. \A r \in Pools : \A u \in Times(r)' : u \in Times(r) \/ (r = req[i].pool /\ u = created + 1)
      BY Zenon, <1>2, PutJobs DEF Times
    <3>2. \A r \in Pools : created + 1 \notin Times(r)
      <4>1. \A r \in Pools : \A u \in Times(r) : u <= created
        BY Zenon DEF JobInv
      <4> QED
        BY <1>0, <4>1
    <3>3. t \in Times(p) /\ t \in Times(q)
      BY Zenon, <3>1, <3>2
    <3> QED
      BY Zenon, <3>3 DEF JobInv
  <2>2. \A p \in Pools : job[p].createdAt \in Nat /\ ex.copy[p].createdAt \in Nat
    BY <1>0, BoundsAssumption, SMTT(30) DEF TypeInv, TypeOK, Executor, Job
  <2>3. \A p \in Pools : \A t \in Times(p)' : t <= created'
    <3>1. \A p \in Pools : \A t \in Times(p) : t <= created /\ t \in Nat
      <4>1. \A p \in Pools : \A t \in Times(p) : t <= created
        BY Zenon DEF JobInv
      <4>2. \A p \in Pools : \A t \in Times(p) : t \in Nat
        BY Zenon, <2>2 DEF Times
      <4> QED
        BY Zenon, <4>1, <4>2
    <3>2. \A r \in Pools : \A u \in Times(r)' : u \in Times(r) \/ u = created + 1
      BY Zenon, <1>2, PutJobs DEF Times
    <3>3. created \in Nat /\ created' = created + 1
      BY Zenon, <1>0, <1>2, PutJobs
    <3> QED
      BY <3>1, <3>2, <3>3
  <2>4. \A p \in Pools : actionable(job'[p].state) => job'[p].createdAt # 0
    BY <1>0, <1>2, PutJobs, SMTT(30) DEF JobInv
  <2>5. \A p \in Pools : actionable(job[p].state) => actionable(job'[p].state)
    BY <1>2, PutJobs, Zenon DEF actionable
  <2>6. ASSUME NEW p \in ex'.batch
        PROVE  /\ ex'.copy[p].createdAt # 0
               /\ job'[p].createdAt = ex'.copy[p].createdAt => actionable(job'[p].state)
    <3>1. p \in Pools /\ p \in ex.batch /\ UNCHANGED ex
      BY Zenon, <1>0, <1>2, <2>6, PutJobs DEF Executor
    <3>2. job'[p] # job[p] => actionable(job'[p].state)
      BY Zenon, <1>2, <3>1, PutJobs DEF actionable
    <3> QED
      BY Zenon, <3>1, <3>2 DEF JobInv
  <2>7. ex'.pc \notin Between => ex'.pool \in ex'.batch /\ actionable(job'[ex'.pool].state)
    BY Zenon, <1>0, <1>2, <2>5, PutJobs DEF JobInv, Executor
  <2> QED
    BY Zenon, <2>1, <2>3, <2>4, <2>6, <2>7 DEF JobInv
<1>3. CASE ~Exec /\ ~\E i \in 1..MaxJobs : PutJob(i)
  <2>1. UNCHANGED <<job, created>> /\ (UNCHANGED ex \/ ex' = ExIdle \/ K8sMove)
    BY Zenon, <1>3, OthersJobs, OthersKeep DEF Next
  <2>2. CASE UNCHANGED ex
    BY Zenon, <1>0, <2>1, <2>2, JobsKept
  <2>3. CASE ex' = ExIdle
    <3>1. ex'.pc = "idle" /\ ex'.batch = {} /\ \A p \in Pools : ex'.copy[p].createdAt = 0
      BY Zenon, <2>3 DEF ExIdle, NoJob
    <3> QED
      BY Zenon, <1>0, <2>1, <3>1, NoneInHand
  <2>4. CASE K8sMove
    BY Zenon, <1>0, <2>1, <2>4, JobsKept DEF K8sMove
  <2> QED
    BY Zenon, <2>1, <2>2, <2>3, <2>4
<1> QED
  BY Zenon, <1>1, <1>2, <1>3

\* The inductive invariant of the jobs.
LEMMA JobInvariance == Spec => []JobInv
<1>1. Init => JobInv
  <2> SUFFICES ASSUME Init PROVE JobInv
    OBVIOUS
  <2>1. /\ created = 0 /\ ex.pc = "idle" /\ ex.batch = {}
        /\ \A p \in Pools : job[p].createdAt = 0 /\ ex.copy[p].createdAt = 0 /\ job[p].state = "none"
    BY Zenon DEF Init, ExIdle, NoJob
  <2> QED
    BY <2>1 DEF JobInv, Times, actionable
<1>2. TypeInv /\ JobInv /\ [Next]_vars => JobInv'
  BY Zenon, JobStep
<1> QED
  BY <1>1, <1>2, TypeInvariance, PTL DEF Spec

\* A job that is DONE or FAILED is not written again until a new one replaces it: the
\* executor writes whole records from copies it read earlier, but never that of a job
\* that has ended since, in any order of requests, passes and crashes.
THEOREM EndedJobsKept == Spec => FinishedJobIsFinal
<1>1. TypeInv /\ JobInv /\ [Next]_vars =>
        [\A p \in Pools :
           (job[p].state \in {"DONE", "FAILED"} /\ job'[p].createdAt = job[p].createdAt)
           => job'[p] = job[p]]_vars
  <2> SUFFICES ASSUME TypeInv, JobInv, Next, NEW p \in Pools, job'[p].createdAt = job[p].createdAt,
                      job[p].state \in {"DONE", "FAILED"}
               PROVE  job'[p] = job[p]
    OBVIOUS
  <2>1. CASE Exec
    BY Zenon, <2>1, ExecJobs
  <2>2. ASSUME NEW i \in 1..MaxJobs, PutJob(i) PROVE job'[p] = job[p]
    <3>1. job[p].createdAt <= created /\ created \in Nat
      BY Zenon, <2>2, PutJobs DEF JobInv, Times
    <3> QED
      BY <2>2, <3>1, PutJobs
  <2>3. CASE ~Exec /\ ~\E i \in 1..MaxJobs : PutJob(i)
    BY Zenon, <2>3, OthersJobs DEF Next
  <2> QED
    BY Zenon, <2>1, <2>2, <2>3
<1> QED
  BY <1>1, TypeInvariance, JobInvariance, PTL DEF Spec, FinishedJobIsFinal

-----------------------------------------------------------------------------
(* While the process lives.                                                *)

\* Until the first crash or SIGTERM the executor is not started afresh.
LEMMA OthersLive ==
    ASSUME TypeInv, crashes' = 0, crashes = 0 => ~stopping,
           ExecK8s \/ Api \/ Env \/ Crash \/ Sigterm \/ Exit \/ UNCHANGED vars
    PROVE  /\ crashes = 0 /\ UNCHANGED <<stopping, mr, histVars>>
           /\ UNCHANGED ex \/ K8sMove
<1>0. crashes \in Nat
  BY BoundsAssumption DEF TypeInv, TypeOK
<1>1. ~Crash /\ ~Sigterm
  BY <1>0 DEF Crash, Sigterm
<1>2. CASE Api
  <2>1. UNCHANGED <<ex, stopping, mr, histVars, crashes>>
    BY Zenon, <1>2 DEF Api, setRolloutsEnabled, SetClusterVersions, SetNodePoolVersion, setPaused, bind,
       CreateRollout, SetDesired, PutJob, CreateK8sRollout, EditRest, ReqRest
  <2> QED
    BY Zenon, <2>1
<1>3. CASE Env
  <2>1. UNCHANGED <<ex, stopping, mr, histVars, crashes>>
    BY Zenon, <1>3 DEF Env, Reboot, Boot, Rollback, PowerLoss, Leave, ReportStatus, EnvRest, storeVars
  <2> QED
    BY Zenon, <2>1
<1>4. CASE UNCHANGED vars
  <2>1. UNCHANGED <<ex, stopping, mr, histVars, crashes>>
    BY Zenon, <1>4 DEF vars, storeVars, bounds
  <2> QED
    BY Zenon, <2>1
<1>5. CASE ExecK8s
  BY Zenon, <1>5, K8sFacts DEF TypeInv, bounds
<1>6. CASE Exit
  BY Zenon, <1>6 DEF Exit
<1> QED
  BY Zenon, <1>1, <1>2, <1>3, <1>4, <1>5, <1>6

\* The executor marks a node FAILED for the job it runs, and the job is then at its end.
LEMMA ExecHalts == ASSUME TypeInv, JobInv, HaltInv, Exec PROVE HaltInv'
<1>0. /\ ex \in Executor /\ Located /\ UNCHANGED <<created, stopping>> /\ job \in [Pools -> Job]
      /\ failedBy \in [Nodes -> 0..MaxJobs] /\ ex.batch \subseteq Pools /\ ex.copy \in [Pools -> Job]
  BY Zenon, ExecLeaves DEF TypeInv, TypeOK, Executor
<1>1. CASE ~PassStep
  <2>1. PICK n \in Nodes : NodeStep(n)
    BY Zenon, <1>1, NodeSteps
  <2>2. /\ ex.pc \notin Between \cup {"finish"} /\ UNCHANGED job /\ ex'.pool = ex.pool
        /\ ex'.batch = ex.batch /\ ex'.copy = ex.copy
    BY Zenon, <2>1 DEF NodeStep, Working
  <2>3. CASE UNCHANGED failedBy
    BY Zenon, <1>0, <2>2, <2>3 DEF HaltInv
  <2>4. CASE ex'.pc = "finish" /\ failedBy' = [failedBy EXCEPT ![n] = ex.copy[ex.pool].createdAt]
    <3>1. ex.pool \in Pools /\ ex.copy[ex.pool].createdAt \in Times(ex.pool)
      BY Zenon, <1>0, <2>2 DEF Located, Times
    <3>2. /\ failedBy'[n] = ex.copy[ex.pool].createdAt
          /\ \A m \in Nodes \ {n} : failedBy'[m] = failedBy[m]
      BY Zenon, <1>0, <2>4
    <3>3. \A m \in Nodes : failedBy'[m] <= created'
      BY Zenon, <1>0, <3>1, <3>2 DEF HaltInv, JobInv
    <3>4. ASSUME NEW p \in Pools, failedBy'[n] # 0, failedBy'[n] \in Times(p) PROVE p = ex.pool
      BY Zenon, <3>1, <3>2, <3>4 DEF JobInv
    <3>5. ASSUME NEW m \in Nodes, NEW p \in Pools, failedBy'[m] # 0,
                 \/ p \in ex.batch /\ ex.copy[p].createdAt = failedBy'[m]
                 \/ actionable(job[p].state) /\ job[p].createdAt = failedBy'[m]
          PROVE  p = ex.pool
      BY Zenon, <2>2, <3>2, <3>4, <3>5 DEF HaltInv, Times
    <3> QED
      BY Zenon, <1>0, <2>2, <2>4, <3>3, <3>5 DEF HaltInv
  <2> QED
    BY Zenon, <2>1, <2>3, <2>4 DEF NodeStep
<1>2. CASE PassStep
  <2>1. UNCHANGED failedBy
    BY Zenon, <1>2, PassFacts DEF TypeInv, histVars
  <2>2. CASE ReadPool \/ ListNodes \/ PoolConverged \/ \E n \in Nodes : OverBudget(n)
    BY Zenon, <1>0, <2>1, <2>2, PoolSteps DEF HaltInv
  <2>3. CASE RunOnce
    <3>1. /\ ex.pc = "idle" /\ ex'.copy = job /\ UNCHANGED job
          /\ ex'.batch = {p \in Pools : actionable(job[p].state)}
      BY Zenon, <1>0, <2>3 DEF RunOnce, Executor
    <3> QED
      BY Zenon, <1>0, <2>1, <3>1 DEF HaltInv
  <2>4. CASE PassOver
    <3>1. ex.pc = "pick" /\ UNCHANGED job /\ ex'.batch = {}
      BY Zenon, <2>4 DEF PassOver, ExIdle
    <3> QED
      BY Zenon, <1>0, <2>1, <3>1 DEF HaltInv
  <2>5. ASSUME NEW p \in Pools, SkipJob(p) PROVE HaltInv'
    <3>1. ex.pc = "pick" /\ ex'.copy = ex.copy /\ UNCHANGED job /\ ex'.batch = ex.batch \ {p}
      BY Zenon, <1>0, <2>5 DEF SkipJob, NextJob, Executor
    <3> QED
      BY Zenon, <1>0, <2>1, <3>1 DEF HaltInv
  <2>6. ASSUME NEW p \in Pools, StartJob(p) PROVE HaltInv'
    <3>1. ex.pc = "pick" /\ ex'.copy = ex.copy /\ ex'.batch = ex.batch /\ p \in ex.batch
      BY Zenon, <1>0, <2>6 DEF StartJob, NextJob, Executor
    <3>2. /\ job'[p].createdAt = ex.copy[p].createdAt
          /\ \A q \in Pools \ {p} : job'[q] = job[q]
      BY Zenon, <1>0, <2>6 DEF StartJob, Job
    <3> QED
      BY <1>0, <2>1, <3>1, <3>2 DEF HaltInv
  <2>7. CASE finish
    <3>1. /\ ex.pc = "finish" /\ ex'.pc = "pick" /\ ex'.copy = ex.copy /\ ex'.batch = ex.batch \ {ex.pool}
          /\ ex.pool \in Pools
      BY Zenon, <1>0, <2>7 DEF finish, ExIdle, Located
    <3>2. job'[ex.pool].state \in {"DONE", "FAILED"} /\ \A q \in Pools \ {ex.pool} : job'[q] = job[q]
      BY Zenon, <1>0, <2>7, <3>1 DEF finish, Job
    <3>3. ~actionable(job'[ex.pool].state)
      BY Zenon, <1>0, <3>2 DEF Executor, actionable
    <3> QED
      BY <1>0, <2>1, <3>1, <3>2, <3>3 DEF HaltInv
  <2> QED
    BY Zenon, <1>2, <2>2, <2>3, <2>4, <2>5, <2>6, <2>7 DEF PassStep
<1> QED
  BY Zenon, <1>1, <1>2

\* In one life of the process, a job that has failed a node is at its end.
LEMMA HaltInvariance == Spec => [](crashes = 0 => HaltInv)
<1>1. Init => HaltInv
  <2> SUFFICES ASSUME Init PROVE HaltInv
    OBVIOUS
  <2>1. ~stopping /\ created = 0 /\ \A n \in Nodes : failedBy[n] = 0
    BY Zenon DEF Init
  <2> QED
    BY <2>1 DEF HaltInv
<1>2. TypeInv /\ JobInv /\ (crashes = 0 => HaltInv) /\ [Next]_vars => (crashes = 0 => HaltInv)'
  <2> SUFFICES ASSUME TypeInv, JobInv, crashes = 0 => HaltInv, [Next]_vars, crashes' = 0 PROVE HaltInv'
    OBVIOUS
  <2>1. CASE Exec
    BY Zenon, <2>1, ExecHalts, ExecLeaves
  <2>2. CASE ~Exec
    <3>1. /\ HaltInv /\ UNCHANGED <<stopping, failedBy>>
          /\ UNCHANGED ex \/ (K8sMove /\ ex.pc # "finish")
      BY Zenon, <2>2, OthersLive DEF Next, HaltInv, histVars, K8sMove
    <3>2. ASSUME NEW i \in 1..MaxJobs, PutJob(i) PROVE HaltInv'
      <4>1. \A n \in Nodes : failedBy[n] <= created /\ failedBy[n] \in Nat
        <5>1. failedBy \in [Nodes -> 0..MaxJobs]
          BY Zenon DEF TypeInv, TypeOK
        <5>2. \A n \in Nodes : failedBy[n] \in Nat
          BY <5>1, BoundsAssumption
        <5> QED
          BY Zenon, <3>1, <5>2 DEF HaltInv
      <4>2. created \in Nat /\ created' = created + 1
        BY Zenon, <3>2, PutJobs
      <4>3. \A n \in Nodes, p \in Pools : job'[p].createdAt = failedBy[n] => job'[p] = job[p]
        BY <3>2, <4>1, <4>2, PutJobs, SMTT(30)
      <4>4. \A n \in Nodes : failedBy[n] <= created'
        BY <4>1, <4>2
      <4> QED
        BY Zenon, <3>1, <3>2, <4>3, <4>4, PutJobs DEF HaltInv
    <3>3. CASE ~\E i \in 1..MaxJobs : PutJob(i)
      <4>1. UNCHANGED <<job, created>> /\ ex'.batch = ex.batch /\ ex'.copy = ex.copy
        BY Zenon, <2>2, <3>1, <3>3, OthersJobs DEF Next, K8sMove
      <4> QED
        BY Zenon, <3>1, <4>1 DEF HaltInv
    <3> QED
      BY Zenon, <3>2, <3>3
  <2> QED
    BY Zenon, <2>1, <2>2
<1> QED
  BY <1>1, <1>2, TypeInvariance, JobInvariance, PTL DEF Spec

\* Until the process first dies, the first node a job marks FAILED is the last it touches,
\* for any number of jobs, requests and pools.
THEOREM FailureEndsJob == Spec => []HaltOnFailure
<1>1. TypeInv /\ MembersInv /\ JobInv /\ (crashes = 0 => HaltInv) => HaltOnFailure
  <2> SUFFICES ASSUME TypeInv, MembersInv, JobInv, HaltInv, ex.node # 0, ex.pc # "finish", NEW n \in Nodes,
                      failedBy[n] = ex.copy[ex.pool].createdAt
               PROVE  FALSE
    BY Zenon DEF HaltOnFailure
  <2>1. ex.pc \notin Between
    BY Zenon DEF MembersInv, Working
  <2>2. ex.pool \in ex.batch /\ ex.pool \in Pools /\ ex.copy[ex.pool].createdAt # 0
    BY Zenon, <2>1 DEF JobInv, TypeInv, Located
  <2> QED
    BY Zenon, <2>2 DEF HaltInv
<1> QED
  BY <1>1, TypeInvariance, MembersInvariance, JobInvariance, HaltInvariance, PTL

\* Until the process first dies, a job that has ended has left no node of its pool half way.
THEOREM NoneAbandoned == Spec => []NoNodeAbandoned
<1>1. Init => InHand
  BY SMTT(30) DEF Init, InHand, InFlight
<1>2. TypeInv /\ (crashes = 0 => InHand) /\ [Next]_vars => (crashes = 0 => InHand)'
  <2> SUFFICES ASSUME TypeInv, crashes = 0 => InHand, [Next]_vars, crashes' = 0 PROVE InHand'
    OBVIOUS
  <2>0. Exec => InHand
    BY Zenon, ExecLeaves
  <2>1. CASE Exec /\ ~PassStep
    <3>1. PICK n \in Nodes : NodeStep(n)
      BY Zenon, <2>1, NodeSteps
    <3>2. \A m \in Nodes \ {n} : mr'[m].state \notin InFlight \cup {"DRAINING"}
      BY Zenon, <2>0, <2>1, <3>1 DEF NodeStep, InHand, Working
    <3>3. mr'[n].state \in InFlight \cup {"DRAINING"} => ex'.pc \in Working /\ ex'.node = n
      BY Zenon, <3>1 DEF NodeStep, InFlight
    <3> QED
      BY <2>0, <2>1, <3>2, <3>3, ExecLeaves DEF InHand
  <2>2. CASE Exec /\ PassStep
    <3>1. UNCHANGED <<mr, stopping>> /\ ex.pc \notin Working
      <4>1. UNCHANGED <<mr, stopping>>
        BY Zenon, <2>2, PassFacts, ExecLeaves DEF TypeInv
      <4>2. ex.pc \notin Working
        BY Zenon, <2>2 DEF PassStep, RunOnce, PassOver, finish, ReadPool, ListNodes, PoolConverged, SkipJob,
           StartJob, NextJob, OverBudget, NextNode, Working
      <4> QED
        BY Zenon, <4>1, <4>2
    <3> QED
      BY Zenon, <2>0, <2>2, <3>1 DEF InHand
  <2>3. CASE ~Exec
    <3>1. crashes = 0 => ~stopping
      BY Zenon DEF InHand
    <3>2. /\ InHand /\ UNCHANGED <<stopping, mr>>
          /\ UNCHANGED ex \/ ex.pc \notin Working
      BY Zenon, <2>3, <3>1, OthersLive DEF Next, K8sMove, Working
    <3> QED
      BY Zenon, <3>2 DEF InHand
  <2> QED
    BY Zenon, <2>1, <2>2, <2>3
<1>3. TypeInv /\ MembersInv /\ JobInv /\ (crashes = 0 => InHand) => NoNodeAbandoned
  <2> SUFFICES ASSUME TypeInv, MembersInv, JobInv, InHand, NEW p \in Pools, job[p].state \in {"DONE", "FAILED"},
                      NEW n \in pool[p].members, mr[n].state \in InFlight \cup {"DRAINING"}
               PROVE  FALSE
    BY Zenon DEF NoNodeAbandoned
  <2>1. n \in Nodes
    BY Zenon DEF TypeInv, TypeOK
  <2>2. ex.pc \in Working /\ n = ex.node /\ ex.pool \in Pools
    BY Zenon, <2>1 DEF InHand, TypeInv, Located, Working
  <2>3. p = ex.pool
    BY Zenon, <2>2 DEF MembersInv
  <2> QED
    BY Zenon, <2>2, <2>3 DEF JobInv, actionable, Working
<1> QED
  BY <1>1, <1>2, <1>3, TypeInvariance, MembersInvariance, JobInvariance, PTL DEF Spec

-----------------------------------------------------------------------------
(* DoneAtTarget: the version a DONE record names is the one the node runs. *)

\* What a step makes of the nodes: a node boots what it was sent, and only UpgradeOS
\* sends it a version.
LEMMA LiveSteps ==
    ASSUME TypeInv, [Next]_vars, NEW n \in Nodes
    PROVE  /\ \/ live'[n].ver = live[n].ver
              \/ live[n].next # NoVersion /\ live'[n].ver = live[n].next
           /\ \/ live'[n].next \in {live[n].next, NoVersion}
              \/ ex.pc = "upgrade" /\ live'[n].next = ex.target
<1>0. live \in [Nodes -> Node]
  BY Zenon DEF TypeInv, TypeOK
<1>1. ASSUME UNCHANGED live \/ \E m \in Nodes : Reboot(m) \/ PowerLoss(m) \/ Leave(m) \/ ReportStatus(m)
      PROVE  live'[n].ver = live[n].ver /\ live'[n].next = live[n].next
  <2>1. ASSUME NEW m \in Nodes, Reboot(m) \/ PowerLoss(m)
        PROVE  live'[n].ver = live[n].ver /\ live'[n].next = live[n].next
    BY <1>0, <2>1 DEF Reboot, PowerLoss, Node
  <2>2. ASSUME NEW m \in Nodes, Leave(m) \/ ReportStatus(m)
        PROVE  live'[n].ver = live[n].ver /\ live'[n].next = live[n].next
    BY <1>0, <2>2 DEF Leave, ReportStatus, Node
  <2> QED
    BY Zenon, <1>1, <2>1, <2>2
<1>2. ASSUME NEW m \in Nodes, Boot(m) \/ Rollback(m)
      PROVE  /\ live'[n].next \in {live[n].next, NoVersion}
             /\ \/ live'[n].ver = live[n].ver
                \/ live[n].next # NoVersion /\ live'[n].ver = live[n].next
  BY <1>0, <1>2 DEF Boot, Rollback, Node
<1>3. ASSUME Cordon \/ Uncordon
      PROVE  live'[n].ver = live[n].ver /\ live'[n].next = live[n].next
  <2>1. CASE Cordon
    BY Zenon, <1>0, <2>1 DEF Cordon, Node
  <2>2. CASE Uncordon
    BY Zenon, <1>0, <2>2 DEF Uncordon, Node
  <2> QED
    BY Zenon, <1>3, <2>1, <2>2
<1>4. ASSUME UpgradeOS
      PROVE  /\ live'[n].ver = live[n].ver
             /\ live'[n].next = live[n].next \/ (ex.pc = "upgrade" /\ live'[n].next = ex.target)
  BY Zenon, <1>0, <1>4 DEF UpgradeOS, Node
<1>5. ASSUME Exec, ~Cordon, ~Uncordon, ~UpgradeOS PROVE UNCHANGED live
  BY Zenon, <1>5 DEF Exec, RunOnce, PassOver, SkipJob, StartJob, finish, ReadPool, ListNodes, PoolConverged,
     ResumeNode, VersionFails, AtTarget, OverBudget, StartNode, SnapshotOpen, SnapshotCopied,
     MarkDraining, DrainDone, MarkWaiting, Healthy, MarkDone, CallFails, liveVars
<1>6. ASSUME Api \/ Crash \/ Sigterm \/ Exit \/ UNCHANGED vars PROVE UNCHANGED live
  BY Zenon, <1>6 DEF Api, setRolloutsEnabled, SetClusterVersions, SetNodePoolVersion, setPaused, bind,
     CreateRollout, SetDesired, PutJob, CreateK8sRollout, EditRest, ReqRest, Crash, Sigterm, Exit, Restart,
     vars, liveVars
<1>7. ASSUME ExecK8s PROVE UNCHANGED live
  BY Zenon, <1>7, K8sFacts DEF TypeInv
<1>8. CASE Env
  BY Zenon, <1>1, <1>2, <1>8 DEF Env
<1> QED
  BY Zenon, <1>1, <1>3, <1>4, <1>5, <1>6, <1>7, <1>8 DEF Next

\* Only ReadPool sets the target of a pass.
LEMMA TargetKept ==
    ASSUME TypeInv, Exec, ~ReadPool, ex'.pc \notin Between
    PROVE  ex'.target = ex.target
<1>0. ex \in Executor
  BY Zenon DEF TypeInv, TypeOK
<1>1. ASSUME NEW pc, Goto(pc) PROVE ex'.target = ex.target
  BY Zenon, <1>0, <1>1 DEF Goto, Executor
<1>2. ASSUME NEW n, fail(n) PROVE ex'.target = ex.target
  BY Zenon, <1>0, <1>2 DEF fail, Executor
<1>3. ~PassOver /\ ~finish /\ ~RunOnce
  BY Zenon, <1>0, IdleFacts DEF PassOver, finish, RunOnce, Executor
<1>4. ASSUME NEW p \in Pools, SkipJob(p) \/ StartJob(p) PROVE ex'.target = ex.target
  BY Zenon, <1>0, <1>4 DEF SkipJob, StartJob, Executor
<1>5. CASE ListNodes
  BY Zenon, <1>0, <1>5 DEF ListNodes, Executor
<1>6. CASE PoolConverged \/ MarkDone
  BY Zenon, <1>0, <1>6 DEF PoolConverged, MarkDone, Executor
<1>7. ASSUME NEW n \in Nodes, ResumeNode(n) \/ VersionFails(n) \/ AtTarget(n) \/ OverBudget(n) \/ StartNode(n)
      PROVE  ex'.target = ex.target
  <2>1. \/ fail(n)
        \/ \E pc, m : ex' = [ex EXCEPT !.pc = pc, !.node = m]
        \/ \E m, pc : ex' = [ex EXCEPT !.node = m, !.pc = pc]
        \/ \E t : ex' = [ex EXCEPT !.todo = t]
        \/ \E pc, o : ex' = [ex EXCEPT !.pc = pc, !.outcome = o]
    BY Zenon, <1>7 DEF ResumeNode, VersionFails, AtTarget, OverBudget, StartNode
  <2> QED
    BY Zenon, <1>0, <1>2, <2>1 DEF Executor
<1>8. ASSUME SnapshotOpen \/ SnapshotCopied \/ MarkDraining \/ Cordon \/ DrainDone \/ UpgradeOS \/ MarkWaiting
             \/ Healthy \/ Uncordon \/ CallFails
      PROVE  ex'.target = ex.target
  BY Zenon, <1>1, <1>2, <1>8 DEF SnapshotOpen, SnapshotCopied, MarkDraining, Cordon, DrainDone, UpgradeOS,
     MarkWaiting, Healthy, Uncordon, CallFails
<1> QED
  BY Zenon, <1>3, <1>4, <1>5, <1>6, <1>7, <1>8 DEF Exec

\* The step saw the node at the target, or has just brought it there.
DoneNow(n) ==
    /\ UNCHANGED live
    /\ live[n].ver = ex.target \/ (ex.pc = "markDone" /\ n = ex.node)

\* Only such a step takes a node off the loop or records it DONE.
LEMMA DoneSteps ==
    ASSUME TypeInv, Exec, ~PassStep, NEW n \in Nodes
    PROVE  /\ n \in ex.todo => n \in ex'.todo \/ DoneNow(n)
           /\ mr'[n].state = "DONE" => mr'[n] = mr[n] \/ (DoneNow(n) /\ mr'[n].target = ex.target)
<1>0. TypeOK /\ ex \in Executor /\ mr \in [Nodes -> MachineRollout] /\ (ex.pc \in Working => ex.node \in Nodes)
  BY Zenon DEF TypeInv, TypeOK, Located
<1>1. ASSUME NEW m \in Nodes, setState(m, "DONE"), ex'.todo = ex.todo \ {m}, UNCHANGED live,
             live[m].ver = ex.target \/ (ex.pc = "markDone" /\ m = ex.node)
      PROVE  /\ n \in ex.todo => n \in ex'.todo \/ DoneNow(n)
             /\ mr'[n].state = "DONE" => mr'[n] = mr[n] \/ (DoneNow(n) /\ mr'[n].target = ex.target)
  <2>1. CASE n = m
    BY Zenon, <1>0, <1>1, <2>1 DEF setState, MachineRollout, DoneNow
  <2>2. CASE n # m
    BY Zenon, <1>0, <1>1, <2>2 DEF setState, MachineRollout
  <2> QED
    BY Zenon, <2>1, <2>2
<1>2. ASSUME NEW m \in Nodes, AtTarget(m)
      PROVE  setState(m, "DONE") /\ ex'.todo = ex.todo \ {m} /\ UNCHANGED live /\ live[m].ver = ex.target
  BY Zenon, <1>0, <1>2 DEF AtTarget, liveVars, Executor
<1>3. CASE MarkDone
  <2>1. /\ setState(ex.node, "DONE") /\ ex'.todo = ex.todo \ {ex.node} /\ UNCHANGED live /\ ex.pc = "markDone"
        /\ ex.node \in Nodes
    BY Zenon, <1>0, <1>3 DEF MarkDone, liveVars, Executor, Working
  <2> QED
    BY Zenon, <1>1, <2>1
<1>4. CASE ~MarkDone /\ ~\E m \in Nodes : AtTarget(m)
  <2>1. ASSUME NEW pc, Goto(pc) PROVE ex'.todo = ex.todo
    BY Zenon, <1>0, <2>1 DEF Goto, Executor
  <2>2. ASSUME NEW m, fail(m) PROVE ex'.todo = ex.todo /\ setState(m, "FAILED")
    BY Zenon, <1>0, <2>2 DEF fail, Executor
  <2>3. ASSUME NEW m \in Nodes, ResumeNode(m) \/ VersionFails(m) \/ StartNode(m)
        PROVE  /\ ex'.todo = ex.todo
               /\ UNCHANGED mr \/ setState(m, "WAITING_HEALTHY") \/ setState(m, "FAILED")
    <3>1. \/ fail(m)
          \/ ex' = [ex EXCEPT !.pc = "polling", !.node = m] /\ setState(m, "WAITING_HEALTHY")
          \/ \E pc : ex' = [ex EXCEPT !.node = m, !.pc = pc] /\ UNCHANGED mr
      BY Zenon, <2>3 DEF ResumeNode, VersionFails, StartNode
    <3> QED
      BY Zenon, <1>0, <2>2, <3>1 DEF Executor
  <2>4. ASSUME SnapshotOpen \/ SnapshotCopied \/ Cordon \/ Healthy \/ Uncordon
        PROVE  ex'.todo = ex.todo /\ UNCHANGED mr
    BY Zenon, <2>1, <2>4 DEF SnapshotOpen, SnapshotCopied, Cordon, Healthy, Uncordon
  <2>5. ASSUME MarkDraining \/ DrainDone \/ MarkWaiting \/ UpgradeOS \/ CallFails
        PROVE  /\ ex'.todo = ex.todo /\ ex.pc \in Working
               /\ UNCHANGED mr \/ \E s \in {"DRAINING", "UPGRADING", "WAITING_HEALTHY", "FAILED"} : setState(ex.node, s)
    BY Zenon, <2>1, <2>2, <2>5 DEF MarkDraining, DrainDone, MarkWaiting, UpgradeOS, CallFails, Working
  <2>6. /\ ex'.todo = ex.todo
        /\ UNCHANGED mr \/ \E m \in Nodes, s \in {"DRAINING", "UPGRADING", "WAITING_HEALTHY", "FAILED"} : setState(m, s)
    BY Zenon, <1>0, <1>4, <2>3, <2>4, <2>5, ExecSteps
  <2> QED
    BY <1>0, <2>6 DEF setState, MachineRollout
<1> QED
  BY Zenon, <1>1, <1>2, <1>3, <1>4

\* The executor orders nothing: the jobs keep their targets, and what it aims at is the
\* target of the job it runs, because ReadPool reads the version CreateRollout stored.
LEMMA ExecOrders ==
    ASSUME TypeInv, JobInv, OrderInv, Exec
    PROVE  /\ OrderInv'
           /\ \A p \in Pools : /\ Ordered(p)' <=> Ordered(p)
                               /\ Ordered(p) => job'[p].target = job[p].target
<1>0. /\ ex \in Executor /\ job \in [Pools -> Job] /\ ex.copy \in [Pools -> Job] /\ ex.batch \subseteq Pools
      /\ ex.pc \notin Between => ex.pool \in Pools
      /\ UNCHANGED <<pool, req>>
  BY Zenon, ExecLeaves, ExecCounted DEF TypeInv, TypeOK, Executor, Located
<1>1. ASSUME NEW p \in ex.batch, NEW s, job' = [job EXCEPT ![p] = [ex.copy[p] EXCEPT !.state = s]]
      PROVE  /\ job'[p].createdAt # 0 /\ job'[p].target = job[p].target /\ Ordered(p)
             /\ \A q \in Pools \ {p} : job'[q] = job[q]
  <2>1. ex.copy[p].createdAt # 0 /\ Ordered(p) /\ ex.copy[p].target = job[p].target
    BY Zenon, <1>0 DEF JobInv, OrderInv
  <2>2. job'[p].createdAt = ex.copy[p].createdAt /\ job'[p].target = ex.copy[p].target
    BY Zenon, <1>0, <1>1 DEF Job
  <2>3. \A q \in Pools \ {p} : job'[q] = job[q]
    BY Zenon, <1>0, <1>1
  <2> QED
    BY Zenon, <2>1, <2>2, <2>3
<1>2. UNCHANGED job \/ \E p \in ex.batch, s \in JobStates : job' = [job EXCEPT ![p] = [ex.copy[p] EXCEPT !.state = s]]
  <2>1. CASE ~PassStep
    BY Zenon, <2>1, NodeSteps DEF NodeStep
  <2>2. ASSUME NEW p \in Pools, SkipJob(p) \/ StartJob(p)
        PROVE  UNCHANGED job \/ \E s \in JobStates : job' = [job EXCEPT ![p] = [ex.copy[p] EXCEPT !.state = s]] /\ p \in ex.batch
    BY Zenon, <2>2 DEF SkipJob, StartJob, NextJob, JobStates
  <2>3. CASE finish
    <3>1. ex.pool \in ex.batch /\ {"DONE", "FAILED"} \subseteq JobStates
      BY Zenon, <1>0, <2>3 DEF finish, JobInv, JobStates
    <3> QED
      BY Zenon, <2>3, <3>1 DEF finish
  <2> QED
    BY Zenon, <2>1, <2>2, <2>3 DEF PassStep, RunOnce, PassOver, ReadPool, ListNodes, PoolConverged, OverBudget
<1>3. \A p \in Pools : /\ Ordered(p)' <=> Ordered(p)
                       /\ Ordered(p) => job'[p].target = job[p].target
  BY Zenon, <1>0, <1>1, <1>2 DEF Ordered
<1>4. \A p \in Pools : ex'.copy[p].createdAt # 0 => Ordered(p) /\ ex'.copy[p].target = job[p].target
  <2>1. CASE ~PassStep
    BY Zenon, <2>1, NodeSteps DEF NodeStep, OrderInv
  <2>2. CASE ReadPool \/ ListNodes \/ PoolConverged \/ \E n \in Nodes : OverBudget(n)
    BY Zenon, <2>2, PoolSteps DEF OrderInv
  <2>3. CASE RunOnce
    <3>1. ex'.copy = job
      BY Zenon, <1>0, <2>3 DEF RunOnce, Executor
    <3> QED
      BY Zenon, <3>1 DEF Ordered
  <2>4. CASE PassOver
    <3>1. ex'.copy = [p \in Pools |-> NoJob] /\ NoJob.createdAt = 0
      BY Zenon, <2>4 DEF PassOver, ExIdle, NoJob
    <3> QED
      BY Zenon, <3>1
  <2>5. ASSUME finish \/ \E p \in Pools : SkipJob(p) \/ StartJob(p) PROVE ex'.copy = ex.copy
    BY Zenon, <1>0, <2>5 DEF finish, SkipJob, StartJob, ExIdle, Executor
  <2> QED
    BY Zenon, <2>1, <2>2, <2>3, <2>4, <2>5 DEF PassStep, OrderInv
<1>5. ex'.pc \in Aiming => ex'.pool = ex.pool /\ ex.pool \in Pools /\ Ordered(ex.pool) /\ ex'.target = job[ex.pool].target
  <2> SUFFICES ASSUME ex'.pc \in Aiming
               PROVE  ex'.pool = ex.pool /\ ex.pool \in Pools /\ Ordered(ex.pool) /\ ex'.target = job[ex.pool].target
    BY Zenon
  <2>0. ASSUME ex.pc \notin Between PROVE ex.pool \in Pools /\ Ordered(ex.pool)
    BY Zenon, <1>0, <2>0 DEF JobInv, Ordered
  <2>1. CASE ~PassStep
    <3>1. ex'.pool = ex.pool /\ ex.pc \in Aiming
      BY Zenon, <2>1, NodeSteps DEF NodeStep, Aiming
    <3>2. ~ReadPool /\ ex.pc \notin Between /\ ex'.pc \notin Between
      BY Zenon, <2>1, <3>1 DEF PassStep, Aiming, Working
    <3> QED
      BY Zenon, <2>0, <3>1, <3>2, TargetKept DEF OrderInv
  <2>2. CASE ListNodes \/ PoolConverged \/ \E n \in Nodes : OverBudget(n)
    <3>1. ex'.pool = ex.pool /\ ex.pc \in {"list", "node"}
      BY Zenon, <2>2, PoolSteps DEF ListNodes, PoolConverged, OverBudget, NextNode
    <3>2. ~ReadPool /\ ex.pc \notin Between /\ ex'.pc \notin Between
      BY Zenon, <3>1 DEF ReadPool, Aiming, Working
    <3> QED
      BY Zenon, <2>0, <3>1, <3>2, TargetKept DEF OrderInv, Aiming
  <2>3. CASE ReadPool
    <3>1. ex.pc = "pool" /\ ex'.pool = ex.pool
      BY Zenon, <2>3, PoolSteps DEF ReadPool
    <3>2. ex'.target = targetVersion(ex.pool)
      BY Zenon, <1>0, <2>3 DEF ReadPool, Executor, Aiming, Working
    <3> QED
      BY Zenon, <2>0, <3>1, <3>2 DEF targetVersion, OrderInv
  <2>4. CASE RunOnce \/ PassOver \/ finish \/ \E p \in Pools : SkipJob(p) \/ StartJob(p)
    <3>1. ex'.pc \in Between \cup {"pool"}
      BY Zenon, <1>0, <2>4, IdleFacts DEF RunOnce, PassOver, finish, SkipJob, StartJob, NextJob, Executor
    <3> QED
      BY Zenon, <3>1 DEF Aiming, Working
  <2> QED
    BY Zenon, <2>1, <2>2, <2>3, <2>4 DEF PassStep
<1>6. \A p \in Pools : Ordered(p)' => /\ \A i \in 1..MaxJobs : req'[i].stage = "over"
                                     /\ pool'[p].desired = job'[p].target
                                     /\ job'[p].target # NoVersion
  BY Zenon, <1>0, <1>3 DEF OrderInv
<1>7. \A p \in Pools : ex'.copy[p].createdAt # 0 => Ordered(p)' /\ ex'.copy[p].target = job'[p].target
  BY Zenon, <1>3, <1>4
<1>8. ex'.pc \in Aiming => ex'.target = job'[ex'.pool].target
  BY Zenon, <1>3, <1>5
<1> QED
  BY Zenon, <1>0, <1>3, <1>6, <1>7, <1>8 DEF OrderInv

\* Without other requests the API only serves CreateRollout.
LEMMA ApiOnce ==
    ASSUME MaxEdits = 0, TypeInv, Api, ~CreateK8sRollout
    PROVE  \E i \in 1..MaxJobs : \/ \E p \in Pools, v \in Versions : CreateRollout(i, p, v)
                                 \/ SetDesired(i)
                                 \/ PutJob(i)
<1>1. ~Edit
  BY DEF TypeInv, TypeOK, Edit
<1> QED
  BY Zenon, <1>1 DEF Api, setRolloutsEnabled, SetClusterVersions, SetNodePoolVersion, setPaused, bind

\* The only request orders the only job: its pool has the version before the job is there,
\* and keeps both.
LEMMA ApiOrders ==
    ASSUME MaxJobs = 1, MaxEdits = 0, TypeInv, JobInv, OrderInv, Api, ~CreateK8sRollout
    PROVE  OrderInv' /\ \A p \in Pools : Ordered(p) => job'[p] = job[p]
<1>0. /\ job \in [Pools -> Job] /\ req \in [1..MaxJobs -> Request] /\ created \in Nat
      /\ pool \in [Pools -> [members : SUBSET Nodes, desired : MaybeVersion, paused : BOOLEAN]]
  BY BoundsAssumption DEF TypeInv, TypeOK
<1>1. PICK i \in 1..MaxJobs : \/ \E p \in Pools, v \in Versions : CreateRollout(i, p, v)
                              \/ SetDesired(i)
                              \/ PutJob(i)
  BY Zenon, ApiOnce
<1>2. \A j \in 1..MaxJobs : j = i
  BY <1>1
<1>3. UNCHANGED ex
  BY Zenon, <1>1 DEF CreateRollout, SetDesired, PutJob, ReqRest
<1>4. \A p \in Pools : ~Ordered(p)
  <2>1. req[i].stage # "over"
    BY Zenon, <1>1 DEF CreateRollout, SetDesired, PutJob
  <2> QED
    BY Zenon, <1>1, <2>1 DEF OrderInv
<1>5. ex.pc \notin Aiming /\ \A p \in Pools : ex.copy[p].createdAt = 0
  <2>1. ex.pc \in Between
    BY Zenon, <1>4 DEF JobInv, Ordered, TypeInv, Located
  <2> QED
    BY Zenon, <1>4, <2>1 DEF OrderInv, Aiming, Working
<1>6. ASSUME NEW p \in Pools, NEW v \in Versions, CreateRollout(i, p, v) PROVE OrderInv'
  <2>1. req'[i].stage = "checked" /\ req'[i].pool = p /\ req'[i].target = v /\ v # NoVersion
    BY Zenon, <1>0, <1>6, VersionsAssumption DEF CreateRollout
  <2>2. \A q \in Pools : ~Ordered(q)'
    BY Zenon, <1>4, <1>6 DEF CreateRollout, Ordered
  <2> QED
    BY Zenon, <1>2, <1>3, <1>5, <2>1, <2>2 DEF OrderInv
<1>7. CASE SetDesired(i)
  <2>1. req[i].pool \in Pools /\ req[i].target # NoVersion
    BY Zenon, <1>1, <1>7 DEF SetDesired, OrderInv
  <2>2. /\ req'[i].stage = "desired" /\ req'[i].pool = req[i].pool /\ req'[i].target = req[i].target
        /\ pool'[req[i].pool].desired = req[i].target
    BY Zenon, <1>0, <1>7, <2>1 DEF SetDesired, Request
  <2>3. \A q \in Pools : ~Ordered(q)'
    BY Zenon, <1>4, <1>7 DEF SetDesired, Ordered
  <2>4. \A j \in 1..MaxJobs : /\ req'[j].pool \in Pools /\ req'[j].target # NoVersion
                              /\ pool'[req'[j].pool].desired = req'[j].target
    BY Zenon, <1>2, <2>1, <2>2
  <2>5. ex'.pc \notin Aiming /\ \A p \in Pools : ex'.copy[p].createdAt = 0
    BY Zenon, <1>3, <1>5
  <2> QED
    BY Zenon, <1>4, <2>3, <2>4, <2>5 DEF OrderInv
<1>8. CASE PutJob(i)
  <2>1. req[i].pool \in Pools /\ req[i].target # NoVersion /\ pool[req[i].pool].desired = req[i].target
    BY Zenon, <1>1, <1>8 DEF PutJob, OrderInv
  <2>2. req'[i].stage = "over" /\ job'[req[i].pool].target = req[i].target /\ UNCHANGED pool
    BY Zenon, <1>0, <1>8, <2>1 DEF PutJob, Request
  <2>3. \A q \in Pools \ {req[i].pool} : ~Ordered(q)'
    BY Zenon, <1>0, <1>4, <1>8 DEF PutJob, Ordered
  <2>4. \A j \in 1..MaxJobs : req'[j].stage = "over" /\ req'[j].stage \notin {"checked", "desired"}
    BY Zenon, <1>2, <2>2
  <2>5. ex'.pc \notin Aiming /\ \A p \in Pools : ex'.copy[p].createdAt = 0
    BY Zenon, <1>3, <1>5
  <2>6. \A q \in Pools : Ordered(q)' => pool'[q].desired = job'[q].target /\ job'[q].target # NoVersion
    BY Zenon, <2>1, <2>2, <2>3
  <2> QED
    BY Zenon, <1>4, <2>4, <2>5, <2>6 DEF OrderInv
<1> QED
  BY Zenon, <1>1, <1>4, <1>6, <1>7, <1>8

\* Other steps order nothing; a restart forgets requests and copies.
LEMMA OthersOrder ==
    ASSUME TypeInv, OrderInv,
           ExecK8s \/ CreateK8sRollout \/ Env \/ Crash \/ Sigterm \/ Exit \/ UNCHANGED vars
    PROVE  OrderInv' /\ UNCHANGED <<job, pool>>
<1>1. CASE CreateK8sRollout \/ Env \/ Sigterm \/ UNCHANGED vars
  <2>1. UNCHANGED <<job, pool, req, ex>>
    BY Zenon, <1>1 DEF CreateK8sRollout, Env, Reboot, Boot, Rollback, PowerLoss, Leave, ReportStatus, EnvRest,
       Sigterm, vars, storeVars
  <2> QED
    BY Zenon, <2>1 DEF OrderInv, Ordered
<1>2. CASE Crash \/ Exit
  <2>1. UNCHANGED <<job, pool>> /\ Restart
    BY Zenon, <1>2 DEF Crash, Exit, Restart, storeVars
  <2>2. ex'.pc = "idle" /\ \A p \in Pools : ex'.copy[p].createdAt = 0
    BY Zenon, <2>1 DEF Restart, ExIdle, NoJob
  <2>3. \A i \in 1..MaxJobs : /\ req'[i].stage \in {"none", "over"}
                              /\ req[i].stage = "over" => req'[i].stage = "over"
    BY Zenon, <2>1 DEF Restart, NoRequest
  <2>4. ex'.pc \notin Aiming
    BY Zenon, <2>2 DEF Aiming, Working
  <2>5. \A p \in Pools : Ordered(p)' => Ordered(p)
    BY Zenon, <2>1 DEF Ordered
  <2> QED
    BY Zenon, <2>1, <2>2, <2>3, <2>4, <2>5 DEF OrderInv
<1>3. CASE ExecK8s
  <2>1. UNCHANGED <<job, pool, req>> /\ K8sMove
    BY Zenon, <1>3, K8sFacts DEF TypeInv
  <2>2. ex'.pc \notin Aiming /\ ex'.copy = ex.copy
    BY Zenon, <2>1 DEF K8sMove, Aiming, Working
  <2> QED
    BY Zenon, <2>1, <2>2 DEF OrderInv, Ordered
<1> QED
  BY Zenon, <1>1, <1>2, <1>3

\* Every step keeps the order.
LEMMA OrderStep ==
    ASSUME MaxJobs = 1, MaxEdits = 0, TypeInv, JobInv, OrderInv, [Next]_vars
    PROVE  /\ OrderInv'
           /\ \A p \in Pools : Ordered(p) => Ordered(p)' /\ job'[p].target = job[p].target
<1>1. CASE Exec
  BY Zenon, <1>1, ExecOrders
<1>2. CASE Api /\ ~CreateK8sRollout
  BY Zenon, <1>2, ApiOrders DEF Ordered
<1>3. CASE ~Exec /\ (~Api \/ CreateK8sRollout)
  BY Zenon, <1>3, OthersOrder DEF Next, Ordered
<1> QED
  BY Zenon, <1>1, <1>2, <1>3

\* The versions agree from the start.
LEMMA OrderInvariance == ASSUME MaxJobs = 1, MaxEdits = 0 PROVE Spec => []OrderInv
<1>1. Init => OrderInv
  <2> SUFFICES ASSUME Init PROVE OrderInv
    OBVIOUS
  <2>1. /\ \A p \in Pools : job[p].createdAt = 0 /\ ex.copy[p].createdAt = 0
        /\ \A i \in 1..MaxJobs : req[i].stage = "none"
        /\ ex.pc = "idle"
    BY Zenon DEF Init, ExIdle, NoJob, NoRequest
  <2> QED
    BY Zenon, <2>1 DEF OrderInv, Ordered, Aiming, Working
<1>2. TypeInv /\ JobInv /\ OrderInv /\ [Next]_vars => OrderInv'
  BY Zenon, OrderStep
<1> QED
  BY <1>1, <1>2, TypeInvariance, JobInvariance, PTL DEF Spec

\* There is one version to aim at.
LEMMA OneVersion ==
    ASSUME MaxJobs = 1, TypeInv, JobInv, NEW v, NEW w, Aimed(v), Aimed(w)
    PROVE  v = w
<1>1. PICK p \in Pools : Ordered(p) /\ job[p].target = v
  BY Zenon DEF Aimed
<1>2. PICK q \in Pools : Ordered(q) /\ job[q].target = w
  BY Zenon DEF Aimed
<1>3. job[p].createdAt = 1 /\ job[q].createdAt = 1
  BY <1>1, <1>2 DEF TypeInv, TypeOK, Job, Ordered
<1> QED
  <2>1. 1 \in Times(p) /\ 1 \in Times(q) /\ 1 \notin {0}
    BY <1>3 DEF Times
  <2>2. p = q
    BY Zenon, <2>1 DEF JobInv
  <2> QED
    BY Zenon, <1>1, <1>2, <2>2

\* A step keeps what is aimed at.
LEMMA AimKept ==
    ASSUME MaxJobs = 1, MaxEdits = 0, TypeInv, JobInv, OrderInv, [Next]_vars, NEW v, Aimed(v)
    PROVE  \E p \in Pools : Ordered(p)' /\ job'[p].target = v
BY Zenon, OrderStep DEF Aimed

\* The executor aims at the target of a job.
LEMMA TargetAimed ==
    ASSUME TypeInv, JobInv, OrderInv, ex.pc \in Aiming
    PROVE  ex.pool \in Pools /\ Ordered(ex.pool) /\ ex.target = job[ex.pool].target /\ Aimed(ex.target)
<1>1. ex.pc \notin Between
  BY Zenon DEF Aiming, Working
<1>2. ex.pool \in Pools /\ Ordered(ex.pool)
  BY Zenon, <1>1 DEF TypeInv, Located, JobInv, Ordered
<1> QED
  BY Zenon, <1>2 DEF OrderInv, Aimed

\* A node at the version of the job stays there: all it can be sent is the same version.
LEMMA VersionKept ==
    ASSUME MaxJobs = 1, TypeInv, JobInv, VersionInv, [Next]_vars, NEW n \in Nodes, NEW v, Aimed(v),
           live[n].ver = v
    PROVE  live'[n].ver = v
BY Zenon, LiveSteps, OneVersion DEF VersionInv

\* The executor gets to Uncordon only by seeing the node at the target.
LEMMA HealthySteps ==
    ASSUME TypeInv, Exec, ~PassStep, ex'.pc \in {"uncordon", "markDone"}
    PROVE  /\ ex.node \in Nodes /\ ex'.node = ex.node /\ ex'.target = ex.target
           /\ live[ex.node].ver = ex.target \/ ex.pc = "uncordon"
<1>0. ex \in Executor /\ (ex.pc \in Working => ex.node \in Nodes)
  BY Zenon DEF TypeInv, TypeOK, Located
<1>1. ASSUME NEW pc, Goto(pc) PROVE ex'.pc = pc /\ ex'.node = ex.node /\ ex'.target = ex.target
  BY Zenon, <1>0, <1>1 DEF Goto, Executor
<1>2. ASSUME NEW n, fail(n) PROVE FALSE
  BY Zenon, <1>0, <1>2 DEF fail, Executor
<1>3. ASSUME NEW n \in Nodes, ResumeNode(n) \/ VersionFails(n) \/ AtTarget(n) \/ StartNode(n) PROVE FALSE
  <2>1. \/ ex' = [ex EXCEPT !.pc = "polling", !.node = n]
        \/ \E pc \in {"snapshot", "drain"} : ex' = [ex EXCEPT !.node = n, !.pc = pc]
        \/ ex' = [ex EXCEPT !.todo = @ \ {n}] /\ ex.pc = "node"
    BY Zenon, <1>2, <1>3 DEF ResumeNode, VersionFails, AtTarget, StartNode, NextNode
  <2> QED
    BY Zenon, <1>0, <2>1 DEF Executor
<1>4. ~MarkDone
  BY Zenon, <1>0 DEF MarkDone, Executor
<1>5. ~SnapshotOpen /\ ~SnapshotCopied /\ ~MarkDraining /\ ~Cordon /\ ~DrainDone /\ ~MarkWaiting
  BY <1>1 DEF SnapshotOpen, SnapshotCopied, MarkDraining, Cordon, DrainDone, MarkWaiting
<1>6. ~UpgradeOS /\ ~CallFails
  BY <1>1, <1>2 DEF UpgradeOS, CallFails
<1>7. Healthy \/ Uncordon
  BY Zenon, <1>3, <1>4, <1>5, <1>6, ExecSteps
<1>8. ex.pc \in {"polling", "uncordon"} /\ \E pc : Goto(pc)
  BY Zenon, <1>7 DEF Healthy, Uncordon
<1> QED
  BY Zenon, <1>0, <1>1, <1>7, <1>8 DEF Healthy, Uncordon, Working

\* So every step keeps the records true: a boot can only bring the version of the job.
LEMMA VersionInvariance == ASSUME MaxJobs = 1, MaxEdits = 0 PROVE Spec => []VersionInv
<1>1. Init => VersionInv
  <2> SUFFICES ASSUME Init PROVE VersionInv
    OBVIOUS
  <2>1. ex.pc = "idle" /\ \A n \in Nodes : live[n].next = NoVersion /\ mr[n].state = "IDLE"
    BY Zenon DEF Init, ExIdle
  <2> QED
    BY Zenon, <2>1 DEF VersionInv, DoneAtTarget
<1>2. TypeInv /\ JobInv /\ OrderInv /\ VersionInv /\ [Next]_vars => VersionInv'
  <2> SUFFICES ASSUME TypeInv, JobInv, OrderInv, VersionInv, [Next]_vars PROVE VersionInv'
    OBVIOUS
  <2>1. ASSUME NEW n \in Nodes, live'[n].next # NoVersion
        PROVE  \E p \in Pools : Ordered(p)' /\ job'[p].target = live'[n].next
    <3>1. CASE ex.pc = "upgrade" /\ live'[n].next = ex.target
      <4>1. ex.pc \in Aiming
        BY Zenon, <3>1 DEF Aiming, Working
      <4> QED
        BY Zenon, <3>1, <4>1, TargetAimed, AimKept
    <3>2. CASE live'[n].next = live[n].next
      BY Zenon, <2>1, <3>2, AimKept DEF VersionInv
    <3> QED
      BY Zenon, <2>1, <3>1, <3>2, LiveSteps
  <2>2. ASSUME Exec /\ ~PassStep
        PROVE  ex.pc \in Aiming /\ Aimed(ex.target)
    BY Zenon, <2>2, NodeSteps, TargetAimed DEF NodeStep, Aiming
  <2>3. ASSUME ~Exec \/ PassStep
        PROVE  UNCHANGED mr /\ (UNCHANGED ex \/ ex'.pc \in Between \cup {"pool", "list", "node", "finish"})
    <3>1. CASE PassStep
      BY Zenon, <3>1, PassFacts DEF TypeInv
    <3>2. CASE ~Exec
      BY Zenon, <3>2, OthersKeep, IdleFacts DEF Next, K8sMove
    <3> QED
      BY Zenon, <2>3, <3>1, <3>2
  <2>4. ASSUME NEW n \in Nodes, mr'[n].state = "DONE"
        PROVE  /\ \E p \in Pools : Ordered(p)' /\ job'[p].target = mr'[n].target
               /\ live'[n].ver = mr'[n].target
    <3>1. CASE mr'[n] = mr[n]
      <4>1. Aimed(mr[n].target) /\ live[n].ver = mr[n].target
        BY Zenon, <2>4, <3>1 DEF VersionInv, DoneAtTarget
      <4>2. \E p \in Pools : Ordered(p)' /\ job'[p].target = mr[n].target
        BY Zenon, <4>1, AimKept
      <4>3. live'[n].ver = mr[n].target
        BY Zenon, <4>1, VersionKept
      <4> QED
        BY Zenon, <3>1, <4>2, <4>3
    <3>2. CASE Exec /\ ~PassStep /\ DoneNow(n) /\ mr'[n].target = ex.target
      BY Zenon, <2>2, <3>2, AimKept DEF DoneNow, VersionInv
    <3> QED
      BY Zenon, <2>3, <2>4, <3>1, <3>2, DoneSteps
  <2>5. ASSUME ex'.pc \in {"uncordon", "markDone"} PROVE live'[ex'.node].ver = ex'.target
    <3>1. CASE UNCHANGED ex
      <4>1. ex.pc \in Aiming /\ ex.node \in Nodes /\ live[ex.node].ver = ex.target
        BY Zenon, <2>5, <3>1 DEF VersionInv, Aiming, Working, TypeInv, Located
      <4> QED
        BY Zenon, <3>1, <4>1, TargetAimed, VersionKept
    <3>2. CASE Exec /\ ~PassStep
      <4>1. /\ ex'.node = ex.node /\ ex.node \in Nodes /\ ex'.target = ex.target
            /\ live[ex.node].ver = ex.target
        BY Zenon, <2>5, <3>2, HealthySteps DEF VersionInv
      <4> QED
        BY Zenon, <2>2, <3>2, <4>1, VersionKept
    <3> QED
      BY Zenon, <2>3, <2>5, <3>1, <3>2
  <2> QED
    BY Zenon, <2>1, <2>4, <2>5 DEF VersionInv, DoneAtTarget, Aimed
<1> QED
  BY <1>1, <1>2, TypeInvariance, JobInvariance, OrderInvariance, PTL DEF Spec

\* One job, whatever its nodes and the process go through: a node that is recorded DONE
\* runs the version the record names.
THEOREM AtTargetWhenDone ==
    ASSUME MaxJobs = 1, MaxEdits = 0
    PROVE  Spec => []DoneAtTarget
<1>1. VersionInv => DoneAtTarget
  BY Zenon DEF VersionInv
<1> QED
  BY <1>1, VersionInvariance, PTL

-----------------------------------------------------------------------------
(* ConvergedUnlessDeferred: the pool of a DONE job runs its target.        *)

\* Nobody binds a node without a request.
LEMMA PoolsKept ==
    ASSUME MaxEdits = 0, TypeInv, OrderInv, [Next]_vars, NEW p \in Pools
    PROVE  pool'[p].members = pool[p].members
<1>0. pool \in [Pools -> [members : SUBSET Nodes, desired : MaybeVersion, paused : BOOLEAN]]
  BY Zenon DEF TypeInv, TypeOK
<1>1. CASE UNCHANGED pool
  BY Zenon, <1>1
<1>2. ASSUME NEW i \in 1..MaxJobs, SetDesired(i)
      PROVE  pool'[p].members = pool[p].members
  BY Zenon, <1>0, <1>2 DEF SetDesired
<1>3. CASE Exec
  BY Zenon, <1>1, <1>3, ExecLeaves
<1>4. CASE Api /\ ~CreateK8sRollout
  BY Zenon, <1>1, <1>2, <1>4, ApiOnce DEF CreateRollout, PutJob
<1>5. CASE ~Exec /\ (~Api \/ CreateK8sRollout)
  BY Zenon, <1>1, <1>5, OthersOrder DEF Next
<1> QED
  BY Zenon, <1>3, <1>4, <1>5

\* The executor tells the caller DONE when the loop has come to its end.
LEMMA PoolOutcome ==
    ASSUME TypeInv, PassStep
    PROVE  /\ ex'.pc = "finish" /\ ex'.outcome \notin {"DEFERRED", "FAILED"} => ex.pc = "node" /\ ex.todo = {} /\ ex'.pool = ex.pool
           /\ ex'.pc \in Aiming => /\ ex'.pool = ex.pool /\ ex.pool \in Pools
                                   /\ \/ ex'.todo = pool[ex.pool].members
                                      \/ ex.pc \in Aiming /\ ex'.todo = ex.todo /\ ex'.target = ex.target
<1>0. ex \in Executor /\ (ex.pc \notin Between => ex.pool \in Pools)
  BY Zenon DEF TypeInv, TypeOK, Located
<1>1. CASE RunOnce \/ PassOver \/ finish \/ \E p \in Pools : SkipJob(p) \/ StartJob(p)
  <2>1. ex'.pc \in Between \cup {"pool"}
    BY Zenon, <1>0, <1>1, IdleFacts DEF RunOnce, PassOver, finish, SkipJob, StartJob, NextJob, Executor
  <2> QED
    BY Zenon, <2>1 DEF Aiming, Working
<1>2. CASE ReadPool
  <2>1. ex.pc = "pool" /\ ex.pool \in Pools
    BY Zenon, <1>0, <1>2 DEF ReadPool
  <2>2. \/ \E o \in {"DEFERRED", "FAILED"} : ex' = [ex EXCEPT !.pc = "finish", !.outcome = o]
        \/ \E t : ex' = [ex EXCEPT !.pc = "list", !.target = t, !.members = pool[ex.pool].members,
                                   !.todo = pool[ex.pool].members]
    BY Zenon, <1>2, <2>1 DEF ReadPool
  <2>3. ASSUME NEW o \in {"DEFERRED", "FAILED"}, ex' = [ex EXCEPT !.pc = "finish", !.outcome = o]
        PROVE  ex'.outcome \in {"DEFERRED", "FAILED"} /\ ex'.pc \notin Aiming
    BY Zenon, <1>0, <2>3 DEF Executor, Aiming, Working
  <2>4. ASSUME NEW t, ex' = [ex EXCEPT !.pc = "list", !.target = t, !.members = pool[ex.pool].members,
                                       !.todo = pool[ex.pool].members]
        PROVE  ex'.pc = "list" /\ ex'.pool = ex.pool /\ ex'.todo = pool[ex.pool].members
    BY Zenon, <1>0, <2>4 DEF Executor
  <2> QED
    BY Zenon, <2>1, <2>2, <2>3, <2>4
<1>3. CASE ListNodes
  <2>1. ex.pc = "list" /\ ex.pool \in Pools
    BY Zenon, <1>0, <1>3 DEF ListNodes
  <2>2. \/ ex' = [ex EXCEPT !.pc = "finish", !.outcome = "FAILED"]
        \/ \E l, r : ex' = [ex EXCEPT !.pc = "node", !.listed = l, !.ready = r]
    BY Zenon, <1>3 DEF ListNodes
  <2>3. CASE ex' = [ex EXCEPT !.pc = "finish", !.outcome = "FAILED"]
    BY Zenon, <1>0, <2>3 DEF Executor, Aiming, Working
  <2>4. ASSUME NEW l, NEW r, ex' = [ex EXCEPT !.pc = "node", !.listed = l, !.ready = r]
        PROVE  ex'.pc = "node" /\ ex'.pool = ex.pool /\ ex'.todo = ex.todo /\ ex'.target = ex.target
    BY Zenon, <1>0, <2>4 DEF Executor
  <2> QED
    BY Zenon, <2>1, <2>2, <2>3, <2>4 DEF Aiming
<1>4. CASE PoolConverged
  BY Zenon, <1>0, <1>4 DEF PoolConverged, Executor, Aiming, Working
<1>5. ASSUME NEW n \in Nodes, OverBudget(n)
      PROVE  ex'.outcome = "DEFERRED" /\ ex'.pc \notin Aiming
  BY Zenon, <1>0, <1>5 DEF OverBudget, Executor, Aiming, Working
<1> QED
  BY Zenon, <1>1, <1>2, <1>3, <1>4, <1>5 DEF PassStep

\* A step on a node never ends the pass well.
LEMMA FailOutcome ==
    ASSUME TypeInv, Exec, ~PassStep, ex'.pc = "finish"
    PROVE  ex'.outcome = "FAILED"
<1>0. ex \in Executor /\ (ex.pc \notin Between => ex.pool \in Pools)
  BY Zenon DEF TypeInv, TypeOK, Located
<1>1. ASSUME NEW pc, Goto(pc) PROVE ex'.pc = pc
  BY Zenon, <1>0, <1>1 DEF Goto, Executor
<1>2. ASSUME NEW n, fail(n) PROVE ex'.outcome = "FAILED"
  BY Zenon, <1>0, <1>2 DEF fail, Executor
<1>3. ASSUME NEW n \in Nodes, ResumeNode(n) \/ VersionFails(n) \/ AtTarget(n) \/ StartNode(n)
      PROVE  ex'.outcome = "FAILED"
  <2>1. \/ fail(n)
        \/ ex' = [ex EXCEPT !.pc = "polling", !.node = n]
        \/ \E pc \in {"snapshot", "drain"} : ex' = [ex EXCEPT !.node = n, !.pc = pc]
        \/ ex' = [ex EXCEPT !.todo = @ \ {n}] /\ ex.pc = "node"
    BY Zenon, <1>3 DEF ResumeNode, VersionFails, AtTarget, StartNode, NextNode
  <2>2. ex'.pc \notin {"polling", "snapshot", "drain", "node"}
    OBVIOUS
  <2> QED
    BY Zenon, <1>0, <1>2, <2>1, <2>2 DEF Executor
<1>4. ~MarkDone
  BY Zenon, <1>0 DEF MarkDone, Executor
<1>5. ~SnapshotOpen /\ ~SnapshotCopied /\ ~MarkDraining /\ ~Cordon /\ ~DrainDone /\ ~MarkWaiting
      /\ ~Healthy /\ ~Uncordon
  BY Zenon, <1>1 DEF SnapshotOpen, SnapshotCopied, MarkDraining, Cordon, DrainDone, MarkWaiting, Healthy, Uncordon
<1>6. UpgradeOS \/ CallFails => fail(ex.node)
  BY Zenon, <1>1 DEF UpgradeOS, CallFails
<1> QED
  BY Zenon, <1>2, <1>3, <1>4, <1>5, <1>6, ExecSteps

\* Only finish records that a pool was put off.
LEMMA DeferredKept == Exec => finish \/ UNCHANGED deferred
BY Zenon DEF Exec, RunOnce, PassOver, SkipJob, StartJob, ReadPool, ListNodes, PoolConverged,
   ResumeNode, VersionFails, AtTarget, OverBudget, StartNode, SnapshotOpen, SnapshotCopied,
   MarkDraining, Cordon, DrainDone, UpgradeOS, MarkWaiting, Healthy, Uncordon, MarkDone,
   CallFails, fail, histVars

\* A job becomes DONE when the pass over its pool has ended well or was put off.
LEMMA DoneJobs ==
    ASSUME TypeInv, JobInv, [Next]_vars, NEW p \in Pools, job'[p].state = "DONE"
    PROVE  \/ job'[p] = job[p] /\ (p \in deferred => p \in deferred')
           \/ /\ p = ex.pool /\ ex.pc = "finish"
              /\ ex.outcome \notin {"DEFERRED", "FAILED"} \/ p \in deferred'
<1>0. ex \in Executor /\ job \in [Pools -> Job] /\ ex.copy \in [Pools -> Job]
  BY Zenon DEF TypeInv, TypeOK, Executor
<1>a. Exec /\ ~finish => UNCHANGED deferred
  BY Zenon, DeferredKept
<1>1. CASE Exec /\ ~PassStep
  BY Zenon, <1>a, <1>1, NodeSteps DEF NodeStep, PassStep
<1>2. CASE PassStep
  <2>1. CASE finish
    <3>1. ex.pc = "finish" /\ ex.pool \in Pools
      BY Zenon, <2>1 DEF finish, TypeInv, Located
    <3>2. /\ ex.outcome = "FAILED" => job'[ex.pool].state = "FAILED"
          /\ \A q \in Pools \ {ex.pool} : job'[q] = job[q]
      BY Zenon, <1>0, <2>1, <3>1 DEF finish, Job
    <3>3. /\ ex.outcome = "DEFERRED" => ex.pool \in deferred'
          /\ \A q \in Pools \ {ex.pool} : q \in deferred => q \in deferred'
      BY Zenon, <2>1 DEF finish
    <3> QED
      BY Zenon, <3>1, <3>2, <3>3
  <2>2. ASSUME NEW q \in Pools, StartJob(q) PROVE job'[p] = job[p]
    <3>1. job'[q].state = "RUNNING" /\ \A r \in Pools \ {q} : job'[r] = job[r]
      BY Zenon, <1>0, <2>2 DEF StartJob, Job
    <3> QED
      BY Zenon, <3>1
  <2>3. ASSUME NEW q \in Pools, SkipJob(q) PROVE UNCHANGED job
    BY Zenon, <2>3 DEF SkipJob
  <2>4. ASSUME RunOnce \/ PassOver \/ ReadPool \/ ListNodes \/ PoolConverged \/ \E n \in Nodes : OverBudget(n)
        PROVE  UNCHANGED job
    BY Zenon, <2>4 DEF RunOnce, PassOver, ReadPool, ListNodes, PoolConverged, OverBudget
  <2>5. Exec
    BY Zenon, <1>2 DEF PassStep, Exec
  <2>6. CASE ~finish
    BY Zenon, <1>2, <1>a, <2>2, <2>3, <2>4, <2>5, <2>6 DEF PassStep
  <2> QED
    BY Zenon, <2>1, <2>6
<1>3. CASE ~Exec
  <2>1. ASSUME NEW i \in 1..MaxJobs, PutJob(i) PROVE job'[p] = job[p]
    BY Zenon, <2>1, PutJobs
  <2>2. UNCHANGED deferred
    BY Zenon, <1>3, OthersKeep DEF Next, histVars
  <2>3. job'[p] = job[p]
    BY Zenon, <1>3, <2>1, OthersJobs DEF Next
  <2> QED
    BY Zenon, <2>2, <2>3
<1> QED
  BY Zenon, <1>1, <1>2, <1>3

\* Every step keeps the pool of the job that is run, and of those that are DONE, converging.
LEMMA ConvergeStep ==
    ASSUME MaxJobs = 1, MaxEdits = 0, TypeInv, JobInv, OrderInv, VersionInv, ConvergeInv, [Next]_vars
    PROVE  ConvergeInv'
<1>0. \A p \in Pools : pool'[p].members = pool[p].members /\ pool[p].members \subseteq Nodes
  BY Zenon, PoolsKept DEF TypeInv, TypeOK
\* What is at the target of its job stays there.
<1>1. ASSUME NEW p \in Pools, NEW n \in Nodes, Ordered(p), live[n].ver = job[p].target
      PROVE  live'[n].ver = job[p].target
  BY Zenon, <1>1, VersionKept DEF Aimed
<1>2. ASSUME ex.pc \in Aiming, NEW n \in Nodes, live[n].ver = ex.target
      PROVE  live'[n].ver = ex.target
  BY Zenon, <1>1, <1>2, TargetAimed
\* The loop: the members it has left behind are at the target.
<1>3. ASSUME ex'.pc \in Aiming, NEW n \in pool'[ex'.pool].members, n \notin ex'.todo
      PROVE  live'[n].ver = ex'.target
  <2>1. CASE UNCHANGED ex
    <3>1. ex.pc \in Aiming /\ ex.pool \in Pools
      BY Zenon, <1>3, <2>1, TargetAimed
    <3>2. n \in pool[ex.pool].members \ ex.todo /\ n \in Nodes
      BY Zenon, <1>0, <1>3, <2>1, <3>1
    <3>3. live[n].ver = ex.target
      BY Zenon, <3>1, <3>2 DEF ConvergeInv
    <3> QED
      BY Zenon, <1>2, <2>1, <3>1, <3>2, <3>3
  <2>2. CASE PassStep
    <3>1. /\ ex'.pool = ex.pool /\ ex.pool \in Pools
          /\ \/ ex'.todo = pool[ex.pool].members
             \/ ex.pc \in Aiming /\ ex'.todo = ex.todo /\ ex'.target = ex.target
      BY Zenon, <1>0, <1>3, <2>2, PoolOutcome
    <3>2. n \in pool[ex.pool].members /\ n \in Nodes
      BY Zenon, <1>0, <1>3, <3>1
    <3>3. ex.pc \in Aiming /\ ex'.todo = ex.todo /\ ex'.target = ex.target
      BY Zenon, <1>3, <3>1, <3>2
    <3>4. live[n].ver = ex.target
      BY Zenon, <1>3, <3>2, <3>3 DEF ConvergeInv
    <3> QED
      BY Zenon, <1>2, <3>2, <3>3, <3>4
  <2>3. CASE Exec /\ ~PassStep
    <3>1. /\ ex.pc \in Aiming /\ ex'.pool = ex.pool
      BY Zenon, <2>3, NodeSteps DEF NodeStep, Aiming
    <3>2. ex'.target = ex.target /\ ex.pool \in Pools
      <4>1. ~ReadPool
        BY Zenon, <2>3 DEF PassStep
      <4>2. ex'.pc \notin Between
        BY Zenon, <1>3 DEF Aiming, Working
      <4> QED
        BY Zenon, <2>3, <3>1, <4>1, <4>2, TargetKept, TargetAimed
    <3>3. n \in pool[ex.pool].members /\ n \in Nodes
      BY Zenon, <1>0, <1>3, <3>1, <3>2
    <3>4. CASE n \in ex.todo
      <4>1. DoneNow(n)
        BY Zenon, <1>3, <2>3, <3>3, <3>4, DoneSteps
      <4>2. live'[n].ver = ex.target
        BY Zenon, <4>1 DEF DoneNow, VersionInv
      <4> QED
        BY Zenon, <3>2, <4>2
    <3>5. CASE n \notin ex.todo
      <4>1. live[n].ver = ex.target
        BY Zenon, <3>1, <3>3, <3>5 DEF ConvergeInv
      <4> QED
        BY Zenon, <1>2, <3>1, <3>2, <3>3, <4>1
    <3> QED
      BY Zenon, <3>4, <3>5
  <2>4. CASE ~Exec
    <3>1. UNCHANGED ex \/ ex'.pc \in Between
      BY Zenon, <2>4, OthersKeep, IdleFacts DEF Next, K8sMove
    <3>2. ex'.pc \notin Between
      BY Zenon, <1>3 DEF Aiming, Working
    <3> QED
      BY Zenon, <2>1, <3>1, <3>2
  <2> QED
    BY Zenon, <2>2, <2>3, <2>4
\* The end of the loop: all members are.
<1>4. ASSUME ex'.pc = "finish", ex'.outcome \notin {"DEFERRED", "FAILED"}, NEW n \in pool'[ex'.pool].members
      PROVE  live'[n].ver = job'[ex'.pool].target
  <2>1. CASE UNCHANGED ex
    <3>1. ex.pool \in Pools /\ Ordered(ex.pool)
      BY Zenon, <1>4, <2>1 DEF TypeInv, Located, JobInv, Ordered
    <3>2. n \in pool[ex.pool].members /\ n \in Nodes /\ live[n].ver = job[ex.pool].target
      BY Zenon, <1>0, <1>4, <2>1, <3>1 DEF ConvergeInv
    <3> QED
      BY Zenon, <1>1, <2>1, <3>1, <3>2, OrderStep
  <2>2. CASE PassStep
    <3>1. ex.pc = "node" /\ ex.todo = {} /\ ex'.pool = ex.pool /\ ex.pc \in Aiming
      BY Zenon, <1>0, <1>4, <2>2, PoolOutcome DEF Aiming
    <3>2. ex.pool \in Pools /\ Ordered(ex.pool) /\ ex.target = job[ex.pool].target
      BY Zenon, <3>1, TargetAimed
    <3>3. n \in Nodes /\ live[n].ver = ex.target
      BY Zenon, <1>0, <1>4, <3>1, <3>2 DEF ConvergeInv
    <3> QED
      BY Zenon, <1>2, <3>1, <3>2, <3>3, OrderStep
  <2>3. CASE Exec /\ ~PassStep
    BY Zenon, <1>4, <2>3, FailOutcome
  <2>4. CASE ~Exec
    <3>1. UNCHANGED ex \/ ex'.pc \in Between
      BY Zenon, <2>4, OthersKeep, IdleFacts DEF Next, K8sMove
    <3>2. ex'.pc \notin Between
      BY Zenon, <1>4
    <3> QED
      BY Zenon, <2>1, <3>1, <3>2
  <2> QED
    BY Zenon, <2>2, <2>3, <2>4
\* The job record gets the outcome of the pass.
<1>5. ASSUME NEW p \in Pools, job'[p].state = "DONE" PROVE Ordered(p)
  <2>1. ASSUME ex.pc = "finish" PROVE Ordered(ex.pool)
    <3>1. ex.pc \notin Between
      BY Zenon, <2>1
    <3> QED
      BY Zenon, <3>1 DEF TypeInv, Located, JobInv, Ordered
  <2> QED
    BY Zenon, <1>5, <2>1, DoneJobs DEF ConvergeInv
<1>6. ASSUME NEW p \in Pools, p \notin deferred', job'[p].state = "DONE", NEW n \in pool'[p].members
      PROVE  live'[n].ver = job'[p].target
  <2>1. n \in pool[p].members /\ n \in Nodes
    BY Zenon, <1>0, <1>6
  <2>2. live[n].ver = job[p].target
    BY Zenon, <1>6, <2>1, DoneJobs DEF ConvergeInv, ConvergedUnlessDeferred
  <2> QED
    BY Zenon, <1>1, <1>5, <1>6, <2>1, <2>2, OrderStep
<1> QED
  BY Zenon, <1>0, <1>3, <1>4, <1>5, <1>6, OrderStep DEF ConvergeInv, ConvergedUnlessDeferred

\* One job, for any budget, and whatever crashes and calls fail: when the job is DONE and
\* the pass that ended it was not put off, because the budget was used up, every member of
\* its pool runs its target, and goes on doing so.
THEOREM ConvergedWhenDone ==
    ASSUME MaxJobs = 1, MaxEdits = 0
    PROVE  Spec => []ConvergedUnlessDeferred
<1>1. Init => ConvergeInv
  <2> SUFFICES ASSUME Init PROVE ConvergeInv
    OBVIOUS
  <2>1. ex.pc = "idle" /\ \A p \in Pools : job[p].state = "none"
    BY Zenon DEF Init, ExIdle, NoJob
  <2> QED
    BY Zenon, <2>1 DEF ConvergeInv, ConvergedUnlessDeferred, Aiming, Working
<1>2. TypeInv /\ JobInv /\ OrderInv /\ VersionInv /\ ConvergeInv /\ [Next]_vars => ConvergeInv'
  BY Zenon, ConvergeStep
<1>3. ConvergeInv => ConvergedUnlessDeferred
  BY Zenon DEF ConvergeInv
<1> QED
  BY <1>1, <1>2, <1>3, TypeInvariance, JobInvariance, OrderInvariance, VersionInvariance, PTL DEF Spec
============================================================================
