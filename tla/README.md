# Medea in TLA+

Medea is a control plane that runs outside the Kubernetes clusters it manages.  It
keeps what an operator wants of each cluster in a bbolt file and drives Talos nodes
there: it upgrades operating systems and Kubernetes, installs new hosts over the
network, and releases hosts it no longer needs.  It is one Go process with a gRPC
API and a handful of goroutines that share the store; it can be stopped at any
moment, and the nodes it upgrades may be the ones that serve the API it depends on.

This directory holds TLA+ modules translated from that code, configurations that
check them with TLC on small instances, and proofs that TLAPS checks for all
instances.  `PROJECT.json` maps every definition to the lines it models.

Contents: [inventory](#inventory), [modules](#modules), [runs](#runs),
[fairness](#fairness), [proofs](#proofs), [divergences](#divergences-found),
[not modelled](#not-modelled).

## Inventory

| Component | State | Operations | Correct when |
|---|---|---|---|
| Store (`internal/store/store.go`) | buckets of records, each with a revision; a persisted counter; `lastRev`, subscribers, `writeMu` in memory | compare-and-swap writes of desired records, last-writer-wins writes of rollout records, deletions, `Open` | no acknowledged change is lost, no revision is used twice |
| Watch (`internal/store/watch.go`) | one buffered channel per subscriber | register, replay the snapshot, forward, cancel; `publish` drops on a full buffer | ordered, no duplicate, no gap between snapshot and live part |
| API (`internal/server`) | none of its own; requests in progress | `CreateRollout`, version, pause and enable settings, hosts, clusters; `rmw` retries once on a conflict | a request acts on the record it read or not at all |
| OS rollout (`internal/rollout`) | job per pool, `MachineRollout` per node; a pass with its copies in memory | `RunOnce`, `runJob`, `ReconcilePool`, `upgradeNode`, `finishUpgrade` | nodes are drained, upgraded once, one at a time; a failure halts the job; the job's outcome is true; jobs end |
| Kubernetes rollout (`ReconcileK8s`) | job under the empty pool name, phase in `ClusterRollout` | snapshot, Talos's `upgrade-k8s` in process, verification | snapshot before anything changes; DONE means converged; jobs end |
| Provisioning (`internal/provision/reconciler.go`) | `Host`, `Machine` and `NodePool` records, files served by Matchbox | stage, bind (three writes), scale in (five calls), time out | one host at a time; a host is bound to the node it booted; drained before released; the pool converges |
| Bootstrap (`internal/provision/bootstrap*.go`) | `ClusterBootstrap` record, secrets bundle, credentials, inventory | the steps from a confirmed `CreateCluster` to the seeded cluster; `DeleteCluster` | one bundle for one cluster; READY means complete; the credentials of a deleted cluster do not come back; the bring-up ends |
| Credential stores (`internal/creds`) | three files, or one 1Password item, per cluster | read, write, delete, migrate, capture | what is read back is what the node has |
| Matchbox driver (`internal/provision/matchbox`) | generic, profile and group files, boot assets | `Stage`, `Unstage`, mirror of the assets | a machine that is matched finds its files whole, and never a truncated kernel |
| Machine configuration (`config.go`, `schematic.go`, `talos/image.go`) | none | render, patch, derive the installer image | an upgrade keeps the schematic; the caller's patch wins |
| Kubernetes and Talos clients | none | cordon, drain, node list; version, upgrade, etcd snapshot | a drained node is empty; a drain ends |
| Server process (`cmd/medea/serve.go`, `tlsgen`) | TLS files, lock of the store, contexts, listeners | start, SIGTERM, MCP shutdown, graceful stop | stops without damage |
| Refresh loop (`internal/refresh`) | observed versions, in memory | a pass over every machine | shows the cluster as it is |
| Seed (`internal/seed`, `cmd/medea/seed.go`) | none; writes the first records | cluster, pools, machines | no record without its parent |
| MCP API, authentication, CLI | none | read-only projections, requests | see [not modelled](#not-modelled) |

How they interact.  Everything durable goes through the store.  API handlers and the
three executors (rollout, provisioning, bootstrap) run concurrently and meet only
there: a handler authorises a job by writing it, the executor finds it on its next
tick and writes its progress back.  The rollout executor reads a pool's members,
which the provisioning reconciler changes.  The outside world (nodes, the Kubernetes
API, Matchbox) is reached through calls that fail, time out, or take effect and lose
their answer.

What is hard.  A pass over the jobs takes minutes to hours and decides on copies read
at its start.  Every store write is separate, so a crash, a SIGTERM or a request can
fall between any two.  Rebooting a control-plane node can take the Kubernetes API
away from the pass that rebooted it.  A retried job meets what an earlier one left
half done.  `PROJECT.json` lists the main ones under `hazards`, each at its line.

## Modules

| Module | Models | Extends |
|---|---|---|
| `Rollout` | OS rollout: API handlers, executor, reconciler, server process, nodes; the snapshots of a Kubernetes job | |
| `NodeLifecycle` | abstract: the life of one node's record, an upgrade sent once | |
| `RolloutProofs` | theorems about `Rollout` | `Rollout`, `TLAPS` |
| `K8sRollout` | Kubernetes rollout | |
| `K8sProofs` | theorems about `K8sRollout` | `K8sRollout`, `TLAPS` |
| `Store` | revisions, compare-and-swap, `rmw`, deletions, crashes | |
| `Watch` | subscribers on top of the store | `Store` |
| `StoreProofs` | theorems about `Store` and `Watch` | `Watch`, `TLAPS` |
| `Provision` | provisioning reconciler, hosts, nodes | |
| `ProvisionProofs` | theorems about `Provision` | `Provision`, `TLAPS` |
| `Matchbox` | the files of `Stage` and `Unstage`, the asset mirror, two drivers | |
| `MachineConfig` | pure operators: installer images, patches, rendering | |
| `Bootstrap` | creating, deleting and creating again one cluster; credentials | `Matchbox`, `MachineConfig` |
| `StagingProofs` | theorems about `Matchbox`, alone and as `Bootstrap` uses it | `Bootstrap`, `TLAPS` |
| `BootstrapProofs` | theorems about the cluster `Bootstrap` creates | `StagingProofs` |
| `Serve` | server process, refresh loop, cache, seed, clients, and who else writes the inventory | |
| `ServeProofs` | theorems about `Serve` | `Serve`, `TLAPS` |
| `Drain` | `Drain` pod by pod, as a rollout and a scale-in use it | |
| `DrainProofs` | theorem about `Drain` | `Drain`, `TLAPS` |
| `MC...` | constants of the instances | the module they name |

**Rollout.**  `enabled`, `talos`, `pool`, `job`, `mr` are the records; `req` the
`CreateRollout` requests in progress; `ex` the executor goroutine (a program counter
and its locals: the batch of jobs read by `RunOnce`, the copies of them, the members,
the node list and readiness read once per pass); `live` and `snap` the nodes and the
snapshot files.  One step of the executor is one outside call or one store write.  A
call can always fail; it succeeds only while its server is up and the context is not
cancelled.  `fail(n)` is the code's `fail`: the record becomes FAILED and the pass
over the pool ends.  `Crash` and `Exit` forget `ex` and `req`.  `Sigterm` cancels the
context and leaves the store open, which is what `runServe` does until `GracefulStop`
returns.  `k8sJob` is the cluster's Kubernetes job, which `RunOnce` takes before those of
the pools: it opens the snapshot file of a control-plane node with the same name, and so
may truncate that of a node in flight (`K8sSnapshotOpen`, "k8sPartial").  What it does to
the kubelets is `K8sRollout`'s.  History variables: `sent` (upgrades not accounted for),
`failedBy`, `deferred` (pools whose last job ended DONE with nodes left for later, as a
used-up budget or a pause does).
Kept coarser than the code: the eviction loop of `Drain` succeeds or fails as a
whole (`Drain` has it pod by pod); the two reads of a `waitHealthy` poll are one step; `bind` stands for the
provisioning plane adding a member, and members are not removed.  The cluster is not
deleted either: a pool record that is gone ends a pass like one that cannot be read.

**NodeLifecycle** says what a rollout promises of each node: drained only when no
upgrade is under way, sent once between UPGRADING and the end, waited for after that.
`Rollout` implements it under the mapping that takes each `MachineRollout` record to
its state.

**K8sRollout.**  The Talos orchestration is a library call in Medea's process; it is
modelled from how `ReconcileK8s` uses it (nodes reach the target one at a time, the
control plane first; it can stop anywhere).  The snapshot is mandatory here.

**Store.**  A write is two steps, commit and publication, with `writeMu` held between
them; reads take no lock.  The content of a record is the set of requests whose change
it contains, so that a lost update is visible as a missing element.

**Watch** adds registration under `writeMu`, the unlocked snapshot, the buffer of
`SubBuffer` events, and the buckets `snapshotEvents` walks.  The snapshot is the set of
its events; `Replay` sends the lowest revision next, which is what sorting it does.  A snapshot that
cannot be read is left out without a word (`SnapshotFails`).  History: `from`, the revision
after which the subscriber was promised everything: its cursor, or its registration when
the snapshot failed.

**Provision.**  `ps` is one pass of `ReconcilePool` over copies read at its start.
`bind` and `scaleIn` are split at their writes.  Host `h` boots as the node of address
`h`, so that binding to the wrong node shows.  A crash and an error have the same
effect, the end of the pass (`Abort`).  `Stage` and `Unstage` are one step each here;
`Matchbox` has them file by file.  `RegisterHost` is called with the pool or without one.
History: `given`, what happened that leaves nodes in the cluster nobody's record accounts
for, and, as `hidden`, whether a host that was in flight, failed or half bound was
registered without its pool, where no pass sees it.

**Matchbox.**  `file` are the files of each host, `job` the calls in progress, one per
executor, since the provisioning and the bootstrap executor each own a driver on the
same directory.  Assets go down to inodes: `os.Create` of a name that exists empties
the file whoever has it open, `os.Rename` moves the name.  A new file takes an inode that
no name and no descriptor holds; without one `os.Create` could only fail (`FetchFails`),
but there are more inodes than names and descriptors.  `os.WriteFile` empties the
file (`Truncate`) and then writes it, so a crash or a machine that boots can find it empty.
History: `clash`, the assets two drivers were downloading at once; `torn`, the matched
hosts of which a repeated `Stage` has emptied a file and not written it again.

**MachineConfig.**  An image is a sequence of tokens in which "/" and ":" are tokens, so
that a port is told from a tag; a configuration is a record of the secrets, the image
and the settings; a patch is a function, and patches compose by `@@`.  `MCBootstrap`
checks `DeriveInstallerImage` and the patches against reference definitions
(`UpgradeKeepsSchematic`, `LastPatchWins`); `CreatedComplete` checks that the node runs
the rendering of what was asked for.

**Bootstrap** composes those two with the bootstrap executor, the credential store, the
requests and the node.  `pass` is one `Reconcile` on a copy of the record (`cb`); each
file of the file store is emptied and then written, a 1Password item is written whole.
A credential is the number of the bundle it was derived from.  `Late` is the timeout of
the whole bring-up.  A crash restarts the server with either store.  `cli` is a command,
`capture-secrets` or `migrate`, which runs beside the server at any time and reads and
writes in steps.  There is one `CreateCluster` at a time.  History: `clean` (the last
deletion was complete, nothing ran across it, and nobody exchanged the credentials under a
cluster that was not READY), `lost` (those exchanged under a READY one), `old` (the bundles
up to this one are of clusters that were deleted, with no pass, command or other store
holding a copy).

**Serve.**  `srv` is the position of `runServe` from the TLS files to the exit, `lock`
who has the bbolt file open.  `ref` is a pass of the refresher, `obs` its cache, which
dies with the process; `seed` a `medea seed` in another process.  `boot` and `exec` are the
passes of the server's own writers: the bootstrap executor, which seeds the inventory of a
new cluster, and the provisioning executor, which binds workers to it.  History:
`crossed` (what was deleted in the middle of a refresher's pass), `stale` (the executors
`DeleteCluster` has run under), `late` (the records such a pass added afterwards).  The
bounds come in mixes (`Budgets`), one per question.

**Drain.**  The executors share no lock, so a rollout and a scale-in may work on one
node.  Kubernetes assigns a pod to a node first and binds it later; one disruption
budget covers the pods.  History: `disturbed`.

## Runs

Every counter that could grow is bounded in a guard and the bound is a constant
(`Max...`).  `CHECK_DEADLOCK FALSE` is set where the bounds or a finished job let the
system stop.

| Run | Instance | Checks |
|---|---|---|
| `rollout_crash` | one control-plane pool of two nodes, snapshots on, budget of one, one job and a Kubernetes job, two crashes or SIGTERMs, one node failure, any call failing (701 thousand states) | `NoDoubleUpgrade`, `SnapshotHeld`, `DoneAtTarget`, `HaltOnFailure`, `NoNodeAbandoned`, `ConvergedUnlessDeferred`, `ImplementsLifecycle`, `JobsEnd` |
| `rollout_edits` | two pools, two nodes of which one is bound later, two concurrent requests for jobs, one other request, one crash (1.5 million) | `DrainedBeforeUpgrade`, `FinishedJobIsFinal` |
| `k8s_crash` | two control-plane nodes and a worker, two jobs, a crash, a fault (25 thousand) | `K8sSnapshotFirst`, `K8sDoneVerified`, `K8sJobsEnd` |
| `watch_stream` | two interchangeable requests, four records of every kind, four writes, crashes anywhere, a subscriber from any cursor with a buffer of two events, a snapshot that may fail (4.8 million) | `NoLostUpdate`, `RevisionsUnique`, `PinRespected`, `StreamOrdered`, `NoGap`, `DeletionsTold` |
| `provision_ops` | one pool, three hosts of which the first may be registered later, two requests of any kind, among them registering with or without the pool, a timeout, a fault (639 thousand) | `OneProvisioning`, `AddrOnce`, `FailureHalts`, `MemberIsReady`, `DrainedBeforeRelease`, `NeverRestaged`, `BoundUntilGiven`, `Converges` |
| `bootstrap` | one cluster created, deleted and created again with other settings, over either credential store and after a crash into either; or with a migration or a capture at any point; or with a failing step; or with both executors staging (671 thousand) | `OneBundle`, `CreatedComplete`, `DeletedStaysGone`, `BootstrapEnds`, `MatchedIsStaged`, `ServedComplete` |
| `serve` | two nodes, two starts, a crash, a seed, and one of three mixes: a watcher and MCP requests; an upgrade, a deletion and a second seed under the refresher; a cluster brought up, workers bound and two deletions (777 thousand) | `InventoryRooted`, `ObservedKnown`, `StopsUnlessWatched`, `RefreshCatchesUp` |
| `drain` | two nodes, two pods of which one has to run, a DaemonSet pod, both executors, crashes (164 thousand) | `DrainedEmpty`, `DrainEnds` |
| `restart_skips_nodes` | two workers, one restart | `DoneJobConverged`, violated |
| `done_cordoned` | two workers, two jobs, no restart | `DoneUncordoned`, violated |
| `provision_misbind` | three hosts, scale in, then out | `BoundToOwn`, violated |
| `k8s_retry` | a job that fails half way, then the same target again | `K8sDoneConverged`, violated |

Why these bounds are enough.  The rollout is sequential within a pool, so what can go
wrong needs the node in flight, one other node, and at most two interruptions (the
second one during the recovery from the first).  Two jobs suffice for an older copy
to meet a newer record.  A lost update needs two writers; any number is proved.  A
buffer of two with four writes fills up and drains.  Three hosts give one ready, one in
flight and one still to come.  What a cluster leaves behind shows when its name is used
once more.  An asset of two blocks can be cut in the middle.  Two nodes give a control
plane and a machine the refresher reaches after it.

Some properties are claimed only under conditions, which are in the property itself where
they can be.  Pausing, a new member or a new target in mid-rollout break `DoneAtTarget`.
`HaltOnFailure` and `NoNodeAbandoned` are about the time until the process first dies
(`crashes = 0`).  `ConvergedUnlessDeferred` leaves out the jobs that ended DONE with nodes
put off, which `restart_skips_nodes` is about; `SnapshotHeld` lets a Kubernetes job, and
nothing else, truncate the snapshot of a node in flight.  The properties of `Provision` are
about a cluster with one pool that has replicas.  Others name their exceptions as history:
a stream that stays open (`StopsUnlessWatched`), a snapshot that failed (`from`), something
that ran across a deletion (`clean`, `old`, `crossed`, `late`), credentials exchanged under a
cluster (`lost`), two downloads of one asset (`clash`), a `Stage` repeated or cut in the
middle of a matched host's file (`torn`), a disturbed drain, a host given back, abandoned
(`OneAtATime`) or hidden from the passes (`given.hidden`).  The violation runs and the divergences below show
what happens then.

The type invariants (`TypeOK`, `StoreTypeOK`, `WatchTypeOK`, `MatchboxTypeOK`, `DrainTypeOK`,
`ProvisionTypeOK`, `K8sTypeOK`) are proved rather than checked, as parts of the inductive
invariants below.

## Fairness

- `Rollout`: weak fairness of the executor as a whole (the ticker fires again and
  again, and every call returns: the drain and the wait have timeouts, the others
  inherit gRPC or HTTP errors), strong fairness of `StartJob` (the client factory,
  which reads credentials, does not fail for ever), weak fairness of `Exit`.  Nothing
  is assumed of the nodes: a node that never comes back ends the job through the
  timeout.
- `K8sRollout`: weak fairness of `RunOnce` and of the steps of a pass.
- `Provision`: weak fairness of the reconciler, strong fairness of a pass over each pool
  (`RunOnce` takes every one), and weak fairness of a staged host joining and becoming
  ready; without the latter no pool could grow.
- `Bootstrap`: weak fairness of the passes, of the driver and of time.  Nothing is
  assumed of the node or of the operator.  That the driver returns is an assumption: a
  download has no timeout (see the divergences).
- `Serve`: weak fairness of the refresher and of the shutdown, separately: they are
  goroutines.  Nothing is assumed of clients.
- `Drain`: weak fairness of each executor's steps and of its timeout.  Nothing is assumed
  of Kubernetes: a budget may refuse for ever.
- `Store`, `Watch`, `Matchbox`: safety only.

## Proofs

Eight modules hold theorems, for every value of the constants, from the named
assumptions of the modules they are about.  Some theorems of `RolloutProofs`,
`ProvisionProofs`, `StagingProofs` and `BootstrapProofs` have hypotheses on the constants
besides; they are stated with them and explained below.  Each inductive
invariant was checked with TLC on small instances before it was proved.

**`RolloutProofs`**, for every set of nodes, pools and versions and every bound:

- `TypeCorrect`: `Spec => []TypeOK`.  `TypeOK` is not inductive: a write to
  `mr[ex.node]` or `job[ex.pool]` needs the executor to have a node or a pool
  (`Located`), and `created <= MaxJobs` needs every job to come from a request that is
  then over (`JobsCounted`, by counting the requests that are over).
- `UpgradedOnce`: `Spec => []NoDoubleUpgrade`.  The invariant `ResumeInv` adds that the
  record of the node being worked on says how far it is (`Recorded`) and that an
  upgrade sent and not accounted for is on record as UPGRADING or WAITING_HEALTHY
  (`SentInFlight`).  A restart forgets where the executor was but not the record, and
  a record in flight is resumed into the wait; hence a node whose drain begins has
  nothing outstanding.
- `DrainedFirst`: `Spec => []DrainedBeforeUpgrade`, with `DrainInv`: between cordon and
  UPGRADING the node stays cordoned.  It rests on `ResumeInv`, since only a node
  recorded WAITING_HEALTHY is uncordoned.
- `LifecycleImplemented`: `Spec => ImplementsLifecycle`.  Initial states map to initial
  states; under `TypeInv` and `ResumeInv` every step is one step of one node's life or
  a stutter.
- `SnapshotFirst`: `Spec => []SnapshotHeld`, beside any number of Kubernetes jobs.  The
  snapshot of the node being drained is complete (`SnapshotInv`): a Kubernetes job runs in
  the same goroutine, so it can truncate the snapshot only of a node that a restart left in
  flight, and a node is upgraded anew only after a new snapshot.  And the executor works on
  members of the pool whose job it runs (`MembersInv`), so a node in flight is in the pool
  that asked for the snapshot, also when it was bound later.
- `EndedJobsKept`: `Spec => FinishedJobIsFinal`, an action property.  The executor writes
  whole jobs from copies it read earlier.  `JobInv` says what these are worth: creation
  times tell jobs apart, also between pools, and a copy in the batch with the time of the
  stored job is of a job that can still run.
- `FailureEndsJob` (`[]HaltOnFailure`) and `NoneAbandoned` (`[]NoNodeAbandoned`).  Both are
  about the time until the process first dies or gets its SIGTERM; after a restart what they
  say is false (see the divergences).  A job that failed a node is at its end, and neither the store
  nor the batch holds it to run again (`HaltInv`); a record half way is that of the node
  in hand (`InHand`).
- `AtTargetWhenDone`: `Spec => []DoneAtTarget`, for `MaxJobs = 1` and `MaxEdits = 0`, and any
  number of crashes and faults.  With one job, the request, the pool, the job, the
  executor's copy and the target it reads name the same version (`OrderInv`), so whatever
  a node has still to boot is that version, whoever sent it and whenever it boots
  (`VersionInv`); and markDone follows a look at the version the node runs.  With two
  jobs a boot that was sent by the first can come after the second has seen its target.
- `ConvergedWhenDone`: `Spec => []ConvergedUnlessDeferred`, for `MaxJobs = 1` and
  `MaxEdits = 0`, any budget, and any number of crashes and faults.  The members the loop has
  left behind run the target, and stay there (`ConvergeInv`).  A job that was put off by its
  budget is the one way to a DONE that is not converged (`restart_skips_nodes`).

**`StoreProofs`**, for any records and any number of requests, writes and subscribers:

- `UpdatesKept`: `Spec => []NoLostUpdate`.  A compare-and-swap compares revisions and
  writes back a copy.  `SeenTrue` makes that sound: a copy whose revision is still the
  record's is the record, because no revision is given twice and a record without one is
  empty.  Deleting a record and creating it again is where a weaker invariant fails.
- `RevisionsOnce`: `Spec => []RevisionsUnique`, over crashes between commit and
  publication.
- `PinsHold`: `Spec => PinRespected`, the action property, from the same invariant.
- `WatchersOnlyWatch`: `WatchSpec => Spec`.  The store with its watchers implements the
  store alone, so the three theorems above hold beside any watchers.
- `StreamInOrder`, `StreamWithoutGap`, `DeletionsStreamed`: `WatchSpec` implies
  `[]StreamOrdered`, `[]NoGap` and `[]DeletionsTold`, for any size of buffer.  `Counted`:
  while `writeMu` is free `lastRev` is the persisted revision.  So a registration
  separates the revisions of the snapshot from those of the buffer (`Ordered`).
  `NoGap` promises what came after the cursor, or after the registration when the snapshot
  could not be read.  `Telling`: the event of a record's current revision, or of its last deletion, has been
  sent, is in the snapshot or the buffer, or is about to be published.

**`ProvisionProofs`**, for any number of hosts, requests, timeouts and faults:

- `OneAtOnce` (`[]OneProvisioning`), `AddressesOnce` (`[]AddrOnce`), `MembersReady`
  (`[]MemberIsReady`), `BoundRight` (`[]BoundUntilGiven`), `MembersNotRestaged`
  (`[]NeverRestaged`), `FailureHaltsPool` (`FailureHalts`) and `DrainedThenReleased`
  (`DrainedBeforeRelease`), the last two action properties.

A pass decides on copies made at its start while the API changes the records.
`CopiesHold` says what the copies are still good for: a record the pass has not written
is as it was copied, or was deregistered and is blank or registered anew, with a pool or
without.  Four of the theorems have an exception, a host in flight, failed or half bound
that was hidden from the passes by registering it without its pool; until then every such
host is in its pool (`Seen`).  `LoopCounts` says what the counters of the loop over the hosts stand for, `HostInv` relates the
records to each other, `AwaitedInv` is the reasoning behind `newJoinedNode`, and
`DrainedInv` keeps a node that is being released cordoned.  The hypothesis `OnePool` is
that the cluster has one pool: with two, TLC finds the first four violated (see the
divergences).  The other three hold in that instance too, but the invariant they are
proved from does not.
`DrainedBeforeRelease` is about a member that the pass listed when it began: the drain of
a node that is not in the cluster is skipped (`reconciler.go`, `scaleIn`), and the proof
showed that such a node may join before it leaves the members.

**`K8sProofs`**, for any number of nodes, jobs, crashes and failed calls:

- `SnapshotBeforeK8s`: `Spec => K8sSnapshotFirst`, and `DoneIsVerified`:
  `Spec => K8sDoneVerified`, both action properties.  `PassKnows`: a pass that gets to the
  upgrade has a control-plane node with a complete snapshot, and what `Verify` has seen
  stays true until the job is stored.

**`DrainProofs`**, for any nodes, pods and budget:

- `DrainedStaysEmpty`: `Spec => []DrainedEmpty`.  `Closed` adds that the node is cordoned
  from the end of the first call on, as long as nobody disturbs it; only a pod given to
  the node before, or another executor's `Uncordon`, can undo it, and both are recorded.

**`StagingProofs`**, for any number of drivers, hosts, assets and blocks:

- `NeverTruncated`: `MatchboxSpec => []ServedComplete`.  `Names` says that no inode has two
  names, `InJob` that a driver's descriptor holds the blocks it has copied, `Private` that
  no other driver writes to it unless there was a clash.
- `GroupLast`: `MatchboxSpec => []MatchedIsStaged`: the profile and the configuration of a
  matched host are there, and whole unless `Stage` was called again for it and has emptied
  one of them.  `Matched` and `Progress` relate a
  driver's position to the files of its host; no other driver touches them, since the
  executors stage different hosts (`HostsAssumption`).
- `DriversImplemented`: `Spec => MatchboxSpec`, where `Spec` is that of `Bootstrap`.  The
  composition of the two executors, the requests and the node uses the drivers as their
  specification says.  Hence `MatchedHostsStaged` (`[]MatchedIsStaged`) and
  `AssetsComplete` (`[]ServedComplete`) in the composition.

**`BootstrapProofs`**, for any number of requests, crashes, faults, migrations and calls
for workers, and any specifications of clusters:

- `BundleKept` (`[]OneBundle`), `ReadyIsComplete` (`[]CreatedComplete`) and
  `DeletedForGood` (`[]DeletedStaysGone`).

`Base` gives the state its shape and ties the position of a pass to the phase of the
record it copied, and the driver's call to the pass that waits for it.  `CleanInv` is
about a cluster whose last deletion was complete.  `PhaseOK` says what each phase of the
record stands for, in terms of the credentials in the store in use, the staged files and
the node; a pass that is about to store a phase has established it (`StoreOK`), and
`PutOK`, `StagingOK` and `SeedOK` say what it has established on the way.  Two things make
that inductive.  Every bundle is new, and a configuration is told by its bundle (`Fresh`,
`Only`): so the only configuration with the stored bundle is the one of this cluster, and
a node that answers its talosconfig runs it, whatever an earlier cluster of the name has
left on the host.  And a bundle that is generated again, after a failed read or a crash,
is stored before anything is rendered from it.  `DeletedForGood` has an invariant of its own,
`Gone`: neither a store, nor a command, nor a pass, nor a call of the driver holds a bundle of
a cluster that was deleted.
The hypothesis `ConfigsGiven`, here and in the last three theorems of `StagingProofs`, says
that the constant `Configs` of the driver has the configurations this composition renders: those of every bundle there can ever be.

**`ServeProofs`**, for any number of nodes, clients, starts, crashes, seeds, clusters and deletions:

- `InventoryStaysRooted`: `Spec => []InventoryRooted`.  Whoever writes the inventory has the
  store open, server or seed (`StoreOwned`); a seed writes the cluster, then each
  machine's pool, then the machine (`SeedOrdered`), and a pass of an executor that no
  `DeleteCluster` ran under finds what it listed or wrote before (`PassesOrdered`).  The
  records of the other passes are `late`.
- `ObservedStaysKnown`: `Spec => []ObservedKnown`.  The machines a pass still has to ask are
  in the inventory or were deleted under it (`PassCurrent`).

Only model-checked:

- liveness (`JobsEnd`, `K8sJobsEnd`, `Converges`, `BootstrapEnds`, `DrainEnds`,
  `StopsUnlessWatched`, `RefreshCatchesUp`), which needs fairness and ENABLED;
- what the operators of `MachineConfig` compute, by induction over patches and tokens.

## Divergences found

With a run:

- `restart_skips_nodes`: `ReconcilePool` returns nil when the budget is used up
  (`rollout.go:138`), and `runJob` makes that DONE.  After a restart during a reboot
  the readiness list is stale, the other nodes are skipped, and no later pass comes.
  A paused pool ends its job the same way (`rollout.go:80`), and so does a node that is down
  when the readiness is read, without any restart (`rollout.go:106-109`).
- `done_cordoned`: a node found at the target becomes DONE as it is (`rollout.go:131`).  When
  the upgrade failed after the drain, for one because the wait timed out before the node came
  back, the next job leaves it cordoned (`machine-rollout.md:59`).
- `provision_misbind`: `newJoinedNode` (`reconciler.go:362`) takes any ready node
  nobody claims; scale-in leaves such a node behind.
- `k8s_retry`: convergence is read off one control-plane node (`rollout.go:173`).

Met with TLC during the modelling, and described here only:

- Pause is read at the start of a pass, not between nodes (`rollout.go:80`;
  `design/aggregates/machine-rollout.md:91`).
- `runJob` tests the guard on the Cluster record `RunOnce` read (`executor.go:106`), so
  a job still starts after rollouts were disabled.
- The executor stores its copy of a job over a newer one (`executor.go:159`;
  `design/aggregates/rollout.md:27-28`).
- The target is the pool's desired version when the pass begins, not the job's
  (`rollout.go:84`; `rollout.md:75`), and the planned targets are never read
  (`rollout.go:103`; `rollout.md:76`).
- If the API server is down when a job is resumed, the job is FAILED rather than
  parked (`rollout.go:93`; `design/rollout-controller.md:129-130`).  SIGTERM in
  mid-rollout is stored as FAILED (`README.md:168-169`).
- The OS path takes no etcd snapshot unless a strategy asks for it, and nothing sets a
  strategy (`rollout.go:230`; `machine-rollout.md:84`).
- A Kubernetes job that waits while a crash interrupts an OS rollout runs first after the
  restart, and its snapshot truncates that of the node in flight (`rollout.go:181`, 313-314);
  when it fails, the file stays cut.
- A new member or target in mid-rollout leaves two nodes in flight
  (`machine-rollout.md:82`); a crash between a node's FAILED and the job's lets the job
  go on with other nodes (`machine-rollout.md:87`).
- The Watch snapshot leaves out the bootstrap bucket (`watch.go:155`); a slow watcher
  loses events and stays connected (`watch.go:23`); a deletion is not replayed to an
  older cursor (`design/datastore.md:95`); a snapshot that cannot be read is left out, and
  the watcher is not told (`watch.go:55`).
- A bind cut short leaves a READY host without Machine or membership
  (`reconciler.go:302`); `RegisterHost` drops the start of a provision in progress, so
  that it never times out (`server.go:602-616`).
- `RegisterHost` without a pool hides a host that is in flight, failed or half bound from the
  passes of its pool (`server.go:585`, 612).  The pool goes on with the next host, and when the
  first is registered into it again two are PROVISIONING, two are READY with one address, or
  a failure has not halted the pool.
- `newJoinedNode` binds to the wrong node in two more cases (`reconciler.go:359-361`).  A
  crash between `Stage` and the PROVISIONING record, then a host with a lower MAC: two
  machines boot.  Two pools with replicas: each stages its own host.  The pools also
  share addresses after a bind cut short, since `claimedAddrs` counts the hosts of one
  pool, and registering a host in flight into the other pool leaves two in flight.
- A host deregistered while its Machine remains, and registered again, joins under an
  address that is claimed and is never bound (`reconciler.go:348`); it times out.
- A pass of the bootstrap stores its copy of the record after `DeleteCluster`
  (`bootstrap.go:286`), or seeds the inventory again (`bootstrap.go:243-271`); a pass of the
  provisioning executor binds a worker to a cluster that is gone (`reconciler.go:313`).  The
  next `DeleteCluster` takes these records.  A deletion that fails at the
  credentials leaves a bundle the next cluster of that name takes (`server.go:653`;
  641-642: "so a name can be re-created cleanly").
- A crash in the middle of the file store's second write of the talosconfig leaves it
  empty, and the bring-up then only ends by the timeout (`bootstrap.go:232`).  The
  timeout can also record FAILED for a cluster that is in the inventory already
  (`bootstrap.go:85`).
- A crash between the two writes of `CreateCluster` leaves a host that makes every retry
  a conflict until it is deregistered (`server.go:163`).
- `Migrate` skips secrets it cannot read and reports success (`onepassword.go:130`).
- `DeleteCluster` empties the credential store in use.  Copies left in the other one by a
  migration are found by a server that is started on it (`serve.go:278-295`), and a migration
  or a capture under way during the deletion writes what it had read (`onepassword.go:118-136`).
- `Stage`, called again for a host that is staged already, empties the files of a matched
  host before it writes them (`matchbox.go:104`, 232); a crash there leaves one empty.
- Two drivers that download one asset use the same temporary name: a complete download
  can be renamed while the other driver, which emptied it, is still writing
  (`matchbox.go:210`).
- The comment at `matchbox.go:65-66` says that the caller's context bounds a download and
  that `Stage` runs in a timed phase; the context is the server's, and the timeouts are
  looked at between passes only.
- A pass of the refresher writes the observed state of a machine that was deleted after it
  was listed (`refresh.go:128`); it stays in the cache until a later deletion or the end of
  the process.
- An open Watch stream keeps `GracefulStop`, and so the process, from ending
  (`serve.go:270`).
- A crash while the TLS files are written leaves a pair that does not load, and every
  later start fails (`tlsgen.go:65-68`).
- `medea seed` waits for the lock while a server runs; the message "is the server
  running?" (`cmd/medea/seed.go:103`) is not shown, since bbolt is opened without a
  timeout (`store.go:139`).  A second seed writes the records anew and drops what an
  operator had set (`seed.go:95`).
- A rollout uncordons a node that a scale-in has drained (`rollout.go:274`); a terminating
  pod counts as gone (`client.go:189`).

## Not modelled

- Store writes that fail (bbolt on a local disk fails for good).
- Authentication, the MCP read API and the command line: they keep no state; `Serve` has
  the MCP requests a shutdown waits for.
- Generated code, beyond the records and enumerations the modules use.
- The documents machine configurations are rendered to, which the Talos library makes,
  and the selector's label match, which is a set here.
- Two `CreateCluster` requests at once, and the deletion of a cluster under an OS rollout.
- Several clusters: the executors take them one after the other and share nothing
  between them but the time a pass takes.
- What a second seed drops from the records, and the credentials it stores before it
  opens the store.
- `Rollout` and `Provision` over the same pools: `Rollout` has members join and not
  leave, and `Drain` has the two executors meet on a node.
