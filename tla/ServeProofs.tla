---------------------------- MODULE ServeProofs ----------------------------
(***************************************************************************)
(* Proofs about the server process, its store and its cache, for any       *)
(* number of nodes and clients and any number of starts, crashes, seeds,   *)
(* deletions and failed calls.                                             *)
(***************************************************************************)
EXTENDS Serve, TLAPS

PoolNames == {PoolName(n) : n \in Nodes}

\* What the steps below need to know of the shape of the state.
Shapes ==
    /\ machines \subseteq Nodes
    /\ obs \in [Nodes -> Int] /\ real \in [Nodes -> Int] /\ realK8s \in Int
    /\ ref \in [pc : {"idle", "nodes", "machines"}, todo : SUBSET Nodes, k8s : Int]
    /\ seed \in [pc : {"idle", "open", "cluster", "records"}, pools : SUBSET PoolNames, machines : SUBSET Nodes]
    /\ exec \in [Executors -> {"idle", "cluster", "pool", "machine", "record", "pass"}]

\* Who works on the store has it open: a seed that writes, a server that has got past
\* store.Open.
StoreOwned ==
    /\ seed.pc \in {"cluster", "records"} => lock = "seed"
    /\ srv \in {"listen", "up", "mcp", "graceful"} => lock = "server"

\* A seed has a pool for each of its machines, either still to write or written; it writes
\* its first pool after the cluster.
SeedOrdered ==
    /\ seed.pc \in {"open", "cluster"} => seed.pools = PoolNames
    /\ seed.pc = "records" => cluster = TRUE /\ PoolNames \subseteq pools \cup seed.pools

\* The machines that a pass of the refresher still has to ask are in the inventory, unless
\* they were deleted under it.
PassCurrent == ref.pc = "machines" => ref.todo \subseteq machines \cup crossed

\* A pass that no DeleteCluster ran under finds what it has listed or written before.
PassesOrdered ==
    /\ exec["bootstrap"] \in {"pool", "machine"} /\ "bootstrap" \notin stale => cluster = TRUE
    /\ exec["bootstrap"] = "machine" /\ "bootstrap" \notin stale => PoolName(ControlPlane) \in pools
    /\ exec["provision"] = "pass" /\ "provision" \notin stale => "workers" \in pools

\* InventoryRooted and ObservedKnown in the form in which the steps keep them.
Rooted == (\A n \in machines \ late : PoolName(n) \in pools) /\ (\A p \in pools \ late : cluster = TRUE)
Known == \A n \in Nodes : obs[n] # Unknown => n \in machines \cup crossed

StoreInv == StoreOwned /\ SeedOrdered /\ PassesOrdered /\ Rooted
CacheInv == PassCurrent /\ Known
ServeInv == Shapes /\ StoreInv /\ CacheInv

\* The values that a record is reset to.
LEMMA NothingRuns ==
  /\ NoPass.pc = "idle" /\ NoSeed.pc = "idle"
  /\ NoPass \in [pc : {"idle", "nodes", "machines"}, todo : SUBSET Nodes, k8s : Int]
  /\ NoSeed \in [pc : {"idle", "open", "cluster", "records"}, pools : SUBSET PoolNames, machines : SUBSET Nodes]
BY DEF NoPass, NoSeed, Unknown

\* A step that touches none of what the invariant is about, apart from how far the process
\* is and from the nodes themselves.
LEMMA ElsewhereServe ==
  ASSUME ServeInv, UNCHANGED <<cluster, pools, machines, exec, stale, late, obs, ref, crossed, seed>>,
         StoreOwned', real' \in [Nodes -> Int], realK8s' \in Int
  PROVE  ServeInv'
BY DEF ServeInv, Shapes, StoreInv, CacheInv, SeedOrdered, PassesOrdered, PassCurrent, Rooted, Known

\* Coming up and serving: the store is opened when nobody has it open.
LEMMA ProcessServe ==
  ASSUME ServeInv,
         \/ EnsureServerCert \/ WritePEM \/ LoadTLS \/ OpenStore \/ Listen \/ Sigterm \/ McpShutdown
         \/ \E w \in Watchers : OpenStream(w) \/ CloseStream(w)
         \/ McpRequest \/ McpReturns \/ Upgrade \/ UNCHANGED vars
  PROVE  ServeInv'
<1>0. /\ StoreOwned /\ real \in [Nodes -> Int] /\ realK8s \in Int
  BY Zenon DEF ServeInv, StoreInv, Shapes
<1>1. UNCHANGED <<cluster, pools, machines, exec, stale, late, obs, ref, crossed, seed>>
  BY Zenon DEF EnsureServerCert, WritePEM, LoadTLS, OpenStore, Listen, Sigterm, McpShutdown, OpenStream, CloseStream,
         McpRequest, McpReturns, Upgrade, vars, process, inventory, executors, cache
<1>2. real' \in [Nodes -> Int] /\ realK8s' \in Int
  BY <1>0 DEF EnsureServerCert, WritePEM, LoadTLS, OpenStore, Listen, Sigterm, McpShutdown, OpenStream, CloseStream,
         McpRequest, McpReturns, Upgrade, vars, reality
<1>3. StoreOwned'
  <2>1. CASE EnsureServerCert \/ WritePEM \/ LoadTLS
    BY Zenon, <1>0, <1>1, <2>1 DEF EnsureServerCert, WritePEM, LoadTLS, StoreOwned
  <2>2. CASE OpenStore \/ Listen \/ Sigterm \/ McpShutdown
    BY Zenon, <1>0, <1>1, <2>2 DEF OpenStore, Listen, Sigterm, McpShutdown, StoreOwned
  <2>3. CASE \/ \E w \in Watchers : OpenStream(w) \/ CloseStream(w)
             \/ McpRequest \/ McpReturns \/ Upgrade \/ UNCHANGED vars
    <3>1. UNCHANGED <<srv, lock>>
      BY Zenon, <2>3 DEF OpenStream, CloseStream, McpRequest, McpReturns, Upgrade, vars, process
    <3> QED
      BY Zenon, <1>0, <1>1, <3>1 DEF StoreOwned
  <2> QED
    BY Zenon, <2>1, <2>2, <2>3
<1> QED
  BY Zenon, <1>1, <1>2, <1>3, ElsewhereServe

\* The process ends, with its cache and its lock; a seed that has the store keeps it.
LEMMA ExitServe ==
  ASSUME ServeInv, Exit
  PROVE  ServeInv'
<1>0. Shapes /\ StoreOwned /\ SeedOrdered /\ Rooted
  BY Zenon DEF ServeInv, StoreInv
<1>1. /\ UNCHANGED <<cluster, pools, machines, late, seed, real, realK8s>> /\ exec' = [e \in Executors |-> "idle"]
      /\ ref' = NoPass /\ obs' = [n \in Nodes |-> Unknown] /\ srv' = "stopped"
      /\ lock' = IF lock = "server" THEN "none" ELSE lock
  BY Zenon DEF Exit, inventory, reality
<1>2. Shapes'
  BY <1>0, <1>1, NothingRuns DEF Shapes, Unknown
<1>3. StoreOwned' /\ SeedOrdered' /\ Rooted'
  BY Zenon, <1>0, <1>1 DEF StoreOwned, SeedOrdered, Rooted
<1>3a. PassesOrdered'
  BY <1>1, NothingRuns DEF PassesOrdered, Executors
<1>4. PassCurrent' /\ Known'
  BY Zenon, <1>1, NothingRuns DEF PassCurrent, Known
<1> QED
  BY Zenon, <1>2, <1>3, <1>3a, <1>4 DEF ServeInv, StoreInv, CacheInv

\* A pass of the refresher asks the machines it has listed.
LEMMA RefreshServe ==
  ASSUME ServeInv, Refresh \/ RefreshUnreachable
  PROVE  ServeInv'
<1>0. Shapes /\ StoreInv /\ PassCurrent /\ Known
  BY Zenon DEF ServeInv, CacheInv
<1>1. UNCHANGED <<srv, lock, cluster, pools, machines, exec, stale, late, crossed, seed, real, realK8s>>
  BY Zenon DEF Refresh, RefreshStart, RefreshNodes, RefreshMachine, RefreshDone, RefreshUnreachable,
         process, inventory, executors, reality
<1>2. StoreInv'
  BY Zenon, <1>0, <1>1 DEF StoreInv, StoreOwned, SeedOrdered, PassesOrdered, Rooted
<1>3. ASSUME RefreshStart \/ RefreshDone \/ RefreshUnreachable PROVE Shapes' /\ PassCurrent' /\ Known'
  <2>1. UNCHANGED obs /\ ref'.pc # "machines"
    BY Zenon, <1>0, <1>3, NothingRuns DEF RefreshStart, RefreshDone, RefreshUnreachable, Shapes
  <2>2. ref' \in [pc : {"idle", "nodes", "machines"}, todo : SUBSET Nodes, k8s : Int]
    BY Zenon, <1>0, <1>3, NothingRuns DEF RefreshStart, RefreshDone, RefreshUnreachable, Shapes
  <2> QED
    BY Zenon, <1>0, <1>1, <2>1, <2>2 DEF Shapes, PassCurrent, Known
<1>4. ASSUME RefreshNodes PROVE Shapes' /\ PassCurrent' /\ Known'
  <2>1. UNCHANGED obs /\ ref' = [pc |-> "machines", todo |-> machines, k8s |-> realK8s]
    BY Zenon, <1>4 DEF RefreshNodes
  <2> QED
    BY Zenon, <1>0, <1>1, <2>1 DEF Shapes, PassCurrent, Known
<1>5. ASSUME NEW n \in Nodes, RefreshMachine(n) PROVE Shapes' /\ PassCurrent' /\ Known'
  <2>1. /\ ref' \in [pc : {"idle", "nodes", "machines"}, todo : SUBSET Nodes, k8s : Int]
        /\ ref'.todo = ref.todo \ {n} /\ ref.pc = "machines" /\ n \in ref.todo
    BY Zenon, <1>0, <1>5 DEF RefreshMachine, Shapes
  <2>2. PICK v \in Int : obs' = [obs EXCEPT ![n] = v]
    BY <1>0, <1>5 DEF RefreshMachine, Shapes, NotReady
  <2>3. Shapes'
    BY Zenon, <1>0, <1>1, <2>1, <2>2 DEF Shapes
  <2>4. n \in machines \cup crossed
    BY Zenon, <1>0, <2>1 DEF PassCurrent
  <2> QED
    BY Zenon, <1>0, <1>1, <2>1, <2>2, <2>3, <2>4 DEF Shapes, PassCurrent, Known
<1> QED
  BY Zenon, <1>2, <1>3, <1>4, <1>5 DEF Refresh, ServeInv, CacheInv

\* A deletion takes the record and what the cache has for it, and only a server that has
\* the store deletes anything.
LEMMA DeleteServe ==
  ASSUME ServeInv, DeleteCluster \/ \E n \in Nodes : DeleteMachine(n)
  PROVE  ServeInv'
<1>0. Shapes /\ StoreOwned /\ SeedOrdered /\ PassesOrdered /\ Rooted /\ PassCurrent /\ Known
  BY Zenon DEF ServeInv, StoreInv, CacheInv
<1>1. UNCHANGED <<srv, lock, ref, seed, real, realK8s>>
  BY Zenon, <1>0 DEF DeleteCluster, DeleteMachine, process, reality
<1>2. StoreOwned'
  BY Zenon, <1>0, <1>1 DEF StoreOwned
<1>3. CASE DeleteCluster
  <2>1. /\ machines' = {} /\ pools' = {} /\ obs' = [n \in Nodes |-> Unknown]
        /\ ref.pc # "idle" => Nodes \subseteq crossed'
        /\ exec' = exec /\ \A e \in Executors : exec[e] = "idle" \/ e \in stale'
    BY Zenon, <1>3 DEF DeleteCluster, UnderPasses, Across
  <2>2. Shapes'
    BY <1>0, <1>1, <2>1 DEF Shapes, Unknown
  <2>3. SeedOrdered' /\ PassesOrdered' /\ Rooted'
    <3>1. seed.pc # "records"
      BY Zenon, <1>0, <1>3 DEF DeleteCluster, Serving, StoreOwned
    <3>2. PassesOrdered'
      BY <2>1 DEF PassesOrdered, Executors
    <3> QED
      BY Zenon, <1>0, <1>1, <2>1, <3>1, <3>2 DEF SeedOrdered, Rooted
  <2>4. PassCurrent' /\ Known'
    BY Zenon, <1>0, <1>1, <2>1 DEF PassCurrent, Known, Shapes
  <2> QED
    BY Zenon, <1>2, <2>2, <2>3, <2>4 DEF ServeInv, StoreInv, CacheInv
<1>4. ASSUME NEW n \in Nodes, DeleteMachine(n) PROVE ServeInv'
  <2>1. /\ machines' = machines \ {n} /\ UNCHANGED <<cluster, pools, exec, stale, late>> /\ obs' = [obs EXCEPT ![n] = Unknown]
        /\ crossed \subseteq crossed' /\ (ref.pc # "idle" => n \in crossed')
    BY Zenon, <1>4 DEF DeleteMachine, Across, executors
  <2>2. Shapes'
    BY <1>0, <1>1, <2>1 DEF Shapes, Unknown
  <2>3. SeedOrdered' /\ PassesOrdered' /\ Rooted'
    BY Zenon, <1>0, <1>1, <2>1 DEF SeedOrdered, PassesOrdered, Rooted
  <2>4. PassCurrent' /\ Known'
    BY Zenon, <1>0, <1>1, <2>1 DEF PassCurrent, Known, Shapes
  <2> QED
    BY Zenon, <1>2, <2>2, <2>3, <2>4 DEF ServeInv, StoreInv, CacheInv
<1> QED
  BY Zenon, <1>3, <1>4

\* A pass writes in the same order, or was overtaken by a DeleteCluster.
LEMMA ExecutorServe ==
  ASSUME ServeInv,
         \/ CreateCluster \/ SeedInventory \/ BootstrapReady
         \/ (\E n \in Nodes : BindMachine(n))
         \/ (\E e \in Executors : StartPass(e) \/ PassEnds(e))
  PROVE  ServeInv'
<1>0. Shapes /\ StoreOwned /\ SeedOrdered /\ PassesOrdered /\ Rooted /\ PassCurrent /\ Known
  BY Zenon DEF ServeInv, StoreInv, CacheInv
<1> DEFINE Passes == [Executors -> {"idle", "cluster", "pool", "machine", "record", "pass"}]
           b == exec["bootstrap"]
<1>1. /\ UNCHANGED <<srv, lock, obs, ref, crossed, seed, real, realK8s>>
      /\ machines \subseteq machines' /\ pools \subseteq pools' /\ (cluster = TRUE => cluster' = TRUE)
      /\ late \subseteq late'
  BY Zenon DEF CreateCluster, SeedInventory, BootstrapReady, BindMachine, StartPass, PassEnds, Added, process,
         inventory, cache, reality
<1>2. StoreOwned' /\ SeedOrdered' /\ PassCurrent' /\ Known'
  BY Zenon, <1>0, <1>1 DEF StoreOwned, SeedOrdered, PassCurrent, Known
<1>3. ASSUME exec' \in Passes, machines' \subseteq Nodes, PassesOrdered', Rooted' PROVE ServeInv'
  <2>1. Shapes'
    BY Zenon, <1>0, <1>1, <1>3 DEF Shapes
  <2> QED
    BY Zenon, <1>2, <1>3, <2>1 DEF ServeInv, StoreInv, CacheInv
<1>4. exec \in Passes /\ machines \subseteq Nodes /\ "bootstrap" \in Executors /\ "provision" \in Executors
  BY Zenon, <1>0 DEF Shapes, Executors
<1>5. CASE CreateCluster
  <2>1. UNCHANGED <<cluster, pools, machines, exec, stale, late>>
    BY Zenon, <1>5 DEF CreateCluster, inventory
  <2> QED
    BY Zenon, <1>0, <1>3, <1>4, <2>1 DEF PassesOrdered, Rooted
<1>6. ASSUME NEW e \in Executors, StartPass(e) \/ PassEnds(e) \/ (BootstrapReady /\ e = "bootstrap") PROVE ServeInv'
  <2>1. UNCHANGED <<cluster, pools, machines, late>>
    BY Zenon, <1>6 DEF StartPass, PassEnds, BootstrapReady, inventory
  <2>2. /\ exec' \in Passes /\ stale \ {e} \subseteq stale' /\ \A f \in Executors \ {e} : exec'[f] = exec[f]
        /\ exec'[e] \in {"idle", "cluster"} \/ (e = "provision" /\ exec'[e] = "pass" /\ "workers" \in pools)
    BY <1>4, <1>6, NothingRuns DEF StartPass, PassEnds, BootstrapReady
  <2>3. PassesOrdered'
    BY <1>0, <1>4, <2>1, <2>2 DEF PassesOrdered
  <2>4. Rooted'
    BY Zenon, <1>0, <2>1 DEF Rooted
  <2> QED
    BY Zenon, <1>3, <1>4, <2>1, <2>2, <2>3, <2>4
<1>7. CASE SeedInventory
  <2>1. CASE b = "cluster"
    <3>1. /\ cluster' = TRUE /\ UNCHANGED <<pools, machines, stale, late>> /\ exec' = [exec EXCEPT !["bootstrap"] = "pool"]
      BY Zenon, <1>7, <2>1 DEF SeedInventory
    <3>2. /\ exec' \in Passes /\ exec'["bootstrap"] = "pool" /\ exec'["provision"] = exec["provision"]
      BY <1>4, <3>1
    <3>3. PassesOrdered' /\ Rooted'
      BY Zenon, <1>0, <3>1, <3>2 DEF PassesOrdered, Rooted
    <3> QED
      BY Zenon, <1>3, <1>4, <3>1, <3>2, <3>3
  <2>2. CASE b = "pool"
    <3>1. /\ pools' = pools \cup {PoolName(ControlPlane)} /\ UNCHANGED <<cluster, machines, stale>>
          /\ late' = IF "bootstrap" \in stale THEN late \cup ({PoolName(ControlPlane)} \ pools) ELSE late
          /\ exec' = [exec EXCEPT !["bootstrap"] = "machine"]
      BY Zenon, <1>7, <2>2 DEF SeedInventory, Added
    <3>2. /\ exec' \in Passes /\ exec'["bootstrap"] = "machine" /\ exec'["provision"] = exec["provision"]
      BY <1>4, <3>1
    <3>3. PassesOrdered'
      BY Zenon, <1>0, <2>2, <3>1, <3>2 DEF PassesOrdered
    <3>4. Rooted'
      <4>1. CASE "bootstrap" \in stale BY Zenon, <1>0, <3>1, <4>1 DEF Rooted
      <4>2. CASE "bootstrap" \notin stale BY Zenon, <1>0, <2>2, <3>1, <4>2 DEF Rooted, PassesOrdered
      <4> QED BY Zenon, <4>1, <4>2
    <3> QED
      BY Zenon, <1>3, <1>4, <3>1, <3>2, <3>3, <3>4
  <2>3. CASE b = "machine"
    <3>1. /\ machines' = machines \cup {ControlPlane} /\ UNCHANGED <<cluster, pools, stale>>
          /\ late' = IF "bootstrap" \in stale THEN late \cup ({ControlPlane} \ machines) ELSE late
          /\ exec' = [exec EXCEPT !["bootstrap"] = "record"]
      BY Zenon, <1>7, <2>3 DEF SeedInventory, Added
    <3>2. /\ exec' \in Passes /\ exec'["bootstrap"] = "record" /\ exec'["provision"] = exec["provision"]
      BY <1>4, <3>1
    <3>3. PassesOrdered'
      BY Zenon, <1>0, <3>1, <3>2 DEF PassesOrdered
    <3>4. Rooted'
      <4>1. CASE "bootstrap" \in stale BY Zenon, <1>0, <3>1, <4>1 DEF Rooted
      <4>2. CASE "bootstrap" \notin stale BY Zenon, <1>0, <2>3, <3>1, <4>2 DEF Rooted, PassesOrdered
      <4> QED BY Zenon, <4>1, <4>2
    <3>5. machines' \subseteq Nodes BY Zenon, <1>4, <3>1, ControlPlaneAssumption
    <3> QED
      BY Zenon, <1>3, <3>2, <3>3, <3>4, <3>5
  <2> QED
    BY Zenon, <1>7, <2>1, <2>2, <2>3 DEF SeedInventory
<1>8. ASSUME NEW n \in Nodes, BindMachine(n) PROVE ServeInv'
  <2> DEFINE w == exec["provision"]
  <2>1. /\ machines' = machines \cup {n} /\ UNCHANGED <<cluster, pools, exec, stale>> /\ w = "pass" /\ n # ControlPlane
        /\ late' = IF "provision" \in stale THEN late \cup ({n} \ machines) ELSE late
    BY Zenon, <1>8 DEF BindMachine, Added
  <2>2. PassesOrdered'
    BY Zenon, <1>0, <2>1 DEF PassesOrdered
  <2>3. PoolName(n) = "workers" BY Zenon, <2>1 DEF PoolName
  <2>4. Rooted'
    <3>1. CASE "provision" \in stale BY Zenon, <1>0, <2>1, <3>1 DEF Rooted
    <3>2. CASE "provision" \notin stale BY Zenon, <1>0, <2>1, <2>3, <3>2 DEF Rooted, PassesOrdered
    <3> QED BY Zenon, <3>1, <3>2
  <2>5. machines' \subseteq Nodes BY Zenon, <1>4, <2>1
  <2> QED
    BY Zenon, <1>3, <1>4, <2>1, <2>2, <2>4, <2>5
<1> QED
  BY Zenon, <1>4, <1>5, <1>6, <1>7, <1>8

\* A seed takes the store and writes the cluster, the pools and the machines, in that order.
LEMMA SeedServe ==
  ASSUME ServeInv,
         \/ SeedReads \/ SeedOpens \/ SeedCluster \/ SeedEnds
         \/ (\E p \in PoolNames : SeedPool(p)) \/ (\E n \in Nodes : SeedMachine(n))
  PROVE  ServeInv'
<1>0. Shapes /\ StoreOwned /\ SeedOrdered /\ PassesOrdered /\ Rooted /\ PassCurrent /\ Known
  BY Zenon DEF ServeInv, StoreInv, CacheInv
<1>1. UNCHANGED <<srv, exec, stale, late, obs, ref, crossed, real, realK8s>> /\ machines \subseteq machines'
  BY Zenon DEF SeedReads, SeedOpens, SeedCluster, SeedEnds, SeedPool, SeedMachine, process, inventory,
         executors, cache, reality
<1>2. PassCurrent' /\ Known'
  BY Zenon, <1>0, <1>1 DEF PassCurrent, Known
<1>3. CASE SeedReads
  <2>1. /\ seed'.pc = "open" /\ seed'.pools = PoolNames /\ UNCHANGED <<lock, cluster, pools, machines>>
        /\ seed' = [pc |-> "open", pools |-> PoolNames, machines |-> Nodes]
    BY Zenon, <1>3 DEF SeedReads, PoolNames, process, inventory
  <2>2. Shapes'
    BY <1>0, <1>1, <2>1 DEF Shapes
  <2> QED
    BY Zenon, <1>0, <1>1, <1>2, <2>1, <2>2 DEF ServeInv, StoreInv, CacheInv, StoreOwned, SeedOrdered, PassesOrdered, Rooted
<1>4. CASE SeedOpens
  <2>1. /\ seed'.pc = "cluster" /\ seed'.pools = seed.pools /\ seed.pc = "open" /\ lock = "none" /\ lock' = "seed"
        /\ UNCHANGED <<cluster, pools, machines>>
    BY Zenon, <1>0, <1>4 DEF SeedOpens, Shapes, inventory
  <2>2. Shapes'
    BY Zenon, <1>0, <1>1, <1>4, <2>1 DEF SeedOpens, Shapes
  <2> QED
    BY Zenon, <1>0, <1>1, <1>2, <2>1, <2>2 DEF ServeInv, StoreInv, CacheInv, StoreOwned, SeedOrdered, PassesOrdered, Rooted
<1>5. CASE SeedCluster
  <2>1. /\ seed'.pc = "records" /\ seed'.pools = seed.pools /\ seed.pc = "cluster" /\ cluster' = TRUE
        /\ UNCHANGED <<lock, pools, machines>>
    BY Zenon, <1>0, <1>5 DEF SeedCluster, Shapes, process
  <2>2. Shapes'
    BY Zenon, <1>0, <1>1, <1>5, <2>1 DEF SeedCluster, Shapes
  <2> QED
    BY Zenon, <1>0, <1>1, <1>2, <2>1, <2>2 DEF ServeInv, StoreInv, CacheInv, StoreOwned, SeedOrdered, PassesOrdered, Rooted
<1>6. ASSUME NEW p \in PoolNames, SeedPool(p) PROVE ServeInv'
  <2>1. /\ seed'.pc = "records" /\ seed'.pools = seed.pools \ {p} /\ seed.pc = "records" /\ pools' = pools \cup {p}
        /\ UNCHANGED <<lock, cluster, machines>>
    BY Zenon, <1>0, <1>6 DEF SeedPool, Shapes, process
  <2>2. Shapes'
    BY Zenon, <1>0, <1>1, <1>6, <2>1 DEF SeedPool, Shapes
  <2> QED
    BY Zenon, <1>0, <1>1, <1>2, <2>1, <2>2 DEF ServeInv, StoreInv, CacheInv, StoreOwned, SeedOrdered, PassesOrdered, Rooted
<1>7. ASSUME NEW n \in Nodes, SeedMachine(n) PROVE ServeInv'
  <2>1. /\ seed'.pc = "records" /\ seed'.pools = seed.pools /\ seed.pools = {} /\ seed.pc = "records"
        /\ machines' = machines \cup {n} /\ UNCHANGED <<lock, cluster, pools>>
    BY Zenon, <1>0, <1>7 DEF SeedMachine, Shapes, process
  <2>2. Shapes'
    BY Zenon, <1>0, <1>1, <1>7, <2>1 DEF SeedMachine, Shapes
  <2>3. PoolName(n) \in pools
    BY Zenon, <1>0, <2>1 DEF SeedOrdered, PoolNames
  <2>4. Rooted'
    BY Zenon, <1>0, <1>1, <2>1, <2>3 DEF Rooted
  <2> QED
    BY Zenon, <1>0, <1>1, <1>2, <2>1, <2>2, <2>4 DEF ServeInv, StoreInv, CacheInv, StoreOwned, SeedOrdered, PassesOrdered
<1>8. CASE SeedEnds
  <2>1. /\ seed' = NoSeed /\ lock' = IF lock = "seed" THEN "none" ELSE lock
        /\ UNCHANGED <<cluster, pools, machines>>
    BY Zenon, <1>8 DEF SeedEnds, inventory
  <2>2. Shapes'
    BY Zenon, <1>0, <1>1, <2>1, NothingRuns DEF Shapes
  <2> QED
    BY Zenon, <1>0, <1>1, <1>2, <2>1, <2>2, NothingRuns DEF ServeInv, StoreInv, CacheInv, StoreOwned, SeedOrdered, PassesOrdered, Rooted
<1> QED
  BY Zenon, <1>3, <1>4, <1>5, <1>6, <1>7, <1>8

\* Throughout, the store has one user, a seed writes in order, and the cache and the pass
\* that fills it are about machines in the inventory.
LEMMA ServeInvariance == Spec => []ServeInv
<1>1. ASSUME Init PROVE ServeInv
  <2>1. Shapes
    BY <1>1, NothingRuns DEF Init, Shapes, Unknown
  <2>2. StoreOwned /\ SeedOrdered /\ Rooted
    BY Zenon, <1>1, NothingRuns DEF Init, StoreOwned, SeedOrdered, Rooted
  <2>2a. PassesOrdered
    BY <1>1, NothingRuns DEF Init, PassesOrdered, Executors
  <2>3. PassCurrent /\ Known
    BY Zenon, <1>1, NothingRuns DEF Init, PassCurrent, Known
  <2> QED
    BY Zenon, <2>1, <2>2, <2>2a, <2>3 DEF ServeInv, StoreInv, CacheInv
<1>2. ASSUME ServeInv, [Next]_vars PROVE ServeInv'
  <2>1. CASE Crash \/ ServeFails \/ McpTimesOut \/ GracefulStop
    BY Zenon, <1>2, <2>1, ExitServe DEF Crash, ServeFails, McpTimesOut, GracefulStop
  <2> QED
    BY Zenon, <1>2, <2>1, ProcessServe, RefreshServe, DeleteServe, ExecutorServe, SeedServe DEF Next, Down, PoolNames
<1> QED
  BY <1>1, <1>2, PTL DEF Spec

\* A machine in the inventory has its pool there and a pool its cluster: no seed or
\* bootstrap that is cut short, no deletion and no crash leaves a record without the one it
\* belongs to, other than what a pass adds that DeleteCluster found under way.
THEOREM InventoryStaysRooted == Spec => []InventoryRooted
<1>1. ServeInv => InventoryRooted
  BY Zenon DEF ServeInv, StoreInv, Rooted, InventoryRooted
<1> QED
  BY <1>1, ServeInvariance, PTL

\* The cache holds an observation only for a machine in the inventory, or for one that was
\* deleted while a pass of the refresher was under way.
THEOREM ObservedStaysKnown == Spec => []ObservedKnown
<1>1. ServeInv => ObservedKnown
  BY Zenon DEF ServeInv, CacheInv, Known, ObservedKnown
<1> QED
  BY <1>1, ServeInvariance, PTL
============================================================================
