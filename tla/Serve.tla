------------------------------- MODULE Serve -------------------------------
(***************************************************************************)
(* The server process (cmd/medea/serve.go): it comes up through its TLS    *)
(* certificate, the lock of the store and the listener, serves, and goes   *)
(* down on a signal, on an error or in a crash.  Composed with what lives  *)
(* and dies with it: the refresh loop (internal/refresh) and its in-memory *)
(* cache of observed state, the Watch streams and MCP requests it has to   *)
(* see off; with the executors that write the inventory as passes go by    *)
(* (internal/provision); and with "medea seed", which opens the same store.*)
(*                                                                         *)
(* One cluster, whose nodes have a Talos version and whose control plane   *)
(* has a Kubernetes version; versions only go up.                          *)
(***************************************************************************)
EXTENDS Integers, FiniteSets

CONSTANTS
    Nodes,         \* the nodes of the cluster
    ControlPlane,  \* the one that is its control plane
    Watchers,      \* clients that may hold a Watch stream
    Budgets        \* bounds: how often each thing outside of the server happens, in
                   \* one mix or another

ASSUME ControlPlaneAssumption == ControlPlane \in Nodes
ASSUME BudgetAssumption ==
    Budgets \subseteq [{"starts", "crashes", "seeds", "deletes", "creates", "upgrades", "faults", "clients"} -> Nat]

VARIABLES
    srv,       \* how far the process is
    lock,      \* who has the store open
    cert, key, \* the TLS files: the pair they belong to
    pair,      \* the pair being generated
    streams,   \* open Watch streams
    mcp,       \* whether an MCP request is being served
    cluster,   \* whether the Cluster record is there
    pools,     \* the NodePool records
    machines,  \* the Machine records
    boot,      \* the ClusterBootstrap record: none, armed, or ready
    exec,      \* how far the pass of each executor is
    stale,     \* history: the executors DeleteCluster has run under
    late,      \* history: the records a pass added after DeleteCluster had run under it
    obs,       \* the observed version in the cache, per node
    obsK8s,    \* the observed Kubernetes version in the cache
    ref,       \* the pass of the refresher
    seed,      \* a "medea seed"
    real,      \* the version of each node
    realK8s,   \* the Kubernetes version of the control plane
    crossed,   \* history: what was deleted in the middle of a pass of the refresher
    left       \* bound: what may still happen

process == <<srv, lock, cert, key, pair, streams, mcp>>
inventory == <<cluster, pools, machines>>
executors == <<boot, exec, stale, late>>
cache == <<obs, obsK8s, ref, crossed>>
reality == <<real, realK8s>>
vars == <<process, inventory, executors, cache, seed, reality, left>>

\* A file that is not there, and one that is empty; a pair is a positive number.
Absent == 0
Blank == -1

\* A version that is not in the cache, and one that is blank; a version is positive.
Unknown == 0
NotReady == -1

PoolName(n) == IF n = ControlPlane THEN "controlplane" ELSE "workers"
Executors == {"bootstrap", "provision"}
NoPass == [pc |-> "idle", todo |-> {}, k8s |-> Unknown]
NoSeed == [pc |-> "idle", pools |-> {}, machines |-> {}]

Init ==
    /\ srv = "stopped" /\ lock = "none"
    /\ cert = Absent /\ key = Absent /\ pair = 0
    /\ streams = {} /\ mcp = FALSE
    /\ cluster = FALSE /\ pools = {} /\ machines = {}
    /\ boot = "none" /\ exec = [e \in Executors |-> "idle"] /\ stale = {} /\ late = {}
    /\ obs = [n \in Nodes |-> Unknown] /\ obsK8s = Unknown
    /\ ref = NoPass /\ seed = NoSeed
    /\ real = [n \in Nodes |-> 1] /\ realK8s = 1
    /\ crossed = {}
    /\ left \in Budgets

Spend(what) == left[what] > 0 /\ left' = [left EXCEPT ![what] = @ - 1]

-----------------------------------------------------------------------------
(* Coming up.                                                              *)

\* A certificate that is there with its key is used as it is.
EnsureServerCert ==
    /\ srv = "stopped" /\ Spend("starts")
    /\ IF cert # Absent /\ key # Absent
       THEN srv' = "load" /\ UNCHANGED pair
       ELSE srv' = "cert" /\ pair' = pair + 1
    /\ UNCHANGED <<lock, cert, key, streams, mcp, inventory, executors, cache, seed, reality>>

\* writePEM, of the certificate and then of the key: the file is emptied, then written.
WritePEM ==
    /\ \/ srv = "cert" /\ cert # Blank /\ cert' = Blank /\ UNCHANGED <<srv, key>>
       \/ srv = "cert" /\ cert = Blank /\ cert' = pair /\ srv' = "key" /\ UNCHANGED key
       \/ srv = "key" /\ key # Blank /\ key' = Blank /\ UNCHANGED <<srv, cert>>
       \/ srv = "key" /\ key = Blank /\ key' = pair /\ srv' = "load" /\ UNCHANGED cert
    /\ UNCHANGED <<lock, pair, streams, mcp, inventory, executors, cache, seed, reality, left>>

\* A key that is not the certificate's ends the process.
LoadTLS ==
    /\ srv = "load"
    /\ srv' = IF cert > 0 /\ cert = key THEN "open" ELSE "stopped"
    /\ UNCHANGED <<lock, cert, key, pair, streams, mcp, inventory, executors, cache, seed, reality, left>>

\* store.Open waits for as long as another process has the store.
OpenStore ==
    /\ srv = "open" /\ lock = "none"
    /\ lock' = "server" /\ srv' = "listen"
    /\ UNCHANGED <<cert, key, pair, streams, mcp, inventory, executors, cache, seed, reality, left>>

\* The listener, the refresh loop, the executors and the MCP server.
Listen ==
    /\ srv = "listen" /\ srv' = "up"
    /\ UNCHANGED <<lock, cert, key, pair, streams, mcp, inventory, executors, cache, seed, reality, left>>

-----------------------------------------------------------------------------
(* Going down.  The process ends with everything it has in memory.         *)

Exit ==
    /\ srv' = "stopped"
    /\ lock' = IF lock = "server" THEN "none" ELSE lock
    /\ streams' = {} /\ mcp' = FALSE
    /\ obs' = [n \in Nodes |-> Unknown] /\ obsK8s' = Unknown /\ ref' = NoPass /\ crossed' = {}
    /\ exec' = [e \in Executors |-> "idle"] /\ stale' = {}
    /\ UNCHANGED <<cert, key, pair, inventory, boot, late, seed, reality>>

Crash == srv # "stopped" /\ Spend("crashes") /\ Exit

\* The listener or the MCP server reports an error.
ServeFails == srv = "up" /\ Spend("faults") /\ Exit

\* SIGTERM: the executors and the refresher are told to stop, and nobody waits for them.
Sigterm ==
    /\ srv = "up" /\ srv' = "mcp"
    /\ UNCHANGED <<lock, cert, key, pair, streams, mcp, inventory, executors, cache, seed, reality, left>>

\* Shutdown of the MCP server, which waits for its requests.
McpShutdown ==
    /\ srv = "mcp" /\ ~mcp /\ srv' = "graceful"
    /\ UNCHANGED <<lock, cert, key, pair, streams, mcp, inventory, executors, cache, seed, reality, left>>

\* Mutant: there is no limit to that.
McpTimesOutMutant == FALSE /\ Exit /\ UNCHANGED left

\* It waits for ten seconds, and then the process ends without a GracefulStop.
McpTimesOut == srv = "mcp" /\ mcp /\ Exit /\ UNCHANGED left

\* GracefulStop returns when the last stream is gone.
GracefulStop == srv = "graceful" /\ streams = {} /\ Exit /\ UNCHANGED left

\* Until GracefulStop the listener takes requests.
Serving == srv \in {"up", "mcp"}

\* Clients open a stream or make an MCP request while the server listens.
OpenStream(w) ==
    /\ Serving /\ w \notin streams /\ Spend("clients") /\ streams' = streams \cup {w}
    /\ UNCHANGED <<srv, lock, cert, key, pair, mcp, inventory, executors, cache, seed, reality>>
CloseStream(w) ==
    /\ w \in streams /\ streams' = streams \ {w}
    /\ UNCHANGED <<srv, lock, cert, key, pair, mcp, inventory, executors, cache, seed, reality, left>>
McpRequest ==
    /\ srv = "up" /\ ~mcp /\ Spend("clients") /\ mcp' = TRUE
    /\ UNCHANGED <<srv, lock, cert, key, pair, streams, inventory, executors, cache, seed, reality>>
McpReturns ==
    /\ mcp /\ mcp' = FALSE
    /\ UNCHANGED <<srv, lock, cert, key, pair, streams, inventory, executors, cache, seed, reality, left>>

-----------------------------------------------------------------------------
(* The refresh loop.                                                       *)

\* Once: the cluster is listed and its clients are built.
RefreshStart ==
    /\ srv = "up" /\ ref.pc = "idle" /\ cluster
    /\ ref' = [ref EXCEPT !.pc = "nodes"]
    /\ UNCHANGED <<process, inventory, executors, obs, obsK8s, crossed, seed, reality, left>>

\* ListNodes, and the machines to ask.
RefreshNodes ==
    /\ srv = "up" /\ ref.pc = "nodes"
    /\ ref' = [pc |-> "machines", todo |-> machines, k8s |-> realK8s]
    /\ UNCHANGED <<process, inventory, executors, obs, obsK8s, crossed, seed, reality, left>>

\* After SIGTERM every call fails, before it some do.
CallFails == IF srv = "up" THEN Spend("faults") ELSE UNCHANGED left

\* The cluster cannot be reached: its control plane is not ready, the rest stays.
RefreshUnreachable ==
    /\ ref.pc = "nodes" /\ CallFails
    /\ obsK8s' = NotReady
    /\ ref' = NoPass
    /\ UNCHANGED <<process, inventory, executors, obs, crossed, seed, reality>>

\* Mutant: a node that does not answer keeps what was observed before, and one that
\* does keeps it too.
RefreshMachineMutant(n) ==
    /\ ref.pc = "machines" /\ n \in ref.todo
    /\ obs' = [obs EXCEPT ![n] = IF @ > 0 THEN @ ELSE real[n]]
    /\ ref' = [ref EXCEPT !.todo = @ \ {n}]
    /\ UNCHANGED <<process, inventory, executors, obsK8s, crossed, seed, reality, left>>

\* A machine's version, or none if it does not answer.
RefreshMachine(n) ==
    /\ ref.pc = "machines" /\ n \in ref.todo
    /\ \/ srv = "up" /\ obs' = [obs EXCEPT ![n] = real[n]] /\ UNCHANGED left
       \/ obs' = [obs EXCEPT ![n] = NotReady] /\ CallFails
    /\ ref' = [ref EXCEPT !.todo = @ \ {n}]
    /\ UNCHANGED <<process, inventory, executors, obsK8s, crossed, seed, reality>>

\* The cluster's own observed state, from the nodes listed at the start.
RefreshDone ==
    /\ ref.pc = "machines" /\ ref.todo = {}
    /\ obsK8s' = ref.k8s
    /\ ref' = NoPass
    /\ UNCHANGED <<process, inventory, executors, obs, crossed, seed, reality, left>>

-----------------------------------------------------------------------------
(* The inventory.                                                          *)

Across(what) == IF ref.pc = "idle" THEN crossed ELSE crossed \cup what

\* Nobody stops the passes that are under way.
UnderPasses ==
    /\ boot' = "none" /\ late' = {} /\ stale' = {e \in Executors : exec[e] # "idle"}
    /\ UNCHANGED exec

\* Mutant: the cache is left alone.
DeleteClusterMutant ==
    /\ Serving /\ Spend("deletes")
    /\ cluster' = FALSE /\ pools' = {} /\ machines' = {}
    /\ UnderPasses
    /\ crossed' = Across(Nodes)
    /\ UNCHANGED <<process, obs, obsK8s, ref, seed, reality>>

\* DeleteCluster: every record in one transaction, and the cache.
DeleteCluster ==
    /\ Serving /\ Spend("deletes")
    /\ cluster' = FALSE /\ pools' = {} /\ machines' = {}
    /\ obs' = [n \in Nodes |-> Unknown] /\ obsK8s' = Unknown
    /\ UnderPasses
    /\ crossed' = Across(Nodes)
    /\ UNCHANGED <<process, ref, seed, reality>>

\* DeleteMachine, of a worker that a pass scales in.
DeleteMachine(n) ==
    /\ exec["provision"] = "pass" /\ n \in machines \ {ControlPlane} /\ Spend("deletes")
    /\ machines' = machines \ {n}
    /\ obs' = [obs EXCEPT ![n] = Unknown]
    /\ crossed' = Across({n})
    /\ UNCHANGED <<process, cluster, pools, executors, obsK8s, ref, seed, reality>>

\* CreateCluster arms a bootstrap, unless there is one or the cluster is there.
CreateCluster ==
    /\ Serving /\ ~cluster /\ boot = "none" /\ Spend("creates")
    /\ boot' = "armed"
    /\ UNCHANGED <<process, inventory, exec, stale, late, cache, seed, reality>>

\* RunOnce of the executors: a bootstrap that has got so far that its inventory is to be
\* seeded, and a pool of workers to reconcile.
StartPass(e) ==
    /\ srv = "up" /\ exec[e] = "idle"
    /\ \/ e = "bootstrap" /\ boot = "armed" /\ exec' = [exec EXCEPT ![e] = "cluster"]
       \/ e = "provision" /\ cluster /\ "workers" \in pools /\ exec' = [exec EXCEPT ![e] = "pass"]
    /\ UNCHANGED <<process, inventory, boot, stale, late, cache, seed, reality, left>>

\* A pass adds a record, if it is not there.
Added(e, what) == late' = IF e \in stale THEN late \cup what ELSE late

\* seedInventory, which a stop of the server does not interrupt.
SeedInventory ==
    /\ \/ /\ exec["bootstrap"] = "cluster"
          /\ cluster' = TRUE
          /\ exec' = [exec EXCEPT !["bootstrap"] = "pool"]
          /\ UNCHANGED <<pools, machines, late>>
       \/ /\ exec["bootstrap"] = "pool"
          /\ pools' = pools \cup {PoolName(ControlPlane)}
          /\ Added("bootstrap", {PoolName(ControlPlane)} \ pools)
          /\ exec' = [exec EXCEPT !["bootstrap"] = "machine"]
          /\ UNCHANGED <<cluster, machines>>
       \/ /\ exec["bootstrap"] = "machine"
          /\ machines' = machines \cup {ControlPlane}
          /\ Added("bootstrap", {ControlPlane} \ machines)
          /\ exec' = [exec EXCEPT !["bootstrap"] = "record"]
          /\ UNCHANGED <<cluster, pools>>
    /\ UNCHANGED <<process, boot, stale, cache, seed, reality, left>>

\* The record is put, whether or not it was deleted meanwhile.
BootstrapReady ==
    /\ exec["bootstrap"] = "record"
    /\ boot' = "ready" /\ exec' = [exec EXCEPT !["bootstrap"] = "idle"] /\ stale' = stale \ {"bootstrap"}
    /\ UNCHANGED <<process, inventory, late, cache, seed, reality, left>>

\* bind, of a worker that has joined.
BindMachine(n) ==
    /\ exec["provision"] = "pass" /\ n # ControlPlane
    /\ machines' = machines \cup {n}
    /\ Added("provision", {n} \ machines)
    /\ UNCHANGED <<process, cluster, pools, boot, exec, stale, cache, seed, reality, left>>

\* A pass ends, when it is done or on an error.
PassEnds(e) ==
    /\ exec[e] # "idle"
    /\ exec' = [exec EXCEPT ![e] = "idle"] /\ stale' = stale \ {e}
    /\ UNCHANGED <<process, inventory, boot, late, cache, seed, reality, left>>

\* "medea seed" lists the nodes, and then opens the store.
SeedReads ==
    /\ seed.pc = "idle" /\ Spend("seeds")
    /\ seed' = [pc |-> "open", pools |-> {PoolName(n) : n \in Nodes}, machines |-> Nodes]
    /\ UNCHANGED <<process, inventory, executors, cache, reality>>

\* It waits for its turn, too.
SeedOpens ==
    /\ seed.pc = "open"
    /\ lock = "none" /\ lock' = "seed"
    /\ seed' = [seed EXCEPT !.pc = "cluster"]
    /\ UNCHANGED <<srv, cert, key, pair, streams, mcp, inventory, executors, cache, reality, left>>

\* Apply asks every node for its version, which is an error once the command's minute is
\* over, and then writes the records.
SeedCluster ==
    /\ seed.pc = "cluster"
    /\ cluster' = TRUE /\ seed' = [seed EXCEPT !.pc = "records"]
    /\ UNCHANGED <<process, pools, machines, executors, cache, reality, left>>

SeedPool(p) ==
    /\ seed.pc = "records" /\ p \in seed.pools
    /\ pools' = pools \cup {p} /\ seed' = [seed EXCEPT !.pools = @ \ {p}]
    /\ UNCHANGED <<process, cluster, machines, executors, cache, reality, left>>

\* Mutant: the machines do not wait for their pools.
SeedMachineMutant(n) ==
    /\ seed.pc = "records" /\ n \in seed.machines
    /\ machines' = machines \cup {n} /\ seed' = [seed EXCEPT !.machines = @ \ {n}]
    /\ UNCHANGED <<process, cluster, pools, executors, cache, reality, left>>

SeedMachine(n) ==
    /\ seed.pc = "records" /\ seed.pools = {} /\ n \in seed.machines
    /\ machines' = machines \cup {n} /\ seed' = [seed EXCEPT !.machines = @ \ {n}]
    /\ UNCHANGED <<process, cluster, pools, executors, cache, reality, left>>

\* The command ends, when it is done, on an error or on an interrupt.
SeedEnds ==
    /\ seed.pc # "idle"
    /\ seed' = NoSeed
    /\ lock' = IF lock = "seed" THEN "none" ELSE lock
    /\ UNCHANGED <<srv, cert, key, pair, streams, mcp, inventory, executors, cache, reality, left>>

\* Nodes are upgraded, and so is Kubernetes.
Upgrade ==
    /\ Spend("upgrades")
    /\ \/ \E n \in Nodes : real' = [real EXCEPT ![n] = @ + 1] /\ UNCHANGED realK8s
       \/ realK8s' = realK8s + 1 /\ UNCHANGED real
    /\ UNCHANGED <<process, inventory, executors, cache, seed>>

-----------------------------------------------------------------------------

Refresh == RefreshStart \/ RefreshNodes \/ (\E n \in Nodes : RefreshMachine(n)) \/ RefreshDone

Down == McpShutdown \/ McpTimesOut \/ GracefulStop

Next ==
    \/ EnsureServerCert \/ WritePEM \/ LoadTLS \/ OpenStore \/ Listen
    \/ Crash \/ ServeFails \/ Sigterm \/ Down
    \/ \E w \in Watchers : OpenStream(w) \/ CloseStream(w)
    \/ McpRequest \/ McpReturns
    \/ Refresh \/ RefreshUnreachable
    \/ DeleteCluster \/ \E n \in Nodes : DeleteMachine(n) \/ BindMachine(n)
    \/ CreateCluster \/ SeedInventory \/ BootstrapReady
    \/ \E e \in Executors : StartPass(e) \/ PassEnds(e)
    \/ SeedReads \/ SeedOpens \/ SeedCluster \/ SeedEnds
    \/ (\E p \in {PoolName(n) : n \in Nodes} : SeedPool(p)) \/ (\E n \in Nodes : SeedMachine(n))
    \/ Upgrade

Spec == Init /\ [][Next]_vars

\* The goroutines of the server run.  Nothing is assumed of clients and operators.
FairSpec == Spec /\ WF_vars(Refresh) /\ WF_vars(Down)

-----------------------------------------------------------------------------
(* Properties.                                                             *)

\* A machine in the inventory has its pool there, and a pool its cluster, wherever a
\* seed or a bootstrap was cut short and whatever was deleted: Apply and seedInventory
\* write the cluster, then the pools, then the machines, a pass binds a worker of a pool
\* that it has listed, and DeleteCluster takes all of them at once.  What is left without
\* the record it belongs to was added by a pass that DeleteCluster found under way, and
\* the next DeleteCluster takes it.
InventoryRooted ==
    /\ \A n \in machines \ late : PoolName(n) \in pools
    /\ pools \ late # {} => cluster

\* The cache holds nothing for a machine that has been deleted, which a machine
\* recorded under the same address would inherit, unless a pass of the refresher
\* ran across the deletion.
ObservedKnown == \A n \in Nodes \ crossed : obs[n] # Unknown => n \in machines

\* A server that is told to stop does, unless a client keeps a Watch stream open:
\* an MCP request that hangs does not keep it.
StopsUnlessWatched == []<>(streams # {}) \/ (srv \in {"mcp", "graceful"} ~> srv = "stopped")

Accurate ==
    srv = "up" /\ cluster => obsK8s = realK8s /\ \A n \in machines : obs[n] = real[n]

\* Once nothing changes any more, the observed state of a server that is up becomes
\* that of the cluster, after restarts too, when the cache starts out empty.
RefreshCatchesUp == <>[]Accurate
============================================================================
