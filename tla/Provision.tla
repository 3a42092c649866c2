----------------------------- MODULE Provision -----------------------------
(***************************************************************************)
(* The provisioning plane (internal/provision/reconciler.go, executor.go): *)
(* registered hosts are network-booted, joined to a pool and released      *)
(* again to keep the pool at its number of replicas.                       *)
(*                                                                         *)
(* The reconciler reads the hosts and the nodes at the start of a pass and *)
(* decides on those copies; each write of the pass is a step of its own.   *)
(* An error ends a pass and so does a crash, with the same effect: nothing *)
(* of a pass is kept but its writes.                                       *)
(***************************************************************************)
EXTENDS Integers, FiniteSets

CONSTANTS
    Hosts,        \* MAC addresses, in their order; host h boots as the node of address h
    Pools,        \* the worker pools that provisioning manages
    Matching,     \* the hosts each pool's selector matches
    InitReplicas, \* NodePool.Replicas at first
    InitHosts,    \* the pool each host may be registered in at first, 0 for none
    Operations,   \* the kinds of request the operator makes
    MaxReplicas,  \* bound: NodePool.Replicas
    MaxEdits,     \* bound: API requests
    MaxTimeouts,  \* bound: provisions that run out of time
    MaxFaults     \* bound: passes cut short by an error or a crash, nodes that go down

ASSUME HostsAssumption == Hosts \subseteq Nat \ {0} /\ IsFiniteSet(Hosts)
ASSUME ProvisionPoolsAssumption == Pools \subseteq Nat \ {0} /\ Matching \in [Pools -> SUBSET Hosts]
ASSUME ReplicasAssumption == MaxReplicas \in Nat /\ InitReplicas \in [Pools -> 0..MaxReplicas]
ASSUME InitHostsAssumption == InitHosts \subseteq [Hosts -> Pools \cup {0}]
ASSUME OperationsAssumption == Operations \subseteq {"enable", "register", "deregister", "replicas"}
ASSUME ProvisionBoundsAssumption == MaxEdits \in Nat /\ MaxTimeouts \in Nat /\ MaxFaults \in Nat

VARIABLES
    enabled,   \* Cluster.ProvisioningEnabled
    pool,      \* NodePool records: replicas and members
    host,      \* Host records
    machines,  \* the addresses with a Machine record
    staged,    \* the hosts with a boot configuration in Matchbox
    node,      \* the cluster's nodes, by address
    ps,        \* the pass of the reconciler
    edits,     \* API requests so far
    timeouts,  \* provisions timed out so far
    faults,    \* faults so far
    given      \* history: the hosts deregistered, those released by scale-in, whether two
               \* hosts were staged at once without a node, whether one was out of sight

vars == <<enabled, pool, host, machines, staged, node, ps, edits, timeouts, faults, given>>

HostStates == {"none", "REGISTERED", "PROVISIONING", "READY", "FAILED"}

\* A Host record; state "none" is no record, pool 0 no pool, started is ProvisioningStartedAt.
Host == [state : HostStates, pool : Pools \cup {0}, addr : Hosts \cup {0}, started : BOOLEAN]
NoHost == [state |-> "none", pool |-> 0, addr |-> 0, started |-> FALSE]

Node == [joined : BOOLEAN, ready : BOOLEAN, cordoned : BOOLEAN]

PCs == {"idle", "hosts", "bindMachine", "bindMember", "drain", "unstage",
        "deleteMachine", "removeMember", "release", "stage", "start"}

\* The locals of ReconcilePool: what it read, the hosts still to look at, its
\* counts, and the host and address it works on.
Pass == [pc : PCs, pool : Pools \cup {0}, replicas : 0..MaxReplicas,
         hosts : [Hosts -> Host], listed : SUBSET Hosts, up : SUBSET Hosts,
         claimed : SUBSET Hosts, todo : SUBSET Hosts, ready : Nat,
         inflight : BOOLEAN, failed : BOOLEAN, cur : Hosts \cup {0}, addr : Hosts \cup {0}]

NoPass == [pc |-> "idle", pool |-> 0, replicas |-> 0, hosts |-> [h \in Hosts |-> NoHost],
           listed |-> {}, up |-> {}, claimed |-> {}, todo |-> {}, ready |-> 0,
           inflight |-> FALSE, failed |-> FALSE, cur |-> 0, addr |-> 0]

Init ==
    /\ enabled = TRUE
    /\ pool = [p \in Pools |-> [replicas |-> InitReplicas[p], members |-> {}]]
    /\ \E registered \in InitHosts :
         host = [h \in Hosts |->
                   IF registered[h] = 0 THEN NoHost
                   ELSE [NoHost EXCEPT !.state = "REGISTERED", !.pool = registered[h]]]
    /\ machines = {}
    /\ staged = {}
    /\ node = [a \in Hosts |-> [joined |-> FALSE, ready |-> FALSE, cordoned |-> FALSE]]
    /\ ps = NoPass
    /\ edits = 0 /\ timeouts = 0 /\ faults = 0
    /\ given = [deregistered |-> {}, released |-> {}, overlap |-> FALSE, hidden |-> FALSE]

\* The hosts that are staged and not bound to a node.
Awaited == {h \in staged : host[h].state # "READY"}

\* The hosts that are in flight, failed or bound without a Machine, and in no pool, where
\* no pass sees them.
Hidden ==
    {h \in Hosts : /\ host[h].pool = 0
                   /\ \/ host[h].state \in {"PROVISIONING", "FAILED"}
                      \/ host[h].state = "READY" /\ host[h].addr \notin machines}

\* History: a host whose record goes, with the node it is bound to, a host that is
\* handed back, two hosts whose nodes are awaited at once, and one that is hidden.
Give ==
    LET gone == {h \in Hosts : host[h].state # "none" /\ host'[h].state = "none"}
        back == {h \in Hosts : host[h].state = "READY" /\ host'[h].state = "REGISTERED"}
    IN  given' = [deregistered |-> given.deregistered \cup gone \cup ({host[h].addr : h \in gone} \ {0}),
                  released |-> given.released \cup back,
                  overlap |-> given.overlap \/ Cardinality(Awaited') > 1,
                  hidden |-> given.hidden \/ Hidden' # {}]

-----------------------------------------------------------------------------
(* The API.                                                                *)

Edit(op) == op \in Operations /\ edits < MaxEdits /\ edits' = edits + 1
EditRest == UNCHANGED <<machines, staged, node, ps, timeouts, faults>> /\ Give

\* EnableProvisioning, DisableProvisioning.
SetProvisioningEnabled(b) ==
    /\ Edit("enable")
    /\ enabled' = b
    /\ UNCHANGED <<pool, host>> /\ EditRest

\* The record is made anew, with a pool or with none; of an existing one only state and
\* address are kept.
RegisterHost(h, p) ==
    /\ Edit("register")
    /\ host' = [host EXCEPT ![h] =
                  [NoHost EXCEPT !.pool = p, !.addr = host[h].addr,
                     !.state = IF host[h].state = "none" THEN "REGISTERED"
                               ELSE host[h].state]]
    /\ UNCHANGED <<enabled, pool>> /\ EditRest

DeregisterHost(h) ==
    /\ Edit("deregister")
    /\ host[h].state # "none"
    /\ host' = [host EXCEPT ![h] = NoHost]
    /\ UNCHANGED <<enabled, pool>> /\ EditRest

\* The operator gives the pool another number of replicas.
SetReplicas(p, r) ==
    /\ Edit("replicas")
    /\ pool' = [pool EXCEPT ![p].replicas = r]
    /\ UNCHANGED <<enabled, host>> /\ EditRest

-----------------------------------------------------------------------------
(* The reconciler.                                                         *)

PassRest == UNCHANGED <<enabled, edits, faults>> /\ Give

InPool(p) == {h \in Hosts : host[h].state # "none" /\ host[h].pool = p}

\* Mutant: the addresses of the Machine records alone.
claimedAddrsMutant(p) == machines

\* The addresses of the Machine records and of the pool's hosts.
claimedAddrs(p) == machines \cup ({host[h].addr : h \in InPool(p)} \ {0})

\* RunOnce and the head of ReconcilePool: the guards, the hosts, the nodes.
StartPass(p) ==
    /\ ps.pc = "idle"
    /\ enabled
    /\ pool[p].replicas > 0
    /\ ps' = [NoPass EXCEPT
                !.pc = "hosts", !.pool = p, !.replicas = pool[p].replicas, !.hosts = host,
                !.listed = {a \in Hosts : node[a].joined},
                !.up = {a \in Hosts : node[a].joined /\ node[a].ready},
                !.claimed = claimedAddrs(p), !.todo = InPool(p)]
    /\ UNCHANGED <<pool, host, machines, staged, node, timeouts>> /\ PassRest

\* The next host of the loop, in the state it had when the pass began.
NextHost(h, s) ==
    /\ ps.pc = "hosts"
    /\ h \in ps.todo /\ \A g \in ps.todo : h <= g
    /\ ps.hosts[h].state = s

\* The nodes that have joined and that no host or machine accounts for.
newJoinedNodes == ps.up \ ps.claimed

CountHost(h) ==
    /\ \/ /\ NextHost(h, "READY")
          /\ ps' = [ps EXCEPT !.todo = @ \ {h}, !.ready = @ + 1]
       \/ /\ NextHost(h, "FAILED")
          /\ ps' = [ps EXCEPT !.todo = @ \ {h}, !.failed = TRUE]
       \/ /\ NextHost(h, "REGISTERED")
          /\ ps' = [ps EXCEPT !.todo = @ \ {h}]
       \/ /\ NextHost(h, "PROVISIONING")
          /\ newJoinedNodes = {}
          /\ ps' = [ps EXCEPT !.todo = @ \ {h}, !.inflight = TRUE]
    /\ UNCHANGED <<pool, host, machines, staged, node, timeouts>> /\ PassRest

\* Mutant: a host that runs out of time is available again.
TimeOutHostMutant(h) ==
    /\ NextHost(h, "PROVISIONING")
    /\ newJoinedNodes = {}
    /\ ps.hosts[h].started
    /\ timeouts < MaxTimeouts
    /\ timeouts' = timeouts + 1
    /\ host[h].state # "none"
    /\ host' = [host EXCEPT ![h].state = "REGISTERED"]
    /\ staged' = staged \ {h}
    /\ ps' = [ps EXCEPT !.todo = @ \ {h}]
    /\ UNCHANGED <<pool, machines, node>> /\ PassRest

\* The host's provision has run out of time; only a host with a start time can.
TimeOutHost(h) ==
    /\ NextHost(h, "PROVISIONING")
    /\ newJoinedNodes = {}
    /\ ps.hosts[h].started
    /\ timeouts < MaxTimeouts
    /\ timeouts' = timeouts + 1
    /\ host[h].state # "none"
    /\ host' = [host EXCEPT ![h].state = "FAILED"]
    /\ ps' = [ps EXCEPT !.todo = @ \ {h}, !.failed = TRUE]
    /\ UNCHANGED <<pool, machines, staged, node>> /\ PassRest

\* bind, first write: the host is READY at the address of a new node.
BindHost(h, a) ==
    /\ NextHost(h, "PROVISIONING")
    /\ a \in newJoinedNodes
    /\ host[h].state # "none"
    /\ host' = [host EXCEPT ![h].state = "READY", ![h].addr = a]
    /\ ps' = [ps EXCEPT !.pc = "bindMachine", !.cur = h, !.addr = a]
    /\ UNCHANGED <<pool, machines, staged, node, timeouts>> /\ PassRest

\* bind, second write: the Machine record.
BindMachine ==
    /\ ps.pc = "bindMachine"
    /\ machines' = machines \cup {ps.addr}
    /\ ps' = [ps EXCEPT !.pc = "bindMember"]
    /\ UNCHANGED <<pool, host, staged, node, timeouts>> /\ PassRest

\* bind, third write: the member; then the loop goes on.
BindMember ==
    /\ ps.pc = "bindMember"
    /\ pool' = [pool EXCEPT ![ps.pool].members = @ \cup {ps.addr}]
    /\ ps' = [ps EXCEPT !.pc = "hosts", !.todo = @ \ {ps.cur}, !.ready = @ + 1,
                        !.claimed = @ \cup {ps.addr}, !.cur = 0, !.addr = 0]
    /\ UNCHANGED <<host, machines, staged, node, timeouts>> /\ PassRest

\* Mutant: ready hosts are provisioned again.
AvailableMutant ==
    {h \in Matching[ps.pool] : ps.hosts[h].state \in {"REGISTERED", "READY"}
                               /\ ps.hosts[h].pool = ps.pool}

\* The hosts that can be provisioned, and the ones that can be released.
Available == {h \in Matching[ps.pool] : ps.hosts[h].state = "REGISTERED" /\ ps.hosts[h].pool = ps.pool}
Releasable == {h \in Hosts : ps.hosts[h].state = "READY" /\ ps.hosts[h].pool = ps.pool}

First(S, h) == h \in S /\ \A g \in S : h <= g

LoopOver == ps.pc = "hosts" /\ ps.todo = {}
\* Mutant: a host in flight does not hold up the next one.
HaltedMutant == ps.failed

\* Mutant: a failed host does not halt the pool.
HaltedFailedMutant == ps.inflight

Halted == ps.inflight \/ ps.failed

\* Mutant: one host too many is kept.
ScaleInMutant(h) ==
    /\ LoopOver /\ ~Halted
    /\ ps.ready > ps.replicas + 1
    /\ First(Releasable, h)
    /\ ps' = [ps EXCEPT !.pc = "drain", !.cur = h, !.addr = ps.hosts[h].addr]
    /\ UNCHANGED <<pool, host, machines, staged, node, timeouts>> /\ PassRest

\* Too many hosts are ready: release the one with the lowest MAC.
ScaleIn(h) ==
    /\ LoopOver /\ ~Halted
    /\ ps.ready > ps.replicas
    /\ First(Releasable, h)
    /\ ps' = [ps EXCEPT !.pc = "drain", !.cur = h, !.addr = ps.hosts[h].addr]
    /\ UNCHANGED <<pool, host, machines, staged, node, timeouts>> /\ PassRest

\* Too few hosts are ready: provision the first that is available.
ScaleOut(h) ==
    /\ LoopOver /\ ~Halted
    /\ ps.ready < ps.replicas
    /\ First(Available, h)
    /\ ps' = [ps EXCEPT !.pc = "stage", !.cur = h]
    /\ UNCHANGED <<pool, host, machines, staged, node, timeouts>> /\ PassRest

\* The pass ends: there is nothing to do, or no host to do it with, or the host
\* it is working on is gone when it is read again.
EndPass ==
    /\ \/ LoopOver /\ Halted
       \/ LoopOver /\ ps.ready = ps.replicas
       \/ LoopOver /\ ps.ready > ps.replicas /\ Releasable = {}
       \/ LoopOver /\ ps.ready < ps.replicas /\ Available = {}
       \/ ps.pc \in {"release", "start"} /\ host[ps.cur].state = "none"
       \/ ps.pc = "drain" /\ ps.addr \in ps.listed /\ ~node[ps.addr].joined
       \/ \E h \in Hosts : /\ NextHost(h, "PROVISIONING")
                          /\ newJoinedNodes # {} /\ host[h].state = "none"
    /\ ps' = NoPass
    /\ UNCHANGED <<pool, host, machines, staged, node, timeouts>> /\ PassRest

\* A call of the store, of Kubernetes or of Matchbox fails, or Medea crashes.
Abort ==
    /\ ps.pc # "idle"
    /\ faults < MaxFaults
    /\ faults' = faults + 1
    /\ ps' = NoPass
    /\ UNCHANGED <<enabled, pool, host, machines, staged, node, edits, timeouts, given>>

\* Mutant: an error of the drain is ignored.
DrainNodeMutant ==
    /\ ps.pc = "drain"
    /\ ps' = [ps EXCEPT !.pc = "unstage"]
    /\ UNCHANGED <<pool, host, machines, staged, node, timeouts>> /\ PassRest

\* scaleIn: drain the node, if the cluster lists one with that address.
DrainNode ==
    /\ ps.pc = "drain"
    /\ ps.addr \in ps.listed => node[ps.addr].joined
    /\ node' = IF ps.addr \in ps.listed THEN [node EXCEPT ![ps.addr].cordoned = TRUE] ELSE node
    /\ ps' = [ps EXCEPT !.pc = "unstage"]
    /\ UNCHANGED <<pool, host, machines, staged, timeouts>> /\ PassRest

Unstage ==
    /\ ps.pc = "unstage"
    /\ staged' = staged \ {ps.cur}
    /\ ps' = [ps EXCEPT !.pc = IF ps.addr = 0 THEN "release" ELSE "deleteMachine"]
    /\ UNCHANGED <<pool, host, machines, node, timeouts>> /\ PassRest

\* Mutant: the member is left in the pool.
DeleteMachineMutant ==
    /\ ps.pc = "deleteMachine"
    /\ machines' = machines \ {ps.addr}
    /\ ps' = [ps EXCEPT !.pc = "release"]
    /\ UNCHANGED <<pool, host, staged, node, timeouts>> /\ PassRest

DeleteMachine ==
    /\ ps.pc = "deleteMachine"
    /\ machines' = machines \ {ps.addr}
    /\ ps' = [ps EXCEPT !.pc = "removeMember"]
    /\ UNCHANGED <<pool, host, staged, node, timeouts>> /\ PassRest

removeMember ==
    /\ ps.pc = "removeMember"
    /\ pool' = [pool EXCEPT ![ps.pool].members = @ \ {ps.addr}]
    /\ ps' = [ps EXCEPT !.pc = "release"]
    /\ UNCHANGED <<host, machines, staged, node, timeouts>> /\ PassRest

releaseHost ==
    /\ ps.pc = "release"
    /\ host[ps.cur].state # "none"
    /\ host' = [host EXCEPT ![ps.cur].state = "REGISTERED", ![ps.cur].addr = 0]
    /\ ps' = NoPass
    /\ UNCHANGED <<pool, machines, staged, node, timeouts>> /\ PassRest

\* stage: the boot configuration, then the host's state and start time.
Stage ==
    /\ ps.pc = "stage"
    /\ staged' = staged \cup {ps.cur}
    /\ ps' = [ps EXCEPT !.pc = "start"]
    /\ UNCHANGED <<pool, host, machines, node, timeouts>> /\ PassRest

startProvisioning ==
    /\ ps.pc = "start"
    /\ host[ps.cur].state # "none"
    /\ host' = [host EXCEPT ![ps.cur].state = "PROVISIONING", ![ps.cur].started = TRUE]
    /\ ps' = NoPass
    /\ UNCHANGED <<pool, machines, staged, node, timeouts>> /\ PassRest

-----------------------------------------------------------------------------
(* The machines.                                                           *)

EnvRest == UNCHANGED <<enabled, pool, host, machines, staged, ps, edits, timeouts, given>>

\* A staged host boots, installs and joins the cluster under its own address.
Join(a) ==
    /\ a \in staged
    /\ ~node[a].joined
    /\ node' = [node EXCEPT ![a] = [joined |-> TRUE, ready |-> FALSE, cordoned |-> FALSE]]
    /\ UNCHANGED faults /\ EnvRest

NodeReady(a) ==
    /\ node[a].joined /\ ~node[a].ready
    /\ node' = [node EXCEPT ![a].ready = TRUE]
    /\ UNCHANGED faults /\ EnvRest

NodeDown(a) ==
    /\ node[a].ready
    /\ faults < MaxFaults
    /\ faults' = faults + 1
    /\ node' = [node EXCEPT ![a].ready = FALSE]
    /\ EnvRest

\* The operator removes a node that is no member from the cluster.
Remove(a) ==
    /\ node[a].joined
    /\ \A p \in Pools : a \notin pool[p].members
    /\ a \notin staged
    /\ node' = [node EXCEPT ![a] = [joined |-> FALSE, ready |-> FALSE, cordoned |-> FALSE]]
    /\ UNCHANGED faults /\ EnvRest

Reconcile ==
    \/ \E p \in Pools : StartPass(p)
    \/ \E h \in Hosts : \/ CountHost(h)
                        \/ TimeOutHost(h)
                        \/ \E a \in Hosts : BindHost(h, a)
                        \/ ScaleIn(h)
                        \/ ScaleOut(h)
    \/ BindMachine
    \/ BindMember
    \/ DrainNode
    \/ Unstage
    \/ DeleteMachine
    \/ removeMember
    \/ releaseHost
    \/ Stage
    \/ startProvisioning
    \/ EndPass

Api ==
    \/ \E b \in BOOLEAN : SetProvisioningEnabled(b)
    \/ \E h \in Hosts, p \in Pools \cup {0} : RegisterHost(h, p)
    \/ \E h \in Hosts : DeregisterHost(h)
    \/ \E p \in Pools, r \in 0..MaxReplicas : SetReplicas(p, r)

Env == \E a \in Hosts : Join(a) \/ NodeReady(a) \/ NodeDown(a) \/ Remove(a)

Next == Reconcile \/ Abort \/ Api \/ Env

Spec == Init /\ [][Next]_vars

\* The executor's ticker starts pass after pass over every pool, and a pass runs to
\* its end; a staged host is powered on and the node that joins becomes ready.
Fairness ==
    /\ WF_vars(Reconcile)
    /\ \A p \in Pools : SF_vars(StartPass(p))
    /\ \A a \in Hosts : WF_vars(Join(a)) /\ WF_vars(NodeReady(a))

FairSpec == Spec /\ Fairness

-----------------------------------------------------------------------------
(* Properties, of a cluster with one pool that is provisioned.  Two such   *)
(* pools disturb each other: each stages its own host, claimedAddrs counts *)
(* the hosts of one of them, and RegisterHost moves a host in flight.  So  *)
(* do two passes, before and after a host that is in flight, failed or     *)
(* half bound is registered without a pool: the second does not see it.    *)
(* Where that matters the properties except it (given.hidden), and only    *)
(* it: a free host, or one with a Machine, may come and go.                *)

\* The variables keep the types their declarations give them.
ProvisionTypeOK ==
    /\ enabled \in BOOLEAN
    /\ pool \in [Pools -> [replicas : 0..MaxReplicas, members : SUBSET Hosts]]
    /\ host \in [Hosts -> Host]
    /\ machines \subseteq Hosts /\ staged \subseteq Hosts
    /\ node \in [Hosts -> Node]
    /\ ps \in Pass
    /\ edits \in 0..MaxEdits /\ timeouts \in 0..MaxTimeouts /\ faults \in 0..MaxFaults
    /\ given \in [deregistered : SUBSET Hosts, released : SUBSET Hosts,
                  overlap : BOOLEAN, hidden : BOOLEAN]

HostsIn(p, s) == {h \in InPool(p) : host[h].state = s}

\* A pool provisions one host at a time, whatever is registered, deregistered or
\* resized meanwhile and wherever a pass is cut short: ReconcilePool parks while
\* a host is in flight ("one op at a time").  This holds until a host is hidden.
OneProvisioning ==
    ~given.hidden => \A p \in Pools : Cardinality(HostsIn(p, "PROVISIONING")) <= 1

\* Two ready hosts of a pool are never bound to the same node, even when bind is
\* cut short between its three writes (claimedAddrs counts the hosts too), and even when
\* one of them is out of the pool meanwhile, unless it is hidden there.
AddrOnce ==
    ~given.hidden =>
        \A p \in Pools : \A g, h \in HostsIn(p, "READY") : host[g].addr = host[h].addr => g = h

\* While a host of the pool is FAILED no further host is put to provisioning: a
\* failed provision halts the pool until the operator clears it, or hides it.
FailureHalts ==
    [][\A p \in Pools, h \in Hosts :
         ~given.hidden /\ HostsIn(p, "FAILED") # {} /\ host[h].pool = p /\ host[h].state # "PROVISIONING"
           => host'[h].state # "PROVISIONING"]_vars

\* A node leaves the members of its pool only cordoned, unless it was not in the
\* cluster when the pass began: scaleIn drains first, on every retry of an interrupted
\* release, and nothing brings an undrained node back under the same address meanwhile.
DrainedBeforeRelease ==
    [][\A p \in Pools : \A a \in pool[p].members \ pool'[p].members :
         a \in ps.listed => node[a].joined /\ node[a].cordoned]_vars

\* A member of the pool is the node of a READY host: a host is handed back to the
\* inventory only after its node has left the members, and a node becomes a member
\* only after its host is READY, wherever the writes are cut short.  (Deregistering a
\* host drops its record alone and leaves its node a member.)
MemberIsReady ==
    \A p \in Pools : \A a \in pool[p].members \ given.deregistered :
        \E h \in Hosts : host[h].state = "READY" /\ host[h].addr = a

\* A READY host is bound to the node it booted: newJoinedNode's "Safe because the
\* reconciler stages one host at a time".
BoundToOwn == \A h \in Hosts : host[h].state = "READY" => host[h].addr = h

\* One host at a time is staged and awaited, as the comment has it, and none has been
\* released or deregistered, which would leave its node in the cluster with nobody's
\* record.  A staging cut short before its record was written, and followed by that of
\* another host, makes two.
OneAtATime == ~given.overlap /\ given.deregistered \cup given.released = {}

\* As long as that is so, and no host is hidden, BoundToOwn does hold, through timeouts,
\* faults, resizing and registering, with a pool or without, at any point of a pass.
BoundUntilGiven == OneAtATime /\ ~given.hidden => BoundToOwn

\* No boot configuration is written, and no provision started, for a machine that
\* is a member of a pool and would be installed over: the copy of the inventory a
\* pass decides on is not out of date in this respect, as long as OneAtATime.
NeverRestaged ==
    ps.pc \in {"stage", "start"} /\ OneAtATime => \A p \in Pools : ps.cur \notin pool[p].members

\* Once the operator leaves a pool alone, enabled and with hosts enough that none
\* of them has failed or was deregistered, the pool comes to its number of replicas and stays there.
Settled(p) ==
    /\ enabled /\ pool[p].replicas > 0
    /\ HostsIn(p, "FAILED") = {} /\ given.deregistered = {}
    /\ Cardinality(InPool(p) \cap Matching[p]) >= pool[p].replicas

Converges ==
    \A p \in Pools :
        <>[]Settled(p) => <>[](Cardinality(HostsIn(p, "READY")) = pool[p].replicas)
============================================================================
