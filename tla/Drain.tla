-------------------------------- MODULE Drain --------------------------------
(***************************************************************************)
(* Draining a node (internal/kube/client.go), as the two executors do it   *)
(* that share no lock: a rollout drains a node, reboots it and uncordons   *)
(* it (rollout.go, upgradeNode and finishUpgrade), a scale-in drains a     *)
(* node and gives its host back (reconciler.go, scaleIn).                  *)
(*                                                                         *)
(* Pods are placed by a scheduler that decides on a node first and binds   *)
(* the pod later, and are replaced when they are gone.  They are covered   *)
(* by one disruption budget.                                               *)
(***************************************************************************)
EXTENDS Naturals, FiniteSets

CONSTANTS
    Nodes,        \* nodes of the cluster
    Pods,         \* pods that are listed on the nodes
    Static,       \* those of a DaemonSet and the mirror pods, which stay where they are
    MinAvailable, \* pods that the disruption budget wants to run
    NoNode        \* no node

ASSUME NoNodeAssumption == NoNode \notin Nodes
ASSUME StaticAssumption == Static \subseteq Pods

VARIABLES
    cordoned,  \* nodes that are unschedulable
    pod,       \* where each pod is, and how far
    drain      \* what each executor is doing

vars == <<cordoned, pod, drain>>

Drainers == {"rollout", "scale-in"}

\* A pod waits for a node, has been given one, is bound to it (which is when
\* a list shows it on the node), or is terminating.
Pod == [state : {"pending", "assigned", "bound", "terminating"}, node : Nodes \cup {NoNode}]

\* listed are the pods still to evict in this round; late says that the timeout has
\* passed; disturbed is history: another executor uncordoned the node, or a pod was bound
\* to it that had been given it before it was cordoned.
Drainer == [pc : {"idle", "cordon", "list", "evict", "drained", "rebooted"},
            node : Nodes \cup {NoNode}, listed : SUBSET Pods, late : BOOLEAN, disturbed : BOOLEAN]
Idle == [pc |-> "idle", node |-> NoNode, listed |-> {}, late |-> FALSE, disturbed |-> FALSE]

Init ==
    /\ cordoned = {}
    /\ pod \in [Pods -> {[state |-> "bound", node |-> n] : n \in Nodes}]
    /\ drain = [d \in Drainers |-> Idle]

Draining(d) == drain[d].pc \in {"list", "evict"}

-----------------------------------------------------------------------------
(* Drain.                                                                  *)

Start(d, n) ==
    /\ drain[d].pc = "idle"
    /\ drain' = [drain EXCEPT ![d] = [Idle EXCEPT !.pc = "cordon", !.node = n]]
    /\ UNCHANGED <<cordoned, pod>>

\* Mutant: the node takes pods while it is drained.
CordonMutant(d) ==
    /\ drain[d].pc = "cordon"
    /\ drain' = [drain EXCEPT ![d].pc = "list"]
    /\ UNCHANGED <<cordoned, pod>>

\* setUnschedulable comes first.
Cordon(d) ==
    /\ drain[d].pc = "cordon"
    /\ cordoned' = cordoned \cup {drain[d].node}
    /\ drain' = [drain EXCEPT ![d].pc = "list"]
    /\ UNCHANGED pod

\* isEvictable: a terminating pod is not, and neither is one of a DaemonSet.
Evictable(n) == {p \in Pods \ Static : pod[p].state = "bound" /\ pod[p].node = n}

\* A round starts with the pods of the node; without any the drain is done.
List(d) ==
    /\ drain[d].pc = "list" /\ ~drain[d].late
    /\ LET ps == Evictable(drain[d].node)
       IN  drain' = [drain EXCEPT ![d].pc = IF ps = {} THEN "drained" ELSE "evict",
                                  ![d].listed = ps]
    /\ UNCHANGED <<cordoned, pod>>

\* The eviction API refuses what the disruption budget does not allow.
Allowed == Cardinality({p \in Pods \ Static : pod[p].state = "bound"}) > MinAvailable

\* A pod is evicted, is gone already, or is left for the next round.
Evict(d, p) ==
    /\ drain[d].pc = "evict" /\ p \in drain[d].listed /\ ~drain[d].late
    /\ pod' = IF pod[p] = [state |-> "bound", node |-> drain[d].node] /\ Allowed
              THEN [pod EXCEPT ![p].state = "terminating"] ELSE pod
    /\ drain' = [drain EXCEPT ![d].listed = @ \ {p}]
    /\ UNCHANGED cordoned

\* The poll interval is over.
Again(d) ==
    /\ drain[d].pc = "evict" /\ drain[d].listed = {} /\ ~drain[d].late
    /\ drain' = [drain EXCEPT ![d].pc = "list"]
    /\ UNCHANGED <<cordoned, pod>>

\* Mutant: the calls get the context of the executor, without the timeout.
ExpireMutant(d) ==
    /\ FALSE
    /\ UNCHANGED <<cordoned, pod, drain>>

\* The context of the drain expires.
Expire(d) ==
    /\ Draining(d) /\ ~drain[d].late
    /\ drain' = [drain EXCEPT ![d].late = TRUE]
    /\ UNCHANGED <<cordoned, pod>>

\* Every call after that fails, and so does the wait: the drain returns an error.
TimesOut(d) ==
    /\ Draining(d) /\ drain[d].late
    /\ drain' = [drain EXCEPT ![d] = Idle]
    /\ UNCHANGED <<cordoned, pod>>

\* Any other error ends it as well, and so does one of what comes after it: reading the
\* installer image, the upgrade, the wait for the node, unstaging.  The node stays cordoned.
Fails(d) ==
    /\ drain[d].pc # "idle"
    /\ drain' = [drain EXCEPT ![d] = Idle]
    /\ UNCHANGED <<cordoned, pod>>

-----------------------------------------------------------------------------
(* What the executors do with a node that is drained.                      *)

\* UpgradeOS reboots the node: what still runs there is gone.
Reboot ==
    /\ drain["rollout"].pc = "drained"
    /\ pod' = [p \in Pods |-> IF p \notin Static /\ pod[p].node = drain["rollout"].node
                              THEN [state |-> "pending", node |-> NoNode] ELSE pod[p]]
    /\ drain' = [drain EXCEPT !["rollout"].pc = "rebooted"]
    /\ UNCHANGED cordoned

Disturb(ds) == [d \in Drainers |-> IF d \in ds THEN [drain[d] EXCEPT !.disturbed = TRUE] ELSE drain[d]]
Others(d, n) == {e \in Drainers \ {d} : drain[e].node = n}

\* The node is healthy at its new version, and is uncordoned, whoever has cordoned it.
Uncordon ==
    /\ drain["rollout"].pc = "rebooted"
    /\ cordoned' = cordoned \ {drain["rollout"].node}
    /\ drain' = [Disturb(Others("rollout", drain["rollout"].node)) EXCEPT !["rollout"] = Idle]
    /\ UNCHANGED pod

\* The rest of scaleIn: the host is released.
Release ==
    /\ drain["scale-in"].pc = "drained"
    /\ drain' = [drain EXCEPT !["scale-in"] = Idle]
    /\ UNCHANGED <<cordoned, pod>>

-----------------------------------------------------------------------------
(* Kubernetes, and crashes of the server.                                  *)

Assign(p, n) ==
    /\ pod[p].state = "pending" /\ n \notin cordoned
    /\ pod' = [pod EXCEPT ![p] = [state |-> "assigned", node |-> n]]
    /\ UNCHANGED <<cordoned, drain>>

Bind(p) ==
    /\ pod[p].state = "assigned"
    /\ pod' = [pod EXCEPT ![p].state = "bound"]
    /\ drain' = IF pod[p].node \in cordoned THEN Disturb(Others("nobody", pod[p].node)) ELSE drain
    /\ UNCHANGED cordoned

\* The pod is gone, and its controller makes another.
Terminated(p) ==
    /\ pod[p].state = "terminating"
    /\ pod' = [pod EXCEPT ![p] = [state |-> "pending", node |-> NoNode]]
    /\ UNCHANGED <<cordoned, drain>>

\* The nodes stay cordoned.  A rollout that had rebooted its node resumes with the wait
\* for it, everything else starts over.
Crash ==
    /\ drain' = [d \in Drainers |-> IF drain[d].pc = "rebooted" THEN drain[d] ELSE Idle]
    /\ UNCHANGED <<cordoned, pod>>

DrainStep(d) == Cordon(d) \/ List(d) \/ (\E p \in Pods : Evict(d, p)) \/ Again(d) \/ TimesOut(d)

Next ==
    \/ \E d \in Drainers : DrainStep(d) \/ Expire(d) \/ Fails(d) \/ \E n \in Nodes : Start(d, n)
    \/ Reboot \/ Uncordon \/ Release \/ Crash
    \/ \E p \in Pods : Bind(p) \/ Terminated(p) \/ \E n \in Nodes : Assign(p, n)

Spec == Init /\ [][Next]_vars

\* The executors run and time passes.  Nothing is assumed of Kubernetes.
FairSpec == Spec /\ \A d \in Drainers : WF_vars(DrainStep(d)) /\ WF_vars(Expire(d))

-----------------------------------------------------------------------------
(* Properties.                                                             *)

\* The type of every variable.
DrainTypeOK ==
    /\ cordoned \subseteq Nodes
    /\ pod \in [Pods -> Pod]
    /\ drain \in [Drainers -> Drainer]

\* From the return of Drain until the node is rebooted, or its host is released, no
\* pod runs on the node that Drain would have evicted: whatever is created or replaced
\* goes elsewhere, because the node was cordoned before its pods were listed.  Two
\* things can undo that: a rollout that uncordons the node a scale-in has drained, and
\* a pod that was given the node before it was cordoned.
DrainedEmpty ==
    \A d \in Drainers : drain[d].pc = "drained" /\ ~drain[d].disturbed => Evictable(drain[d].node) = {}

\* A drain that was started returns, also when the disruption budget never lets go of
\* a pod ("On timeout it returns an error").
DrainEnds == \A d \in Drainers : Draining(d) ~> ~Draining(d)
============================================================================
