----------------------------- MODULE DrainProofs -----------------------------
(***************************************************************************)
(* A drained node stays empty, for any nodes, pods and disruption budget.  *)
(*                                                                         *)
(* DrainedEmpty is not inductive: a pod may be bound to a drained node, or *)
(* be given it, unless it is cordoned.  Closed adds that the node is       *)
(* cordoned from the end of Cordon on, for as long as nobody disturbs it.  *)
(***************************************************************************)
EXTENDS Drain, TLAPS

\* From the end of Cordon until the reboot or the release the node is cordoned.
Closed ==
    \A d \in Drainers :
        drain[d].pc \in {"list", "evict", "drained"} /\ ~drain[d].disturbed => drain[d].node \in cordoned

\* An executor at work is at work on a node.
HasNode == \A d \in Drainers : drain[d].pc # "idle" => drain[d].node \in Nodes

Inv == DrainTypeOK /\ HasNode /\ Closed /\ DrainedEmpty

\* Initially nothing is drained and every variable has its type.
LEMMA InitInv == Init => Inv
  BY DEF Init, Inv, DrainTypeOK, HasNode, Closed, DrainedEmpty, Drainers, Drainer, Idle, Pod

\* A step that changes only what one executor is doing keeps the invariant when the
\* executor's new state satisfies it.
LEMMA StepOfExecutor ==
  ASSUME Inv, UNCHANGED <<cordoned, pod>>, NEW d \in Drainers, NEW v \in Drainer,
         drain' = [drain EXCEPT ![d] = v],
         v.pc # "idle" => v.node \in Nodes,
         v.pc \in {"list", "evict", "drained"} /\ ~v.disturbed => v.node \in cordoned,
         v.pc = "drained" /\ ~v.disturbed => Evictable(v.node) = {}
  PROVE  Inv'
  <1>1. DrainTypeOK' BY Zenon DEF Inv, DrainTypeOK
  <1>2. \A e \in Drainers : drain'[e] = IF e = d THEN v ELSE drain[e] BY Zenon DEF Inv, DrainTypeOK
  <1>3. Closed' /\ HasNode' BY <1>2 DEF Inv, Closed, HasNode
  <1>4. \A n : Evictable(n)' = Evictable(n) BY Zenon DEF Evictable
  <1>5. DrainedEmpty' BY <1>2, <1>4 DEF Inv, DrainedEmpty
  <1> QED BY Zenon, <1>1, <1>3, <1>5 DEF Inv

\* A drain begins on a node that may still take pods.
LEMMA StartInv == ASSUME Inv, NEW d \in Drainers, NEW n \in Nodes, Start(d, n) PROVE Inv'
  <1> DEFINE v == [Idle EXCEPT !.pc = "cordon", !.node = n]
  <1>1. v \in Drainer /\ v.pc = "cordon" /\ v.node = n BY Zenon DEF Drainer, Idle
  <1>2. drain' = [drain EXCEPT ![d] = v] /\ UNCHANGED <<cordoned, pod>> BY Zenon DEF Start
  <1> HIDE DEF v
  <1> QED BY Zenon, <1>1, <1>2, StepOfExecutor

\* The node is cordoned before the first list.
LEMMA CordonInv == ASSUME Inv, NEW d \in Drainers, Cordon(d) PROVE Inv'
  <1> DEFINE v == [drain[d] EXCEPT !.pc = "list"]
  <1>1. drain[d] \in Drainer /\ drain[d].node \in Nodes BY Zenon DEF Inv, DrainTypeOK, HasNode, Cordon
  <1>2. v \in Drainer /\ v.pc = "list" /\ v.node = drain[d].node BY Zenon, <1>1 DEF Drainer
  <1>3. drain' = [drain EXCEPT ![d] = v] BY Zenon, <1>1 DEF Cordon
  <1> HIDE DEF v
  <1>4. \A e \in Drainers : drain'[e] = IF e = d THEN v ELSE drain[e] BY Zenon, <1>3 DEF Inv, DrainTypeOK
  <1>5. DrainTypeOK' BY Zenon, <1>1, <1>2, <1>3 DEF Inv, DrainTypeOK, Cordon
  <1>6. Closed' /\ HasNode' BY <1>1, <1>2, <1>4 DEF Inv, Closed, HasNode, Cordon
  <1>7. \A n : Evictable(n)' = Evictable(n) BY Zenon DEF Evictable, Cordon
  <1>8. DrainedEmpty' BY Zenon, <1>2, <1>4, <1>7 DEF Inv, DrainedEmpty
  <1> QED BY Zenon, <1>5, <1>6, <1>8 DEF Inv

\* A drain that finds nothing to evict is done, and the node is empty.
LEMMA ListInv == ASSUME Inv, NEW d \in Drainers, List(d) PROVE Inv'
  <1> DEFINE ps == Evictable(drain[d].node)
             v == [drain[d] EXCEPT !.pc = IF ps = {} THEN "drained" ELSE "evict", !.listed = ps]
  <1>1. drain[d] \in Drainer /\ drain[d].node \in Nodes BY Zenon DEF Inv, DrainTypeOK, HasNode, List
  <1>2. ps \in SUBSET Pods BY Zenon DEF Evictable
  <1>3. v \in Drainer /\ v.node = drain[d].node /\ v.disturbed = drain[d].disturbed
        /\ (v.pc = "drained" => ps = {})
    BY Zenon, <1>1, <1>2 DEF Drainer
  <1>4. drain' = [drain EXCEPT ![d] = v] /\ UNCHANGED <<cordoned, pod>> BY Zenon DEF List
  <1>5. ~drain[d].disturbed => drain[d].node \in cordoned BY Zenon DEF Inv, Closed, List
  <1> HIDE DEF v
  <1> QED BY Zenon, <1>1, <1>3, <1>4, <1>5, StepOfExecutor

\* The next round, the timeout and a round's bookkeeping change neither the node nor
\* whether it is disturbed.
LEMMA AgainInv == ASSUME Inv, NEW d \in Drainers, Again(d) \/ Expire(d) PROVE Inv'
  <1> DEFINE v == IF Again(d) THEN [drain[d] EXCEPT !.pc = "list"] ELSE [drain[d] EXCEPT !.late = TRUE]
  <1>1. drain[d] \in Drainer /\ drain[d].node \in Nodes /\ drain[d].pc \in {"list", "evict"}
    BY Zenon DEF Inv, DrainTypeOK, HasNode, Again, Expire, Draining
  <1>2. v \in Drainer /\ v.node = drain[d].node /\ v.disturbed = drain[d].disturbed /\ v.pc \in {"list", "evict"}
    BY Zenon, <1>1 DEF Drainer
  <1>3. drain' = [drain EXCEPT ![d] = v] /\ UNCHANGED <<cordoned, pod>> BY Zenon DEF Again, Expire
  <1>4. ~drain[d].disturbed => drain[d].node \in cordoned BY Zenon, <1>1 DEF Inv, Closed
  <1> HIDE DEF v
  <1> QED BY Zenon, <1>1, <1>2, <1>3, <1>4, StepOfExecutor

\* An executor that returns is idle.
LEMMA ReturnInv ==
  ASSUME Inv, NEW d \in Drainers, UNCHANGED <<cordoned, pod>>, drain' = [drain EXCEPT ![d] = Idle]
  PROVE  Inv'
  <1>1. Idle \in Drainer /\ Idle.pc = "idle" BY Zenon DEF Drainer, Idle
  <1> QED BY Zenon, <1>1, StepOfExecutor

\* A step keeps the invariant when it brings no evictable pod to any node, uncordons
\* none, and leaves each executor where it was, except for one that returns or reboots.
LEMMA QuietStep ==
  ASSUME Inv, cordoned' = cordoned, pod' \in [Pods -> Pod], drain' \in [Drainers -> Drainer],
         \A n \in Nodes : Evictable(n)' \subseteq Evictable(n),
         \A d \in Drainers :
            \/ /\ drain'[d].pc = drain[d].pc
               /\ drain'[d].node = drain[d].node
               /\ drain'[d].disturbed = drain[d].disturbed
            \/ drain'[d].pc = "idle"
            \/ drain'[d].pc = "rebooted" /\ drain'[d].node \in Nodes
  PROVE  Inv'
  <1>1. DrainTypeOK' BY Zenon DEF Inv, DrainTypeOK
  <1>2. HasNode' BY Zenon DEF Inv, HasNode
  <1>3. Closed' BY Zenon DEF Inv, Closed
  <1>4. DrainedEmpty'
    <2> SUFFICES ASSUME NEW d \in Drainers, drain'[d].pc = "drained", ~drain'[d].disturbed
                 PROVE  Evictable(drain[d].node)' = {}
      BY Zenon DEF DrainedEmpty
    <2>1. drain[d].pc = "drained" /\ drain'[d].node = drain[d].node /\ ~drain[d].disturbed OBVIOUS
    <2>2. Evictable(drain[d].node) = {} /\ drain[d].node \in Nodes BY Zenon, <2>1 DEF Inv, DrainedEmpty, HasNode
    <2>3. PICK n \in Nodes : n = drain[d].node BY Zenon, <2>2
    <2>4. Evictable(n)' = {} BY Zenon, <2>2, <2>3
    <2> QED BY <2>1, <2>3, <2>4 DEF Evictable
  <1> QED BY Zenon, <1>1, <1>2, <1>3, <1>4 DEF Inv

\* What an eviction leaves of a round, and the pod it makes terminate.
LEMMA EvictInv == ASSUME Inv, NEW d \in Drainers, NEW p \in Pods, Evict(d, p) PROVE Inv'
  <1>1. drain[d] \in Drainer /\ pod \in [Pods -> Pod] BY Zenon DEF Inv, DrainTypeOK
  <1>2. [drain[d] EXCEPT !.listed = @ \ {p}] \in Drainer BY Zenon, <1>1 DEF Drainer
  <1>3. drain' \in [Drainers -> Drainer] BY Zenon, <1>2 DEF Evict, Inv, DrainTypeOK
  <1>4. \A e \in Drainers : /\ drain'[e].pc = drain[e].pc
                            /\ drain'[e].node = drain[e].node
                            /\ drain'[e].disturbed = drain[e].disturbed
    BY Zenon, <1>1 DEF Evict, Inv, DrainTypeOK, Drainer
  <1>5. [pod[p] EXCEPT !.state = "terminating"] \in Pod BY Zenon, <1>1 DEF Pod
  <1>6. pod' \in [Pods -> Pod] BY Zenon, <1>1, <1>5 DEF Evict
  <1>7. \A n \in Nodes : Evictable(n)' \subseteq Evictable(n) BY Zenon, <1>1 DEF Evict, Evictable, Pod
  <1> QED BY Zenon, <1>3, <1>4, <1>6, <1>7, QuietStep DEF Evict

\* A pod that is given a node, or that is gone, is not yet, or no longer, on one.
LEMMA PlaceInv ==
  ASSUME Inv, NEW p \in Pods, Terminated(p) \/ \E n \in Nodes : Assign(p, n)
  PROVE  Inv'
  <1>1. PICK v \in Pod : v.state # "bound" /\ pod' = [pod EXCEPT ![p] = v] BY Zenon DEF Terminated, Assign, Pod
  <1>2. UNCHANGED <<cordoned, drain>> BY Zenon DEF Terminated, Assign
  <1>3. pod' \in [Pods -> Pod] /\ drain' \in [Drainers -> Drainer] BY Zenon, <1>1, <1>2 DEF Inv, DrainTypeOK
  <1>4. \A n \in Nodes : Evictable(n)' \subseteq Evictable(n) BY Zenon, <1>1 DEF Evictable, Inv, DrainTypeOK
  <1> QED BY Zenon, <1>2, <1>3, <1>4, QuietStep

\* A reboot empties the node.
LEMMA RebootInv == ASSUME Inv, Reboot PROVE Inv'
  <1>1. drain["rollout"] \in Drainer /\ "rollout" \in Drainers /\ drain["rollout"].node \in Nodes
    BY Zenon DEF Inv, DrainTypeOK, HasNode, Reboot, Drainers
  <1>2. [drain["rollout"] EXCEPT !.pc = "rebooted"] \in Drainer BY Zenon, <1>1 DEF Drainer
  <1>3. drain' \in [Drainers -> Drainer] BY Zenon, <1>1, <1>2 DEF Reboot, Inv, DrainTypeOK
  <1>4. [state |-> "pending", node |-> NoNode] \in Pod BY Zenon DEF Pod
  <1>5. pod' \in [Pods -> Pod] BY Zenon, <1>4 DEF Reboot, Inv, DrainTypeOK
  <1>6. \A n \in Nodes : Evictable(n)' \subseteq Evictable(n) BY Zenon DEF Reboot, Evictable
  <1>7. \A d \in Drainers : d = "rollout" \/ drain'[d] = drain[d] BY Zenon DEF Reboot, Inv, DrainTypeOK
  <1>8. drain'["rollout"].pc = "rebooted" /\ drain'["rollout"].node = drain["rollout"].node
    BY Zenon, <1>1 DEF Reboot, Inv, DrainTypeOK, Drainer
  <1> QED BY Zenon, <1>1, <1>3, <1>5, <1>6, <1>7, <1>8, QuietStep DEF Reboot

\* A crash leaves no executor between Cordon and the reboot.
LEMMA CrashInv == ASSUME Inv, Crash PROVE Inv'
  <1>1. Idle \in Drainer /\ Idle.pc = "idle" BY Zenon DEF Drainer, Idle
  <1>2. drain' \in [Drainers -> Drainer] BY Zenon, <1>1 DEF Crash, Inv, DrainTypeOK
  <1>3. \A d \in Drainers : drain'[d] = drain[d] \/ drain'[d].pc = "idle" BY Zenon, <1>1 DEF Crash
  <1>4. pod' \in [Pods -> Pod] /\ cordoned' = cordoned BY Zenon DEF Crash, Inv, DrainTypeOK
  <1>5. \A n \in Nodes : Evictable(n)' \subseteq Evictable(n) BY Zenon DEF Crash, Evictable
  <1> QED BY Zenon, <1>2, <1>3, <1>4, <1>5, QuietStep

\* Marking executors as disturbed keeps the types, and everything else about them.
LEMMA DisturbTyped ==
  ASSUME Inv, NEW S
  PROVE  /\ Disturb(S) \in [Drainers -> Drainer]
         /\ \A d \in Drainers : /\ Disturb(S)[d].pc = drain[d].pc
                                 /\ Disturb(S)[d].node = drain[d].node
                                 /\ Disturb(S)[d].disturbed = (d \in S \/ drain[d].disturbed)
  <1>1. \A d \in Drainers : drain[d] \in Drainer BY Zenon DEF Inv, DrainTypeOK
  <1> QED BY Zenon, <1>1 DEF Disturb, Drainer

\* A pod is bound to a node that is not cordoned, or disturbs who drains it.
LEMMA BindInv == ASSUME Inv, NEW p \in Pods, Bind(p) PROVE Inv'
  <1> DEFINE n == pod[p].node
  <1>1. pod[p] \in Pod BY Zenon DEF Inv, DrainTypeOK
  <1>2. [pod[p] EXCEPT !.state = "bound"] \in Pod BY Zenon, <1>1 DEF Pod
  <1>3. pod' \in [Pods -> Pod] BY Zenon, <1>2 DEF Bind, Inv, DrainTypeOK
  <1>4. drain' \in [Drainers -> Drainer] BY DisturbTyped DEF Bind, Inv, DrainTypeOK
  <1>5. \A d \in Drainers : /\ drain'[d].pc = drain[d].pc
                            /\ drain'[d].node = drain[d].node
                            /\ drain[d].disturbed => drain'[d].disturbed
                            /\ n \in cordoned /\ drain[d].node = n => drain'[d].disturbed
    <2>1. CASE n \in cordoned
      <3>1. drain' = Disturb(Others("nobody", n)) BY Zenon, <2>1 DEF Bind
      <3>2. \A d \in Drainers : drain[d].node = n => d \in Others("nobody", n) BY Zenon DEF Others, Drainers
      <3> DEFINE S == Others("nobody", n)
      <3> HIDE DEF S
      <3>3. \A d \in Drainers : /\ drain'[d].pc = drain[d].pc
                                /\ drain'[d].node = drain[d].node
                                /\ drain'[d].disturbed = (d \in S \/ drain[d].disturbed)
        BY <3>1, DisturbTyped DEF S
      <3> QED BY <3>2, <3>3, Zenon DEF S
    <2>2. CASE n \notin cordoned BY Zenon, <2>2 DEF Bind
    <2> QED BY Zenon, <2>1, <2>2
  <1>6. DrainTypeOK' BY Zenon, <1>3, <1>4 DEF DrainTypeOK, Inv, Bind
  <1>7. HasNode' /\ Closed' BY Zenon, <1>4, <1>5 DEF HasNode, Closed, Inv, Bind
  <1>8. DrainedEmpty'
    <2> SUFFICES ASSUME NEW d \in Drainers, drain'[d].pc = "drained", ~drain'[d].disturbed
                 PROVE  Evictable(drain[d].node)' = {}
      BY Zenon DEF DrainedEmpty
    <2>1. drain[d].pc = "drained" /\ drain'[d].node = drain[d].node /\ drain[d].disturbed # TRUE BY Zenon, <1>5
    <2>2. drain[d] \in Drainer BY Zenon DEF Inv, DrainTypeOK
    <2>3. drain[d].node \in cordoned /\ Evictable(drain[d].node) = {}
      BY Zenon, <2>1, <2>2 DEF Inv, Closed, DrainedEmpty, Drainer
    <2>4. drain[d].node # n BY Zenon, <1>5, <2>1, <2>3
    <2> QED BY <1>1, <2>1, <2>3, <2>4 DEF Evictable, Bind, Inv, DrainTypeOK, Pod
  <1> QED BY Zenon, <1>6, <1>7, <1>8 DEF Inv

\* The node that is uncordoned is the rollout's, and a scale-in that drains it is disturbed.
LEMMA UncordonInv == ASSUME Inv, Uncordon PROVE Inv'
  <1> DEFINE n == drain["rollout"].node
             S == Others("rollout", n)
             D == Disturb(S)
  <1>1. Idle \in Drainer /\ Idle.pc = "idle" BY Zenon DEF Drainer, Idle
  <1>2. /\ D \in [Drainers -> Drainer]
        /\ \A d \in Drainers : /\ D[d].pc = drain[d].pc
                                /\ D[d].node = drain[d].node
                                /\ D[d].disturbed = (d \in S \/ drain[d].disturbed)
    BY DisturbTyped
  <1>3. drain' = [D EXCEPT !["rollout"] = Idle] /\ pod' = pod /\ cordoned' = cordoned \ {n}
    BY Zenon DEF Uncordon
  <1>4. \A d \in Drainers : d # "rollout" /\ drain[d].node = n => d \in S BY Zenon DEF Others
  <1> HIDE DEF n, S, D
  <1>5. \A d \in Drainers : \/ drain'[d].pc = "idle"
                            \/ drain'[d] = D[d] /\ d # "rollout"
    BY Zenon, <1>1, <1>2, <1>3
  <1>6. \A d \in Drainers : drain'[d].pc # "idle" =>
                /\ drain'[d].pc = drain[d].pc
                /\ drain'[d].node = drain[d].node
                /\ ~drain'[d].disturbed => ~drain[d].disturbed /\ drain[d].node # n
    BY <1>2, <1>4, <1>5, Zenon
  <1>7. DrainTypeOK' BY Zenon, <1>1, <1>2, <1>3 DEF DrainTypeOK, Inv
  <1>8. HasNode' BY Zenon, <1>6 DEF HasNode, Inv
  <1>9. Closed' BY <1>3, <1>6 DEF Closed, Inv
  <1>10. DrainedEmpty'
    <2> SUFFICES ASSUME NEW d \in Drainers, drain'[d].pc = "drained", ~drain'[d].disturbed
                 PROVE  Evictable(drain[d].node)' = {}
      BY Zenon DEF DrainedEmpty
    <2>1. drain[d].pc = "drained" /\ drain'[d].node = drain[d].node /\ ~drain[d].disturbed BY Zenon, <1>6
    <2>2. Evictable(drain[d].node) = {} BY Zenon, <2>1 DEF Inv, DrainedEmpty
    <2> QED BY Zenon, <1>3, <2>1, <2>2 DEF Evictable
  <1> QED BY Zenon, <1>7, <1>8, <1>9, <1>10 DEF Inv

\* Every step keeps the invariant.
LEMMA NextInv == Inv /\ [Next]_vars => Inv'
  <1> SUFFICES ASSUME Inv, [Next]_vars PROVE Inv'
    OBVIOUS
  <1>1. CASE UNCHANGED vars
    BY Zenon, <1>1 DEF vars, Inv, DrainTypeOK, HasNode, Closed, DrainedEmpty, Evictable
  <1>2. ASSUME NEW d \in Drainers, DrainStep(d) PROVE Inv'
    BY Zenon, <1>2, CordonInv, ListInv, EvictInv, AgainInv, ReturnInv DEF DrainStep, TimesOut
  <1>3. ASSUME NEW d \in Drainers, Expire(d) \/ Fails(d) \/ \E n \in Nodes : Start(d, n) PROVE Inv'
    BY Zenon, <1>3, AgainInv, ReturnInv, StartInv DEF Fails
  <1>4. CASE Release
    <2>1. "scale-in" \in Drainers BY Zenon DEF Drainers
    <2> QED BY Zenon, <1>4, <2>1, ReturnInv DEF Release
  <1>5. CASE Reboot \/ Uncordon \/ Crash BY Zenon, <1>5, RebootInv, UncordonInv, CrashInv
  <1>6. ASSUME NEW p \in Pods, Bind(p) \/ Terminated(p) \/ \E n \in Nodes : Assign(p, n) PROVE Inv'
    BY Zenon, <1>6, BindInv, PlaceInv
  <1> QED BY Zenon, <1>1, <1>2, <1>3, <1>4, <1>5, <1>6 DEF Next

\* A node that Drain (client.go) has returned from runs no pod that Drain would evict
\* until it is rebooted or released, unless another executor uncordons it or a pod had
\* been given it before: for any nodes and pods, and whatever the disruption budget.
THEOREM DrainedStaysEmpty == Spec => []DrainedEmpty
  <1>1. Inv => DrainedEmpty BY Zenon DEF Inv
  <1> QED BY <1>1, InitInv, NextInv, PTL DEF Spec
============================================================================
