---------------------------- MODULE MCProvision ----------------------------
(* Instances of the provisioning plane for TLC. *)
EXTENDS Provision

OnePool == {1}
ThreeHosts == 1..3

TwoReplicas == [p \in Pools |-> 2]
AnyHost == [p \in Pools |-> Hosts]

\* All hosts are registered but the first or the last one, which may be later.
AllButOne == {[h \in Hosts |-> IF h = free THEN 0 ELSE 1] : free \in {1, 3}}
AllButFirst == {[h \in Hosts |-> IF h = 1 THEN 0 ELSE 1]}

AllOperations == {"enable", "register", "deregister", "replicas"}
Scaling == {"register", "replicas"}
============================================================================
