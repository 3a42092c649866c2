---------------------------- MODULE NodeLifecycle ---------------------------
(***************************************************************************)
(* What a rollout promises about one node at a time: the life of its       *)
(* MachineRollout record, and that an upgrade already sent to a node is    *)
(* waited for and never sent again until the record says how it ended.     *)
(* Rollout is shown to implement this whatever crashes, fails or is asked  *)
(* of the server meanwhile.                                                *)
(***************************************************************************)
CONSTANT Nodes

VARIABLES
    state,  \* MachineRollout.State of each node
    sent    \* nodes with an upgrade sent and not yet accounted for

vars == <<state, sent>>

Waiting == {"UPGRADING", "WAITING_HEALTHY"}

Init ==
    /\ state = [n \in Nodes |-> "IDLE"]
    /\ sent = {}

\* A node is drained only when no upgrade of it is under way; a drain cut short
\* by a restart is done again.
Drain(n) ==
    /\ state[n] \notin Waiting
    /\ state' = [state EXCEPT ![n] = "DRAINING"]
    /\ UNCHANGED sent

Upgrade(n) ==
    /\ state[n] = "DRAINING"
    /\ state' = [state EXCEPT ![n] = "UPGRADING"]
    /\ UNCHANGED sent

Send(n) ==
    /\ state[n] = "UPGRADING"
    /\ n \notin sent
    /\ sent' = sent \cup {n}
    /\ UNCHANGED state

Wait(n) ==
    /\ state[n] \in Waiting
    /\ state' = [state EXCEPT ![n] = "WAITING_HEALTHY"]
    /\ UNCHANGED sent

\* The node is healthy, or needed no upgrade in the first place.
Complete(n) ==
    /\ state[n] # "UPGRADING"
    /\ state' = [state EXCEPT ![n] = "DONE"]
    /\ sent' = sent \ {n}

Fail(n) ==
    /\ state' = [state EXCEPT ![n] = "FAILED"]
    /\ sent' = sent \ {n}

Next == \E n \in Nodes : \/ Drain(n)
                         \/ Upgrade(n)
                         \/ Send(n)
                         \/ Wait(n)
                         \/ Complete(n)
                         \/ Fail(n)

Spec == Init /\ [][Next]_vars
============================================================================
