------------------------------ MODULE MCServe ------------------------------
EXTENDS Serve

\* Three mixes: clients that keep a server from stopping, nodes that are upgraded and
\* records that go while they are observed, and clusters that come and go under the executors.
Clients ==
    [starts |-> 2, crashes |-> 1, seeds |-> 1, deletes |-> 0, creates |-> 0, upgrades |-> 0,
     faults |-> 1, clients |-> 3]
Observation ==
    [starts |-> 2, crashes |-> 1, seeds |-> 2, deletes |-> 1, creates |-> 0, upgrades |-> 1,
     faults |-> 1, clients |-> 0]
Executing ==
    [starts |-> 2, crashes |-> 1, seeds |-> 1, deletes |-> 2, creates |-> 1, upgrades |-> 0,
     faults |-> 0, clients |-> 0]

SmallBudgets == {Clients, Observation, Executing}
============================================================================
