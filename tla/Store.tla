------------------------------- MODULE Store -------------------------------
(***************************************************************************)
(* The bbolt store (internal/store/store.go) under concurrent requests     *)
(* (the rmw handlers of internal/server, and the reconcilers), reconciler  *)
(* writes, deletions and crashes.                                          *)
(*                                                                         *)
(* A write is two steps: the bbolt transaction that checks the revision,   *)
(* bumps the counter and stores the record, and the publication that       *)
(* follows it.  writeMu is held from the one to the other; readers do not  *)
(* take it, and can see a record that is not published yet.                *)
(***************************************************************************)
EXTENDS Integers, FiniteSets

CONSTANTS
    DesiredKeys,    \* records written with compare-and-swap (Put...Desired)
    RolloutKeys,    \* records written by one owner, last writer wins
    ClusterKey,     \* the Cluster record, among the desired ones
    DeletableKeys,  \* the desired records with a deletion of their own
    Clients,        \* requests, each served once
    MaxWrites       \* bound: a reconciler write or deletion comes while rev is below it

ASSUME KeysAssumption ==
    /\ DesiredKeys \cap RolloutKeys = {}
    /\ ClusterKey \in DesiredKeys
    /\ DeletableKeys \subseteq DesiredKeys
ASSUME MaxWritesAssumption == MaxWrites \in Nat

Keys == DesiredKeys \cup RolloutKeys

VARIABLES
    rec,     \* the buckets: each record's revision (0: no record) and content
    rev,     \* meta/revision, the persisted counter
    lastRev, \* BoltStore.lastRev
    pending, \* the event committed and not yet published, while writeMu is held
    client,  \* the requests
    acked    \* history: the requests that changed the record, since it exists

storeVars == <<rec, rev, lastRev, pending, client, acked>>

\* The content of a record is the set of requests whose change is in it.
Record == [rev : Nat, val : SUBSET Clients]
NoRecord == [rev |-> 0, val |-> {}]

Event == [key : Keys, rev : Nat]
NoEvent == [key |-> ClusterKey, rev |-> 0]

\* A request reads a record and writes it back changed.  Through rmw it wants
\* the record to exist and tries twice unless the caller pinned a revision; the
\* reconcilers, the seed and the import create what is missing and try once.
Client == [stage : {"idle", "read", "put", "over"}, rmw : BOOLEAN, key : DesiredKeys,
           pin : Nat, attempt : 0..1, seen : Record]

Fresh(stage, rmw, key, pin) ==
    [stage |-> stage, rmw |-> rmw, key |-> key, pin |-> pin, attempt |-> 0, seen |-> NoRecord]
NoRequest == Fresh("idle", FALSE, ClusterKey, 0)
Over == Fresh("over", FALSE, ClusterKey, 0)

Init ==
    /\ rec = [k \in Keys |-> NoRecord]
    /\ rev = 0
    /\ lastRev = 0
    /\ pending = NoEvent
    /\ client = [c \in Clients |-> NoRequest]
    /\ acked = [k \in Keys |-> {}]

writeMuFree == pending = NoEvent

\* bumpRev, in the transaction of the write; the event it will publish.
bumpRev(k) ==
    /\ writeMuFree
    /\ rev' = rev + 1
    /\ pending' = [key |-> k, rev |-> rev + 1]
    /\ UNCHANGED lastRev

\* A request arrives.  The pin is a revision the caller was once given.
Request(c, k, rmw, pin) ==
    /\ client[c].stage = "idle"
    /\ pin # 0 => rmw
    /\ client' = [client EXCEPT ![c] = Fresh("read", rmw, k, pin)]
    /\ UNCHANGED <<rec, rev, lastRev, pending, acked>>

\* Mutant: the pinned revision is not compared with the record's.
GetMutant(c) ==
    /\ client[c].stage = "read"
    /\ LET r == rec[client[c].key]
       IN  client' = [client EXCEPT ![c] =
                        IF client[c].rmw /\ r.rev = 0 THEN Over
                        ELSE [@ EXCEPT !.stage = "put", !.seen = r]]
    /\ UNCHANGED <<rec, rev, lastRev, pending, acked>>

\* Get...: the record and its revision.  The body of rmw returns NotFound if
\* there is none, FailedPrecondition if the revision is not the pinned one.
Get(c) ==
    /\ client[c].stage = "read"
    /\ LET r == rec[client[c].key]
           refused == client[c].rmw /\ (r.rev = 0 \/ client[c].pin \notin {0, r.rev})
       IN  client' = [client EXCEPT ![c] =
                        IF refused THEN Over ELSE [@ EXCEPT !.stage = "put", !.seen = r]]
    /\ UNCHANGED <<rec, rev, lastRev, pending, acked>>

\* Mutant: the last writer wins.
putCASMutant(c) ==
    LET k == client[c].key
        val == client[c].seen.val \cup {c}
    IN  /\ client[c].stage = "put"
        /\ bumpRev(k)
        /\ rec' = [rec EXCEPT ![k] = [rev |-> rev + 1, val |-> val]]
        /\ client' = [client EXCEPT ![c] = Over]
        /\ acked' = [acked EXCEPT ![k] = @ \cup {c}]

\* putCAS: the record still has the revision that was read (0: is still absent).
putCAS(c) ==
    LET k == client[c].key
        val == client[c].seen.val \cup {c}
    IN  /\ client[c].stage = "put"
        /\ rec[k].rev = client[c].seen.rev
        /\ bumpRev(k)
        /\ rec' = [rec EXCEPT ![k] = [rev |-> rev + 1, val |-> val]]
        /\ client' = [client EXCEPT ![c] = Over]
        /\ acked' = [acked EXCEPT ![k] = @ \cup {c}]

\* ErrConflict: rmw starts over, once, if the caller pinned no revision.
Conflict(c) ==
    /\ client[c].stage = "put"
    /\ writeMuFree
    /\ rec[client[c].key].rev # client[c].seen.rev
    /\ client' = [client EXCEPT ![c] =
                    IF client[c].rmw /\ client[c].pin = 0 /\ client[c].attempt = 0
                    THEN [@ EXCEPT !.stage = "read", !.attempt = 1] ELSE Over]
    /\ UNCHANGED <<rec, rev, lastRev, pending, acked>>

\* putLWW, by the one owner of the record.
putLWW(k) ==
    /\ rev < MaxWrites
    /\ bumpRev(k)
    /\ rec' = [rec EXCEPT ![k] = [rev |-> rev + 1, val |-> {}]]
    /\ UNCHANGED <<client, acked>>

\* DeleteHost, DeleteMachine: whether or not there is a record.
DeleteRecord(k) ==
    /\ rev < MaxWrites
    /\ bumpRev(k)
    /\ rec' = [rec EXCEPT ![k] = NoRecord]
    /\ acked' = [acked EXCEPT ![k] = {}]
    /\ UNCHANGED client

\* DeleteCluster: every record of the cluster in one transaction.
DeleteCluster ==
    /\ rev < MaxWrites
    /\ bumpRev(ClusterKey)
    /\ rec' = [k \in Keys |-> NoRecord]
    /\ acked' = [k \in Keys |-> {}]
    /\ UNCHANGED client

\* The end of every write: lastRev, publish, unlock.
Publish ==
    /\ ~writeMuFree
    /\ lastRev' = pending.rev
    /\ pending' = NoEvent
    /\ UNCHANGED <<rec, rev, client, acked>>

\* Mutant: the counter is stored after the publication, not with the record.
CrashMutant ==
    /\ rev' = lastRev
    /\ pending' = NoEvent
    /\ client' = [c \in Clients |-> IF client[c].stage = "idle" THEN NoRequest ELSE Over]
    /\ UNCHANGED <<rec, lastRev, acked>>

\* The process dies, between a commit and its publication too; Open reads the
\* counter back.
Crash ==
    /\ lastRev' = rev
    /\ pending' = NoEvent
    /\ client' = [c \in Clients |-> IF client[c].stage = "idle" THEN NoRequest ELSE Over]
    /\ UNCHANGED <<rec, rev, acked>>

Write ==
    \/ \E c \in Clients : putCAS(c)
    \/ \E k \in RolloutKeys : putLWW(k)
    \/ \E k \in DeletableKeys : DeleteRecord(k)
    \/ DeleteCluster

Serve(c) ==
    \/ \E k \in DesiredKeys, b \in BOOLEAN, pin \in 0..rev : Request(c, k, b, pin)
    \/ Get(c)
    \/ Conflict(c)

StoreNext == Write \/ (\E c \in Clients : Serve(c)) \/ Publish \/ Crash

Spec == Init /\ [][StoreNext]_storeVars

-----------------------------------------------------------------------------
(* Properties.                                                             *)

\* The type of every variable.
StoreTypeOK ==
    /\ rec \in [Keys -> Record]
    /\ rev \in Nat
    /\ lastRev \in Nat
    /\ pending \in Event
    /\ client \in [Clients -> Client]
    /\ acked \in [Keys -> SUBSET Clients]

\* A change the store has acknowledged is in the record for as long as the record
\* is not deleted: no other request, retry, late write after a deletion and a new
\* creation, or crash undoes it (putCAS).
NoLostUpdate == \A k \in DesiredKeys : acked[k] = rec[k].val

\* No revision is given twice, over crashes too, so a revision names one state of
\* one record, and a watcher's cursor never stands for two (bumpRev).
RevisionsUnique ==
    /\ \A k \in Keys : rec[k].rev <= rev
    /\ \A j, k \in Keys : rec[j].rev = rec[k].rev /\ rec[j].rev # 0 => j = k

\* A request pinned to a revision changes that revision of the record or nothing.
PinRespected ==
    [][\A c \in Clients : (client[c].pin # 0 /\ client[c].stage = "put" /\ putCAS(c))
          => rec[client[c].key].rev = client[c].pin]_storeVars
============================================================================
