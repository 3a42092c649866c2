----------------------------- MODULE StoreProofs -----------------------------
(***************************************************************************)
(* The promises of the store for any records, any number of concurrent     *)
(* requests and any number of writes, and those of a watch stream for any  *)
(* number of subscribers and any size of buffer.                           *)
(*                                                                         *)
(* NoLostUpdate is not inductive: a compare-and-swap compares revisions    *)
(* and then writes back a copy.  SeenTrue says what makes that sound: a    *)
(* copy whose revision is the record's is the record, because revisions    *)
(* are never given twice and because a record without one is empty.        *)
(*                                                                         *)
(* The argument for the stream follows an event from its commit to the     *)
(* subscriber.  While writeMu is free the counter in memory is the         *)
(* persisted one (Counted), so a registration separates the revisions of   *)
(* the snapshot from those of the buffer (Ordered), and the event of a     *)
(* record's current revision, or of its last deletion, is at every moment  *)
(* somewhere on its way to a subscriber that has dropped none (Telling).   *)
(***************************************************************************)
EXTENDS Watch, Functions, TLAPS

-----------------------------------------------------------------------------
(* The store.                                                              *)

\* A record without a revision is no record.
ZeroEmpty == \A k \in Keys : rec[k].rev = 0 => rec[k] = NoRecord

\* What a request has read is not from the future; if its revision is still the
\* record's, it is the record; if the request is pinned, it is what it is pinned to.
SeenTrue ==
    \A c \in Clients :
        /\ client[c].seen.rev <= rev
        /\ client[c].seen.rev = 0 => client[c].seen = NoRecord
        /\ client[c].stage = "put" /\ rec[client[c].key].rev = client[c].seen.rev
              => client[c].seen = rec[client[c].key]
        /\ client[c].pin # 0 => client[c].rmw
        /\ client[c].stage = "put" /\ client[c].pin # 0 => client[c].seen.rev = client[c].pin

StoreInv == StoreTypeOK /\ RevisionsUnique /\ ZeroEmpty /\ SeenTrue /\ NoLostUpdate

\* An empty store satisfies the invariant.
LEMMA InitStoreInv == Init => StoreInv
  <1> SUFFICES ASSUME Init PROVE StoreInv
    OBVIOUS
  <1>1. NoRecord \in Record /\ NoRecord.rev = 0 /\ NoRecord.val = {} BY Zenon DEF NoRecord, Record
  <1>2. NoEvent \in Event BY Zenon, KeysAssumption DEF NoEvent, Event, Keys
  <1>3. NoRequest \in Client /\ NoRequest.stage = "idle" /\ NoRequest.seen = NoRecord /\ NoRequest.pin = 0
    BY <1>1, KeysAssumption DEF NoRequest, Fresh, Client
  <1>4. StoreTypeOK BY Zenon, <1>1, <1>2, <1>3 DEF Init, StoreTypeOK
  <1>5. RevisionsUnique /\ ZeroEmpty BY <1>1 DEF Init, RevisionsUnique, ZeroEmpty
  <1>6. SeenTrue BY <1>1, <1>3 DEF Init, SeenTrue
  <1>7. NoLostUpdate BY Zenon, <1>1 DEF Init, NoLostUpdate, Keys
  <1> QED BY Zenon, <1>4, <1>5, <1>6, <1>7 DEF StoreInv

\* The type of what bumpRev changes.
LEMMA BumpTyped ==
  ASSUME StoreTypeOK, NEW k \in Keys, bumpRev(k)
  PROVE  rev' = rev + 1 /\ rev' \in Nat /\ lastRev' \in Nat /\ pending' \in Event
  BY DEF StoreTypeOK, bumpRev, Event

\* A write gives a record a revision that nothing has had.
LEMMA WriteRecord ==
  ASSUME StoreInv, NEW k \in Keys, NEW v \in SUBSET Clients, rev' = rev + 1,
         rec' = [rec EXCEPT ![k] = [rev |-> rev + 1, val |-> v]]
  PROVE  /\ rec' \in [Keys -> Record]
         /\ RevisionsUnique' /\ ZeroEmpty'
         /\ rec'[k] = [rev |-> rev + 1, val |-> v]
         /\ \A j \in Keys \ {k} : rec'[j] = rec[j]
  <1>1. rec \in [Keys -> Record] /\ rev \in Nat BY Zenon DEF StoreInv, StoreTypeOK
  <1>2. [rev |-> rev + 1, val |-> v] \in Record BY <1>1 DEF Record
  <1>3. rec' \in [Keys -> Record] BY Zenon, <1>1, <1>2
  <1>4. rec'[k] = [rev |-> rev + 1, val |-> v] /\ rec'[k].rev = rev + 1 BY Zenon, <1>1
  <1>5. \A j \in Keys \ {k} : rec'[j] = rec[j] BY Zenon, <1>1
  <1>6. \A j \in Keys : rec[j].rev \in Nat BY Zenon, <1>1 DEF Record
  <1>7. RevisionsUnique'
    <2>1. \A j \in Keys : rec[j].rev <= rev BY Zenon DEF StoreInv, RevisionsUnique
    <2>2. \A i, j \in Keys : rec[i].rev = rec[j].rev /\ rec[i].rev # 0 => i = j BY Zenon DEF StoreInv, RevisionsUnique
    <2> QED BY <1>1, <1>4, <1>5, <1>6, <2>1, <2>2 DEF RevisionsUnique
  <1>8. ZeroEmpty' BY <1>1, <1>4, <1>5 DEF StoreInv, ZeroEmpty
  <1> QED BY Zenon, <1>3, <1>4, <1>5, <1>7, <1>8

\* A deletion leaves the other records as they are.
LEMMA DropRecords ==
  ASSUME StoreInv, rev' = rev + 1, NEW S \in SUBSET Keys,
         rec' = [k \in Keys |-> IF k \in S THEN NoRecord ELSE rec[k]]
  PROVE  rec' \in [Keys -> Record] /\ RevisionsUnique' /\ ZeroEmpty'
  <1>1. rec \in [Keys -> Record] /\ rev \in Nat BY Zenon DEF StoreInv, StoreTypeOK
  <1>2. NoRecord \in Record /\ NoRecord.rev = 0 BY Zenon DEF Record, NoRecord
  <1>3. \A k \in Keys : rec[k].rev \in Nat BY Zenon, <1>1 DEF Record
  <1> QED BY <1>1, <1>2, <1>3 DEF StoreInv, RevisionsUnique, ZeroEmpty

\* What a request has to satisfy, of its own state and of the records.
Sound(r, records, last) ==
    /\ r.seen.rev <= last
    /\ r.seen.rev = 0 => r.seen = NoRecord
    /\ r.stage = "put" /\ records[r.key].rev = r.seen.rev => r.seen = records[r.key]
    /\ r.pin # 0 => r.rmw
    /\ r.stage = "put" /\ r.pin # 0 => r.seen.rev = r.pin

\* SeenTrue says it of every request.
LEMMA SeenIsSound == SeenTrue <=> \A c \in Clients : Sound(client[c], rec, rev)
  BY Zenon DEF SeenTrue, Sound

\* A request that is over, or has not begun, satisfies it whatever the records are.
LEMMA FreshSound ==
  ASSUME NEW records, NEW last \in Nat
  PROVE  /\ NoRequest \in Client /\ Over \in Client
         /\ Sound(NoRequest, records, last) /\ Sound(Over, records, last)
  <1>1. NoRecord \in Record /\ NoRecord.rev = 0 BY Zenon DEF NoRecord, Record
  <1>2. NoRequest \in Client /\ NoRequest.stage = "idle" /\ NoRequest.seen = NoRecord /\ NoRequest.pin = 0
    BY <1>1, KeysAssumption DEF NoRequest, Fresh, Client
  <1>3. Over \in Client /\ Over.stage = "over" /\ Over.seen = NoRecord /\ Over.pin = 0
    BY <1>1, KeysAssumption DEF Over, Fresh, Client
  <1> QED BY <1>1, <1>2, <1>3 DEF Sound

\* A request stays sound when records are written and deleted.
LEMMA SoundKept ==
  ASSUME StoreInv, NEW c \in Clients, NEW records,
         \A k \in Keys : records[k] = rec[k] \/ records[k].rev = rev + 1 \/ records[k] = NoRecord
  PROVE  Sound(client[c], records, rev + 1)
  <1>1. rev \in Nat /\ client[c].seen.rev \in Nat /\ client[c].key \in Keys
    BY Zenon DEF StoreInv, StoreTypeOK, Client, Record, Keys
  <1>2. NoRecord.rev = 0 BY Zenon DEF NoRecord
  <1>3. Sound(client[c], rec, rev) BY Zenon, SeenIsSound DEF StoreInv
  <1> QED BY <1>1, <1>2, <1>3 DEF Sound

\* A compare-and-swap adds a change to the record, and none is lost.
LEMMA PutCASInv == ASSUME StoreInv, NEW c \in Clients, putCAS(c) PROVE StoreInv'
  <1> DEFINE k == client[c].key
             v == client[c].seen.val \cup {c}
  <1>1. /\ client[c] \in Client /\ k \in DesiredKeys /\ k \in Keys
        /\ client[c].seen.val \in SUBSET Clients /\ v \in SUBSET Clients /\ rev \in Nat
    BY Zenon DEF StoreInv, StoreTypeOK, Client, Record, Keys
  <1>2. /\ rec[k].rev = client[c].seen.rev /\ client[c].stage = "put" /\ bumpRev(k)
        /\ rec' = [rec EXCEPT ![k] = [rev |-> rev + 1, val |-> v]]
        /\ client' = [client EXCEPT ![c] = Over]
        /\ acked' = [acked EXCEPT ![k] = @ \cup {c}]
    BY Zenon DEF putCAS
  <1>3. client[c].seen = rec[k] BY Zenon, <1>2, SeenIsSound DEF StoreInv, Sound
  <1>4. rev' = rev + 1 /\ rev' \in Nat /\ lastRev' \in Nat /\ pending' \in Event
    BY Zenon, <1>1, <1>2, BumpTyped DEF StoreInv
  <1> HIDE DEF k, v
  <1>5. /\ rec' \in [Keys -> Record] /\ RevisionsUnique' /\ ZeroEmpty'
        /\ rec'[k] = [rev |-> rev + 1, val |-> v]
        /\ \A j \in Keys \ {k} : rec'[j] = rec[j]
    BY Zenon, <1>1, <1>2, <1>4, WriteRecord
  <1>6. Over \in Client /\ Sound(Over, rec', rev') BY Zenon, <1>4, FreshSound
  <1>7. client' \in [Clients -> Client] /\ acked' \in [Keys -> SUBSET Clients]
    BY Zenon, <1>1, <1>2, <1>6 DEF StoreInv, StoreTypeOK
  <1>8. SeenTrue'
    <2>1. \A d \in Clients : Sound(client[d], rec', rev')
      BY <1>4, <1>5, SoundKept
    <2>2. \A d \in Clients : client'[d] = client[d] \/ client'[d] = Over
      BY Zenon, <1>2 DEF StoreInv, StoreTypeOK
    <2>3. \A d \in Clients : Sound(client'[d], rec', rev') BY Zenon, <1>6, <2>1, <2>2
    <2> QED BY Zenon, <2>3 DEF SeenTrue, Sound
  <1>9. NoLostUpdate'
    <2>1. rec'[k].val = v /\ v = rec[k].val \cup {c} BY <1>3, <1>5 DEF v
    <2>2. acked[k] = rec[k].val BY Zenon, <1>1 DEF StoreInv, NoLostUpdate
    <2>3. \A j \in DesiredKeys : acked'[j] = IF j = k THEN acked[k] \cup {c} ELSE acked[j]
      BY Zenon, <1>2 DEF StoreInv, StoreTypeOK, Keys
    <2> QED BY Zenon, <1>5, <2>1, <2>2, <2>3 DEF StoreInv, NoLostUpdate, Keys
  <1> QED BY Zenon, <1>4, <1>5, <1>7, <1>8, <1>9 DEF StoreInv, StoreTypeOK

\* The records of one owner are not among those that are compared and swapped.
LEMMA PutLWWInv == ASSUME StoreInv, NEW k \in RolloutKeys, putLWW(k) PROVE StoreInv'
  <1>1. k \in Keys /\ k \notin DesiredKeys /\ {} \in SUBSET Clients BY Zenon, KeysAssumption DEF Keys
  <1>2. bumpRev(k) /\ rec' = [rec EXCEPT ![k] = [rev |-> rev + 1, val |-> {}]] /\ UNCHANGED <<client, acked>>
    BY Zenon DEF putLWW
  <1>3. rev' = rev + 1 /\ rev' \in Nat /\ lastRev' \in Nat /\ pending' \in Event
    BY Zenon, <1>1, <1>2, BumpTyped DEF StoreInv
  <1>4. /\ rec' \in [Keys -> Record] /\ RevisionsUnique' /\ ZeroEmpty'
        /\ rec'[k] = [rev |-> rev + 1, val |-> {}]
        /\ \A j \in Keys \ {k} : rec'[j] = rec[j]
    BY Zenon, <1>1, <1>2, <1>3, WriteRecord
  <1>5. \A d \in Clients : Sound(client[d], rec', rev') BY <1>3, <1>4, SoundKept
  <1>6. SeenTrue' BY Zenon, <1>2, <1>5 DEF SeenTrue, Sound
  <1>7. NoLostUpdate' BY Zenon, <1>1, <1>2, <1>4 DEF StoreInv, NoLostUpdate, Keys
  <1> QED BY Zenon, <1>2, <1>3, <1>4, <1>6, <1>7 DEF StoreInv, StoreTypeOK

\* A deletion, of one record or of all.
LEMMA DeleteInv ==
  ASSUME StoreInv, NEW j \in Keys, NEW S \in SUBSET Keys, bumpRev(j), UNCHANGED client,
         rec' = [k \in Keys |-> IF k \in S THEN NoRecord ELSE rec[k]],
         acked' = [k \in Keys |-> IF k \in S THEN {} ELSE acked[k]]
  PROVE  StoreInv'
  <1>1. rev' = rev + 1 /\ rev' \in Nat /\ lastRev' \in Nat /\ pending' \in Event
    BY Zenon, BumpTyped DEF StoreInv
  <1>2. rec' \in [Keys -> Record] /\ RevisionsUnique' /\ ZeroEmpty' BY Zenon, <1>1, DropRecords
  <1>3. \A d \in Clients : Sound(client[d], rec', rev') BY Zenon, <1>1, SoundKept
  <1>4. SeenTrue' BY Zenon, <1>3 DEF SeenTrue, Sound
  <1>5. NoLostUpdate' BY Zenon DEF StoreInv, NoLostUpdate, Keys, NoRecord
  <1>6. acked' \in [Keys -> SUBSET Clients] BY Zenon DEF StoreInv, StoreTypeOK
  <1> QED BY Zenon, <1>1, <1>2, <1>4, <1>5, <1>6 DEF StoreInv, StoreTypeOK

\* A step that writes no record keeps the invariant when every request stays sound.
LEMMA RequestStep ==
  ASSUME StoreInv, UNCHANGED <<rec, rev, acked>>, lastRev' \in Nat, pending' \in Event,
         client' \in [Clients -> Client], \A c \in Clients : Sound(client'[c], rec, rev)
  PROVE  StoreInv'
  <1>1. SeenTrue' BY Zenon DEF SeenTrue, Sound
  <1> QED BY Zenon, <1>1 DEF StoreInv, StoreTypeOK, RevisionsUnique, ZeroEmpty, NoLostUpdate

\* A step of one request, to a state that is sound.
LEMMA OneRequestStep ==
  ASSUME StoreInv, UNCHANGED <<rec, rev, lastRev, pending, acked>>, NEW c \in Clients, NEW r \in Client,
         client' = [client EXCEPT ![c] = r], Sound(r, rec, rev)
  PROVE  StoreInv'
  <1>1. client' \in [Clients -> Client] /\ \A d \in Clients : client'[d] = IF d = c THEN r ELSE client[d]
    BY Zenon DEF StoreInv, StoreTypeOK
  <1>2. \A d \in Clients : Sound(client[d], rec, rev) BY Zenon, SeenIsSound DEF StoreInv
  <1>3. \A d \in Clients : Sound(client'[d], rec, rev) BY Zenon, <1>1, <1>2
  <1>4. lastRev' \in Nat /\ pending' \in Event BY Zenon DEF StoreInv, StoreTypeOK
  <1> QED BY Zenon, <1>1, <1>3, <1>4, RequestStep

\* A request arrives.
LEMMA RequestInv ==
  ASSUME StoreInv, NEW c \in Clients, NEW k \in DesiredKeys, NEW b \in BOOLEAN, NEW p \in 0..rev,
         Request(c, k, b, p)
  PROVE  StoreInv'
  <1> DEFINE r == Fresh("read", b, k, p)
  <1>1. rev \in Nat /\ NoRecord \in Record /\ NoRecord.rev = 0 BY Zenon DEF StoreInv, StoreTypeOK, NoRecord, Record
  <1>2. r \in Client /\ r.stage = "read" /\ r.seen = NoRecord /\ r.pin = p /\ r.rmw = b
    BY <1>1 DEF Fresh, Client
  <1>3. client' = [client EXCEPT ![c] = r] /\ UNCHANGED <<rec, rev, lastRev, pending, acked>>
        /\ (p # 0 => b)
    BY Zenon DEF Request
  <1> HIDE DEF r
  <1>4. Sound(r, rec, rev) BY <1>1, <1>2, <1>3 DEF Sound
  <1> QED BY Zenon, <1>2, <1>3, <1>4, OneRequestStep

\* A request reads its record: what it has seen is the record.
LEMMA GetInv == ASSUME StoreInv, NEW c \in Clients, Get(c) PROVE StoreInv'
  <1> DEFINE x == rec[client[c].key]
             r == [client[c] EXCEPT !.stage = "put", !.seen = x]
             refused == client[c].rmw /\ (x.rev = 0 \/ client[c].pin \notin {0, x.rev})
  <1>1. client[c] \in Client /\ client[c].key \in Keys /\ x \in Record /\ rev \in Nat
    BY Zenon DEF StoreInv, StoreTypeOK, Client, Keys
  <1>2. client' = [client EXCEPT ![c] = IF refused THEN Over ELSE r]
        /\ UNCHANGED <<rec, rev, lastRev, pending, acked>>
    BY Zenon DEF Get
  <1>3. CASE refused
    <2>1. Over \in Client /\ Sound(Over, rec, rev) BY Zenon, <1>1, FreshSound
    <2> QED BY Zenon, <1>2, <1>3, <2>1, OneRequestStep
  <1>4. CASE ~refused
    <2>1. r \in Client /\ r.seen = x /\ r.key = client[c].key /\ r.pin = client[c].pin /\ r.rmw = client[c].rmw
      BY Zenon, <1>1 DEF Client
    <2>2. x.rev <= rev /\ (x.rev = 0 => x = NoRecord) BY Zenon, <1>1 DEF StoreInv, RevisionsUnique, ZeroEmpty
    <2>3. client[c].pin # 0 => client[c].rmw BY Zenon DEF StoreInv, SeenTrue
    <2>4. client[c].pin # 0 => x.rev = client[c].pin BY Zenon, <1>4, <2>3
    <2>5. Sound(r, rec, rev) BY Zenon, <2>1, <2>2, <2>3, <2>4 DEF Sound
    <2> QED BY Zenon, <1>2, <1>4, <2>1, <2>5, OneRequestStep
  <1> QED BY Zenon, <1>3, <1>4

\* A conflict: the request is over or reads again.
LEMMA ConflictInv == ASSUME StoreInv, NEW c \in Clients, Conflict(c) PROVE StoreInv'
  <1> DEFINE r == [client[c] EXCEPT !.stage = "read", !.attempt = 1]
  <1>1. client[c] \in Client /\ rev \in Nat /\ Sound(client[c], rec, rev)
    BY Zenon, SeenIsSound DEF StoreInv, StoreTypeOK
  <1>2. r \in Client /\ r.stage = "read" /\ r.seen = client[c].seen /\ r.pin = client[c].pin /\ r.rmw = client[c].rmw
    <2>1. 1 \in 0..1 OBVIOUS
    <2>2. r \in Client BY Zenon, <1>1, <2>1 DEF Client
    <2>3. r.stage = "read" /\ r.seen = client[c].seen /\ r.pin = client[c].pin /\ r.rmw = client[c].rmw
      BY Zenon, <1>1 DEF Client
    <2> QED BY Zenon, <2>2, <2>3
  <1>3. Sound(r, rec, rev) /\ Over \in Client /\ Sound(Over, rec, rev)
    <2> HIDE DEF r
    <2> QED BY Zenon, <1>1, <1>2, FreshSound DEF Sound
  <1>4. /\ client' = [client EXCEPT ![c] = r] \/ client' = [client EXCEPT ![c] = Over]
        /\ UNCHANGED <<rec, rev, lastRev, pending, acked>>
    BY Zenon DEF Conflict
  <1> HIDE DEF r
  <1> QED BY Zenon, <1>2, <1>3, <1>4, OneRequestStep

\* Publishing and crashing write nothing.
LEMMA PublishCrashInv == ASSUME StoreInv, Publish \/ Crash PROVE StoreInv'
  <1>1. rev \in Nat /\ pending \in Event /\ client \in [Clients -> Client] /\ pending.rev \in Nat
    BY Zenon DEF StoreInv, StoreTypeOK, Event
  <1>2. NoEvent \in Event BY Zenon, KeysAssumption DEF NoEvent, Event, Keys
  <1>3. /\ NoRequest \in Client /\ Over \in Client
        /\ Sound(NoRequest, rec, rev) /\ Sound(Over, rec, rev)
    BY Zenon, <1>1, FreshSound
  <1>4. \A d \in Clients : Sound(client[d], rec, rev) BY Zenon, SeenIsSound DEF StoreInv
  <1>5. CASE Publish BY Zenon, <1>1, <1>2, <1>4, <1>5, RequestStep DEF Publish
  <1>6. CASE Crash
    <2>1. client' \in [Clients -> Client] BY Zenon, <1>3, <1>6 DEF Crash
    <2>2. \A d \in Clients : client'[d] \in {NoRequest, Over} BY Zenon, <1>6 DEF Crash
    <2>3. \A d \in Clients : Sound(client'[d], rec, rev) BY Zenon, <1>3, <2>2
    <2> QED BY Zenon, <1>1, <1>2, <1>6, <2>1, <2>3, RequestStep DEF Crash
  <1> QED BY Zenon, <1>5, <1>6

\* Every step keeps the invariant.
LEMMA NextStoreInv == StoreInv /\ [StoreNext]_storeVars => StoreInv'
  <1> SUFFICES ASSUME StoreInv, [StoreNext]_storeVars PROVE StoreInv'
    OBVIOUS
  <1>1. CASE UNCHANGED storeVars
    BY Zenon, <1>1 DEF storeVars, StoreInv, StoreTypeOK, RevisionsUnique, ZeroEmpty, SeenTrue, NoLostUpdate
  <1>2. ASSUME NEW k \in DeletableKeys, DeleteRecord(k) PROVE StoreInv'
    <2>1. k \in Keys BY Zenon, KeysAssumption DEF Keys
    <2>2. /\ rec' = [j \in Keys |-> IF j \in {k} THEN NoRecord ELSE rec[j]]
          /\ acked' = [j \in Keys |-> IF j \in {k} THEN {} ELSE acked[j]]
      BY Zenon, <1>2 DEF DeleteRecord, StoreInv, StoreTypeOK
    <2> QED BY <1>2, <2>1, <2>2, DeleteInv, ZenonT(30) DEF DeleteRecord
  <1>3. CASE DeleteCluster
    <2>1. ClusterKey \in Keys BY Zenon, KeysAssumption DEF Keys
    <2>2. /\ rec' = [j \in Keys |-> IF j \in Keys THEN NoRecord ELSE rec[j]]
          /\ acked' = [j \in Keys |-> IF j \in Keys THEN {} ELSE acked[j]]
      BY Zenon, <1>3 DEF DeleteCluster
    <2> QED BY Zenon, <1>3, <2>1, <2>2, DeleteInv DEF DeleteCluster
  <1>4. ASSUME NEW c \in Clients, Serve(c) PROVE StoreInv'
    BY Zenon, <1>4, RequestInv, GetInv, ConflictInv DEF Serve
  <1> QED BY Zenon, <1>1, <1>2, <1>3, <1>4, PutCASInv, PutLWWInv, PublishCrashInv DEF StoreNext, Write

\* The invariant holds throughout every behaviour of the store.
LEMMA StoreInvariant == Spec => []StoreInv
  BY InitStoreInv, NextStoreInv, PTL DEF Spec

\* No request, retry, late write after a deletion and a new creation, or crash undoes a
\* change that putCAS (store.go) has acknowledged.
THEOREM UpdatesKept == Spec => []NoLostUpdate
  <1>1. StoreInv => NoLostUpdate BY Zenon DEF StoreInv
  <1> QED BY <1>1, StoreInvariant, PTL

\* bumpRev (store.go) gives no revision twice, over crashes too.
THEOREM RevisionsOnce == Spec => []RevisionsUnique
  <1>1. StoreInv => RevisionsUnique BY Zenon DEF StoreInv
  <1> QED BY <1>1, StoreInvariant, PTL

\* A request that a caller pinned to a revision (rmw, server.go) changes that revision
\* of the record or nothing.
THEOREM PinsHold == Spec => PinRespected
  <1>1. StoreInv => [\A c \in Clients : (client[c].pin # 0 /\ client[c].stage = "put" /\ putCAS(c))
                       => rec[client[c].key].rev = client[c].pin]_storeVars
    BY Zenon DEF StoreInv, SeenTrue, putCAS
  <1> QED BY <1>1, StoreInvariant, PTL DEF PinRespected, Spec

-----------------------------------------------------------------------------
(* The watch stream.                                                       *)

\* lastRev runs behind the persisted counter exactly while a write holds writeMu, and
\* that write's event has the last revision.
Counted ==
    /\ writeMuFree => lastRev = rev
    /\ ~writeMuFree => pending.rev = rev /\ lastRev < rev
    /\ \A k \in Keys : removed[k] <= rev

Increasing(s) == \A i, j \in DOMAIN s : i < j => s[i].rev < s[j].rev

\* What has been sent comes before what is left of the snapshot, and that before what
\* is in the buffer.
Ordered(r, last) ==
    /\ Increasing(r.got) /\ Increasing(r.in)
    /\ r.snapshotRev <= last
    /\ r.stage # "live" => r.snap = {} /\ r.got = <<>>
    /\ r.stage = "idle" => r.in = <<>>
    /\ \A e \in Range(r.in) : r.snapshotRev < e.rev /\ e.rev <= last
    /\ r.stage = "registered" => r.from = r.since /\ r.since <= r.snapshotRev
    /\ \A e, f \in r.snap : e.rev = f.rev => e = f
    /\ \A e \in r.snap : e.rev <= r.snapshotRev
    /\ \A e \in Range(r.got) : /\ e.rev <= last
                               /\ \A f \in r.snap : e.rev < f.rev
                               /\ \A f \in Range(r.in) : e.rev < f.rev

\* The events a subscriber has been sent, and those on their way to it.
Coming(r) == r.snap \cup Range(r.in) \cup Range(r.got)

\* The event of every record written after the cursor, and an event of every deletion
\* after the registration, is coming, pending, or to be found by the snapshot.
Telling(r) ==
    (r.stage \in {"registered", "live"} /\ ~r.dropped) =>
        /\ \A k \in SnapshotKeys : rec[k].rev > r.from =>
              \/ r.stage = "registered" /\ rec[k].rev <= r.snapshotRev
              \/ [key |-> k, rev |-> rec[k].rev] \in Coming(r) \cup {pending}
        /\ \A k \in Keys : removed[k] > r.snapshotRev =>
              \E e \in Coming(r) \cup {pending} : e.rev = removed[k]

WatchInv ==
    /\ StoreInv
    /\ WatchTypeOK
    /\ Counted
    /\ \A w \in Watchers : Ordered(sub[w], lastRev) /\ Telling(sub[w])

-----------------------------------------------------------------------------
(* Sequences of events.                                                    *)

\* What is in a sequence when an event is appended and when the first is taken.
LEMMA RangeFacts ==
  ASSUME NEW s \in Seq(Event)
  PROVE  /\ Range(s) \subseteq Event
         /\ \A e \in Event : Append(s, e) \in Seq(Event) /\ Range(Append(s, e)) = Range(s) \cup {e}
         /\ s # <<>> => /\ Head(s) \in Event /\ Tail(s) \in Seq(Event)
                        /\ Range(s) = {Head(s)} \cup Range(Tail(s))
  <1>1. Range(s) \subseteq Event BY DEF Range
  <1>2. ASSUME NEW e \in Event
        PROVE  Append(s, e) \in Seq(Event) /\ Range(Append(s, e)) = Range(s) \cup {e}
    <2>1. /\ Append(s, e) \in Seq(Event) /\ DOMAIN Append(s, e) = 1..(Len(s) + 1)
          /\ \A i \in 1..Len(s) : Append(s, e)[i] = s[i]
          /\ Append(s, e)[Len(s) + 1] = e
          /\ DOMAIN s = 1..Len(s) /\ Len(s) \in Nat
      OBVIOUS
    <2> QED BY <2>1 DEF Range
  <1>3. ASSUME s # <<>>
        PROVE  Head(s) \in Event /\ Tail(s) \in Seq(Event) /\ Range(s) = {Head(s)} \cup Range(Tail(s))
    <2>1. /\ Tail(s) \in Seq(Event) /\ DOMAIN Tail(s) = 1..(Len(s) - 1)
          /\ \A i \in 1..(Len(s) - 1) : Tail(s)[i] = s[i + 1]
          /\ Head(s) = s[1] /\ Head(s) \in Event
          /\ DOMAIN s = 1..Len(s) /\ Len(s) \in Nat /\ Len(s) >= 1
      BY <1>3
    <2>2. ASSUME NEW i \in DOMAIN s PROVE s[i] \in {Head(s)} \cup Range(Tail(s))
      <3>1. CASE i = 1 BY Zenon, <2>1, <3>1
      <3>2. CASE i # 1
        <4>1. i - 1 \in DOMAIN Tail(s) /\ Tail(s)[i - 1] = s[i] BY <2>1, <3>2
        <4> QED BY Zenon, <4>1 DEF Range
      <3> QED BY Zenon, <3>1, <3>2
    <2>3. ASSUME NEW i \in DOMAIN Tail(s) PROVE Tail(s)[i] \in Range(s)
      <3>1. i + 1 \in DOMAIN s /\ Tail(s)[i] = s[i + 1] BY <2>1
      <3> QED BY Zenon, <3>1 DEF Range
    <2>4. Head(s) \in Range(s) BY <2>1 DEF Range
    <2> QED BY <2>1, <2>2, <2>3, <2>4 DEF Range
  <1> QED BY Zenon, <1>1, <1>2, <1>3

\* A later revision at the end keeps a sequence in order.
LEMMA IncreasingAppend ==
  ASSUME NEW s \in Seq(Event), NEW e \in Event, Increasing(s), \A f \in Range(s) : f.rev < e.rev
  PROVE  Increasing(Append(s, e))
  <1>1. /\ DOMAIN Append(s, e) = 1..(Len(s) + 1)
        /\ \A i \in 1..Len(s) : Append(s, e)[i] = s[i]
        /\ Append(s, e)[Len(s) + 1] = e
        /\ DOMAIN s = 1..Len(s) /\ Len(s) \in Nat
    OBVIOUS
  <1>2. \A i \in 1..Len(s) : s[i].rev < e.rev BY Zenon, <1>1 DEF Range
  <1> QED BY <1>1, <1>2 DEF Increasing

\* The rest of a sequence in order is in order, and later than the first.
LEMMA IncreasingTail ==
  ASSUME NEW s \in Seq(Event), Increasing(s), s # <<>>
  PROVE  Increasing(Tail(s)) /\ \A f \in Range(Tail(s)) : Head(s).rev < f.rev
  <1>1. /\ DOMAIN Tail(s) = 1..(Len(s) - 1)
        /\ \A i \in 1..(Len(s) - 1) : Tail(s)[i] = s[i + 1]
        /\ Head(s) = s[1] /\ DOMAIN s = 1..Len(s) /\ Len(s) \in Nat /\ Len(s) >= 1
    OBVIOUS
  <1>2. Increasing(Tail(s)) BY <1>1 DEF Increasing
  <1>3. ASSUME NEW i \in DOMAIN Tail(s) PROVE Head(s).rev < Tail(s)[i].rev
    <2>1. 1 \in DOMAIN s /\ i + 1 \in DOMAIN s /\ 1 < i + 1 /\ Tail(s)[i] = s[i + 1] BY <1>1
    <2> QED BY Zenon, <1>1, <2>1 DEF Increasing
  <1> QED BY Zenon, <1>2, <1>3 DEF Range

-----------------------------------------------------------------------------
(* The steps.                                                              *)

\* A subscription that is not made yet, or over, has nothing.
LEMMA NoSubscriptionFacts ==
  ASSUME NEW r \in {NoSubscription, [NoSubscription EXCEPT !.stage = "over"]}, NEW last \in Nat
  PROVE  r \in Subscription /\ Ordered(r, last) /\ Telling(r)
  <1>1. /\ r \in Subscription /\ r.stage \in {"idle", "over"} /\ r.snapshotRev = 0
        /\ r.in = <<>> /\ r.got = <<>> /\ r.snap = {}
    <2>1. <<>> \in Seq(Event) OBVIOUS
    <2>2. CASE r = NoSubscription BY Zenon, <2>1, <2>2 DEF NoSubscription, Subscription
    <2>3. CASE r = [NoSubscription EXCEPT !.stage = "over"] BY Zenon, <2>1, <2>3 DEF NoSubscription, Subscription
    <2> QED BY Zenon, <2>2, <2>3
  <1>2. Range(r.in) = {} /\ Range(r.got) = {} BY <1>1 DEF Range
  <1>3. Increasing(r.in) /\ Increasing(r.got) BY <1>1 DEF Increasing
  <1> QED BY <1>1, <1>2, <1>3 DEF Ordered, Telling

\* The types of a subscription's fields.
LEMMA Fields ==
  ASSUME NEW r \in Subscription
  PROVE  /\ r.since \in Nat /\ r.from \in Nat /\ r.snapshotRev \in Nat /\ r.in \in Seq(Event) /\ r.got \in Seq(Event)
         /\ r.snap \in SUBSET Event /\ r.dropped \in BOOLEAN
         /\ r.stage \in {"idle", "registered", "live", "over"}
  BY Zenon DEF Subscription

\* At first nobody is subscribed.
LEMMA InitWatchInv == WatchInit => WatchInv
  <1> SUFFICES ASSUME WatchInit PROVE WatchInv
    OBVIOUS
  <1>1. StoreInv BY Zenon, InitStoreInv DEF WatchInit
  <1>2. lastRev = 0 /\ rev = 0 /\ writeMuFree BY Zenon DEF WatchInit, Init, writeMuFree
  <1>3. \A w \in Watchers : sub[w] = NoSubscription BY Zenon DEF WatchInit
  <1>4. NoSubscription \in Subscription /\ Ordered(NoSubscription, lastRev) /\ Telling(NoSubscription)
    BY Zenon, <1>2, NoSubscriptionFacts
  <1>5. WatchTypeOK BY Zenon, <1>1, <1>4 DEF WatchInit, WatchTypeOK, StoreInv
  <1>6. Counted BY <1>2 DEF WatchInit, Counted
  <1> QED BY Zenon, <1>1, <1>3, <1>4, <1>5, <1>6 DEF WatchInv

\* A step of one subscription keeps the invariant when what it leads to is in order.
LEMMA SubscriptionStep ==
  ASSUME WatchInv, UNCHANGED <<storeVars, removed>>, NEW w \in Watchers, NEW r \in Subscription,
         sub' = [sub EXCEPT ![w] = r], Ordered(r, lastRev), Telling(r)
  PROVE  WatchInv'
  <1>1. UNCHANGED <<rec, rev, lastRev, pending, client, acked, removed>> BY Zenon DEF storeVars
  <1>2. StoreInv' BY Zenon, <1>1, NextStoreInv DEF WatchInv, storeVars
  <1>3. sub' \in [Watchers -> Subscription] /\ \A v \in Watchers : sub'[v] = r \/ sub'[v] = sub[v]
    BY Zenon DEF WatchInv, WatchTypeOK
  <1>4. WatchTypeOK' BY Zenon, <1>1, <1>2, <1>3 DEF WatchInv, WatchTypeOK, StoreInv
  <1>5. Counted' BY Zenon, <1>1 DEF WatchInv, Counted, writeMuFree
  <1>6. \A v \in Watchers : Ordered(sub[v], lastRev) /\ Telling(sub[v]) BY Zenon DEF WatchInv
  <1>7. ASSUME NEW v \in Watchers PROVE Ordered(sub'[v], lastRev') /\ Telling(sub[v])'
    <2>1. Ordered(sub'[v], lastRev') BY Zenon, <1>1, <1>3, <1>6
    <2>2. Telling(sub'[v]) BY Zenon, <1>3, <1>6
    <2>3. Telling(sub[v])' BY Zenon, <1>1, <2>2 DEF Telling
    <2> QED BY Zenon, <2>1, <2>3
  <1> QED BY Zenon, <1>2, <1>4, <1>5, <1>7 DEF WatchInv

\* A registration: writeMu is free, so no revision given out is above lastRev.
LEMMA RegisterInv ==
  ASSUME WatchInv, NEW w \in Watchers, NEW since \in 0..lastRev, Register(w, since)
  PROVE  WatchInv'
  <1> DEFINE r == [sub[w] EXCEPT !.stage = "registered", !.since = since, !.from = since, !.snapshotRev = lastRev]
  <1>1. sub[w] \in Subscription /\ lastRev \in Nat /\ since \in Nat
    BY DEF WatchInv, WatchTypeOK, StoreTypeOK
  <1>2. sub' = [sub EXCEPT ![w] = r] /\ sub[w].stage = "idle" /\ writeMuFree /\ UNCHANGED <<storeVars, removed>>
    BY Zenon DEF Register
  <1>3. /\ r \in Subscription /\ r.stage = "registered" /\ r.snapshotRev = lastRev /\ r.since = since /\ r.from = since
        /\ r.in = sub[w].in /\ r.snap = sub[w].snap /\ r.got = sub[w].got
    BY Zenon, <1>1 DEF Subscription
  <1> HIDE DEF r
  <1>4. Ordered(sub[w], lastRev) BY Zenon DEF WatchInv
  <1>5. r.in = <<>> /\ r.snap = {} /\ r.got = <<>> BY Zenon, <1>2, <1>3, <1>4 DEF Ordered
  <1>6. Range(r.in) = {} /\ Range(r.got) = {} BY <1>5 DEF Range
  <1>7. Ordered(r, lastRev) BY <1>1, <1>3, <1>4, <1>5, <1>6 DEF Ordered
  <1>8. lastRev = rev /\ \A k \in Keys : removed[k] \in Nat /\ removed[k] <= rev
    BY Zenon, <1>2 DEF WatchInv, Counted, WatchTypeOK
  <1>9. \A k \in SnapshotKeys : rec[k].rev <= rev
    BY Zenon DEF WatchInv, StoreInv, RevisionsUnique, SnapshotKeys
  <1>10. Telling(r) BY <1>1, <1>3, <1>8, <1>9 DEF Telling
  <1> QED BY Zenon, <1>2, <1>3, <1>7, <1>10, SubscriptionStep

\* The snapshot finds what was written up to the registration and is unchanged; what was
\* written since is in the buffer.
LEMMA SnapshotInv == ASSUME WatchInv, NEW w \in Watchers, Snapshot(w) PROVE WatchInv'
  <1> DEFINE S == snapshotEvents(sub[w].since, sub[w].snapshotRev)
             r == [sub[w] EXCEPT !.stage = "live", !.snap = S]
  <1>1. sub[w] \in Subscription /\ Ordered(sub[w], lastRev) /\ Telling(sub[w])
    BY Zenon DEF WatchInv, WatchTypeOK
  <1>2. sub' = [sub EXCEPT ![w] = r] /\ sub[w].stage = "registered" /\ UNCHANGED <<storeVars, removed>>
    BY Zenon DEF Snapshot
  <1>3. \A k \in SnapshotKeys : k \in Keys /\ rec[k].rev \in Nat
    BY Zenon DEF WatchInv, WatchTypeOK, StoreTypeOK, Record, SnapshotKeys
  <1>4. \A e \in S : \E k \in SnapshotKeys : /\ e = [key |-> k, rev |-> rec[k].rev]
                                             /\ rec[k].rev > sub[w].since /\ rec[k].rev <= sub[w].snapshotRev
    BY Zenon DEF snapshotEvents
  <1>5. S \subseteq Event BY <1>3, <1>4 DEF Event
  <1>6. /\ r \in Subscription /\ r.stage = "live" /\ r.snap = S /\ r.snapshotRev = sub[w].snapshotRev
        /\ r.since = sub[w].since /\ r.from = sub[w].from /\ r.in = sub[w].in /\ r.got = sub[w].got /\ r.dropped = sub[w].dropped
    BY Zenon, <1>1, <1>5 DEF Subscription
  <1>7. \A e, f \in S : e.rev = f.rev => e = f
    <2> SUFFICES ASSUME NEW e \in S, NEW f \in S, e.rev = f.rev PROVE e = f
      OBVIOUS
    <2>1. PICK j \in SnapshotKeys : e = [key |-> j, rev |-> rec[j].rev] /\ rec[j].rev > sub[w].since
      BY Zenon, <1>4
    <2>2. PICK k \in SnapshotKeys : f = [key |-> k, rev |-> rec[k].rev] BY Zenon, <1>4
    <2>3. rec[j].rev # 0 BY <1>1, <1>3, <2>1, Fields
    <2>4. j = k BY Zenon, <1>3, <2>1, <2>2, <2>3 DEF WatchInv, StoreInv, RevisionsUnique
    <2> QED BY Zenon, <2>1, <2>2, <2>4
  <1>8. \A e \in S : e.rev <= sub[w].snapshotRev BY <1>4
  <1>9. \A k \in SnapshotKeys : rec[k].rev > sub[w].since /\ rec[k].rev <= sub[w].snapshotRev
                                   => [key |-> k, rev |-> rec[k].rev] \in S
    BY Zenon DEF snapshotEvents
  <1> HIDE DEF S, r
  <1>10. Range(sub[w].got) = {} BY <1>1, <1>2 DEF Ordered, Range
  <1>11. Ordered(r, lastRev) BY Zenon, <1>1, <1>6, <1>7, <1>8, <1>10 DEF Ordered
  <1>12. Telling(r)
    <2> SUFFICES ASSUME ~r.dropped PROVE Telling(r)
      BY Zenon DEF Telling
    <2>1. Coming(sub[w]) \subseteq Coming(r)
      BY Zenon, <1>1, <1>2, <1>6 DEF Coming, Ordered
    <2>2. S \subseteq Coming(r) BY Zenon, <1>6 DEF Coming
    <2>3. r.from = sub[w].since BY Zenon, <1>1, <1>2, <1>6 DEF Ordered
    <2> QED BY Zenon, <1>1, <1>2, <1>6, <1>9, <2>1, <2>2, <2>3 DEF Telling
  <1> QED BY Zenon, <1>2, <1>6, <1>11, <1>12, SubscriptionStep

\* Without a snapshot the stream starts from the registration: what was written since is
\* in the buffer, all the same.
LEMMA SnapshotFailsInv == ASSUME WatchInv, NEW w \in Watchers, SnapshotFails(w) PROVE WatchInv'
  <1> DEFINE q == sub[w]
             r == [q EXCEPT !.stage = "live", !.from = q.snapshotRev]
  <1>1. q \in Subscription /\ Ordered(q, lastRev) /\ Telling(q)
    BY Zenon DEF WatchInv, WatchTypeOK
  <1>2. sub' = [sub EXCEPT ![w] = r] /\ q.stage = "registered" /\ UNCHANGED <<storeVars, removed>>
    BY Zenon DEF SnapshotFails
  <1>3. q.from \in Nat /\ q.since \in Nat /\ q.snapshotRev \in Nat BY Zenon, <1>1, Fields
  <1>4. /\ r \in Subscription /\ r.stage = "live" /\ r.snap = q.snap /\ r.snapshotRev = q.snapshotRev
        /\ r.since = q.since /\ r.from = q.snapshotRev /\ r.in = q.in /\ r.got = q.got /\ r.dropped = q.dropped
    BY Zenon, <1>1, <1>3 DEF Subscription
  <1> HIDE DEF q, r
  <1>5. Ordered(r, lastRev) BY Zenon, <1>1, <1>2, <1>4 DEF Ordered
  <1>6. q.from <= q.snapshotRev BY <1>1, <1>2, <1>3 DEF Ordered
  <1>7. \A k \in SnapshotKeys : rec[k].rev \in Nat
    BY Zenon DEF WatchInv, WatchTypeOK, StoreTypeOK, Record, SnapshotKeys
  <1>8. \A k \in SnapshotKeys : rec[k].rev > q.snapshotRev => rec[k].rev > q.from /\ ~(rec[k].rev <= q.snapshotRev)
    BY <1>3, <1>6, <1>7
  <1>9. Coming(r) = Coming(q) BY Zenon, <1>4 DEF Coming
  <1>10. Telling(r) BY Zenon, <1>1, <1>2, <1>4, <1>8, <1>9 DEF Telling
  <1> QED BY Zenon, <1>2, <1>4, <1>5, <1>10, SubscriptionStep DEF q

\* A step that moves events along and drops none, while the store rests, goes on telling.
LEMMA TellingKept ==
  ASSUME NEW q, NEW r, Telling(q), q.stage = "live", r.stage = "live", r.dropped = q.dropped,
         r.from = q.from, r.snapshotRev = q.snapshotRev, Coming(q) \subseteq Coming(r)
  PROVE  Telling(r)
  BY Zenon DEF Telling

\* The next event of the snapshot is sent: the lowest, above all that was sent before.
LEMMA ReplayInv ==
  ASSUME WatchInv, NEW w \in Watchers, NEW ev \in sub[w].snap, Replay(w, ev)
  PROVE  WatchInv'
  <1> DEFINE q == sub[w]
             r == [q EXCEPT !.snap = q.snap \ {ev}, !.got = Append(q.got, ev)]
  <1>1. q \in Subscription /\ Ordered(q, lastRev) /\ Telling(q) /\ lastRev \in Nat
    BY Zenon DEF WatchInv, WatchTypeOK, StoreTypeOK
  <1>2. /\ sub' = [sub EXCEPT ![w] = r] /\ q.stage = "live" /\ UNCHANGED <<storeVars, removed>>
        /\ \A f \in q.snap : ev.rev <= f.rev
    BY Zenon DEF Replay
  <1>3. /\ q.got \in Seq(Event) /\ q.in \in Seq(Event) /\ q.snap \subseteq Event /\ ev \in Event
        /\ q.snapshotRev \in Nat
    BY Zenon, <1>1, Fields
  <1>4. /\ Append(q.got, ev) \in Seq(Event) /\ Range(Append(q.got, ev)) = Range(q.got) \cup {ev}
        /\ Range(q.got) \subseteq Event /\ Range(q.in) \subseteq Event
    BY Zenon, <1>3, RangeFacts
  <1>5. /\ r \in Subscription /\ r.stage = "live" /\ r.snap = q.snap \ {ev} /\ r.got = Append(q.got, ev)
        /\ r.snapshotRev = q.snapshotRev /\ r.since = q.since /\ r.from = q.from /\ r.in = q.in
        /\ r.dropped = q.dropped
    BY Zenon, <1>1, <1>2, <1>3, <1>4 DEF Subscription
  <1>6. \A e \in Event : e.rev \in Nat BY Zenon DEF Event
  <1> HIDE DEF q, r
  <1>7. ev \in q.snap BY Zenon DEF q
  <1>8. Increasing(r.got)
    <2>1. Increasing(q.got) /\ \A f \in Range(q.got) : f.rev < ev.rev BY Zenon, <1>1, <1>7 DEF Ordered
    <2> QED BY Zenon, <1>3, <1>5, <2>1, IncreasingAppend
  <1>9. \A f \in r.snap : ev.rev < f.rev
    BY <1>1, <1>2, <1>3, <1>5, <1>6, <1>7 DEF Ordered
  <1>10. ev.rev <= q.snapshotRev /\ \A f \in Range(q.in) : ev.rev < f.rev
    BY <1>1, <1>3, <1>4, <1>6, <1>7 DEF Ordered
  <1>11. ev.rev <= lastRev BY <1>1, <1>3, <1>6, <1>10 DEF Ordered
  <1>12. Ordered(r, lastRev)
    BY Zenon, <1>1, <1>4, <1>5, <1>8, <1>9, <1>10, <1>11 DEF Ordered
  <1>13. Coming(q) \subseteq Coming(r) BY Zenon, <1>4, <1>5, <1>7 DEF Coming
  <1>14. Telling(r) BY Zenon, <1>1, <1>2, <1>5, <1>13, TellingKept
  <1> QED BY Zenon, <1>2, <1>5, <1>12, <1>14, SubscriptionStep

\* The next event of the buffer is forwarded: it is above the snapshot, so none is skipped.
LEMMA ForwardInv == ASSUME WatchInv, NEW w \in Watchers, Forward(w) PROVE WatchInv'
  <1> DEFINE q == sub[w]
             ev == Head(q.in)
             r == [q EXCEPT !.in = Tail(q.in), !.got = Append(q.got, ev)]
  <1>1. q \in Subscription /\ Ordered(q, lastRev) /\ Telling(q) /\ lastRev \in Nat
    BY Zenon DEF WatchInv, WatchTypeOK, StoreTypeOK
  <1>2. /\ q.got \in Seq(Event) /\ q.in \in Seq(Event) /\ q.snapshotRev \in Nat
    BY Zenon, <1>1, Fields
  <1>3. q.stage = "live" /\ q.snap = {} /\ q.in # <<>> /\ UNCHANGED <<storeVars, removed>>
    BY Zenon DEF Forward
  <1>4. /\ ev \in Event /\ Tail(q.in) \in Seq(Event) /\ Range(q.in) = {ev} \cup Range(Tail(q.in))
        /\ Append(q.got, ev) \in Seq(Event) /\ Range(Append(q.got, ev)) = Range(q.got) \cup {ev}
    BY Zenon, <1>2, <1>3, RangeFacts
  <1>5. ev.rev \in Nat /\ q.snapshotRev < ev.rev /\ ev.rev <= lastRev BY Zenon, <1>1, <1>4 DEF Ordered, Event
  <1>6. sub' = [sub EXCEPT ![w] = r]
    <2>1. ~(Head(sub[w].in).rev <= sub[w].snapshotRev) BY <1>2, <1>5
    <2>2. sub' = [sub EXCEPT ![w].in = Tail(@), ![w].got = Append(@, Head(sub[w].in))]
      BY Zenon, <2>1 DEF Forward
    <2> QED BY Zenon, <2>2
  <1>7. /\ r \in Subscription /\ r.stage = "live" /\ r.snap = {} /\ r.got = Append(q.got, ev)
        /\ r.snapshotRev = q.snapshotRev /\ r.since = q.since /\ r.from = q.from /\ r.in = Tail(q.in)
        /\ r.dropped = q.dropped
    BY Zenon, <1>1, <1>3, <1>4 DEF Subscription
  <1> HIDE DEF q, ev, r
  <1>8. Increasing(r.in) /\ \A f \in Range(r.in) : ev.rev < f.rev
    BY Zenon, <1>1, <1>2, <1>3, <1>7, IncreasingTail DEF Ordered, ev
  <1>9. Increasing(r.got)
    <2>1. Increasing(q.got) /\ \A f \in Range(q.got) : f.rev < ev.rev BY Zenon, <1>1, <1>4 DEF Ordered
    <2> QED BY Zenon, <1>2, <1>4, <1>7, <2>1, IncreasingAppend
  <1>10. Ordered(r, lastRev)
    BY Zenon, <1>1, <1>4, <1>5, <1>7, <1>8, <1>9 DEF Ordered
  <1>11. Coming(q) \subseteq Coming(r) BY Zenon, <1>3, <1>4, <1>7 DEF Coming
  <1>12. Telling(r) BY Zenon, <1>1, <1>3, <1>7, <1>11, TellingKept
  <1> QED BY Zenon, <1>3, <1>6, <1>7, <1>10, <1>12, SubscriptionStep

\* A stream that is cancelled promises nothing.
LEMMA CancelInv == ASSUME WatchInv, NEW w \in Watchers, Cancel(w) PROVE WatchInv'
  <1> DEFINE r == [NoSubscription EXCEPT !.stage = "over"]
  <1>1. lastRev \in Nat BY Zenon DEF WatchInv, WatchTypeOK, StoreTypeOK
  <1>2. r \in Subscription /\ Ordered(r, lastRev) /\ Telling(r) BY Zenon, <1>1, NoSubscriptionFacts
  <1>3. sub' = [sub EXCEPT ![w] = r] /\ UNCHANGED <<storeVars, removed>> BY Zenon DEF Cancel
  <1> HIDE DEF r
  <1> QED BY Zenon, <1>2, <1>3, SubscriptionStep

\* A write commits: its event is pending, and the records it changes are gone or have
\* the revision of that event.
LEMMA CommitInv ==
  ASSUME WatchInv, StoreInv', UNCHANGED sub, NEW k0 \in Keys, bumpRev(k0), removed' \in [Keys -> Nat],
         \A k \in Keys : rec'[k] = rec[k] \/ rec'[k].rev = 0 \/ (k = k0 /\ rec'[k].rev = rev + 1),
         \A k \in Keys : removed'[k] = removed[k] \/ removed'[k] = rev + 1
  PROVE  WatchInv'
  <1>1. /\ rev \in Nat /\ lastRev \in Nat /\ sub \in [Watchers -> Subscription]
        /\ removed \in [Keys -> Nat] /\ rec \in [Keys -> Record]
    BY Zenon DEF WatchInv, WatchTypeOK, StoreTypeOK
  <1>2. /\ writeMuFree /\ lastRev = rev /\ rev' = rev + 1 /\ lastRev' = lastRev
        /\ pending' = [key |-> k0, rev |-> rev + 1] /\ pending'.rev = rev + 1
    BY Zenon DEF bumpRev, WatchInv, Counted
  <1>3. pending' # NoEvent /\ pending = NoEvent /\ NoEvent.rev = 0 BY <1>1, <1>2 DEF NoEvent, writeMuFree
  <1>4. Counted'
    <2>1. ~writeMuFree' BY Zenon, <1>3 DEF writeMuFree
    <2>2. \A k \in Keys : removed'[k] <= rev + 1 BY <1>1 DEF WatchInv, Counted
    <2> QED BY <1>1, <1>2, <2>1, <2>2 DEF Counted
  <1>5. WatchTypeOK' BY Zenon DEF WatchInv, WatchTypeOK, StoreInv
  <1>6. ASSUME NEW w \in Watchers PROVE Ordered(sub'[w], lastRev') /\ Telling(sub[w])'
    <2> DEFINE q == sub[w]
    <2>1. Ordered(q, lastRev) /\ Telling(q) /\ q \in Subscription /\ sub' = sub BY Zenon, <1>1 DEF WatchInv
    <2>2. q.from \in Nat /\ q.snapshotRev \in Nat BY Zenon, <2>1, Fields
    <2>3. ASSUME q.stage \in {"registered", "live"}, ~q.dropped, NEW k \in SnapshotKeys, rec'[k].rev > q.from
          PROVE  \/ q.stage = "registered" /\ rec'[k].rev <= q.snapshotRev
                 \/ [key |-> k, rev |-> rec'[k].rev] \in Coming(q) \cup {pending'}
      <3>1. k \in Keys /\ rec[k].rev \in Nat BY Zenon, <1>1 DEF SnapshotKeys, Record
      <3>2. CASE rec'[k] = rec[k]
        <4>1. [key |-> k, rev |-> rec[k].rev] # pending BY <1>3, <2>2, <2>3, <3>1, <3>2
        <4> QED BY Zenon, <2>1, <2>3, <3>2, <4>1 DEF Telling
      <3>3. CASE k = k0 /\ rec'[k].rev = rev + 1 BY Zenon, <1>2, <3>3
      <3> QED BY <2>2, <2>3, <3>1, <3>2, <3>3
    <2>4. ASSUME q.stage \in {"registered", "live"}, ~q.dropped, NEW k \in Keys, removed'[k] > q.snapshotRev
          PROVE  \E e \in Coming(q) \cup {pending'} : e.rev = removed'[k]
      <3>1. CASE removed'[k] = removed[k]
        <4>1. PICK e \in Coming(q) \cup {pending} : e.rev = removed[k] BY Zenon, <2>1, <2>4, <3>1 DEF Telling
        <4>2. e # pending BY <1>1, <1>3, <2>2, <2>4, <3>1, <4>1
        <4> QED BY Zenon, <3>1, <4>1, <4>2
      <3>2. CASE removed'[k] = rev + 1 BY Zenon, <1>2, <3>2
      <3> QED BY Zenon, <3>1, <3>2
    <2>5. Telling(q)' BY Zenon, <2>1, <2>3, <2>4 DEF Telling, Coming
    <2> QED BY Zenon, <1>2, <2>1, <2>5
  <1> QED BY Zenon, <1>4, <1>5, <1>6 DEF WatchInv

\* A publication: the pending event is above all that was published before it, and goes
\* to the end of every buffer that has room.
LEMMA PublishInv == ASSUME WatchInv, Publish, publish(pending), UNCHANGED removed PROVE WatchInv'
  <1>1. /\ rev \in Nat /\ lastRev \in Nat /\ pending \in Event /\ sub \in [Watchers -> Subscription]
        /\ removed \in [Keys -> Nat]
    BY Zenon DEF WatchInv, WatchTypeOK, StoreTypeOK
  <1>2. /\ lastRev' = rev /\ lastRev < rev /\ pending.rev = rev /\ pending' = NoEvent
        /\ UNCHANGED <<rec, rev, client, acked>>
    BY Zenon DEF Publish, WatchInv, Counted
  <1>3. StoreInv' BY Zenon, PublishCrashInv DEF WatchInv
  <1>4. Counted' BY Zenon, <1>1, <1>2 DEF WatchInv, Counted, writeMuFree
  <1>5. ASSUME NEW w \in Watchers
        PROVE  sub'[w] \in Subscription /\ Ordered(sub'[w], lastRev') /\ Telling(sub[w])'
    <2> DEFINE q == sub[w]
               r == sub'[w]
    <2>1. Ordered(q, lastRev) /\ Telling(q) /\ q \in Subscription BY Zenon, <1>1 DEF WatchInv
    <2>2. /\ q.since \in Nat /\ q.snapshotRev \in Nat /\ q.in \in Seq(Event) /\ q.got \in Seq(Event)
          /\ q.snap \subseteq Event
      BY Zenon, <2>1, Fields
    <2>3. \A e \in Event : e.rev \in Nat BY Zenon DEF Event
    <2>4. Ordered(q, lastRev')
      <3>1. Range(q.in) \subseteq Event /\ Range(q.got) \subseteq Event BY Zenon, <2>2, RangeFacts
      <3> HIDE DEF q
      <3> QED BY <1>1, <1>2, <2>1, <2>2, <2>3, <3>1 DEF Ordered
    <2>5. CASE ~Subscribed(w)
      <3>1. r = q BY Zenon, <2>5 DEF publish
      <3>2. Telling(sub[w])' BY Zenon, <2>5, <3>1 DEF Telling, Subscribed
      <3> QED BY Zenon, <2>1, <2>4, <3>1, <3>2
    <2>6. CASE Subscribed(w) /\ Len(q.in) < SubBuffer
      <3>1. r = [q EXCEPT !.in = Append(q.in, pending)] BY Zenon, <2>6 DEF publish
      <3>2. /\ Append(q.in, pending) \in Seq(Event) /\ Range(Append(q.in, pending)) = Range(q.in) \cup {pending}
            /\ Range(q.in) \subseteq Event /\ Range(q.got) \subseteq Event
        BY Zenon, <1>1, <2>2, RangeFacts
      <3>3. /\ r \in Subscription /\ r.stage = q.stage /\ r.snap = q.snap /\ r.got = q.got /\ r.since = q.since
            /\ r.from = q.from
            /\ r.snapshotRev = q.snapshotRev /\ r.in = Append(q.in, pending) /\ r.dropped = q.dropped
        BY Zenon, <2>1, <3>1, <3>2 DEF Subscription
      <3>4. q.stage \in {"registered", "live"} BY Zenon, <2>6 DEF Subscribed
      <3> HIDE DEF q, r
      <3>5. Increasing(r.in)
        <4>1. Increasing(q.in) /\ \A f \in Range(q.in) : f.rev < pending.rev
          BY <1>1, <1>2, <2>1, <2>3, <3>2 DEF Ordered
        <4> QED BY Zenon, <1>1, <2>2, <3>3, <4>1, IncreasingAppend
      <3>6. \A e \in Range(q.got) : e.rev < pending.rev
        BY <1>1, <1>2, <2>1, <2>3, <3>2 DEF Ordered
      <3>7. q.snapshotRev < pending.rev
        BY <1>1, <1>2, <2>1, <2>2 DEF Ordered
      <3>8. Ordered(r, lastRev')
        BY <1>1, <1>2, <2>4, <3>2, <3>3, <3>4, <3>5, <3>6, <3>7 DEF Ordered
      <3>9. Coming(q) \cup {pending} \subseteq Coming(r) BY Zenon, <3>2, <3>3 DEF Coming
      <3>10. Telling(sub[w])'
        BY Zenon, <1>2, <2>1, <3>3, <3>4, <3>9 DEF Telling, r, Coming
      <3> QED BY Zenon, <3>3, <3>8, <3>10 DEF r
    <2>7. CASE Subscribed(w) /\ ~(Len(q.in) < SubBuffer)
      <3>1. r = [q EXCEPT !.dropped = TRUE] BY Zenon, <2>7 DEF publish
      <3>2. /\ r \in Subscription /\ r.stage = q.stage /\ r.snap = q.snap /\ r.got = q.got /\ r.since = q.since
            /\ r.from = q.from
            /\ r.snapshotRev = q.snapshotRev /\ r.in = q.in /\ r.dropped = TRUE
        BY Zenon, <2>1, <3>1 DEF Subscription
      <3> HIDE DEF q, r
      <3>3. Ordered(r, lastRev') BY Zenon, <2>4, <3>2 DEF Ordered
      <3>4. Telling(sub[w])' BY Zenon, <3>2 DEF Telling, r
      <3> QED BY Zenon, <3>2, <3>3, <3>4 DEF r
    <2> QED BY Zenon, <2>5, <2>6, <2>7
  <1>6. sub' \in [Watchers -> Subscription] BY Zenon, <1>5 DEF publish
  <1>7. WatchTypeOK' BY Zenon, <1>1, <1>3, <1>6 DEF WatchTypeOK, StoreInv
  <1> QED BY Zenon, <1>3, <1>4, <1>5, <1>7 DEF WatchInv

\* A crash ends every subscription.
LEMMA CrashInv ==
  ASSUME WatchInv, Crash, UNCHANGED removed,
         sub' = [w \in Watchers |-> IF sub[w].stage = "idle" THEN NoSubscription
                                    ELSE [NoSubscription EXCEPT !.stage = "over"]]
  PROVE  WatchInv'
  <1>1. rev \in Nat /\ removed \in [Keys -> Nat] BY Zenon DEF WatchInv, WatchTypeOK, StoreTypeOK
  <1>2. lastRev' = rev /\ rev' = rev /\ writeMuFree' BY Zenon DEF Crash, writeMuFree
  <1>3. StoreInv' BY Zenon, PublishCrashInv DEF WatchInv
  <1>4. Counted' BY Zenon, <1>2 DEF WatchInv, Counted
  <1>5. ASSUME NEW w \in Watchers
        PROVE  sub'[w] \in Subscription /\ Ordered(sub'[w], lastRev') /\ Telling(sub[w])'
    <2>1. sub'[w] \in {NoSubscription, [NoSubscription EXCEPT !.stage = "over"]} OBVIOUS
    <2>2. sub'[w] \in Subscription /\ Ordered(sub'[w], lastRev') BY Zenon, <1>1, <1>2, <2>1, NoSubscriptionFacts
    <2>3. sub'[w].stage \in {"idle", "over"} BY Zenon, <2>1 DEF NoSubscription
    <2>4. Telling(sub[w])' BY Zenon, <2>3 DEF Telling
    <2> QED BY Zenon, <2>2, <2>4
  <1>6. sub' \in [Watchers -> Subscription] BY Zenon, <1>5
  <1>7. WatchTypeOK' BY Zenon, <1>1, <1>3, <1>6 DEF WatchTypeOK, StoreInv
  <1> QED BY Zenon, <1>3, <1>4, <1>5, <1>7 DEF WatchInv

\* A step of a request that writes nothing.
LEMMA RestInv ==
  ASSUME WatchInv, StoreInv', UNCHANGED <<rec, rev, lastRev, pending, sub, removed>>
  PROVE  WatchInv'
  <1>1. WatchTypeOK' BY Zenon DEF WatchInv, WatchTypeOK, StoreInv
  <1>2. Counted' BY Zenon DEF WatchInv, Counted, writeMuFree
  <1>3. \A w \in Watchers : (Ordered(sub[w], lastRev) /\ Telling(sub[w]))'
    BY DEF WatchInv, Telling, Ordered, Coming
  <1> QED BY Zenon, <1>1, <1>2, <1>3 DEF WatchInv

\* Every step of the store beside its watchers is a step of the store, or leaves it be.
LEMMA WatchStepStores ==
  ASSUME WatchNext PROVE StoreNext \/ UNCHANGED storeVars
  BY Zenon DEF WatchNext, Deletes, StoreNext, Write, Register, Snapshot, SnapshotFails, Replay, Forward, Cancel

\* Every step keeps the invariant.
LEMMA NextWatchInv == WatchInv /\ [WatchNext]_vars => WatchInv'
  <1> SUFFICES ASSUME WatchInv, [WatchNext]_vars PROVE WatchInv'
    OBVIOUS
  <1>1. StoreInv'
    <2>1. StoreNext \/ UNCHANGED storeVars BY Zenon, WatchStepStores DEF vars
    <2> QED BY Zenon, <2>1, NextStoreInv DEF WatchInv
  <1>2. /\ rec \in [Keys -> Record] /\ removed \in [Keys -> Nat] /\ rev \in Nat
        /\ client \in [Clients -> Client]
    BY Zenon DEF WatchInv, WatchTypeOK, StoreTypeOK
  <1>3. CASE UNCHANGED vars BY Zenon, <1>1, <1>3, RestInv DEF vars, storeVars
  <1>4. ASSUME Deletes, UNCHANGED sub,
               removed' = [k \in Keys |-> IF rec[k].rev # 0 /\ rec'[k].rev = 0 THEN rev' ELSE removed[k]]
        PROVE  WatchInv'
    <2>1. \E k0 \in Keys : /\ bumpRev(k0)
                           /\ \A k \in Keys : rec'[k] = rec[k] \/ rec'[k].rev = 0
      BY <1>2, <1>4, KeysAssumption DEF Deletes, DeleteRecord, DeleteCluster, NoRecord, Keys
    <2>2. rev' = rev + 1 BY Zenon, <2>1 DEF bumpRev
    <2>3. /\ removed' \in [Keys -> Nat]
          /\ \A k \in Keys : removed'[k] = removed[k] \/ removed'[k] = rev + 1
      BY <1>2, <1>4, <2>2
    <2> QED BY Zenon, <1>1, <1>4, <2>1, <2>3, CommitInv
  <1>5. ASSUME NEW c \in Clients, putCAS(c), UNCHANGED <<sub, removed>> PROVE WatchInv'
    <2> DEFINE k0 == client[c].key
    <2>1. k0 \in Keys BY Zenon, <1>2 DEF Client, Keys
    <2>2. bumpRev(k0) /\ rec' = [rec EXCEPT ![k0] = [rev |-> rev + 1, val |-> client[c].seen.val \cup {c}]]
      BY Zenon, <1>5 DEF putCAS
    <2>3. \A k \in Keys : rec'[k] = rec[k] \/ rec'[k].rev = 0 \/ (k = k0 /\ rec'[k].rev = rev + 1)
      BY Zenon, <1>2, <2>2
    <2> QED BY Zenon, <1>1, <1>2, <1>5, <2>1, <2>2, <2>3, CommitInv
  <1>6. ASSUME NEW k0 \in RolloutKeys, putLWW(k0), UNCHANGED <<sub, removed>> PROVE WatchInv'
    <2>1. k0 \in Keys BY Zenon DEF Keys
    <2>2. \A k \in Keys : rec'[k] = rec[k] \/ rec'[k].rev = 0 \/ (k = k0 /\ rec'[k].rev = rev + 1)
      BY Zenon, <1>2, <1>6 DEF putLWW
    <2> QED BY Zenon, <1>1, <1>2, <1>6, <2>1, <2>2, CommitInv DEF putLWW
  <1>7. ASSUME NEW c \in Clients, Serve(c), UNCHANGED <<sub, removed>> PROVE WatchInv'
    <2>1. UNCHANGED <<rec, rev, lastRev, pending>> BY Zenon, <1>7 DEF Serve, Request, Get, Conflict
    <2> QED BY Zenon, <1>1, <1>7, <2>1, RestInv
  <1>8. CASE Publish /\ publish(pending) /\ UNCHANGED removed BY Zenon, <1>8, PublishInv
  <1>9. CASE /\ Crash /\ UNCHANGED removed
             /\ sub' = [w \in Watchers |-> IF sub[w].stage = "idle" THEN NoSubscription
                                           ELSE [NoSubscription EXCEPT !.stage = "over"]]
    BY Zenon, <1>9, CrashInv
  <1>10. ASSUME NEW w \in Watchers,
                \/ \E since \in 0..lastRev : Register(w, since)
                \/ Snapshot(w) \/ SnapshotFails(w)
                \/ \E ev \in sub[w].snap : Replay(w, ev)
                \/ Forward(w)
                \/ Cancel(w)
         PROVE  WatchInv'
    BY Zenon, <1>10, RegisterInv, SnapshotInv, SnapshotFailsInv, ReplayInv, ForwardInv, CancelInv
  <1> QED BY Zenon, <1>3, <1>4, <1>5, <1>6, <1>7, <1>8, <1>9, <1>10 DEF WatchNext

\* The invariant holds throughout every behaviour of the store and its watchers.
LEMMA WatchInvariant == WatchSpec => []WatchInv
  BY InitWatchInv, NextWatchInv, PTL DEF WatchSpec

-----------------------------------------------------------------------------
(* Theorems.                                                               *)

\* The store with its watchers implements the store alone: registering, replaying,
\* forwarding and cancelling (watch.go) change none of its records, revisions or
\* requests, so what is proved of the store holds beside any watchers.
THEOREM WatchersOnlyWatch == WatchSpec => Spec
  <1>1. WatchInit => Init BY Zenon DEF WatchInit
  <1>2. [WatchNext]_vars => [StoreNext]_storeVars
    BY Zenon, WatchStepStores DEF vars
  <1> QED BY <1>1, <1>2, PTL DEF WatchSpec, Spec

\* A stream of Watch (watch.go) sends events in the order of their revisions, none twice,
\* in the snapshot, in the live part and across the switch between them.
THEOREM StreamInOrder == WatchSpec => []StreamOrdered
  <1>1. WatchInv => StreamOrdered BY Zenon DEF WatchInv, Ordered, Increasing, StreamOrdered
  <1> QED BY <1>1, WatchInvariant, PTL

\* Nothing falls between the snapshot and the live events of Watch: a subscriber that has
\* caught up and dropped no event was sent the current revision of every record written
\* after its cursor.
THEOREM StreamWithoutGap == WatchSpec => []NoGap
  <1>1. ASSUME WatchInv PROVE NoGap
    <2> SUFFICES ASSUME NEW w \in Watchers, CaughtUp(w), ~sub[w].dropped,
                        NEW k \in SnapshotKeys, rec[k].rev > sub[w].from
                 PROVE  Told(w, k, rec[k].rev)
      BY Zenon DEF NoGap
    <2>1. sub[w] \in Subscription /\ rec[k].rev \in Nat /\ sub[w].from \in Nat
      BY Zenon, <1>1, Fields DEF WatchInv, WatchTypeOK, StoreTypeOK, Record, SnapshotKeys
    <2>2. Coming(sub[w]) = Range(sub[w].got) BY DEF CaughtUp, Coming, Range
    <2>3. [key |-> k, rev |-> rec[k].rev] \in Coming(sub[w]) \cup {pending}
      BY Zenon, <1>1 DEF WatchInv, Telling, CaughtUp
    <2>4. [key |-> k, rev |-> rec[k].rev] # pending BY <2>1 DEF CaughtUp, writeMuFree, NoEvent
    <2> QED BY Zenon, <2>2, <2>3, <2>4 DEF Range, Told
  <1> QED BY <1>1, WatchInvariant, PTL

\* A subscriber that has caught up and dropped no event was sent an event of every
\* deletion (DeleteHost, DeleteMachine, DeleteCluster) that came after its registration.
THEOREM DeletionsStreamed == WatchSpec => []DeletionsTold
  <1>1. ASSUME WatchInv PROVE DeletionsTold
    <2> SUFFICES ASSUME NEW w \in Watchers, CaughtUp(w), ~sub[w].dropped,
                        NEW k \in Keys, removed[k] > sub[w].snapshotRev
                 PROVE  \E i \in DOMAIN sub[w].got : sub[w].got[i].rev = removed[k]
      BY Zenon DEF DeletionsTold
    <2>1. sub[w] \in Subscription /\ removed[k] \in Nat /\ sub[w].snapshotRev \in Nat
      BY Zenon, <1>1, Fields DEF WatchInv, WatchTypeOK
    <2>2. Coming(sub[w]) = Range(sub[w].got) BY DEF CaughtUp, Coming, Range
    <2>3. PICK e \in Coming(sub[w]) \cup {pending} : e.rev = removed[k]
      BY Zenon, <1>1 DEF WatchInv, Telling, CaughtUp
    <2>4. e # pending BY <2>1, <2>3 DEF CaughtUp, writeMuFree, NoEvent
    <2> QED BY Zenon, <2>2, <2>3, <2>4 DEF Range
  <1> QED BY <1>1, WatchInvariant, PTL
============================================================================
