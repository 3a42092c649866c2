------------------------------- MODULE Watch -------------------------------
(***************************************************************************)
(* Watch (internal/store/watch.go): subscribers of the store's events.  A  *)
(* subscriber is registered under writeMu, then its goroutine reads the    *)
(* snapshot without the lock and sends it, then forwards the events of its *)
(* buffer.                                                                 *)
(***************************************************************************)
EXTENDS Store, Sequences

CONSTANTS
    Watchers,       \* subscriptions, each made once
    BootstrapKeys,  \* the rollout records of the bootstrap bucket
    SubBuffer       \* subBuffer: events a subscriber's buffer holds

ASSUME WatchAssumption == BootstrapKeys \subseteq RolloutKeys /\ SubBuffer \in Nat \ {0}

VARIABLES
    sub,     \* the subscriptions
    removed  \* history: each key's last deletion, 0 if none

vars == <<storeVars, sub, removed>>

\* "in" is the buffer publish fills; "snap" is what is left to send of the snapshot;
\* "got" is what the stream has sent.  "from" is a history: the revision the stream starts
\* from, which is the cursor, or that of the registration when the snapshot failed.
Subscription == [stage : {"idle", "registered", "live", "over"}, since : Nat,
                 from : Nat, snapshotRev : Nat, in : Seq(Event), snap : SUBSET Event, got : Seq(Event),
                 dropped : BOOLEAN]

NoSubscription == [stage |-> "idle", since |-> 0, from |-> 0, snapshotRev |-> 0, in |-> <<>>,
                   snap |-> {}, got |-> <<>>, dropped |-> FALSE]

WatchInit ==
    /\ Init
    /\ sub = [w \in Watchers |-> NoSubscription]
    /\ removed = [k \in Keys |-> 0]

Subscribed(w) == sub[w].stage \in {"registered", "live"}

\* publish: into every subscriber's buffer, dropping on a full one.
publish(ev) ==
    sub' = [w \in Watchers |->
              CASE ~Subscribed(w) -> sub[w]
                [] Subscribed(w) /\ Len(sub[w].in) < SubBuffer ->
                     [sub[w] EXCEPT !.in = Append(@, ev)]
                [] OTHER -> [sub[w] EXCEPT !.dropped = TRUE]]

\* Watch registers the subscriber under writeMu.
Register(w, since) ==
    /\ sub[w].stage = "idle"
    /\ writeMuFree
    /\ sub' = [sub EXCEPT ![w].stage = "registered", ![w].since = since, ![w].from = since,
                          ![w].snapshotRev = lastRev]
    /\ UNCHANGED <<storeVars, removed>>

\* The buckets snapshotEvents walks: all but the bootstrap one.
SnapshotKeys == Keys \ BootstrapKeys

\* Mutant: the snapshot is not cut off at the revision of the registration.
snapshotEventsMutant(since, upto) ==
    {[key |-> k, rev |-> rec[k].rev] : k \in {j \in SnapshotKeys : rec[j].rev > since}}

\* Mutant: the upper end of the interval is left out.
snapshotEventsShortMutant(since, upto) ==
    {[key |-> k, rev |-> rec[k].rev] :
        k \in {j \in SnapshotKeys : rec[j].rev > since /\ rec[j].rev < upto}}

\* snapshotEvents: the records whose revision is in (since, upto].
snapshotEvents(since, upto) ==
    {[key |-> k, rev |-> rec[k].rev] :
        k \in {j \in SnapshotKeys : rec[j].rev > since /\ rec[j].rev <= upto}}

\* The goroutine reads the snapshot, in one transaction.
Snapshot(w) ==
    /\ sub[w].stage = "registered"
    /\ sub' = [sub EXCEPT ![w].stage = "live",
                          ![w].snap = snapshotEvents(sub[w].since, sub[w].snapshotRev)]
    /\ UNCHANGED <<storeVars, removed>>

\* The transaction fails, on a record that cannot be decoded: the goroutine goes on
\* without a snapshot and without a word.
SnapshotFails(w) ==
    /\ sub[w].stage = "registered"
    /\ sub' = [sub EXCEPT ![w].stage = "live", ![w].from = sub[w].snapshotRev]
    /\ UNCHANGED <<storeVars, removed>>

\* It sends the events of the snapshot in the order of their revisions.
Replay(w, ev) ==
    /\ sub[w].stage = "live"
    /\ ev \in sub[w].snap /\ \A f \in sub[w].snap : ev.rev <= f.rev
    /\ sub' = [sub EXCEPT ![w].snap = @ \ {ev}, ![w].got = Append(@, ev)]
    /\ UNCHANGED <<storeVars, removed>>

\* Mutant: an event is dropped when its record is no longer there.
ForwardMutant(w) ==
    /\ sub[w].stage = "live" /\ sub[w].snap = {}
    /\ sub[w].in # <<>>
    /\ LET ev == Head(sub[w].in)
       IN  sub' = [sub EXCEPT ![w].in = Tail(@),
                              ![w].got = IF ev.rev <= sub[w].snapshotRev \/ rec[ev.key].rev = 0
                                         THEN @ ELSE Append(@, ev)]
    /\ UNCHANGED <<storeVars, removed>>

\* The goroutine takes the next event of the buffer, forwards it if it is new.
Forward(w) ==
    /\ sub[w].stage = "live" /\ sub[w].snap = {}
    /\ sub[w].in # <<>>
    /\ LET ev == Head(sub[w].in)
       IN  sub' = [sub EXCEPT ![w].in = Tail(@),
                              ![w].got = IF ev.rev <= sub[w].snapshotRev THEN @
                                         ELSE Append(@, ev)]
    /\ UNCHANGED <<storeVars, removed>>

\* The stream's context is done: the subscriber is removed.
Cancel(w) ==
    /\ Subscribed(w)
    /\ sub' = [sub EXCEPT ![w] = [NoSubscription EXCEPT !.stage = "over"]]
    /\ UNCHANGED <<storeVars, removed>>

Deletes == (\E k \in DeletableKeys : DeleteRecord(k)) \/ DeleteCluster

WatchNext ==
    \/ Deletes /\ UNCHANGED sub
       /\ removed' = [k \in Keys |-> IF rec[k].rev # 0 /\ rec'[k].rev = 0 THEN rev'
                                     ELSE removed[k]]
    \/ ((\E c \in Clients : putCAS(c) \/ Serve(c)) \/ (\E k \in RolloutKeys : putLWW(k)))
       /\ UNCHANGED <<sub, removed>>
    \/ Publish /\ publish(pending) /\ UNCHANGED removed
    \/ Crash /\ UNCHANGED removed
       /\ sub' = [w \in Watchers |-> IF sub[w].stage = "idle" THEN NoSubscription
                                     ELSE [NoSubscription EXCEPT !.stage = "over"]]
    \/ \E w \in Watchers : \/ \E since \in 0..lastRev : Register(w, since)
                           \/ Snapshot(w) \/ SnapshotFails(w)
                           \/ \E ev \in sub[w].snap : Replay(w, ev)
                           \/ Forward(w)
                           \/ Cancel(w)

WatchSpec == WatchInit /\ [][WatchNext]_vars

-----------------------------------------------------------------------------
(* Properties.                                                             *)

\* The type of the subscriptions.
WatchTypeOK ==
    /\ StoreTypeOK
    /\ sub \in [Watchers -> Subscription]
    /\ removed \in [Keys -> Nat]

\* A stream's revisions go up: no event comes twice or out of order, in the
\* snapshot, in the live part and across the switch between them.
StreamOrdered ==
    \A w \in Watchers : \A i, j \in DOMAIN sub[w].got :
        i < j => sub[w].got[i].rev < sub[w].got[j].rev

\* A subscriber has caught up: live, nothing left of the snapshot or in its buffer, no
\* write on its way to it.
CaughtUp(w) == sub[w].stage = "live" /\ sub[w].snap = {} /\ sub[w].in = <<>> /\ writeMuFree

Told(w, k, r) == \E i \in DOMAIN sub[w].got : sub[w].got[i] = [key |-> k, rev |-> r]

\* A subscriber that has caught up, and lost no event to a full buffer, was told
\* of the current revision of every record written after its cursor: nothing
\* falls between the snapshot and the live events.  One whose snapshot failed was told
\* of what was written after its registration.
NoGap ==
    \A w \in Watchers : CaughtUp(w) /\ ~sub[w].dropped =>
        \A k \in SnapshotKeys : rec[k].rev > sub[w].from => Told(w, k, rec[k].rev)

\* A subscriber that has caught up, and lost no event to a full buffer, was told
\* of every deletion that came after its registration, though the record is gone
\* from the buckets and the snapshot cannot name it.
DeletionsTold ==
    \A w \in Watchers : CaughtUp(w) /\ ~sub[w].dropped =>
        \A k \in Keys : removed[k] > sub[w].snapshotRev =>
            \E i \in DOMAIN sub[w].got : sub[w].got[i].rev = removed[k]
============================================================================
