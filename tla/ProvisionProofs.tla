--------------------------- MODULE ProvisionProofs ---------------------------
(***************************************************************************)
(* The promises of the provisioning plane, for any number of hosts, API    *)
(* requests, timeouts and faults, in a cluster with one pool.              *)
(*                                                                         *)
(* A pass decides on copies it made at its start, and the API changes the  *)
(* records meanwhile.  The invariant says what the copies are still good   *)
(* for: a record the pass has not written is as it was copied, or has been *)
(* deregistered, and then it is blank (CopiesHold).                        *)
(***************************************************************************)
EXTENDS Provision, FiniteSetTheorems, TLAPS

OnePool == \A p, q \in Pools : p = q

Binding == {"bindMachine", "bindMember"}
Releasing == {"drain", "unstage", "deleteMachine", "removeMember", "release"}
Staging == {"stage", "start"}

\* The record is as the pass copied it; or it was not there, or has been deregistered,
\* since, and at most registered anew.
Same(h) == host[h].state = ps.hosts[h].state /\ host[h].addr = ps.hosts[h].addr
Renewed(h) ==
    /\ host[h].state \in {"none", "REGISTERED"}
    /\ \/ ps.hosts[h].state = "none"
       \/ h \in given.deregistered /\ ps.hosts[h].addr \in given.deregistered \cup {0}

\* The pass has written only records it found PROVISIONING, as it went over them.
CopiesHold ==
    \A h \in Hosts : ps.hosts[h].state # "PROVISIONING" \/ h \in ps.todo \ {ps.cur}
                        => Same(h) \/ Renewed(h)

\* What the counts of the loop stand for, as long as no host is hidden.
LoopCounts ==
    ~given.hidden => \A h \in Hosts :
        /\ host[h].state = "PROVISIONING" => h \in ps.todo \/ ps.inflight
        /\ host[h].state = "FAILED" => h \in ps.todo \/ ps.failed
        /\ host[h].state = "READY" => h = ps.cur \/ host[h].addr \in ps.claimed

\* The host being bound has the address of its node, or was deregistered.
BindingHost ==
    /\ ps.cur \in Hosts /\ ps.addr \in Hosts
    /\ \/ host[ps.cur].state = "READY" /\ host[ps.cur].addr = ps.addr
       \/ host[ps.cur].state \in {"none", "REGISTERED"} /\ ps.addr \in given.deregistered

\* No host is in flight or failed, as the loop has found.
NoneHeld == ~given.hidden => \A h \in Hosts : host[h].state \notin {"PROVISIONING", "FAILED"}

PassInv ==
    ps.pc # "idle" =>
        /\ ps.pool \in Pools
        /\ CopiesHold
        /\ ps.pc = "hosts" => ps.cur = 0
        /\ ps.pc \in {"hosts"} \cup Binding => LoopCounts
        /\ ps.pc \in Binding => BindingHost
        /\ ps.pc \in Releasing \cup Staging => NoneHeld /\ ps.cur \in Hosts /\ ps.todo = {}
        /\ ps.pc \in Releasing => ps.hosts[ps.cur].state = "READY" /\ ps.addr = ps.hosts[ps.cur].addr
        /\ ps.pc \in Staging => ps.hosts[ps.cur].state = "REGISTERED"
        /\ ps.pc = "start" => ps.cur \in staged
        /\ ps.pc = "release" => ps.addr \notin pool[ps.pool].members

\* No host is in flight, failed or half bound outside the pool unless the history says so.
Seen == ~given.hidden => Hidden = {}

HostInv ==
    /\ \A h \in Hosts : host[h].addr # 0 <=> host[h].state = "READY"
    /\ Seen
    /\ ~given.hidden =>
         /\ \A g, h \in Hosts : host[g].state = "READY" /\ host[h].state = "READY"
                                   /\ host[g].addr = host[h].addr => g = h
         /\ \A g, h \in Hosts : host[g].state = "PROVISIONING" /\ host[h].state = "PROVISIONING" => g = h
    /\ \A h \in Hosts : host[h].state = "PROVISIONING" => h \in staged
    /\ MemberIsReady

\* A node, and a READY host's address, is that of a READY host; or the host is staged.
Known(a) == a \in staged \/ host[a].state = "READY"
BoundToReady == \A h \in Hosts : host[h].state = "READY" => host[host[h].addr].state = "READY"

\* As long as one host at a time is awaited and none is hidden, a node that nobody claims
\* is the awaited one.  A hidden host may lose its node to another, but both are READY.
AwaitedInv ==
    OneAtATime =>
        /\ BoundToReady
        /\ \A g, h \in Awaited : g = h
        /\ \A a \in Hosts : node[a].joined => Known(a)
        /\ ps.pc \in {"hosts"} \cup Binding => \A a \in ps.up : Known(a)
        /\ ~given.hidden =>
             /\ BoundToOwn
             /\ ps.pc = "hosts" => newJoinedNodes \subseteq Awaited
             /\ ps.pc \in Binding => newJoinedNodes \subseteq Awaited \cup {ps.addr}

\* The node being released stays cordoned until it has left the members.
DrainedInv ==
    ps.pc \in {"unstage", "deleteMachine", "removeMember"} =>
        \A p \in Pools : ps.addr \in ps.listed /\ ps.addr \in pool[p].members
                            => node[ps.addr].joined /\ node[ps.addr].cordoned

ProvisionInv == ProvisionTypeOK /\ PassInv /\ HostInv /\ AwaitedInv

-----------------------------------------------------------------------------
(* Facts.                                                                  *)

\* Two members of a finite set with at most one are the same.
LEMMA AtMostOne ==
  ASSUME NEW S, IsFiniteSet(S)
  PROVE  Cardinality(S) \in Nat /\ (Cardinality(S) <= 1 <=> \A g, h \in S : g = h)
  <1>1. Cardinality(S) \in Nat BY Zenon, FS_CardinalityType
  <1>2. ASSUME Cardinality(S) <= 1, NEW g \in S, NEW h \in S PROVE g = h
    <2>1. CASE Cardinality(S) = 0 BY Zenon, <2>1, FS_EmptySet
    <2>2. CASE Cardinality(S) = 1 BY <2>2, FS_Singleton
    <2> QED BY <1>1, <1>2, <2>1, <2>2
  <1>3. ASSUME \A g, h \in S : g = h PROVE Cardinality(S) <= 1
    <2>1. CASE S = {} BY <2>1, FS_EmptySet
    <2>2. CASE S # {}
      <3>1. PICK g \in S : TRUE BY Zenon, <2>2
      <3>2. S = {g} BY Zenon, <1>3, <3>1
      <3>3. Cardinality({g}) = 1 BY Zenon, FS_Singleton
      <3> QED BY <3>2, <3>3
    <2> QED BY Zenon, <2>1, <2>2
  <1> QED BY Zenon, <1>1, <1>2, <1>3

\* The fields of a pass.
LEMMA PassFields ==
  ASSUME NEW q \in Pass
  PROVE  /\ q.pc \in PCs /\ q.pool \in Pools \cup {0} /\ q.hosts \in [Hosts -> Host]
         /\ q.listed \in SUBSET Hosts /\ q.up \in SUBSET Hosts /\ q.claimed \in SUBSET Hosts
         /\ q.todo \in SUBSET Hosts /\ q.ready \in Nat /\ q.inflight \in BOOLEAN /\ q.failed \in BOOLEAN
         /\ q.cur \in Hosts \cup {0} /\ q.addr \in Hosts \cup {0} /\ q.replicas \in 0..MaxReplicas
  BY Zenon DEF Pass

\* The fields of a host's record.
LEMMA HostFields ==
  ASSUME NEW r \in Host
  PROVE  /\ r.state \in HostStates /\ r.pool \in Pools \cup {0} /\ r.addr \in Hosts \cup {0}
         /\ r.started \in BOOLEAN
  BY Zenon DEF Host

\* The fields of the state between two passes.
LEMMA NoPassFields ==
  /\ NoPass \in Pass /\ NoPass.pc = "idle"
  /\ NoHost \in Host /\ NoHost.state = "none" /\ NoHost.addr = 0 /\ NoHost.pool = 0
  /\ 0 \notin Hosts /\ 0 \notin Pools
  <1>1. NoHost \in Host /\ NoHost.state = "none" /\ NoHost.addr = 0 /\ NoHost.pool = 0
    BY Zenon DEF NoHost, Host, HostStates
  <1>2. NoPass \in Pass /\ NoPass.pc = "idle"
    BY <1>1, ReplicasAssumption DEF NoPass, Pass, PCs
  <1> QED BY Zenon, <1>1, <1>2, HostsAssumption, ProvisionPoolsAssumption

\* The history of hidden hosts after a step.
StillSeen == ~given'.hidden => ~given.hidden /\ Hidden' = {}

\* What the history records in a step: nothing is taken from it; a host whose record goes
\* is in it with its address, a host handed back too; two hosts awaited at once, and a
\* hidden one.
LEMMA GiveFacts ==
  ASSUME ProvisionTypeOK, host' \in [Hosts -> Host], staged' \subseteq Hosts, Give
  PROVE  /\ given' \in [deregistered : SUBSET Hosts, released : SUBSET Hosts, overlap : BOOLEAN, hidden : BOOLEAN]
         /\ given.deregistered \subseteq given'.deregistered
         /\ given.released \subseteq given'.released
         /\ \A h \in Hosts : host[h].state # "none" /\ host'[h].state = "none" =>
               h \in given'.deregistered /\ host[h].addr \in given'.deregistered \cup {0}
         /\ \A h \in Hosts : host[h].state = "READY" /\ host'[h].state = "REGISTERED" => h \in given'.released
         /\ OneAtATime' => OneAtATime /\ \A g, h \in Awaited' : g = h
         /\ StillSeen
  <1> DEFINE gone == {h \in Hosts : host[h].state # "none" /\ host'[h].state = "none"}
             back == {h \in Hosts : host[h].state = "READY" /\ host'[h].state = "REGISTERED"}
             D == given.deregistered \cup gone \cup ({host[h].addr : h \in gone} \ {0})
             R == given.released \cup back
  <1>1. /\ given \in [deregistered : SUBSET Hosts, released : SUBSET Hosts, overlap : BOOLEAN, hidden : BOOLEAN]
        /\ host \in [Hosts -> Host]
    BY Zenon DEF ProvisionTypeOK
  <1>2. given' = [deregistered |-> D, released |-> R, overlap |-> given.overlap \/ Cardinality(Awaited') > 1,
                  hidden |-> given.hidden \/ Hidden' # {}]
    BY Zenon DEF Give
  <1>3. \A h \in Hosts : host[h].addr \in Hosts \cup {0} BY Zenon, <1>1, HostFields
  <1>4. D \in SUBSET Hosts /\ R \in SUBSET Hosts BY <1>1, <1>3
  <1>5. /\ given'.deregistered = D /\ given'.released = R
        /\ given'.overlap = (given.overlap \/ Cardinality(Awaited') > 1)
        /\ given'.hidden = (given.hidden \/ Hidden' # {})
    BY Zenon, <1>2
  <1>6. given' \in [deregistered : SUBSET Hosts, released : SUBSET Hosts, overlap : BOOLEAN, hidden : BOOLEAN]
    BY Zenon, <1>1, <1>2, <1>4
  <1>7. OneAtATime' => OneAtATime /\ \A g, h \in Awaited' : g = h
    <2>1. IsFiniteSet(Awaited')
      <3>1. Awaited' \subseteq Hosts BY Zenon DEF Awaited
      <3> QED BY Zenon, <3>1, HostsAssumption, FS_Subset
    <2>2. Cardinality(Awaited') \in Nat /\ (Cardinality(Awaited') <= 1 <=> \A g, h \in Awaited' : g = h)
      BY Zenon, <2>1, AtMostOne
    <2>3. ASSUME OneAtATime' PROVE OneAtATime /\ ~(Cardinality(Awaited') > 1)
      <3>1. ~given'.overlap /\ given'.deregistered = {} /\ given'.released = {} BY Zenon, <2>3 DEF OneAtATime
      <3>2. ~given.overlap /\ ~(Cardinality(Awaited') > 1) BY <1>5, <3>1, Zenon
      <3>3. given.deregistered = {} /\ given.released = {} BY Zenon, <1>5, <3>1
      <3> QED BY Zenon, <3>2, <3>3 DEF OneAtATime
    <2> QED BY <2>2, <2>3
  <1>8. StillSeen BY Zenon, <1>5 DEF StillSeen
  <1> QED BY Zenon, <1>5, <1>6, <1>7, <1>8

\* A step after which the same hosts are hidden.
LEMMA StillHidden ==
  ASSUME HostInv, UNCHANGED <<host, machines, given>>
  PROVE  StillSeen
  <1>1. Hidden' = Hidden BY Zenon DEF Hidden
  <1> QED BY Zenon, <1>1 DEF HostInv, Seen, StillSeen

\* A step that leaves the hosts alone gives none away.
LEMMA NothingGiven ==
  ASSUME ProvisionTypeOK, host' = host, Give
  PROVE  given'.deregistered = given.deregistered /\ given'.released = given.released
  BY Zenon DEF Give

-----------------------------------------------------------------------------
(* The steps.                                                              *)

\* The first state: hosts are registered at most, and nothing runs.
LEMMA InitProvisionInv == Init => ProvisionInv
  <1> SUFFICES ASSUME Init PROVE ProvisionInv
    OBVIOUS
  <1>1. PICK registered \in InitHosts :
          host = [h \in Hosts |-> IF registered[h] = 0 THEN NoHost
                                  ELSE [NoHost EXCEPT !.state = "REGISTERED", !.pool = registered[h]]]
    BY Zenon DEF Init
  <1>2. registered \in [Hosts -> Pools \cup {0}] BY Zenon, InitHostsAssumption
  <1>3. ASSUME NEW h \in Hosts
        PROVE  /\ host[h] \in Host /\ host[h].state \in {"none", "REGISTERED"} /\ host[h].addr = 0
    <2>1. CASE registered[h] = 0 BY <1>1, <2>1, NoPassFields, Zenon
    <2>2. CASE registered[h] # 0
      <3>1. host[h] = [NoHost EXCEPT !.state = "REGISTERED", !.pool = registered[h]] BY <1>1, <2>2, Zenon
      <3>2. registered[h] \in Pools BY Zenon, <1>2, <2>2
      <3> QED BY <3>1, <3>2, Zenon DEF NoHost, Host, HostStates
    <2> QED BY Zenon, <2>1, <2>2
  <1>4. host \in [Hosts -> Host] BY <1>1, <1>3, Zenon
  <1>5. /\ ps = NoPass /\ NoPass \in Pass /\ NoPass.pc = "idle" BY NoPassFields, Zenon DEF Init
  <1>6. /\ machines = {} /\ staged = {} /\ edits = 0 /\ timeouts = 0 /\ faults = 0 /\ enabled = TRUE
        /\ given = [deregistered |-> {}, released |-> {}, overlap |-> FALSE, hidden |-> FALSE]
        /\ node = [a \in Hosts |-> [joined |-> FALSE, ready |-> FALSE, cordoned |-> FALSE]]
        /\ pool = [p \in Pools |-> [replicas |-> InitReplicas[p], members |-> {}]]
    BY Zenon DEF Init
  <1>7. ProvisionTypeOK
    <2>1. pool \in [Pools -> [replicas : 0..MaxReplicas, members : SUBSET Hosts]]
      BY Zenon, <1>6, ReplicasAssumption
    <2>2. node \in [Hosts -> Node] BY Zenon, <1>6 DEF Node
    <2>3. given \in [deregistered : SUBSET Hosts, released : SUBSET Hosts, overlap : BOOLEAN, hidden : BOOLEAN] BY Zenon, <1>6
    <2>4. edits \in 0..MaxEdits /\ timeouts \in 0..MaxTimeouts /\ faults \in 0..MaxFaults
      BY <1>6, ProvisionBoundsAssumption
    <2> QED BY Zenon, <1>4, <1>5, <1>6, <2>1, <2>2, <2>3, <2>4 DEF ProvisionTypeOK
  <1>8. PassInv BY Zenon, <1>5 DEF PassInv
  <1>9. HostInv
    <2>1. Hidden = {} BY Zenon, <1>3 DEF Hidden
    <2> QED BY Zenon, <1>3, <1>6, <2>1 DEF HostInv, Seen, MemberIsReady
  <1>10. AwaitedInv BY Zenon, <1>3, <1>5, <1>6 DEF AwaitedInv, BoundToReady, BoundToOwn, Awaited, Binding
  <1> QED BY Zenon, <1>7, <1>8, <1>9, <1>10 DEF ProvisionInv

\* A request of the API changes one record: the pool it belongs to, or whether it exists.
LEMMA HostEdit ==
  ASSUME ProvisionInv, ProvisionTypeOK', NEW h \in Hosts, NEW r \in Host,
         host' = [host EXCEPT ![h] = r], Give,
         UNCHANGED <<staged, node, ps>>, \A p \in Pools : pool'[p].members = pool[p].members,
         \/ r.state = host[h].state /\ r.addr = host[h].addr
         \/ r.state = "none" /\ r.addr = 0
         \/ host[h].state = "none" /\ r.state = "REGISTERED" /\ r.addr = 0
  PROVE  ProvisionInv'
  <1>1. /\ host \in [Hosts -> Host] /\ host' \in [Hosts -> Host] /\ staged' \subseteq Hosts /\ ps \in Pass
        /\ ProvisionTypeOK
    BY Zenon DEF ProvisionInv, ProvisionTypeOK
  <1>2. /\ host'[h] = r /\ \A g \in Hosts \ {h} : host'[g] = host[g]
    BY Zenon, <1>1
  <1>3. /\ given.deregistered \subseteq given'.deregistered
        /\ \A g \in Hosts : host[g].state # "none" /\ host'[g].state = "none" =>
              g \in given'.deregistered /\ host[g].addr \in given'.deregistered \cup {0}
        /\ OneAtATime' => OneAtATime /\ \A f, g \in Awaited' : f = g
        /\ StillSeen
    BY Zenon, <1>1, GiveFacts
  <1>4. HostInv /\ PassInv /\ AwaitedInv BY Zenon DEF ProvisionInv
  <1>5. \A g \in Hosts : host[g].addr # 0 <=> host[g].state = "READY" BY Zenon, <1>4 DEF HostInv
  <1>6. HostInv'
    <2>1. MemberIsReady'
      <3> SUFFICES ASSUME NEW p \in Pools, NEW a \in pool[p].members, a \notin given'.deregistered
                   PROVE  \E g \in Hosts : host'[g].state = "READY" /\ host'[g].addr = a
        BY Zenon DEF MemberIsReady
      <3>1. PICK g \in Hosts : host[g].state = "READY" /\ host[g].addr = a
        BY Zenon, <1>3, <1>4 DEF HostInv, MemberIsReady
      <3>2. a # 0 BY Zenon, <1>5, <3>1
      <3>3. host'[g].state # "none" BY Zenon, <1>3, <3>1, <3>2
      <3>4. host'[g].state = host[g].state /\ host'[g].addr = host[g].addr
        BY Zenon, <1>2, <3>1, <3>3
      <3> QED BY Zenon, <3>1, <3>4
    <2>2. \A g \in Hosts : \/ host'[g].state = host[g].state /\ host'[g].addr = host[g].addr
                           \/ host'[g].state \in {"none", "REGISTERED"} /\ host'[g].addr = 0
      BY Zenon, <1>2
    <2>3. Seen' /\ (~given'.hidden => ~given.hidden) BY Zenon, <1>3 DEF StillSeen, Seen
    <2> QED BY <1>4, <2>1, <2>2, <2>3 DEF HostInv
  <1>7. ASSUME ps.pc # "idle" PROVE PassInv'
    <2>1. CopiesHold'
      <3> SUFFICES ASSUME NEW g \in Hosts, ps.hosts[g].state # "PROVISIONING" \/ g \in ps.todo \ {ps.cur}
                   PROVE  Same(g)' \/ Renewed(g)'
        BY Zenon DEF CopiesHold
      <3>1. Same(g) \/ Renewed(g) BY Zenon, <1>4, <1>7 DEF PassInv, CopiesHold
      <3>2. CASE host'[g].state = host[g].state /\ host'[g].addr = host[g].addr
        BY Zenon, <1>3, <3>1, <3>2 DEF Same, Renewed
      <3>3. CASE host'[g].state = "none"
        BY Zenon, <1>3, <3>1, <3>3 DEF Same, Renewed
      <3>4. CASE host[g].state = "none" /\ host'[g].state = "REGISTERED"
        BY Zenon, <1>3, <3>1, <3>4 DEF Same, Renewed
      <3> QED BY Zenon, <1>2, <3>2, <3>3, <3>4
    <2>2. \A g \in Hosts : \/ host'[g].state = host[g].state /\ host'[g].addr = host[g].addr
                           \/ host'[g].state \in {"none", "REGISTERED"}
      BY Zenon, <1>2
    <2>3. LoopCounts => LoopCounts' BY Zenon, <1>3, <2>2 DEF LoopCounts, StillSeen
    <2>4. NoneHeld => NoneHeld' BY Zenon, <1>3, <2>2 DEF NoneHeld, StillSeen
    <2>5. BindingHost => BindingHost'
      <3> SUFFICES ASSUME BindingHost PROVE BindingHost'
        OBVIOUS
      <3>1. CASE host'[ps.cur].state = host[ps.cur].state /\ host'[ps.cur].addr = host[ps.cur].addr
        BY Zenon, <1>3, <3>1 DEF BindingHost
      <3>2. CASE host'[ps.cur].state = "none"
        <4>1. 0 \notin Hosts BY Zenon, NoPassFields
        <4> QED BY Zenon, <1>3, <3>2, <4>1 DEF BindingHost
      <3>3. CASE host[ps.cur].state = "none" /\ host'[ps.cur].state = "REGISTERED"
        BY Zenon, <1>3, <3>3 DEF BindingHost
      <3> QED BY Zenon, <1>2, <3>1, <3>2, <3>3 DEF BindingHost
    <2> QED BY Zenon, <1>4, <1>7, <2>1, <2>3, <2>4, <2>5 DEF PassInv
  <1>8. AwaitedInv'
    <2> SUFFICES ASSUME OneAtATime' PROVE AwaitedInv'
      BY Zenon DEF AwaitedInv
    <2>1. OneAtATime /\ given'.deregistered = {} BY Zenon, <1>3 DEF OneAtATime
    <2>2. \A g \in Hosts : \/ host'[g].state = host[g].state /\ host'[g].addr = host[g].addr
                           \/ host[g].state = "none" /\ host'[g].state = "REGISTERED" /\ host'[g].addr = 0
      BY Zenon, <1>2, <1>3, <1>5, <2>1
    <2>3. Awaited' = Awaited BY Zenon, <1>1, <2>2 DEF Awaited
    <2>4. AwaitedInv /\ (~given'.hidden => ~given.hidden) BY Zenon, <1>3, <1>4 DEF StillSeen
    <2>5. BoundToReady' BY <1>1, <2>1, <2>2, <2>4, HostFields DEF AwaitedInv, BoundToReady
    <2>6. ~given'.hidden => BoundToOwn' BY Zenon, <2>1, <2>2, <2>4 DEF AwaitedInv, BoundToOwn
    <2>7. \A a \in Hosts : Known(a) => Known(a)' BY Zenon, <2>2 DEF Known
    <2>8. ps.up \subseteq Hosts /\ newJoinedNodes' = newJoinedNodes BY Zenon, <1>1, PassFields DEF newJoinedNodes
    <2> QED BY Zenon, <2>1, <2>3, <2>4, <2>5, <2>6, <2>7, <2>8 DEF AwaitedInv
  <1>9. PassInv' BY Zenon, <1>7 DEF PassInv
  <1> QED BY Zenon, <1>6, <1>8, <1>9 DEF ProvisionInv

\* A step that changes neither hosts nor what is staged nor the pass, nor the members.
LEMMA RestStep ==
  ASSUME ProvisionInv, ProvisionTypeOK', UNCHANGED <<host, staged, ps>>,
         \A p \in Pools : pool'[p].members = pool[p].members,
         given'.deregistered = given.deregistered, OneAtATime' => OneAtATime, StillSeen,
         \A a \in Hosts : node'[a].joined => node[a].joined \/ a \in staged
  PROVE  ProvisionInv'
  <1>1. HostInv'
    <2>1. MemberIsReady' BY Zenon DEF ProvisionInv, HostInv, MemberIsReady
    <2> QED BY Zenon, <2>1 DEF ProvisionInv, HostInv, Seen, StillSeen
  <1>2. CopiesHold <=> CopiesHold' BY Zenon DEF CopiesHold, Same, Renewed
  <1>3. (LoopCounts => LoopCounts') /\ (BindingHost => BindingHost') /\ (NoneHeld => NoneHeld')
    BY Zenon DEF LoopCounts, BindingHost, NoneHeld, StillSeen
  <1>4. PassInv' BY Zenon, <1>2, <1>3 DEF ProvisionInv, PassInv
  <1>5. /\ Awaited' = Awaited /\ newJoinedNodes' = newJoinedNodes /\ (BoundToOwn <=> BoundToOwn')
        /\ (BoundToReady <=> BoundToReady') /\ \A a : (Known(a) <=> Known(a)') /\ (a \in staged => Known(a))
    BY Zenon DEF Awaited, newJoinedNodes, BoundToOwn, BoundToReady, Known
  <1>6. AwaitedInv' BY Zenon, <1>5 DEF ProvisionInv, AwaitedInv, StillSeen
  <1> QED BY Zenon, <1>1, <1>4, <1>6 DEF ProvisionInv

\* The API.
LEMMA ApiInv == ASSUME ProvisionInv, Api PROVE ProvisionInv'
  <1>1. /\ ProvisionTypeOK /\ host \in [Hosts -> Host] /\ staged \subseteq Hosts /\ edits \in 0..MaxEdits
        /\ pool \in [Pools -> [replicas : 0..MaxReplicas, members : SUBSET Hosts]]
    BY Zenon DEF ProvisionInv, ProvisionTypeOK
  <1>2. edits' \in 0..MaxEdits
    <2>1. edits < MaxEdits /\ edits' = edits + 1
      BY Zenon DEF Api, SetProvisioningEnabled, RegisterHost, DeregisterHost, SetReplicas, Edit
    <2> QED BY <1>1, <2>1, ProvisionBoundsAssumption
  <1>3. UNCHANGED <<machines, staged, node, ps, timeouts, faults>> /\ Give
    BY Zenon DEF Api, SetProvisioningEnabled, RegisterHost, DeregisterHost, SetReplicas, EditRest
  <1>4. ASSUME host' \in [Hosts -> Host], enabled' \in BOOLEAN,
               pool' \in [Pools -> [replicas : 0..MaxReplicas, members : SUBSET Hosts]]
        PROVE  ProvisionTypeOK'
    <2>1. given' \in [deregistered : SUBSET Hosts, released : SUBSET Hosts, overlap : BOOLEAN, hidden : BOOLEAN]
      BY Zenon, <1>1, <1>3, <1>4, GiveFacts
    <2> QED BY Zenon, <1>1, <1>2, <1>3, <1>4, <2>1 DEF ProvisionTypeOK
  <1>5. ASSUME host' = host, enabled' \in BOOLEAN,
               pool' \in [Pools -> [replicas : 0..MaxReplicas, members : SUBSET Hosts]],
               \A p \in Pools : pool'[p].members = pool[p].members
        PROVE  ProvisionInv'
    <2>1. ProvisionTypeOK' BY Zenon, <1>1, <1>4, <1>5
    <2>2. given'.deregistered = given.deregistered BY Zenon, <1>1, <1>3, <1>5, NothingGiven
    <2>3. (OneAtATime' => OneAtATime) /\ StillSeen BY Zenon, <1>1, <1>3, <1>5, GiveFacts
    <2> QED BY Zenon, <1>3, <1>5, <2>1, <2>2, <2>3, RestStep
  <1>6. ASSUME NEW h \in Hosts, NEW p \in Pools \cup {0}, RegisterHost(h, p) PROVE ProvisionInv'
    <2> DEFINE s == IF host[h].state = "none" THEN "REGISTERED" ELSE host[h].state
               r == [NoHost EXCEPT !.pool = p, !.addr = host[h].addr, !.state = s]
    <2>1. host[h] \in Host /\ host[h].state \in HostStates /\ host[h].addr \in Hosts \cup {0}
      BY Zenon, <1>1, HostFields
    <2>2. s \in HostStates BY Zenon, <2>1 DEF HostStates
    <2>3. host' = [host EXCEPT ![h] = r] /\ UNCHANGED <<enabled, pool>> BY Zenon, <1>6 DEF RegisterHost
    <2>4. r \in Host /\ r.state = s /\ r.addr = host[h].addr /\ r.pool = p
      <3> HIDE DEF s
      <3> QED BY <2>1, <2>2, Zenon DEF NoHost, Host
    <2>5. host[h].state = "none" => host[h].addr = 0 BY Zenon DEF ProvisionInv, HostInv
    <2>6. \/ r.state = host[h].state /\ r.addr = host[h].addr
          \/ host[h].state = "none" /\ r.state = "REGISTERED" /\ r.addr = 0
      BY Zenon, <2>4, <2>5
    <2> HIDE DEF r
    <2>7. ProvisionTypeOK'
      <3>1. host' \in [Hosts -> Host] BY Zenon, <1>1, <2>3, <2>4
      <3> QED BY Zenon, <1>1, <1>4, <2>3, <3>1 DEF ProvisionTypeOK
    <2> QED BY <1>3, <2>3, <2>4, <2>6, <2>7, HostEdit, Zenon
  <1>7. ASSUME NEW h \in Hosts, DeregisterHost(h) PROVE ProvisionInv'
    <2>1. host' = [host EXCEPT ![h] = NoHost] /\ UNCHANGED <<enabled, pool>> BY Zenon, <1>7 DEF DeregisterHost
    <2>2. host' \in [Hosts -> Host] BY Zenon, <1>1, <2>1, NoPassFields
    <2>3. ProvisionTypeOK' BY Zenon, <1>1, <1>4, <2>1, <2>2 DEF ProvisionTypeOK
    <2> QED BY <1>3, <2>1, <2>3, HostEdit, NoPassFields, Zenon
  <1>8. ASSUME NEW b \in BOOLEAN, SetProvisioningEnabled(b) PROVE ProvisionInv'
    BY Zenon, <1>1, <1>5, <1>8 DEF SetProvisioningEnabled
  <1>9. ASSUME NEW p \in Pools, NEW r \in 0..MaxReplicas, SetReplicas(p, r) PROVE ProvisionInv'
    <2>1. pool' = [pool EXCEPT ![p].replicas = r] /\ UNCHANGED <<enabled, host>> BY Zenon, <1>9 DEF SetReplicas
    <2>2. /\ pool' \in [Pools -> [replicas : 0..MaxReplicas, members : SUBSET Hosts]]
          /\ \A q \in Pools : pool'[q].members = pool[q].members
      BY Zenon, <1>1, <2>1
    <2>3. enabled' \in BOOLEAN BY Zenon, <1>1, <2>1 DEF ProvisionTypeOK
    <2> QED BY Zenon, <1>5, <2>1, <2>2, <2>3
  <1> QED BY Zenon, <1>6, <1>7, <1>8, <1>9 DEF Api

\* The machines: only a staged host joins.
LEMMA EnvInv == ASSUME ProvisionInv, Env PROVE ProvisionInv'
  <1>1. ProvisionTypeOK /\ node \in [Hosts -> Node] /\ faults \in 0..MaxFaults
    BY Zenon DEF ProvisionInv, ProvisionTypeOK
  <1>2. UNCHANGED <<enabled, pool, host, machines, staged, ps, edits, timeouts, given>>
    BY Zenon DEF Env, Join, NodeReady, NodeDown, Remove, EnvRest
  <1>3. faults' \in 0..MaxFaults
    <2>1. faults' = faults \/ (faults < MaxFaults /\ faults' = faults + 1)
      BY Zenon DEF Env, Join, NodeReady, NodeDown, Remove
    <2> QED BY <1>1, <2>1, ProvisionBoundsAssumption
  <1>4. /\ node' \in [Hosts -> Node]
        /\ \A a \in Hosts : node'[a].joined => node[a].joined \/ a \in staged
    <2>1. PICK b \in Hosts : Join(b) \/ NodeReady(b) \/ NodeDown(b) \/ Remove(b) BY Zenon DEF Env
    <2>2. CASE Join(b) BY Zenon, <1>1, <2>2 DEF Join, Node
    <2>3. CASE NodeReady(b) BY Zenon, <1>1, <2>3 DEF NodeReady, Node
    <2>4. CASE NodeDown(b) BY Zenon, <1>1, <2>4 DEF NodeDown, Node
    <2>5. CASE Remove(b) BY Zenon, <1>1, <2>5 DEF Remove, Node
    <2> QED BY Zenon, <2>1, <2>2, <2>3, <2>4, <2>5
  <1>5. ProvisionTypeOK' BY Zenon, <1>1, <1>2, <1>3, <1>4 DEF ProvisionTypeOK
  <1>6. (OneAtATime' => OneAtATime) /\ StillSeen BY Zenon, <1>2, StillHidden DEF OneAtATime, ProvisionInv
  <1> QED BY Zenon, <1>2, <1>4, <1>5, <1>6, RestStep

\* A pass that is cut short, or over, leaves nothing.
LEMMA StopStep ==
  ASSUME ProvisionInv, ProvisionTypeOK', UNCHANGED <<host, pool, staged, node>>, ps' = NoPass,
         given'.deregistered = given.deregistered, OneAtATime' => OneAtATime, StillSeen
  PROVE  ProvisionInv'
  <1>1. ps'.pc = "idle" BY Zenon, NoPassFields
  <1>2. HostInv' BY Zenon DEF ProvisionInv, HostInv, MemberIsReady, Seen, StillSeen
  <1>3. PassInv' BY Zenon, <1>1 DEF PassInv
  <1>4. /\ Awaited' = Awaited /\ (BoundToOwn <=> BoundToOwn') /\ (BoundToReady <=> BoundToReady')
        /\ \A a : Known(a) <=> Known(a)'
    BY Zenon DEF Awaited, BoundToOwn, BoundToReady, Known
  <1>5. AwaitedInv' BY Zenon, <1>1, <1>4 DEF ProvisionInv, AwaitedInv, Binding, StillSeen
  <1> QED BY Zenon, <1>2, <1>3, <1>5 DEF ProvisionInv

\* The types after a step of the pass.
LEMMA PassTyped ==
  ASSUME ProvisionTypeOK, PassRest, ps' \in Pass, host' \in [Hosts -> Host],
         pool' \in [Pools -> [replicas : 0..MaxReplicas, members : SUBSET Hosts]],
         machines' \subseteq Hosts, staged' \subseteq Hosts, node' \in [Hosts -> Node],
         timeouts' \in 0..MaxTimeouts
  PROVE  ProvisionTypeOK'
  <1>1. given' \in [deregistered : SUBSET Hosts, released : SUBSET Hosts, overlap : BOOLEAN, hidden : BOOLEAN]
    BY Zenon, GiveFacts DEF PassRest
  <1> QED BY Zenon, <1>1 DEF ProvisionTypeOK, PassRest

\* A step of the pass that writes neither hosts nor what is staged, and takes no member
\* and no node away.
LEMMA LocalStep ==
  ASSUME ProvisionInv, ProvisionTypeOK', PassRest, UNCHANGED <<host, staged>>, PassInv',
         \A p \in Pools : \A a \in pool'[p].members \ pool[p].members :
             a \in given.deregistered \/ \E h \in Hosts : host[h].state = "READY" /\ host[h].addr = a,
         \A a \in Hosts : node'[a].joined => node[a].joined,
         OneAtATime /\ ps'.pc \in {"hosts"} \cup Binding => \A a \in ps'.up : Known(a),
         OneAtATime /\ ~given.hidden /\ ps'.pc = "hosts" => newJoinedNodes' \subseteq Awaited,
         OneAtATime /\ ~given.hidden /\ ps'.pc \in Binding => newJoinedNodes' \subseteq Awaited \cup {ps'.addr}
  PROVE  ProvisionInv'
  <1>1. /\ host' \in [Hosts -> Host] /\ ProvisionTypeOK /\ staged' \subseteq Hosts
    BY Zenon DEF ProvisionInv, ProvisionTypeOK
  <1>2. given'.deregistered = given.deregistered BY Zenon, <1>1, NothingGiven DEF PassRest
  <1>3. (OneAtATime' => OneAtATime) /\ StillSeen BY Zenon, <1>1, GiveFacts DEF PassRest
  <1>4. MemberIsReady'
    <2> SUFFICES ASSUME NEW p \in Pools, NEW a \in pool'[p].members, a \notin given.deregistered
                 PROVE  \E h \in Hosts : host[h].state = "READY" /\ host[h].addr = a
      BY Zenon, <1>2 DEF MemberIsReady
    <2> QED BY Zenon DEF ProvisionInv, HostInv, MemberIsReady
  <1>5. HostInv' BY Zenon, <1>3, <1>4 DEF ProvisionInv, HostInv, Seen, StillSeen
  <1>6. /\ Awaited' = Awaited /\ (BoundToOwn <=> BoundToOwn') /\ (BoundToReady <=> BoundToReady')
        /\ \A a : Known(a) <=> Known(a)'
    BY Zenon DEF Awaited, BoundToOwn, BoundToReady, Known
  <1>7. AwaitedInv' BY Zenon, <1>3, <1>6 DEF ProvisionInv, AwaitedInv, StillSeen
  <1> QED BY Zenon, <1>5, <1>7 DEF ProvisionInv

\* A pass begins: its copies are the records, and the hosts to go over are all there are.
LEMMA StartPassInv == ASSUME OnePool, ProvisionInv, NEW p \in Pools, StartPass(p) PROVE ProvisionInv'
  <1> DEFINE L == {a \in Hosts : node[a].joined}
             U == {a \in Hosts : node[a].joined /\ node[a].ready}
  <1>1. /\ ProvisionTypeOK /\ host \in [Hosts -> Host] /\ ps.pc = "idle"
        /\ UNCHANGED <<pool, host, machines, staged, node, timeouts>> /\ PassRest
        /\ pool[p].replicas \in 0..MaxReplicas
    BY Zenon DEF ProvisionInv, ProvisionTypeOK, StartPass
  <1>2. claimedAddrs(p) \subseteq Hosts /\ InPool(p) \subseteq Hosts
    BY <1>1, HostFields DEF claimedAddrs, InPool, ProvisionTypeOK
  <1>3. ps' = [NoPass EXCEPT !.pc = "hosts", !.pool = p, !.replicas = pool[p].replicas, !.hosts = host,
                             !.listed = L, !.up = U, !.claimed = claimedAddrs(p), !.todo = InPool(p)]
    BY Zenon DEF StartPass
  <1>4. /\ ps' \in Pass /\ ps'.pc = "hosts" /\ ps'.pool = p /\ ps'.hosts = host /\ ps'.up = U
        /\ ps'.claimed = claimedAddrs(p) /\ ps'.todo = InPool(p) /\ ps'.cur = 0
    <2>1. L \subseteq Hosts /\ U \subseteq Hosts OBVIOUS
    <2> HIDE DEF L, U
    <2> QED BY Zenon, <1>1, <1>2, <1>3, <2>1, ReplicasAssumption, NoPassFields DEF NoPass, Pass, PCs
  <1>5. ProvisionTypeOK' BY Zenon, <1>1, <1>4, PassTyped DEF ProvisionTypeOK
  <1>6. ASSUME ~given.hidden, NEW h \in Hosts
        PROVE  /\ host[h].state \in {"PROVISIONING", "FAILED"} => h \in InPool(p)
               /\ host[h].state = "READY" => h \in InPool(p) \/ host[h].addr \in machines
    <2>1. h \notin Hidden BY Zenon, <1>6 DEF ProvisionInv, HostInv, Seen
    <2>2. host[h].pool = 0 \/ host[h].pool = p BY Zenon, <1>1, HostFields DEF OnePool
    <2> QED BY Zenon, <2>1, <2>2 DEF Hidden, InPool
  <1>7. ~given.hidden => \A h \in Hosts : host[h].state = "READY" => host[h].addr \in claimedAddrs(p)
    BY Zenon, <1>6 DEF ProvisionInv, HostInv, claimedAddrs
  <1>7a. StillSeen BY Zenon, <1>1, GiveFacts DEF PassRest, ProvisionTypeOK
  <1>8. LoopCounts' BY Zenon, <1>1, <1>4, <1>6, <1>7, <1>7a DEF LoopCounts, StillSeen
  <1>9. CopiesHold' BY Zenon, <1>1, <1>4 DEF CopiesHold, Same
  <1>10. PassInv' BY Zenon, <1>4, <1>8, <1>9 DEF PassInv, Binding, Releasing, Staging
  <1>11. OneAtATime /\ ~given.hidden => newJoinedNodes' \subseteq Awaited
    <2> SUFFICES ASSUME OneAtATime, ~given.hidden, NEW a \in U, a \notin claimedAddrs(p) PROVE a \in Awaited
      BY Zenon, <1>4 DEF newJoinedNodes
    <2>1. host[a].state # "READY" BY Zenon, <1>7 DEF ProvisionInv, AwaitedInv, BoundToOwn
    <2> QED BY Zenon, <2>1 DEF ProvisionInv, AwaitedInv, Awaited, Known
  <1>12. OneAtATime => \A a \in U : Known(a) BY Zenon DEF ProvisionInv, AwaitedInv
  <1> QED BY Zenon, <1>1, <1>4, <1>5, <1>10, <1>11, <1>12, LocalStep DEF Binding

\* In the loop, the next host is as it was copied, or blank.
LEMMA NextHostFacts ==
  ASSUME ProvisionInv, NEW h \in Hosts, NEW s, NextHost(h, s)
  PROVE  /\ ps \in Pass /\ ps.pc = "hosts" /\ ps.cur = 0 /\ h \in ps.todo /\ ps.hosts[h].state = s
         /\ ps.pool \in Pools /\ CopiesHold /\ LoopCounts /\ (Same(h) \/ Renewed(h))
  <1>1. ps \in Pass /\ ps.pc = "hosts" /\ h \in ps.todo /\ ps.hosts[h].state = s
    BY Zenon DEF ProvisionInv, ProvisionTypeOK, NextHost
  <1>2. ps.cur = 0 /\ ps.pool \in Pools /\ CopiesHold /\ LoopCounts
    BY Zenon, <1>1 DEF ProvisionInv, PassInv
  <1>3. h \in ps.todo \ {ps.cur} BY Zenon, <1>1, <1>2, NoPassFields
  <1> QED BY Zenon, <1>1, <1>2, <1>3 DEF CopiesHold

\* A host is counted: what is in flight or failed is noted.
LEMMA CountHostInv == ASSUME ProvisionInv, NEW h \in Hosts, CountHost(h) PROVE ProvisionInv'
  <1>1. /\ ProvisionTypeOK /\ UNCHANGED <<pool, host, machines, staged, node, timeouts>> /\ PassRest
    BY Zenon DEF ProvisionInv, CountHost
  <1>2. PICK s \in {"READY", "FAILED", "REGISTERED", "PROVISIONING"} : NextHost(h, s)
    BY Zenon DEF CountHost
  <1>3. /\ ps \in Pass /\ ps.pc = "hosts" /\ ps.cur = 0 /\ h \in ps.todo /\ ps.hosts[h].state = s
        /\ ps.pool \in Pools /\ CopiesHold /\ LoopCounts /\ (Same(h) \/ Renewed(h))
    BY Zenon, <1>2, NextHostFacts
  <1>4. /\ ps' \in Pass /\ ps'.pc = "hosts" /\ ps'.pool = ps.pool /\ ps'.hosts = ps.hosts /\ ps'.up = ps.up
        /\ ps'.claimed = ps.claimed /\ ps'.todo = ps.todo \ {h} /\ ps'.cur = 0
        /\ ps.inflight \/ s = "PROVISIONING" => ps'.inflight
        /\ ps.failed \/ s = "FAILED" => ps'.failed
    <2>1. CASE NextHost(h, "READY") /\ ps' = [ps EXCEPT !.todo = @ \ {h}, !.ready = @ + 1]
      <3>1. s = "READY" /\ ps.ready + 1 \in Nat BY <1>3, <2>1, PassFields DEF NextHost
      <3> QED BY Zenon, <1>3, <2>1, <3>1 DEF Pass
    <2>2. CASE NextHost(h, "FAILED") /\ ps' = [ps EXCEPT !.todo = @ \ {h}, !.failed = TRUE]
      <3>1. s = "FAILED" BY Zenon, <1>3, <2>2 DEF NextHost
      <3> QED BY Zenon, <1>3, <2>2, <3>1 DEF Pass
    <2>3. CASE NextHost(h, "REGISTERED") /\ ps' = [ps EXCEPT !.todo = @ \ {h}]
      <3>1. s = "REGISTERED" BY Zenon, <1>3, <2>3 DEF NextHost
      <3> QED BY Zenon, <1>3, <2>3, <3>1 DEF Pass
    <2>4. CASE NextHost(h, "PROVISIONING") /\ ps' = [ps EXCEPT !.todo = @ \ {h}, !.inflight = TRUE]
      <3>1. s = "PROVISIONING" BY Zenon, <1>3, <2>4 DEF NextHost
      <3> QED BY Zenon, <1>3, <2>4, <3>1 DEF Pass
    <2> QED BY Zenon, <2>1, <2>2, <2>3, <2>4 DEF CountHost
  <1>5. ProvisionTypeOK' BY Zenon, <1>1, <1>4, PassTyped DEF ProvisionTypeOK
  <1>6. given'.deregistered = given.deregistered BY Zenon, <1>1, NothingGiven DEF PassRest
  <1>7. CopiesHold' BY <1>1, <1>3, <1>4, <1>6 DEF CopiesHold, Same, Renewed
  <1>8. LoopCounts'
    <2>1. host[h].state = "PROVISIONING" => s = "PROVISIONING" BY Zenon, <1>3 DEF Same, Renewed
    <2>2. host[h].state = "FAILED" => s = "FAILED" BY Zenon, <1>3 DEF Same, Renewed
    <2>3. StillSeen BY Zenon, <1>1, GiveFacts DEF PassRest, ProvisionTypeOK
    <2> QED BY Zenon, <1>1, <1>3, <1>4, <2>1, <2>2, <2>3 DEF LoopCounts, StillSeen
  <1>9. PassInv' BY Zenon, <1>3, <1>4, <1>7, <1>8 DEF PassInv, Binding, Releasing, Staging
  <1>10. OneAtATime => /\ \A a \in ps'.up : Known(a)
                       /\ ~given.hidden => newJoinedNodes' \subseteq Awaited
    BY Zenon, <1>3, <1>4 DEF ProvisionInv, AwaitedInv, newJoinedNodes
  <1> QED BY Zenon, <1>1, <1>4, <1>5, <1>9, <1>10, LocalStep DEF Binding

\* The pass ends, or is cut short.
LEMMA EndPassInv == ASSUME ProvisionInv, EndPass \/ Abort PROVE ProvisionInv'
  <1>1. ProvisionTypeOK /\ UNCHANGED <<host, pool, staged, node, machines, timeouts>> /\ ps' = NoPass
    BY Zenon DEF EndPass, Abort, ProvisionInv
  <1>2. CASE EndPass
    <2>1. PassRest BY Zenon, <1>2 DEF EndPass
    <2>2. ProvisionTypeOK' BY Zenon, <1>1, <2>1, PassTyped, NoPassFields DEF ProvisionTypeOK
    <2>3. given'.deregistered = given.deregistered BY Zenon, <1>1, <2>1, NothingGiven DEF PassRest
    <2>4. (OneAtATime' => OneAtATime) /\ StillSeen BY Zenon, <1>1, <2>1, GiveFacts DEF PassRest, ProvisionTypeOK
    <2> QED BY Zenon, <1>1, <2>2, <2>3, <2>4, StopStep
  <1>3. CASE Abort
    <2>1. UNCHANGED <<enabled, edits, given>> /\ faults' = faults + 1 /\ faults < MaxFaults
      BY Zenon, <1>3 DEF Abort
    <2>2. faults' \in 0..MaxFaults BY <1>1, <2>1, ProvisionBoundsAssumption DEF ProvisionTypeOK
    <2>3. ProvisionTypeOK' BY Zenon, <1>1, <2>1, <2>2, NoPassFields DEF ProvisionTypeOK
    <2>4. (OneAtATime' => OneAtATime) /\ StillSeen
      BY Zenon, <1>1, <2>1, StillHidden DEF OneAtATime, ProvisionInv
    <2> QED BY Zenon, <1>1, <2>1, <2>3, <2>4, StopStep
  <1> QED BY Zenon, <1>2, <1>3

\* The pass turns to releasing a host, or to staging one: none is in flight or failed.
LEMMA ScaleInv == ASSUME ProvisionInv, NEW h \in Hosts, ScaleIn(h) \/ ScaleOut(h) PROVE ProvisionInv'
  <1>1. /\ ProvisionTypeOK /\ UNCHANGED <<pool, host, machines, staged, node, timeouts>> /\ PassRest
        /\ ps.pc = "hosts" /\ ps.todo = {} /\ ~ps.inflight /\ ~ps.failed
    BY Zenon DEF ProvisionInv, ScaleIn, ScaleOut, LoopOver, Halted
  <1>2. ps \in Pass /\ ps.hosts \in [Hosts -> Host] /\ CopiesHold /\ LoopCounts /\ ps.pool \in Pools
    BY Zenon, <1>1, PassFields DEF ProvisionTypeOK, ProvisionInv, PassInv
  <1>3. ps.hosts[h].addr \in Hosts \cup {0} BY Zenon, <1>2, HostFields
  <1>4. /\ ps' \in Pass /\ ps'.pool = ps.pool /\ ps'.hosts = ps.hosts /\ ps'.todo = {} /\ ps'.cur = h
        /\ \/ ps'.pc = "drain" /\ ps'.addr = ps.hosts[h].addr /\ ps.hosts[h].state = "READY"
           \/ ps'.pc = "stage" /\ ps.hosts[h].state = "REGISTERED"
    <2>1. CASE ScaleIn(h) BY Zenon, <1>1, <1>2, <1>3, <2>1 DEF ScaleIn, Pass, PCs, First, Releasable
    <2>2. CASE ScaleOut(h) BY Zenon, <1>1, <1>2, <1>3, <2>2 DEF ScaleOut, Pass, PCs, First, Available
    <2> QED BY Zenon, <2>1, <2>2
  <1>5. ProvisionTypeOK' BY Zenon, <1>1, <1>4, PassTyped DEF ProvisionTypeOK
  <1>6. given'.deregistered = given.deregistered BY Zenon, <1>1, NothingGiven DEF PassRest
  <1>7. CopiesHold' BY Zenon, <1>1, <1>2, <1>4, <1>6 DEF CopiesHold, Same, Renewed
  <1>7a. StillSeen BY Zenon, <1>1, GiveFacts DEF PassRest, ProvisionTypeOK
  <1>8. NoneHeld' BY Zenon, <1>1, <1>2, <1>7a DEF LoopCounts, NoneHeld, StillSeen
  <1>9. PassInv' BY Zenon, <1>2, <1>4, <1>7, <1>8 DEF PassInv, Binding, Releasing, Staging
  <1> QED BY Zenon, <1>1, <1>4, <1>5, <1>9, LocalStep DEF Binding

\* The host in question has no member's node: the members keep their hosts.
LEMMA MembersKept ==
  ASSUME ProvisionInv, host' \in [Hosts -> Host], given.deregistered \subseteq given'.deregistered,
         NEW h \in Hosts, host[h].state # "READY", \A g \in Hosts \ {h} : host'[g] = host[g],
         \A p \in Pools : pool'[p].members = pool[p].members
  PROVE  MemberIsReady'
  <1> SUFFICES ASSUME NEW p \in Pools, NEW a \in pool[p].members, a \notin given.deregistered
               PROVE  \E g \in Hosts : host'[g].state = "READY" /\ host'[g].addr = a
    BY Zenon DEF MemberIsReady
  <1>1. PICK g \in Hosts : host[g].state = "READY" /\ host[g].addr = a
    BY Zenon DEF ProvisionInv, HostInv, MemberIsReady
  <1> QED BY Zenon, <1>1

\* A write of one host's state and address.
LEMMA HostWritten ==
  ASSUME ProvisionInv, NEW h \in Hosts, NEW s \in HostStates, NEW a \in Hosts \cup {0},
         \/ host' = [host EXCEPT ![h].state = s, ![h].addr = a]
         \/ a = host[h].addr /\ host' = [host EXCEPT ![h].state = s]
         \/ a = host[h].addr /\ host' = [host EXCEPT ![h].state = s, ![h].started = TRUE]
  PROVE  /\ host' \in [Hosts -> Host] /\ host'[h].state = s /\ host'[h].addr = a
         /\ host'[h].pool = host[h].pool /\ \A g \in Hosts \ {h} : host'[g] = host[g]
  <1>1. host \in [Hosts -> Host] /\ host[h] \in Host BY Zenon DEF ProvisionInv, ProvisionTypeOK
  <1>2. host' = [host EXCEPT ![h] = host'[h]] /\ host'[h] \in Host /\ host'[h].state = s /\ host'[h].addr = a
        /\ host'[h].pool = host[h].pool
    <2>1. CASE host' = [host EXCEPT ![h].state = s, ![h].addr = a] BY Zenon, <1>1, <2>1 DEF Host
    <2>2. CASE a = host[h].addr /\ host' = [host EXCEPT ![h].state = s] BY Zenon, <1>1, <2>2 DEF Host
    <2>3. CASE a = host[h].addr /\ host' = [host EXCEPT ![h].state = s, ![h].started = TRUE]
      BY Zenon, <1>1, <2>3 DEF Host
    <2> QED BY Zenon, <2>1, <2>2, <2>3
  <1>3. /\ host' \in [Hosts -> Host] /\ \A g \in Hosts \ {h} : host'[g] = host[g]
    BY Zenon, <1>1, <1>2
  <1> QED BY Zenon, <1>2, <1>3

\* A provision runs out of time: the host has failed, and the pass notes it.
LEMMA TimeOutHostInv == ASSUME ProvisionInv, NEW h \in Hosts, TimeOutHost(h) PROVE ProvisionInv'
  <1>1. /\ ProvisionTypeOK /\ UNCHANGED <<pool, machines, staged, node>> /\ PassRest
        /\ host[h].state # "none" /\ host' = [host EXCEPT ![h].state = "FAILED"]
        /\ ps' = [ps EXCEPT !.todo = @ \ {h}, !.failed = TRUE]
        /\ timeouts < MaxTimeouts /\ timeouts' = timeouts + 1
    BY Zenon DEF ProvisionInv, TimeOutHost
  <1>2. /\ ps \in Pass /\ ps.pc = "hosts" /\ ps.cur = 0 /\ h \in ps.todo /\ ps.hosts[h].state = "PROVISIONING"
        /\ ps.pool \in Pools /\ CopiesHold /\ LoopCounts /\ (Same(h) \/ Renewed(h))
    BY Zenon, NextHostFacts DEF TimeOutHost
  <1>3. /\ ps' \in Pass /\ ps'.pc = "hosts" /\ ps'.pool = ps.pool /\ ps'.hosts = ps.hosts /\ ps'.up = ps.up
        /\ ps'.claimed = ps.claimed /\ ps'.todo = ps.todo \ {h} /\ ps'.cur = 0
        /\ ps'.inflight = ps.inflight /\ ps'.failed = TRUE
    BY <1>1, <1>2, Zenon DEF Pass
  <1>4. host[h].state # "READY" /\ host[h].addr = 0
    BY Zenon, <1>2 DEF Same, Renewed, ProvisionInv, HostInv
  <1>5. /\ host' \in [Hosts -> Host] /\ host'[h].state = "FAILED" /\ host'[h].addr = 0
        /\ host'[h].pool = host[h].pool /\ \A g \in Hosts \ {h} : host'[g] = host[g]
    BY <1>1, <1>4, HostWritten, Zenon DEF HostStates
  <1>6. timeouts' \in 0..MaxTimeouts BY <1>1, ProvisionBoundsAssumption DEF ProvisionTypeOK
  <1>7. ProvisionTypeOK' BY Zenon, <1>1, <1>3, <1>5, <1>6, PassTyped DEF ProvisionTypeOK
  <1>8. /\ given.deregistered \subseteq given'.deregistered
        /\ OneAtATime' => OneAtATime /\ \A f, g \in Awaited' : f = g
        /\ StillSeen
    BY Zenon, <1>1, <1>5, GiveFacts DEF PassRest, ProvisionTypeOK
  <1>9. HostInv'
    <2>1. MemberIsReady' BY Zenon, <1>1, <1>4, <1>5, <1>8, MembersKept
    <2>2. Seen' /\ (~given'.hidden => ~given.hidden) BY Zenon, <1>8 DEF StillSeen, Seen
    <2> QED BY <1>1, <1>5, <2>1, <2>2 DEF HostInv, ProvisionInv
  <1>10. CopiesHold' BY <1>2, <1>3, <1>5, <1>8, SMTT(30) DEF CopiesHold, Same, Renewed
  <1>11. LoopCounts' BY <1>2, <1>3, <1>5, <1>8 DEF LoopCounts, StillSeen
  <1>12. PassInv' BY Zenon, <1>2, <1>3, <1>10, <1>11 DEF PassInv, Binding, Releasing, Staging
  <1>13. AwaitedInv'
    <2> SUFFICES ASSUME OneAtATime' PROVE AwaitedInv'
      BY Zenon DEF AwaitedInv
    <2>1. Awaited' = Awaited BY <1>1, <1>4, <1>5 DEF Awaited
    <2>2. newJoinedNodes' = newJoinedNodes BY Zenon, <1>3 DEF newJoinedNodes
    <2>3. OneAtATime /\ AwaitedInv BY Zenon, <1>8 DEF ProvisionInv
    <2>4. ~given.hidden => BoundToOwn' BY Zenon, <1>5, <2>3 DEF AwaitedInv, BoundToOwn
    <2>5. \A a \in Hosts : Known(a) => Known(a)'
      BY Zenon, <1>1, <1>4, <1>5 DEF Known
    <2>6. BoundToReady'
      <3> SUFFICES ASSUME NEW g \in Hosts, host'[g].state = "READY" PROVE host'[host'[g].addr].state = "READY"
        BY Zenon DEF BoundToReady
      <3>1. host'[g] = host[g] /\ host[g].addr \in Hosts \cup {0} /\ host[g].addr # 0
        BY Zenon, <1>1, <1>5, HostFields DEF ProvisionTypeOK, ProvisionInv, HostInv
      <3>2. host[host[g].addr].state = "READY" BY Zenon, <2>3, <3>1 DEF AwaitedInv, BoundToReady
      <3> QED BY Zenon, <1>4, <1>5, <3>1, <3>2
    <2>7. ps.up \subseteq Hosts BY Zenon, <1>2, PassFields
    <2> QED BY Zenon, <1>1, <1>2, <1>3, <1>8, <2>1, <2>2, <2>3, <2>4, <2>5, <2>6, <2>7 DEF AwaitedInv, Binding, StillSeen
  <1> QED BY Zenon, <1>7, <1>9, <1>12, <1>13 DEF ProvisionInv

\* A host is bound to a node that no host has claimed: none is bound to it, and it is the
\* host's own if one host at a time is awaited.
LEMMA BindHostInv == ASSUME ProvisionInv, NEW h \in Hosts, NEW a \in Hosts, BindHost(h, a) PROVE ProvisionInv'
  <1>1. /\ ProvisionTypeOK /\ UNCHANGED <<pool, machines, staged, node, timeouts>> /\ PassRest
        /\ host[h].state # "none" /\ host' = [host EXCEPT ![h].state = "READY", ![h].addr = a]
        /\ ps' = [ps EXCEPT !.pc = "bindMachine", !.cur = h, !.addr = a] /\ a \in newJoinedNodes
    BY Zenon DEF ProvisionInv, BindHost
  <1>2. /\ ps \in Pass /\ ps.pc = "hosts" /\ ps.cur = 0 /\ h \in ps.todo /\ ps.hosts[h].state = "PROVISIONING"
        /\ ps.pool \in Pools /\ CopiesHold /\ LoopCounts /\ (Same(h) \/ Renewed(h))
    BY Zenon, NextHostFacts DEF BindHost
  <1>3. /\ ps' \in Pass /\ ps'.pc = "bindMachine" /\ ps'.pool = ps.pool /\ ps'.hosts = ps.hosts /\ ps'.up = ps.up
        /\ ps'.claimed = ps.claimed /\ ps'.todo = ps.todo /\ ps'.cur = h /\ ps'.addr = a
        /\ ps'.inflight = ps.inflight /\ ps'.failed = ps.failed
    BY <1>1, <1>2, Zenon DEF Pass, PCs
  <1>4. host[h].state # "READY"
    BY Zenon, <1>2 DEF Same, Renewed
  <1>5. /\ host' \in [Hosts -> Host] /\ host'[h].state = "READY" /\ host'[h].addr = a
        /\ host'[h].pool = host[h].pool /\ \A g \in Hosts \ {h} : host'[g] = host[g]
    BY <1>1, HostWritten, Zenon DEF HostStates
  <1>6. a # 0 /\ 0 \notin Hosts BY Zenon, NoPassFields
  <1>7. ProvisionTypeOK' BY Zenon, <1>1, <1>3, <1>5, PassTyped DEF ProvisionTypeOK
  <1>8. /\ given.deregistered \subseteq given'.deregistered
        /\ OneAtATime' => OneAtATime /\ \A f, g \in Awaited' : f = g
        /\ StillSeen
    BY Zenon, <1>1, <1>5, GiveFacts DEF PassRest, ProvisionTypeOK
  <1>9. HostInv'
    <2>1. MemberIsReady' BY Zenon, <1>1, <1>4, <1>5, <1>8, MembersKept
    <2>2. ~given.hidden => \A g \in Hosts : host[g].state = "READY" => host[g].addr # a
      BY Zenon, <1>1, <1>2, <1>6 DEF LoopCounts, newJoinedNodes
    <2>3. Seen' /\ (~given'.hidden => ~given.hidden) BY Zenon, <1>8 DEF StillSeen, Seen
    <2> QED BY <1>1, <1>5, <1>6, <2>1, <2>2, <2>3 DEF HostInv, ProvisionInv
  <1>10. CopiesHold' BY <1>2, <1>3, <1>5, <1>6, <1>8, SMTT(30) DEF CopiesHold, Same, Renewed
  <1>11. LoopCounts' BY <1>2, <1>3, <1>5, <1>6, <1>8 DEF LoopCounts, StillSeen
  <1>12. BindingHost' BY Zenon, <1>3, <1>5 DEF BindingHost
  <1>13. PassInv' BY Zenon, <1>2, <1>3, <1>10, <1>11, <1>12 DEF PassInv, Binding, Releasing, Staging
  <1>14. AwaitedInv'
    <2> SUFFICES ASSUME OneAtATime' PROVE AwaitedInv'
      BY Zenon DEF AwaitedInv
    <2>1. OneAtATime /\ AwaitedInv /\ given.deregistered = {} BY Zenon, <1>8 DEF ProvisionInv, OneAtATime
    <2>2. host[h].state = "PROVISIONING" BY Zenon, <1>2, <2>1 DEF Same, Renewed
    <2>3. h \in Awaited BY Zenon, <2>2 DEF ProvisionInv, HostInv, Awaited
    <2>4. Known(a) BY Zenon, <1>1, <1>2, <2>1 DEF AwaitedInv, newJoinedNodes
    <2>5. a = h \/ host[a].state = "READY" BY Zenon, <2>1, <2>3, <2>4 DEF AwaitedInv, Awaited, Known
    <2>6. \A b \in Hosts : host[b].state = "READY" => host'[b].state = "READY" BY Zenon, <1>4, <1>5
    <2>7. \A b \in Hosts : Known(b) => Known(b)' BY Zenon, <1>1, <2>6 DEF Known
    <2>8. BoundToReady'
      <3> SUFFICES ASSUME NEW g \in Hosts, host'[g].state = "READY" PROVE host'[host'[g].addr].state = "READY"
        BY Zenon DEF BoundToReady
      <3>1. CASE g = h BY Zenon, <1>5, <2>5, <2>6, <3>1
      <3>2. CASE g # h
        <4>1. host'[g] = host[g] /\ host[g].addr \in Hosts \cup {0} /\ host[g].addr # 0
          BY Zenon, <1>1, <1>5, <3>2, HostFields DEF ProvisionTypeOK, ProvisionInv, HostInv
        <4>2. host[host[g].addr].state = "READY" BY Zenon, <2>1, <4>1 DEF AwaitedInv, BoundToReady
        <4> QED BY Zenon, <2>6, <4>1, <4>2
      <3> QED BY Zenon, <3>1, <3>2
    <2>9. ~given'.hidden => BoundToOwn' /\ newJoinedNodes' \subseteq Awaited' \cup {a}
      <3> SUFFICES ASSUME ~given.hidden PROVE BoundToOwn' /\ newJoinedNodes' \subseteq Awaited' \cup {a}
        BY Zenon, <1>8 DEF StillSeen
      <3>1. a \in Awaited BY Zenon, <1>1, <1>2, <2>1 DEF AwaitedInv
      <3>2. a = h BY Zenon, <2>1, <2>3, <3>1 DEF AwaitedInv
      <3>3. BoundToOwn' BY Zenon, <1>5, <2>1, <3>2 DEF AwaitedInv, BoundToOwn
      <3>4. Awaited \subseteq Awaited' \cup {a} BY Zenon, <1>1, <1>5, <3>2 DEF Awaited, ProvisionTypeOK
      <3>5. newJoinedNodes' \subseteq Awaited' \cup {a}
        BY Zenon, <1>2, <1>3, <2>1, <3>4 DEF AwaitedInv, newJoinedNodes
      <3> QED BY Zenon, <3>3, <3>5
    <2>10. \A b \in Hosts : node'[b].joined => Known(b)' BY Zenon, <1>1, <2>1, <2>7 DEF AwaitedInv
    <2>11. \A b \in ps'.up : Known(b)'
      <3>1. ps.up \subseteq Hosts BY Zenon, <1>2, PassFields
      <3> QED BY Zenon, <1>2, <1>3, <2>1, <2>7, <3>1 DEF AwaitedInv
    <2> QED BY Zenon, <1>3, <1>8, <2>8, <2>9, <2>10, <2>11 DEF AwaitedInv, Binding
  <1> QED BY Zenon, <1>7, <1>9, <1>13, <1>14 DEF ProvisionInv

\* The other writes of bind: what is added to the members is the node of the bound host.
LEMMA BindRestInv == ASSUME ProvisionInv, BindMachine \/ BindMember PROVE ProvisionInv'
  <1>1. /\ ProvisionTypeOK /\ UNCHANGED <<host, staged, node, timeouts>> /\ PassRest /\ ps.pc \in Binding
        /\ ps \in Pass
    BY Zenon DEF ProvisionInv, ProvisionTypeOK, BindMachine, BindMember, Binding
  <1>2. CopiesHold /\ LoopCounts /\ BindingHost /\ ps.pool \in Pools
    BY Zenon, <1>1 DEF ProvisionInv, PassInv, Binding
  <1>3. ps.addr \in Hosts /\ ps.cur \in Hosts BY Zenon, <1>2 DEF BindingHost
  <1>4. given'.deregistered = given.deregistered BY Zenon, <1>1, NothingGiven DEF PassRest
  <1>5. OneAtATime => /\ \A a \in ps.up : Known(a)
                      /\ ~given.hidden => newJoinedNodes \subseteq Awaited \cup {ps.addr}
    BY Zenon, <1>1 DEF ProvisionInv, AwaitedInv
  <1>6. CASE BindMachine
    <2>1. /\ ps' = [ps EXCEPT !.pc = "bindMember"] /\ machines' = machines \cup {ps.addr} /\ UNCHANGED pool
      BY Zenon, <1>6 DEF BindMachine
    <2>2. /\ ps' \in Pass /\ ps'.pc = "bindMember" /\ ps'.pool = ps.pool /\ ps'.hosts = ps.hosts /\ ps'.up = ps.up
          /\ ps'.claimed = ps.claimed /\ ps'.todo = ps.todo /\ ps'.cur = ps.cur /\ ps'.addr = ps.addr
          /\ ps'.inflight = ps.inflight /\ ps'.failed = ps.failed
      BY Zenon, <1>1, <2>1 DEF Pass, PCs
    <2>3. ProvisionTypeOK' BY Zenon, <1>1, <1>3, <2>1, <2>2, PassTyped DEF ProvisionTypeOK
    <2>4. CopiesHold' BY <1>1, <1>2, <1>4, <2>2 DEF CopiesHold, Same, Renewed
    <2>4a. StillSeen BY Zenon, <1>1, <2>3, GiveFacts DEF PassRest, ProvisionTypeOK
    <2>5. LoopCounts' /\ BindingHost'
      BY Zenon, <1>1, <1>2, <1>4, <2>2, <2>4a DEF LoopCounts, BindingHost, StillSeen
    <2>6. PassInv' BY Zenon, <1>2, <2>2, <2>4, <2>5 DEF PassInv, Binding, Releasing, Staging
    <2>7. newJoinedNodes' = newJoinedNodes BY Zenon, <2>2 DEF newJoinedNodes
    <2> QED BY Zenon, <1>1, <1>5, <2>1, <2>2, <2>3, <2>6, <2>7, LocalStep
  <1>7. CASE BindMember
    <2>1. /\ ps' = [ps EXCEPT !.pc = "hosts", !.todo = @ \ {ps.cur}, !.ready = @ + 1,
                              !.claimed = @ \cup {ps.addr}, !.cur = 0, !.addr = 0]
          /\ pool' = [pool EXCEPT ![ps.pool].members = @ \cup {ps.addr}] /\ UNCHANGED machines
      BY Zenon, <1>7 DEF BindMember
    <2>2. /\ ps' \in Pass /\ ps'.pc = "hosts" /\ ps'.pool = ps.pool /\ ps'.hosts = ps.hosts /\ ps'.up = ps.up
          /\ ps'.claimed = ps.claimed \cup {ps.addr} /\ ps'.todo = ps.todo \ {ps.cur} /\ ps'.cur = 0
          /\ ps'.inflight = ps.inflight /\ ps'.failed = ps.failed
      <3>1. ps.ready + 1 \in Nat BY <1>1, PassFields
      <3> QED BY Zenon, <1>1, <1>3, <2>1, <3>1 DEF Pass, PCs
    <2>3. /\ pool' \in [Pools -> [replicas : 0..MaxReplicas, members : SUBSET Hosts]]
          /\ \A p \in Pools : pool'[p].members \subseteq pool[p].members \cup {ps.addr}
      BY Zenon, <1>1, <1>2, <1>3, <2>1 DEF ProvisionTypeOK
    <2>4. ProvisionTypeOK' BY Zenon, <1>1, <2>1, <2>2, <2>3, PassTyped DEF ProvisionTypeOK
    <2>5. CopiesHold' BY <1>1, <1>2, <1>4, <2>2 DEF CopiesHold, Same, Renewed
    <2>5a. StillSeen BY Zenon, <1>1, <2>4, GiveFacts DEF PassRest, ProvisionTypeOK
    <2>6. LoopCounts' BY Zenon, <1>1, <1>2, <2>2, <2>5a DEF LoopCounts, BindingHost, StillSeen
    <2>7. PassInv' BY Zenon, <1>2, <2>2, <2>5, <2>6 DEF PassInv, Binding, Releasing, Staging
    <2>8. newJoinedNodes' = newJoinedNodes \ {ps.addr} BY Zenon, <2>2 DEF newJoinedNodes
    <2>9. ps.addr \in given.deregistered \/ \E h \in Hosts : host[h].state = "READY" /\ host[h].addr = ps.addr
      BY Zenon, <1>2 DEF BindingHost
    <2> QED BY Zenon, <1>1, <1>5, <2>2, <2>3, <2>4, <2>7, <2>8, <2>9, LocalStep DEF Binding
  <1> QED BY Zenon, <1>6, <1>7

\* What a pass that releases a host knows of it.
LEMMA ReleasingFacts ==
  ASSUME ProvisionInv, ps.pc \in Releasing
  PROVE  /\ ps \in Pass /\ ps.pool \in Pools /\ CopiesHold /\ NoneHeld /\ ps.cur \in Hosts /\ ps.todo = {}
         /\ ps.hosts[ps.cur].state = "READY" /\ ps.addr = ps.hosts[ps.cur].addr
         /\ Same(ps.cur) \/ Renewed(ps.cur)
  BY Zenon DEF ProvisionInv, ProvisionTypeOK, PassInv, CopiesHold, Releasing

\* A step of a release that writes neither hosts nor what is staged.
LEMMA ReleaseStep ==
  ASSUME ProvisionInv, ProvisionTypeOK', PassRest, UNCHANGED <<host, staged>>, ps.pc \in Releasing,
         NEW pc \in Releasing, ps' = [ps EXCEPT !.pc = pc],
         \A a \in Hosts : node'[a].joined => node[a].joined,
         \A p \in Pools : pool'[p].members \subseteq pool[p].members,
         pc = "release" => ps.addr \notin pool'[ps.pool].members
  PROVE  ProvisionInv'
  <1>1. /\ ps \in Pass /\ ps.pool \in Pools /\ CopiesHold /\ NoneHeld /\ ps.cur \in Hosts /\ ps.todo = {}
        /\ ps.hosts[ps.cur].state = "READY" /\ ps.addr = ps.hosts[ps.cur].addr
    BY Zenon, ReleasingFacts
  <1>2. /\ ps'.pc = pc /\ ps'.pool = ps.pool /\ ps'.hosts = ps.hosts
        /\ ps'.todo = ps.todo /\ ps'.cur = ps.cur /\ ps'.addr = ps.addr
    BY Zenon, <1>1 DEF Pass
  <1>3. given'.deregistered = given.deregistered BY Zenon, NothingGiven DEF PassRest, ProvisionInv
  <1>4. CopiesHold' BY <1>1, <1>2, <1>3 DEF CopiesHold, Same, Renewed
  <1>5. NoneHeld'
    <2>1. StillSeen BY Zenon, GiveFacts DEF ProvisionInv, PassRest, ProvisionTypeOK
    <2> QED BY Zenon, <1>1, <2>1 DEF NoneHeld, StillSeen
  <1>6. PassInv' BY Zenon, <1>1, <1>2, <1>4, <1>5 DEF PassInv, Binding, Releasing, Staging
  <1>7. pc \notin Binding /\ pc # "hosts" BY Zenon DEF Binding, Releasing
  <1> QED BY Zenon, <1>2, <1>6, <1>7, LocalStep

\* The node is drained, its machine is deleted, it leaves the members.
LEMMA ReleaseInv == ASSUME ProvisionInv, DrainNode \/ DeleteMachine \/ removeMember PROVE ProvisionInv'
  <1>1. /\ ProvisionTypeOK /\ UNCHANGED <<host, staged, timeouts>> /\ PassRest /\ ps.pc \in Releasing
    BY Zenon DEF ProvisionInv, DrainNode, DeleteMachine, removeMember, Releasing
  <1>2. ps \in Pass /\ ps.pool \in Pools BY Zenon, <1>1, ReleasingFacts
  <1>3. \A pc \in Releasing : [ps EXCEPT !.pc = pc] \in Pass BY Zenon, <1>2 DEF Pass, Releasing, PCs
  <1>4. CASE DrainNode
    <2>1. /\ ps' = [ps EXCEPT !.pc = "unstage"] /\ UNCHANGED <<pool, machines>>
          /\ node' = IF ps.addr \in ps.listed THEN [node EXCEPT ![ps.addr].cordoned = TRUE] ELSE node
      BY Zenon, <1>4 DEF DrainNode
    <2>2. ps.listed \subseteq Hosts BY Zenon, <1>2, PassFields
    <2>3. node' \in [Hosts -> Node] /\ \A a \in Hosts : node'[a].joined => node[a].joined
      <3>1. CASE ps.addr \in ps.listed BY Zenon, <1>1, <2>1, <2>2, <3>1 DEF ProvisionTypeOK, Node
      <3>2. CASE ps.addr \notin ps.listed BY Zenon, <1>1, <2>1, <3>2 DEF ProvisionTypeOK
      <3> QED BY Zenon, <3>1, <3>2
    <2>4. ps' \in Pass BY Zenon, <1>3, <2>1 DEF Releasing
    <2>5. ProvisionTypeOK' BY Zenon, <1>1, <2>1, <2>3, <2>4, PassTyped DEF ProvisionTypeOK
    <2> QED BY Zenon, <1>1, <2>1, <2>3, <2>5, ReleaseStep DEF Releasing
  <1>5. CASE DeleteMachine
    <2>1. ps' = [ps EXCEPT !.pc = "removeMember"] /\ UNCHANGED <<pool, node>> /\ machines' \subseteq machines
      BY Zenon, <1>5 DEF DeleteMachine
    <2>2. ps' \in Pass BY Zenon, <1>3, <2>1 DEF Releasing
    <2>3. ProvisionTypeOK' BY Zenon, <1>1, <2>1, <2>2, PassTyped DEF ProvisionTypeOK
    <2> QED BY Zenon, <1>1, <2>1, <2>3, ReleaseStep DEF Releasing
  <1>6. CASE removeMember
    <2>1. /\ ps' = [ps EXCEPT !.pc = "release"] /\ UNCHANGED <<machines, node>>
          /\ pool' = [pool EXCEPT ![ps.pool].members = @ \ {ps.addr}]
      BY Zenon, <1>6 DEF removeMember
    <2>2. ps' \in Pass BY Zenon, <1>3, <2>1 DEF Releasing
    <2>3. /\ pool' \in [Pools -> [replicas : 0..MaxReplicas, members : SUBSET Hosts]]
          /\ \A p \in Pools : pool'[p].members \subseteq pool[p].members
          /\ ps.addr \notin pool'[ps.pool].members
      BY Zenon, <1>1, <1>2, <2>1 DEF ProvisionTypeOK
    <2>4. ProvisionTypeOK' BY Zenon, <1>1, <2>1, <2>2, <2>3, PassTyped DEF ProvisionTypeOK
    <2> QED BY Zenon, <1>1, <2>1, <2>3, <2>4, ReleaseStep DEF Releasing
  <1> QED BY Zenon, <1>4, <1>5, <1>6

\* The boot configuration of the host being released goes; its node is still bound to it.
LEMMA UnstageInv == ASSUME ProvisionInv, Unstage PROVE ProvisionInv'
  <1> DEFINE pc == IF ps.addr = 0 THEN "release" ELSE "deleteMachine"
  <1>1. /\ ProvisionTypeOK /\ UNCHANGED <<pool, host, machines, node, timeouts>> /\ PassRest
        /\ ps.pc \in Releasing /\ ps' = [ps EXCEPT !.pc = pc] /\ staged' = staged \ {ps.cur}
    BY Zenon DEF ProvisionInv, Unstage, Releasing
  <1>2. /\ ps \in Pass /\ ps.pool \in Pools /\ CopiesHold /\ NoneHeld /\ ps.cur \in Hosts /\ ps.todo = {}
        /\ ps.hosts[ps.cur].state = "READY" /\ ps.addr = ps.hosts[ps.cur].addr
        /\ Same(ps.cur) \/ Renewed(ps.cur)
    BY Zenon, <1>1, ReleasingFacts
  <1>3. pc \in PCs /\ pc \in {"release", "deleteMachine"} /\ (pc = "release" => ps.addr = 0) BY Zenon DEF PCs
  <1> HIDE DEF pc
  <1>4. /\ ps' \in Pass /\ ps'.pc = pc /\ ps'.pool = ps.pool /\ ps'.hosts = ps.hosts
        /\ ps'.todo = ps.todo /\ ps'.cur = ps.cur /\ ps'.addr = ps.addr
    BY Zenon, <1>1, <1>2, <1>3 DEF Pass
  <1>5. staged' \subseteq Hosts BY Zenon, <1>1 DEF ProvisionTypeOK
  <1>6. ProvisionTypeOK' BY Zenon, <1>1, <1>4, <1>5, PassTyped DEF ProvisionTypeOK
  <1>7. given'.deregistered = given.deregistered BY Zenon, <1>1, NothingGiven DEF PassRest
  <1>8. (OneAtATime' => OneAtATime /\ \A f, g \in Awaited' : f = g) /\ StillSeen
    BY Zenon, <1>1, <1>5, GiveFacts DEF PassRest, ProvisionTypeOK
  <1>9. HostInv'
    <2>1. host[ps.cur].state # "PROVISIONING" BY Zenon, <1>2 DEF Same, Renewed
    <2>2. MemberIsReady' BY Zenon, <1>1, <1>7 DEF ProvisionInv, HostInv, MemberIsReady
    <2> QED BY Zenon, <1>1, <1>8, <2>1, <2>2 DEF ProvisionInv, HostInv, Seen, StillSeen
  <1>10. CopiesHold' BY <1>1, <1>2, <1>4, <1>7 DEF CopiesHold, Same, Renewed
  <1>11. NoneHeld' BY Zenon, <1>1, <1>2, <1>8 DEF NoneHeld, StillSeen
  <1>12. 0 \notin pool[ps.pool].members BY Zenon, <1>1, <1>2, NoPassFields DEF ProvisionTypeOK
  <1>13. PassInv' BY Zenon, <1>1, <1>2, <1>3, <1>4, <1>10, <1>11, <1>12 DEF PassInv, Binding, Releasing, Staging
  <1>14. AwaitedInv'
    <2> SUFFICES ASSUME OneAtATime' PROVE AwaitedInv'
      BY Zenon DEF AwaitedInv
    <2>1. OneAtATime /\ AwaitedInv /\ given.deregistered = {} BY Zenon, <1>8 DEF ProvisionInv, OneAtATime
    <2>2. host[ps.cur].state = "READY" BY Zenon, <1>2, <2>1 DEF Same, Renewed
    <2>3. \A a \in Hosts : node'[a].joined => Known(a)'
      BY Zenon, <1>1, <2>1, <2>2 DEF AwaitedInv, Known
    <2>4. BoundToReady' /\ (~given'.hidden => BoundToOwn')
      BY Zenon, <1>1, <1>8, <2>1 DEF AwaitedInv, BoundToReady, BoundToOwn, StillSeen
    <2> QED BY Zenon, <1>3, <1>4, <1>8, <2>3, <2>4 DEF AwaitedInv, Binding
  <1> QED BY Zenon, <1>6, <1>9, <1>13, <1>14 DEF ProvisionInv

\* The host is handed back: its node has left the members.
LEMMA ReleaseHostInv == ASSUME OnePool, ProvisionInv, releaseHost PROVE ProvisionInv'
  <1> DEFINE h == ps.cur
  <1>1. /\ ProvisionTypeOK /\ UNCHANGED <<pool, machines, staged, node, timeouts>> /\ PassRest
        /\ ps.pc = "release" /\ ps' = NoPass /\ host[h].state # "none"
        /\ host' = [host EXCEPT ![h].state = "REGISTERED", ![h].addr = 0]
    BY Zenon DEF ProvisionInv, releaseHost
  <1>2. /\ ps.pool \in Pools /\ h \in Hosts /\ ps.hosts[h].state = "READY" /\ ps.addr = ps.hosts[h].addr
        /\ Same(h) \/ Renewed(h)
    BY Zenon, <1>1, ReleasingFacts DEF Releasing
  <1>3. ps.addr \notin pool[ps.pool].members BY Zenon, <1>1 DEF ProvisionInv, PassInv
  <1>4. /\ host' \in [Hosts -> Host] /\ host'[h].state = "REGISTERED" /\ host'[h].addr = 0
        /\ host'[h].pool = host[h].pool /\ \A g \in Hosts \ {h} : host'[g] = host[g]
    BY Zenon, <1>1, <1>2, HostWritten DEF HostStates
  <1>5. ps'.pc = "idle" /\ ps' \in Pass BY Zenon, <1>1, NoPassFields
  <1>6. ProvisionTypeOK' BY Zenon, <1>1, <1>4, <1>5, PassTyped DEF ProvisionTypeOK
  <1>7. /\ given.deregistered \subseteq given'.deregistered
        /\ host[h].state = "READY" => h \in given'.released
        /\ OneAtATime' => OneAtATime
        /\ StillSeen
    BY Zenon, <1>1, <1>2, <1>4, GiveFacts DEF PassRest, ProvisionTypeOK
  <1>8. MemberIsReady'
    <2> SUFFICES ASSUME NEW p \in Pools, NEW a \in pool[p].members, a \notin given.deregistered
                 PROVE  \E g \in Hosts : host'[g].state = "READY" /\ host'[g].addr = a
      BY Zenon, <1>1, <1>7 DEF MemberIsReady
    <2>1. PICK g \in Hosts : host[g].state = "READY" /\ host[g].addr = a
      BY Zenon DEF ProvisionInv, HostInv, MemberIsReady
    <2>2. p = ps.pool BY Zenon, <1>2 DEF OnePool
    <2>3. g # h BY Zenon, <1>2, <1>3, <2>1, <2>2 DEF Same, Renewed
    <2> QED BY Zenon, <1>4, <2>1, <2>3
  <1>9. HostInv'
    <2>1. Seen' /\ (~given'.hidden => ~given.hidden) BY Zenon, <1>7 DEF StillSeen, Seen
    <2> QED BY <1>1, <1>2, <1>4, <1>8, <2>1 DEF ProvisionInv, HostInv
  <1>10. PassInv' BY Zenon, <1>5 DEF PassInv
  <1>11. AwaitedInv'
    <2> SUFFICES ASSUME OneAtATime' PROVE FALSE
      BY Zenon DEF AwaitedInv
    <2>1. given.deregistered = {} /\ given'.released = {} BY Zenon, <1>7 DEF OneAtATime
    <2>2. host[h].state = "READY" BY Zenon, <1>2, <2>1 DEF Same, Renewed
    <2> QED BY Zenon, <1>7, <2>1, <2>2
  <1> QED BY Zenon, <1>6, <1>9, <1>10, <1>11 DEF ProvisionInv

\* A host is staged.
LEMMA StageInv == ASSUME ProvisionInv, Stage PROVE ProvisionInv'
  <1>1. /\ ProvisionTypeOK /\ UNCHANGED <<pool, host, machines, node, timeouts>> /\ PassRest
        /\ ps.pc = "stage" /\ ps' = [ps EXCEPT !.pc = "start"] /\ staged' = staged \cup {ps.cur}
    BY Zenon DEF ProvisionInv, Stage
  <1>2. /\ ps \in Pass /\ ps.pool \in Pools /\ CopiesHold /\ NoneHeld /\ ps.cur \in Hosts /\ ps.todo = {}
        /\ ps.hosts[ps.cur].state = "REGISTERED"
    BY Zenon, <1>1 DEF ProvisionInv, ProvisionTypeOK, PassInv, Staging
  <1>3. /\ ps' \in Pass /\ ps'.pc = "start" /\ ps'.pool = ps.pool /\ ps'.hosts = ps.hosts
        /\ ps'.todo = ps.todo /\ ps'.cur = ps.cur
    BY Zenon, <1>1, <1>2 DEF Pass, PCs
  <1>4. staged' \subseteq Hosts BY Zenon, <1>1, <1>2 DEF ProvisionTypeOK
  <1>5. ProvisionTypeOK' BY Zenon, <1>1, <1>3, <1>4, PassTyped DEF ProvisionTypeOK
  <1>6. given'.deregistered = given.deregistered BY Zenon, <1>1, NothingGiven DEF PassRest
  <1>7. (OneAtATime' => OneAtATime /\ \A f, g \in Awaited' : f = g) /\ StillSeen
    BY Zenon, <1>1, <1>4, GiveFacts DEF PassRest, ProvisionTypeOK
  <1>8. HostInv'
    <2>1. MemberIsReady' BY Zenon, <1>1, <1>6 DEF ProvisionInv, HostInv, MemberIsReady
    <2> QED BY Zenon, <1>1, <1>7, <2>1 DEF ProvisionInv, HostInv, Seen, StillSeen
  <1>9. CopiesHold' BY <1>1, <1>2, <1>3, <1>6 DEF CopiesHold, Same, Renewed
  <1>10. NoneHeld' BY Zenon, <1>1, <1>2, <1>7 DEF NoneHeld, StillSeen
  <1>11. PassInv' BY <1>1, <1>2, <1>3, <1>9, <1>10 DEF PassInv, Binding, Releasing, Staging
  <1>12. AwaitedInv'
    <2> SUFFICES ASSUME OneAtATime' PROVE AwaitedInv'
      BY Zenon DEF AwaitedInv
    <2>1. OneAtATime /\ AwaitedInv BY Zenon, <1>7 DEF ProvisionInv
    <2>2. BoundToReady' /\ (~given'.hidden => BoundToOwn')
      BY Zenon, <1>1, <1>7, <2>1 DEF AwaitedInv, BoundToReady, BoundToOwn, StillSeen
    <2>3. \A a \in Hosts : node'[a].joined => Known(a)' BY Zenon, <1>1, <2>1 DEF AwaitedInv, Known
    <2> QED BY Zenon, <1>3, <1>7, <2>2, <2>3 DEF AwaitedInv, Binding
  <1> QED BY Zenon, <1>5, <1>8, <1>11, <1>12 DEF ProvisionInv

\* The staged host is in flight: none other is.
LEMMA StartProvisioningInv == ASSUME ProvisionInv, startProvisioning PROVE ProvisionInv'
  <1> DEFINE h == ps.cur
  <1>1. /\ ProvisionTypeOK /\ UNCHANGED <<pool, machines, staged, node, timeouts>> /\ PassRest
        /\ ps.pc = "start" /\ ps' = NoPass /\ host[h].state # "none"
        /\ host' = [host EXCEPT ![h].state = "PROVISIONING", ![h].started = TRUE]
    BY Zenon DEF ProvisionInv, startProvisioning
  <1>2. /\ CopiesHold /\ NoneHeld /\ h \in Hosts /\ h \in staged /\ ps.hosts[h].state = "REGISTERED"
    BY Zenon, <1>1 DEF ProvisionInv, PassInv, Staging
  <1>3. host[h].state = "REGISTERED" BY Zenon, <1>1, <1>2 DEF CopiesHold, Same, Renewed
  <1>4. host[h].addr = 0 BY Zenon, <1>2, <1>3 DEF ProvisionInv, HostInv
  <1>5. /\ host' \in [Hosts -> Host] /\ host'[h].state = "PROVISIONING" /\ host'[h].addr = 0
        /\ host'[h].pool = host[h].pool /\ \A g \in Hosts \ {h} : host'[g] = host[g]
    <2>1. "PROVISIONING" \in HostStates /\ host[h].addr \in Hosts \cup {0} BY Zenon, <1>4 DEF HostStates
    <2>2. /\ host' \in [Hosts -> Host] /\ host'[h].state = "PROVISIONING" /\ host'[h].addr = host[h].addr
          /\ host'[h].pool = host[h].pool /\ \A g \in Hosts \ {h} : host'[g] = host[g]
      <3>1. /\ h \in Hosts
            /\ host[h].addr = host[h].addr /\ host' = [host EXCEPT ![h].state = "PROVISIONING", ![h].started = TRUE]
        BY Zenon, <1>1, <1>2
      <3> HIDE DEF h
      <3> QED BY <2>1, <3>1, HostWritten, ZenonT(30)
    <2> QED BY Zenon, <1>4, <2>2
  <1>6. ps'.pc = "idle" /\ ps' \in Pass BY Zenon, <1>1, NoPassFields
  <1>7. ProvisionTypeOK' BY Zenon, <1>1, <1>5, <1>6, PassTyped DEF ProvisionTypeOK
  <1>8. /\ given.deregistered \subseteq given'.deregistered
        /\ OneAtATime' => OneAtATime
        /\ StillSeen
    BY Zenon, <1>1, <1>5, GiveFacts DEF PassRest, ProvisionTypeOK
  <1>9. MemberIsReady' BY Zenon, <1>1, <1>2, <1>3, <1>5, <1>8, MembersKept
  <1>10. HostInv'
    <2>1. Seen' /\ (~given'.hidden => ~given.hidden) BY Zenon, <1>8 DEF StillSeen, Seen
    <2> QED BY <1>1, <1>2, <1>5, <1>9, <2>1 DEF ProvisionInv, HostInv, NoneHeld
  <1>11. PassInv' BY Zenon, <1>6 DEF PassInv
  <1>12. AwaitedInv'
    <2> SUFFICES ASSUME OneAtATime' PROVE AwaitedInv'
      BY Zenon DEF AwaitedInv
    <2>1. OneAtATime /\ AwaitedInv BY Zenon, <1>8 DEF ProvisionInv
    <2>2. Awaited' = Awaited BY Zenon, <1>1, <1>3, <1>5 DEF Awaited, ProvisionTypeOK
    <2>3. ~given'.hidden => BoundToOwn'
      <3>1. ~given'.hidden => BoundToOwn BY Zenon, <1>8, <2>1 DEF AwaitedInv, StillSeen
      <3> QED BY <1>5, <3>1 DEF BoundToOwn
    <2>4. \A a \in Hosts : node'[a].joined => Known(a)'
      BY Zenon, <1>1, <1>3, <1>5, <2>1 DEF AwaitedInv, Known
    <2>5. BoundToReady'
      <3> SUFFICES ASSUME NEW g \in Hosts, host'[g].state = "READY" PROVE host'[host'[g].addr].state = "READY"
        BY Zenon DEF BoundToReady
      <3>1. g # h BY <1>5
      <3>2. host'[g] = host[g] /\ host[g].addr \in Hosts \cup {0} /\ host[g].addr # 0
        BY Zenon, <1>1, <1>5, <3>1, HostFields DEF ProvisionTypeOK, ProvisionInv, HostInv
      <3>3. host[host[g].addr].state = "READY" BY Zenon, <2>1, <3>2 DEF AwaitedInv, BoundToReady
      <3>4. host[g].addr # h BY <1>3, <3>3
      <3> QED BY Zenon, <1>5, <3>2, <3>3, <3>4
    <2> QED BY Zenon, <1>6, <2>1, <2>2, <2>3, <2>4, <2>5 DEF AwaitedInv, Binding
  <1> QED BY Zenon, <1>7, <1>10, <1>11, <1>12 DEF ProvisionInv

\* Every step keeps the invariant.
LEMMA NextProvisionInv == ASSUME OnePool PROVE ProvisionInv /\ [Next]_vars => ProvisionInv'
  <1> SUFFICES ASSUME ProvisionInv, [Next]_vars PROVE ProvisionInv'
    OBVIOUS
  <1>1. CASE UNCHANGED vars
    <2>1. /\ UNCHANGED <<enabled, pool, host, machines, staged, node, ps, edits, timeouts, faults, given>>
      BY Zenon, <1>1 DEF vars
    <2>2. ProvisionTypeOK' BY Zenon, <2>1 DEF ProvisionInv, ProvisionTypeOK
    <2>3. (OneAtATime' => OneAtATime) /\ StillSeen BY Zenon, <2>1, StillHidden DEF OneAtATime, ProvisionInv
    <2> QED BY Zenon, <2>1, <2>2, <2>3, RestStep
  <1>2. CASE Reconcile
    BY Zenon, <1>2, StartPassInv, CountHostInv, TimeOutHostInv, BindHostInv, ScaleInv, BindRestInv, ReleaseInv,
       UnstageInv, ReleaseHostInv, StageInv, StartProvisioningInv, EndPassInv
    DEF Reconcile
  <1> QED BY Zenon, <1>1, <1>2, EndPassInv, ApiInv, EnvInv DEF Next

\* The invariant holds throughout every behaviour with one pool.
LEMMA ProvisionInvariant == ASSUME OnePool PROVE Spec => []ProvisionInv
  <1>1. Init => ProvisionInv BY Zenon, InitProvisionInv
  <1>2. ProvisionInv /\ [Next]_vars => ProvisionInv' BY Zenon, NextProvisionInv
  <1> QED BY <1>1, <1>2, PTL DEF Spec

\* Only startProvisioning puts a host in flight.
LEMMA OnlyStarted ==
  ASSUME ProvisionInv, Next, NEW h \in Hosts, host[h].state # "PROVISIONING", host'[h].state = "PROVISIONING"
  PROVE  startProvisioning
  <1>1. host \in [Hosts -> Host] BY Zenon DEF ProvisionInv, ProvisionTypeOK
  <1>2. host' # host OBVIOUS
  <1>3. ASSUME NEW g \in Hosts, NEW p \in Pools \cup {0}, RegisterHost(g, p) PROVE FALSE
    <2> DEFINE s == IF host[g].state = "none" THEN "REGISTERED" ELSE host[g].state
    <2>1. host' = [host EXCEPT ![g] = [NoHost EXCEPT !.pool = p, !.addr = host[g].addr, !.state = s]]
      BY <1>3, Zenon DEF RegisterHost
    <2>2. g = h BY Zenon, <1>1, <2>1
    <2>3. host'[h].state = s
      <3> HIDE DEF s
      <3> QED BY <1>1, <2>1, <2>2, Zenon DEF NoHost
    <2> QED BY Zenon, <2>2, <2>3
  <1>4. ASSUME NEW g \in Hosts, DeregisterHost(g) PROVE FALSE
    BY Zenon, <1>1, <1>4, NoPassFields DEF DeregisterHost
  <1>5. ASSUME NEW g \in Hosts, TimeOutHost(g) PROVE FALSE BY <1>1, <1>5 DEF TimeOutHost
  <1>6. ASSUME NEW g \in Hosts, NEW a \in Hosts, BindHost(g, a) PROVE FALSE BY <1>1, <1>6 DEF BindHost
  <1>7. ~releaseHost
    <2> SUFFICES ASSUME releaseHost PROVE FALSE OBVIOUS
    <2>1. host' = [host EXCEPT ![ps.cur].state = "REGISTERED", ![ps.cur].addr = 0] BY Zenon DEF releaseHost
    <2>2. h # ps.cur => host'[h] = host[h] BY Zenon, <1>1, <2>1
    <2>3. h = ps.cur => host'[h].state = "REGISTERED" BY Zenon, <1>1, <2>1 DEF Host
    <2> QED BY Zenon, <2>2, <2>3
  <1>8. ~Env /\ ~Abort /\ ~EndPass BY <1>2, Zenon DEF Env, Join, NodeReady, NodeDown, Remove, EnvRest, Abort, EndPass
  <1>9. ~Api
    BY <1>2, <1>3, <1>4, Zenon DEF Api, SetProvisioningEnabled, SetReplicas
  <1>10. Reconcile => startProvisioning
    BY <1>2, <1>5, <1>6, <1>7, <1>8, Zenon
    DEF Reconcile, StartPass, CountHost, ScaleIn, ScaleOut, BindMachine, BindMember, DrainNode, Unstage,
        DeleteMachine, removeMember, Stage
  <1> QED BY Zenon, <1>8, <1>9, <1>10 DEF Next

\* Only removeMember takes a node from the members, and it takes the one being released.
LEMMA OnlyRemoved ==
  ASSUME ProvisionInv, Next, NEW p \in Pools, NEW a \in pool[p].members, a \notin pool'[p].members
  PROVE  removeMember /\ a = ps.addr
  <1>1. pool \in [Pools -> [replicas : 0..MaxReplicas, members : SUBSET Hosts]]
    BY Zenon DEF ProvisionInv, ProvisionTypeOK
  <1>2. pool' # pool OBVIOUS
  <1>3. ASSUME NEW q \in Pools, NEW r \in 0..MaxReplicas, SetReplicas(q, r) PROVE FALSE
    BY Zenon, <1>1, <1>3 DEF SetReplicas
  <1>4. ~Api BY <1>2, <1>3, Zenon DEF Api, SetProvisioningEnabled, RegisterHost, DeregisterHost
  <1>5. ~Env /\ ~Abort /\ ~EndPass BY <1>2, Zenon DEF Env, Join, NodeReady, NodeDown, Remove, EnvRest, Abort, EndPass
  <1>6. ~BindMember BY <1>1 DEF BindMember
  <1>7. removeMember
    BY <1>2, <1>4, <1>5, <1>6, Zenon
    DEF Next, Reconcile, StartPass, CountHost, TimeOutHost, BindHost, ScaleIn, ScaleOut, BindMachine, DrainNode,
        Unstage, DeleteMachine, releaseHost, Stage, startProvisioning
  <1> QED BY Zenon, <1>1, <1>7 DEF removeMember

\* The node being released is cordoned when the drain has returned, and no step of the
\* machines takes that back while it is a member.
LEMMA DrainedStep == ASSUME ProvisionInv, DrainedInv, [Next]_vars PROVE DrainedInv'
  <1> SUFFICES ASSUME ps'.pc \in {"unstage", "deleteMachine", "removeMember"}, NEW p \in Pools,
                      ps'.addr \in ps'.listed, ps'.addr \in pool'[p].members
               PROVE  node'[ps'.addr].joined /\ node'[ps'.addr].cordoned
    BY Zenon DEF DrainedInv
  <1>1. ps \in Pass /\ node \in [Hosts -> Node] /\ ps.listed \subseteq Hosts
    BY Zenon, PassFields DEF ProvisionInv, ProvisionTypeOK
  <1>2. ASSUME ps.pc \in {"unstage", "deleteMachine", "removeMember"}, ps'.addr = ps.addr, ps'.listed = ps.listed,
               pool'[p].members = pool[p].members, UNCHANGED node
        PROVE  node'[ps'.addr].joined /\ node'[ps'.addr].cordoned
    BY Zenon, <1>2 DEF DrainedInv
  <1>3. CASE UNCHANGED vars BY <1>2, <1>3, Zenon DEF vars
  <1>4. CASE Api
    <2>1. UNCHANGED <<ps, node>> BY <1>4, Zenon DEF Api, SetProvisioningEnabled, RegisterHost, DeregisterHost, SetReplicas, EditRest
    <2>2. pool'[p].members = pool[p].members
      <3>1. pool \in [Pools -> [replicas : 0..MaxReplicas, members : SUBSET Hosts]] BY Zenon DEF ProvisionInv, ProvisionTypeOK
      <3>2. pool' = pool \/ \E q \in Pools, r \in 0..MaxReplicas : pool' = [pool EXCEPT ![q].replicas = r]
        BY <1>4, Zenon DEF Api, SetProvisioningEnabled, RegisterHost, DeregisterHost, SetReplicas
      <3> QED BY <3>1, <3>2
    <2> QED BY Zenon, <1>2, <2>1, <2>2
  <1>5. CASE Env
    <2>1. UNCHANGED <<ps, pool>> BY <1>5, Zenon DEF Env, Join, NodeReady, NodeDown, Remove, EnvRest
    <2>2. ps.addr \in Hosts /\ node[ps.addr].joined /\ node[ps.addr].cordoned /\ ps.addr \in pool[p].members
      BY Zenon, <1>1, <2>1 DEF DrainedInv
    <2>3. PICK b \in Hosts : Join(b) \/ NodeReady(b) \/ NodeDown(b) \/ Remove(b) BY Zenon, <1>5 DEF Env
    <2>4. CASE Join(b) BY Zenon, <1>1, <2>1, <2>2, <2>4 DEF Join
    <2>5. CASE NodeReady(b) BY Zenon, <1>1, <2>1, <2>2, <2>5 DEF NodeReady, Node
    <2>6. CASE NodeDown(b) BY Zenon, <1>1, <2>1, <2>2, <2>6 DEF NodeDown, Node
    <2>7. CASE Remove(b) BY Zenon, <1>1, <2>1, <2>2, <2>7 DEF Remove
    <2> QED BY Zenon, <2>3, <2>4, <2>5, <2>6, <2>7
  <1>6. CASE DrainNode
    <2>1. ps'.addr = ps.addr /\ ps'.listed = ps.listed BY Zenon, <1>1, <1>6 DEF DrainNode, Pass
    <2>2. node[ps.addr].joined /\ node' = [node EXCEPT ![ps.addr].cordoned = TRUE]
      BY Zenon, <1>6, <2>1 DEF DrainNode
    <2> QED BY Zenon, <1>1, <2>1, <2>2 DEF Node
  <1>7. CASE Unstage \/ DeleteMachine
    <2>1. /\ ps'.addr = ps.addr /\ ps'.listed = ps.listed /\ ps.pc \in {"unstage", "deleteMachine"}
          /\ UNCHANGED <<pool, node>>
      <3>1. \E pc \in PCs : ps' = [ps EXCEPT !.pc = pc] BY Zenon, <1>7 DEF Unstage, DeleteMachine, PCs
      <3>2. ps'.addr = ps.addr /\ ps'.listed = ps.listed BY Zenon, <1>1, <3>1 DEF Pass
      <3> QED BY Zenon, <1>7, <3>2 DEF Unstage, DeleteMachine
    <2> QED BY Zenon, <1>2, <2>1
  <1>8. ps' # NoPass BY Zenon, NoPassFields
  <1>9. ~EndPass /\ ~Abort /\ ~releaseHost /\ ~startProvisioning
    BY <1>8, Zenon DEF EndPass, Abort, releaseHost, startProvisioning
  <1>10. ASSUME NEW h \in Hosts, CountHost(h) \/ TimeOutHost(h) PROVE FALSE
    <2>1. ps.pc = "hosts" BY <1>10, Zenon DEF CountHost, TimeOutHost, NextHost
    <2>2. ps' = [ps EXCEPT !.todo = @ \ {h}, !.ready = @ + 1] => ps'.pc = ps.pc BY Zenon, <1>1 DEF Pass
    <2>3. ps' = [ps EXCEPT !.todo = @ \ {h}, !.failed = TRUE] => ps'.pc = ps.pc BY Zenon, <1>1 DEF Pass
    <2>4. ps' = [ps EXCEPT !.todo = @ \ {h}] => ps'.pc = ps.pc BY Zenon, <1>1 DEF Pass
    <2>5. ps' = [ps EXCEPT !.todo = @ \ {h}, !.inflight = TRUE] => ps'.pc = ps.pc BY Zenon, <1>1 DEF Pass
    <2>6. ps'.pc = ps.pc BY <1>10, <2>2, <2>3, <2>4, <2>5, Zenon DEF CountHost, TimeOutHost
    <2> QED BY Zenon, <2>1, <2>6
  <1>11. ASSUME NEW h \in Hosts, ScaleIn(h) \/ ScaleOut(h) \/ \E a \in Hosts : BindHost(h, a) PROVE FALSE
    <2>1. CASE ScaleIn(h)
      <3>1. ps'.pc = "drain" BY Zenon, <1>1, <2>1 DEF ScaleIn, Pass
      <3> QED BY Zenon, <3>1
    <2>2. CASE ScaleOut(h)
      <3>1. ps'.pc = "stage" BY Zenon, <1>1, <2>2 DEF ScaleOut, Pass
      <3> QED BY Zenon, <3>1
    <2>3. ASSUME NEW a \in Hosts, BindHost(h, a) PROVE FALSE
      <3>1. ps'.pc = "bindMachine" BY Zenon, <1>1, <2>3 DEF BindHost, Pass
      <3> QED BY Zenon, <3>1
    <2> QED BY Zenon, <1>11, <2>1, <2>2, <2>3
  <1>12. ASSUME NEW q \in Pools, StartPass(q) PROVE FALSE
    <2>1. ps'.pc = "hosts" BY Zenon, <1>12 DEF StartPass, NoPass
    <2> QED BY Zenon, <2>1
  <1>13. ASSUME BindMachine \/ BindMember \/ removeMember \/ Stage PROVE FALSE
    <2>1. BindMachine => ps'.pc = "bindMember" BY Zenon, <1>1 DEF BindMachine, Pass
    <2>2. BindMember => ps'.pc = "hosts" BY Zenon, <1>1 DEF BindMember, Pass
    <2>3. removeMember => ps'.pc = "release" BY Zenon, <1>1 DEF removeMember, Pass
    <2>4. Stage => ps'.pc = "start" BY Zenon, <1>1 DEF Stage, Pass
    <2> QED BY Zenon, <1>13, <2>1, <2>2, <2>3, <2>4
  <1> QED
    BY <1>3, <1>4, <1>5, <1>6, <1>7, <1>9, <1>10, <1>11, <1>12, <1>13, Zenon DEF Next, Reconcile

-----------------------------------------------------------------------------
(* Theorems, of a cluster with one pool.                                   *)

\* ReconcilePool (reconciler.go) has at most one host of the pool in flight, whatever the
\* API does meanwhile and wherever a pass is cut short, as long as RegisterHost has not
\* taken a host in flight, failed or half bound from its pool.
THEOREM OneAtOnce == ASSUME OnePool PROVE Spec => []OneProvisioning
  <1>1. ProvisionInv => OneProvisioning
    <2> SUFFICES ASSUME ProvisionInv, ~given.hidden, NEW p \in Pools PROVE Cardinality(HostsIn(p, "PROVISIONING")) <= 1
      BY Zenon DEF OneProvisioning
    <2>1. HostsIn(p, "PROVISIONING") \subseteq Hosts BY Zenon DEF HostsIn, InPool
    <2>2. IsFiniteSet(HostsIn(p, "PROVISIONING")) BY Zenon, <2>1, HostsAssumption, FS_Subset
    <2>3. \A g, h \in HostsIn(p, "PROVISIONING") : g = h BY Zenon DEF ProvisionInv, HostInv, HostsIn, InPool
    <2> QED BY Zenon, <2>2, <2>3, AtMostOne
  <1> QED BY <1>1, ProvisionInvariant, PTL

\* bind (reconciler.go) never gives two hosts the same node, as long as RegisterHost has
\* not taken a half bound host from its pool, where the pass looks for claimed addresses.
THEOREM AddressesOnce == ASSUME OnePool PROVE Spec => []AddrOnce
  <1>1. ProvisionInv => AddrOnce BY Zenon DEF ProvisionInv, HostInv, AddrOnce, HostsIn, InPool
  <1> QED BY <1>1, ProvisionInvariant, PTL

\* bind and scaleIn (reconciler.go) order their writes so that a member of the pool is the
\* node of a READY host at every moment, unless the host was deregistered.
THEOREM MembersReady == ASSUME OnePool PROVE Spec => []MemberIsReady
  <1>1. ProvisionInv => MemberIsReady BY Zenon DEF ProvisionInv, HostInv
  <1> QED BY <1>1, ProvisionInvariant, PTL

\* newJoinedNode's reasoning (reconciler.go): as long as one host at a time is staged and
\* awaited and none was given up or hidden, a READY host is bound to the node it booted.
THEOREM BoundRight == ASSUME OnePool PROVE Spec => []BoundUntilGiven
  <1>1. ProvisionInv => BoundUntilGiven BY Zenon DEF ProvisionInv, AwaitedInv, BoundUntilGiven
  <1> QED BY <1>1, ProvisionInvariant, PTL

\* No pass stages or starts a machine that is a member, although it decides on copies.
THEOREM MembersNotRestaged == ASSUME OnePool PROVE Spec => []NeverRestaged
  <1>1. ASSUME ProvisionInv PROVE NeverRestaged
    <2> SUFFICES ASSUME ps.pc \in Staging, OneAtATime, NEW p \in Pools, ps.cur \in pool[p].members
                 PROVE  FALSE
      BY Zenon DEF NeverRestaged, Staging
    <2>1. given.deregistered = {} BY Zenon DEF OneAtATime
    <2>2. PICK h \in Hosts : host[h].state = "READY" /\ host[h].addr = ps.cur
      BY Zenon, <1>1, <2>1 DEF ProvisionInv, HostInv, MemberIsReady
    <2>3. host[ps.cur].state = "READY" BY Zenon, <1>1, <2>2 DEF ProvisionInv, AwaitedInv, BoundToReady
    <2>4. ps.hosts[ps.cur].state = "REGISTERED" /\ CopiesHold
      BY Zenon, <1>1 DEF ProvisionInv, PassInv, Staging
    <2>5. ps.cur \in Hosts BY Zenon, <1>1 DEF ProvisionInv, PassInv, Staging
    <2> QED BY Zenon, <2>3, <2>4, <2>5 DEF CopiesHold, Same, Renewed
  <1> QED BY <1>1, ProvisionInvariant, PTL

\* While a host of the pool is FAILED, ReconcilePool (reconciler.go) puts no further host to
\* provisioning, on stale copies or not, unless a host was hidden from a pass.
THEOREM FailureHaltsPool == ASSUME OnePool PROVE Spec => FailureHalts
  <1>1. ProvisionInv /\ [Next]_vars =>
          [\A p \in Pools, h \in Hosts :
             ~given.hidden /\ HostsIn(p, "FAILED") # {} /\ host[h].pool = p /\ host[h].state # "PROVISIONING"
               => host'[h].state # "PROVISIONING"]_vars
    <2> SUFFICES ASSUME ProvisionInv, Next, NEW p \in Pools, NEW h \in Hosts, ~given.hidden,
                        HostsIn(p, "FAILED") # {}, host[h].state # "PROVISIONING", host'[h].state = "PROVISIONING"
                 PROVE  FALSE
      OBVIOUS
    <2>1. startProvisioning BY Zenon, OnlyStarted
    <2>2. NoneHeld BY Zenon, <2>1 DEF ProvisionInv, PassInv, Staging, startProvisioning
    <2> QED BY Zenon, <2>2 DEF NoneHeld, HostsIn, InPool
  <1> QED BY <1>1, ProvisionInvariant, PTL DEF Spec, FailureHalts

\* scaleIn (reconciler.go) takes a node the cluster listed from the members only when it is
\* cordoned, on every retry of an interrupted release.
THEOREM DrainedThenReleased == ASSUME OnePool PROVE Spec => DrainedBeforeRelease
  <1>1. Init => DrainedInv
    <2>1. Init => ps = NoPass BY Zenon DEF Init
    <2> QED BY Zenon, <2>1, NoPassFields DEF DrainedInv
  <1>2. ProvisionInv /\ DrainedInv /\ [Next]_vars => DrainedInv' BY Zenon, DrainedStep
  <1>3. ProvisionInv /\ DrainedInv /\ [Next]_vars =>
          [\A p \in Pools : \A a \in pool[p].members \ pool'[p].members :
             a \in ps.listed => node[a].joined /\ node[a].cordoned]_vars
    <2> SUFFICES ASSUME ProvisionInv, DrainedInv, Next, NEW p \in Pools, NEW a \in pool[p].members,
                        a \notin pool'[p].members, a \in ps.listed
                 PROVE  node[a].joined /\ node[a].cordoned
      OBVIOUS
    <2>1. removeMember /\ a = ps.addr BY Zenon, OnlyRemoved
    <2> QED BY Zenon, <2>1 DEF DrainedInv, removeMember
  <1> QED BY <1>1, <1>2, <1>3, ProvisionInvariant, PTL DEF Spec, DrainedBeforeRelease
============================================================================
