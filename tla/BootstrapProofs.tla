-------------------------- MODULE BootstrapProofs --------------------------
(***************************************************************************)
(* Creating and deleting a cluster, for any number of requests, crashes,   *)
(* faults, migrations and calls for workers.                               *)
(*                                                                         *)
(* The properties are about a cluster whose last deletion was complete     *)
(* (clean).  PhaseOK says what each phase of the record stands for, in     *)
(* terms of the credential store in use, the staged files and the node;    *)
(* PutOK, StagingOK, SeedOK and StoreOK what a pass has done of the way to *)
(* the next one.  That each bundle is new ties a configuration to the      *)
(* cluster it was rendered for (Fresh, Only).                              *)
(***************************************************************************)
EXTENDS StagingProofs

-----------------------------------------------------------------------------
(* What the phases stand for.                                              *)

\* Where there is a configuration of the control-plane host.
World == {node.config, file[CpMac]["generic"].config, job["bootstrap"].config} \ {NoConfig}

\* No configuration has this bundle; or only this one has.
Fresh(pki) == \A c \in World : c.secrets # pki
Only(pki, spec) == \A c \in World : c.secrets = pki => c = Rendering(pki, spec)

IsStaged(spec) ==
    /\ file[CpMac]["group"].state = "whole"
    /\ file[CpMac]["generic"].config = Rendering(Secrets, spec)

\* READY, with the credentials that nobody has exchanged since.
IsReady(spec) ==
    /\ inv = {"Cluster", "NodePool", "Machine"}
    /\ node.etcd /\ node.api
    /\ node.config.secrets > 0
    /\ node.config = Rendering(node.config.secrets, spec)
    /\ file[CpMac]["generic"].config = node.config
    /\ \A f \in Fields \ lost : creds[backend][f] = node.config.secrets

PhaseOK(phase, spec) ==
    /\ phase \in {"none", "NOT_BOOTSTRAPPED"} => creds[backend] = NoCreds
    /\ phase = "GENERATING_SECRETS" => Talos = Absent /\ Fresh(Secrets)
    /\ phase = "STAGING" => Talos \in {Absent, Blank, Secrets}
    /\ phase \in {"AWAITING_INSTALL", "BOOTSTRAPPING", "AWAITING_HEALTHY"} =>
         Talos \in {Blank, Secrets} /\ IsStaged(spec)
    /\ phase \in {"STAGING", "AWAITING_INSTALL", "BOOTSTRAPPING", "AWAITING_HEALTHY"} =>
         Secrets > 0 /\ Only(Secrets, spec)
    /\ phase \in {"BOOTSTRAPPING", "AWAITING_HEALTHY"} => node.config = Rendering(Secrets, spec)
    /\ phase = "AWAITING_HEALTHY" => node.etcd
    /\ phase = "READY" => IsReady(spec)

-----------------------------------------------------------------------------
(* What a pass has done.                                                   *)

PutOK ==
    pass.pc = "put" =>
        /\ pass.then = "store" => Fresh(pass.todo[1][2])
        /\ pass.then = "matchbox" =>
             /\ pass.pki = Secrets
             /\ pass.todo = <<<<"kube", Blank>>>> => Talos = Secrets
        /\ pass.then = "seedCluster" =>
             /\ node.api
             /\ pass.todo \in {<<<<"talos", Secrets>>, <<"kube", Secrets>>>>, <<<<"kube", Secrets>>>>}
             /\ pass.todo = <<<<"kube", Secrets>>>> => Talos = Secrets

StagingOK ==
    /\ pass.pc \in {"matchbox", "staging"} => pass.pki = Secrets /\ Talos = Secrets
    /\ pass.pc = "staging" => job["bootstrap"].config = Rendering(Secrets, pass.cb.spec)
    /\ job["bootstrap"].pc \in {"mirror", "create", "copy", "rename", "profile", "group", "ok"} =>
         file[CpMac]["generic"].config = Rendering(Secrets, pass.cb.spec)
    /\ job["bootstrap"].pc = "ok" => file[CpMac]["group"].state = "whole"

SeedOK ==
    /\ pass.pc \in {"seedCluster", "seedPool", "seedMachine"} =>
         node.api /\ Talos = Secrets /\ Kube = Secrets
    /\ pass.pc \in {"seedPool", "seedMachine"} => "Cluster" \in inv
    /\ pass.pc = "seedMachine" => "NodePool" \in inv

StoreOK == pass.pc = "store" /\ pass.then # "FAILED" => PhaseOK(pass.then, pass.cb.spec)

\* Nothing is under way that the record does not say.
Recorded ==
    /\ del = "idle"
    /\ create.pc # "idle" => cb.phase = "none"
    /\ cb.phase = "none" => pass.pc = "idle" /\ inv = {}
    /\ pass.pc # "idle" => pass.cb.phase = cb.phase /\ pass.cb.spec = cb.spec

CleanInv == clean => Recorded /\ PhaseOK(cb.phase, cb.spec) /\ PutOK /\ StagingOK /\ SeedOK /\ StoreOK

-----------------------------------------------------------------------------
(* What the phases stand for stays true.                                   *)

\* Every configuration there is comes from a bundle that was generated.
LEMMA WorldBundles ==
  ASSUME Base
  PROVE  \A c \in World : c \in Rendered /\ c.secrets \in 1..pkis /\ c.secrets > 0 /\ c.secrets # Blank
<1>1. World \subseteq Rendered /\ pkis \in Nat
  BY Zenon DEF Base, BootShapes, DriverInv, World
<1> QED
  BY <1>1, RenderedBundle DEF Blank

\* A phase before READY stays what it is when no configuration is added, and the staged
\* files and the node stay as they are for the phases that rest on them.
LEMMA PhaseKept ==
  ASSUME NEW phase, NEW spec, phase # "READY", PhaseOK(phase, spec),
         creds'[backend'] = creds[backend], World' \subseteq World,
         phase \in {"AWAITING_INSTALL", "BOOTSTRAPPING", "AWAITING_HEALTHY"} =>
           /\ file'[CpMac]["group"].state = file[CpMac]["group"].state
           /\ file'[CpMac]["generic"].config = file[CpMac]["generic"].config,
         phase \in {"BOOTSTRAPPING", "AWAITING_HEALTHY"} => node'.config = node.config,
         phase = "AWAITING_HEALTHY" => node'.etcd
  PROVE  PhaseOK(phase, spec)'
<1>1. Secrets' = Secrets /\ Talos' = Talos
  BY Zenon DEF Secrets, Talos
<1>2. \A pki : (Fresh(pki) => Fresh(pki)') /\ (Only(pki, spec) => Only(pki, spec)')
  BY Zenon DEF Fresh, Only
<1>3. phase \in {"none", "NOT_BOOTSTRAPPED"} => creds'[backend'] = NoCreds
  BY Zenon DEF PhaseOK
<1>4. phase = "GENERATING_SECRETS" => Talos' = Absent /\ Fresh(Secrets)'
  BY Zenon, <1>1, <1>2 DEF PhaseOK
<1>5. phase = "STAGING" => Talos' \in {Absent, Blank, Secrets'}
  BY Zenon, <1>1 DEF PhaseOK
<1>6. phase \in {"AWAITING_INSTALL", "BOOTSTRAPPING", "AWAITING_HEALTHY"} =>
        Talos' \in {Blank, Secrets'} /\ IsStaged(spec)'
  BY Zenon, <1>1 DEF PhaseOK, IsStaged
<1>7. phase \in {"STAGING", "AWAITING_INSTALL", "BOOTSTRAPPING", "AWAITING_HEALTHY"} =>
        Secrets' > 0 /\ Only(Secrets, spec)'
  BY Zenon, <1>1, <1>2 DEF PhaseOK
<1>8. phase \in {"BOOTSTRAPPING", "AWAITING_HEALTHY"} => node'.config = Rendering(Secrets', spec)
  BY Zenon, <1>1 DEF PhaseOK
<1> QED
  BY Zenon, <1>3, <1>4, <1>5, <1>6, <1>7, <1>8 DEF PhaseOK

\* READY.
LEMMA ReadyKept ==
  ASSUME NEW spec, IsReady(spec), UNCHANGED <<inv, creds, backend, lost>>,
         node'.config = node.config, node'.etcd, node'.api,
         file'[CpMac]["generic"].config = file[CpMac]["generic"].config
  PROVE  IsReady(spec)'
BY Zenon DEF IsReady

\* A step that touches neither the control plane's files nor its node nor its credentials.
LEMMA PhaseSame ==
  ASSUME NEW phase, NEW spec, PhaseOK(phase, spec), CpSame, UNCHANGED <<creds, backend, node>>,
         phase = "READY" => UNCHANGED <<inv, lost>>
  PROVE  PhaseOK(phase, spec)'
<1>1. /\ World' = World
      /\ file'[CpMac]["group"].state = file[CpMac]["group"].state
      /\ file'[CpMac]["generic"].config = file[CpMac]["generic"].config
  BY Zenon DEF CpSame, CpFiles, Kinds, World
<1>2. CASE phase # "READY"
  <2>1. phase = "AWAITING_HEALTHY" => node'.etcd
    BY Zenon DEF PhaseOK
  <2> QED
    BY Zenon, <1>1, <1>2, <2>1, PhaseKept
<1>3. CASE phase = "READY"
  <2>1. IsReady(spec)
    BY Zenon, <1>3 DEF PhaseOK
  <2>2. node.etcd /\ node.api
    BY Zenon, <2>1 DEF IsReady
  <2>3. IsReady(spec)'
    BY Zenon, <1>1, <1>3, <2>1, <2>2, ReadyKept
  <2> QED
    BY Zenon, <1>3, <2>3 DEF PhaseOK
<1> QED
  BY Zenon, <1>2, <1>3

\* The files and jobs are as they were.
LEMMA FilesSame ==
  ASSUME UNCHANGED matchboxVars
  PROVE  CpSame
BY DEF CpSame, CpFiles, matchboxVars

-----------------------------------------------------------------------------
(* A step of a pass.                                                       *)

\* What is known of a pass of a cluster that is clean.
LEMMA CleanPass ==
  ASSUME Base, CleanInv, clean, pass.pc # "idle"
  PROVE  /\ pass.cb.phase = cb.phase /\ pass.cb.spec = cb.spec /\ cb.phase \in Working /\ cb.phase # "none"
         /\ PhaseOK(cb.phase, cb.spec)
         /\ del = "idle" /\ create.pc = "idle"
<1>1. Recorded /\ PhaseOK(cb.phase, cb.spec)
  BY Zenon DEF CleanInv
<1>2. pass.cb.phase \in Working /\ pass.cb.phase = cb.phase /\ pass.cb.spec = cb.spec
  BY Zenon, <1>1 DEF Recorded, Base, PassInv, InPhase
<1>3. cb.phase # "none" /\ cb.phase # "READY"
  BY Zenon, <1>2 DEF Working
<1> QED
  BY Zenon, <1>1, <1>2, <1>3 DEF Recorded

\* A pass whose record is the cluster's still.
LEMMA Recording ==
  ASSUME Base, CleanInv, clean, UNCHANGED <<cb, create, del>>,
         pass'.pc # "idle" => pass'.cb.phase = cb.phase /\ pass'.cb.spec = cb.spec /\ cb.phase # "none",
         cb.phase = "none" => inv' = {}
  PROVE  Recorded'
<1>1. Recorded
  BY Zenon DEF CleanInv
<1>2. del' = "idle" /\ (create'.pc # "idle" => cb'.phase = "none")
  BY Zenon, <1>1 DEF Recorded
<1>3. cb'.phase = "none" => pass'.pc = "idle" /\ inv' = {}
  BY Zenon, <1>1 DEF Recorded
<1> QED
  BY Zenon, <1>2, <1>3 DEF Recorded

\* A step of a pass that leaves the store, the node and the inventory as they are.
LEMMA PassClean ==
  ASSUME Base, Base', CleanInv, clean, UNCHANGED matchboxVars,
         UNCHANGED <<cb, inv, creds, backend, node, create, del, lost>>,
         pass'.pc # "idle" => pass'.cb.phase = cb.phase /\ pass'.cb.spec = cb.spec /\ cb.phase # "none",
         pass'.pc \notin {"matchbox", "staging", "seedCluster", "seedPool", "seedMachine"},
         PutOK', StoreOK'
  PROVE  CleanInv'
<1>1. Recorded'
  <2>1. cb.phase = "none" => inv' = {}
    BY Zenon DEF CleanInv, Recorded
  <2> QED
    BY Zenon, <2>1, Recording
<1>2. PhaseOK(cb.phase, cb.spec)'
  <2>1. PhaseOK(cb.phase, cb.spec)
    BY Zenon DEF CleanInv
  <2> QED
    BY Zenon, <2>1, FilesSame, PhaseSame
<1>3. StagingOK'
  BY Zenon DEF Base, DriverInv, StagingOK
<1>4. SeedOK'
  BY Zenon DEF SeedOK
<1> QED
  BY Zenon, <1>1, <1>2, <1>3, <1>4 DEF CleanInv

\* The steps of a pass before etcd is bootstrapped, and its read of the kubeconfig.
LEMMA EarlyClean ==
  ASSUME Base, Base', CleanInv, clean,
         StartPass \/ Park \/ PassFails \/ SecretsPresent \/ GenerateSecrets \/ StageRenders
           \/ NodeReachable \/ FetchKubeconfig
  PROVE  CleanInv'
\* The pass ends and stores nothing.
<1>1. ASSUME Park \/ PassFails PROVE CleanInv'
  <2> USE <1>1
  <2>1. pass'.pc = "idle"
    BY Zenon, NoPassTyped DEF Park, PassFails, Abort
  <2>2. PutOK' /\ StoreOK'
    BY Zenon, <2>1 DEF PutOK, StoreOK
  <2> QED
    BY Zenon, <2>1, <2>2, PassClean DEF Park, PassFails
\* A new record has no credentials; a bundle that is stored is that of no configuration.
<1>2. ASSUME StartPass PROVE CleanInv'
  <2> USE <1>2
  <2>1. /\ pass'.cb.phase = cb.phase /\ pass'.cb.spec = cb.spec /\ cb.phase \in Working
        /\ pass'.pc \in {"store", "secrets", "stage", "install", "etcd", "kube"}
        /\ pass'.pc = "store" => \/ pass'.then = "FAILED"
                                 \/ cb.phase = "NOT_BOOTSTRAPPED" /\ pass'.then = "GENERATING_SECRETS"
    BY Zenon, StartFields DEF Base
  <2>2. PhaseOK(cb.phase, cb.spec) /\ CpSame /\ UNCHANGED <<creds, backend, node>>
    BY Zenon, FilesSame DEF CleanInv, StartPass
  <2>3. ASSUME cb.phase = "NOT_BOOTSTRAPPED"
        PROVE  \A spec : PhaseOK("GENERATING_SECRETS", spec)'
    <3>1. creds[backend] = NoCreds
      BY Zenon, <2>2, <2>3 DEF PhaseOK
    <3>2. Talos = Absent /\ Secrets = Absent
      BY Zenon, <3>1 DEF NoCreds, Talos, Secrets, Fields
    <3>3. Fresh(Secrets)
      BY <3>2, WorldBundles DEF Fresh, Absent
    <3>4. \A spec : PhaseOK("GENERATING_SECRETS", spec)
      BY Zenon, <3>2, <3>3 DEF PhaseOK
    <3> QED
      BY Zenon, <2>2, <3>4, PhaseSame
  <2>4. StoreOK'
    BY Zenon, <2>1, <2>3 DEF StoreOK
  <2>5. PutOK'
    BY Zenon, <2>1 DEF PutOK
  <2> QED
    BY Zenon, <2>1, <2>4, <2>5, PassClean DEF StartPass, Working
\* The bundle that is there has not been used, and is kept.
<1>3. ASSUME SecretsPresent PROVE CleanInv'
  <2> USE <1>3
  <2>1. pass \in Pass /\ pass.pc = "secrets" /\ pass.cb.phase = "GENERATING_SECRETS" /\ Secrets > 0
    BY Zenon DEF SecretsPresent, Base, BootShapes, PassInv, InPhase, Secrets
  <2>2. pass'.pc = "store" /\ pass'.cb = pass.cb /\ pass'.then = "STAGING"
    BY Zenon, <2>1, StoreFields DEF SecretsPresent, Thens
  <2>3. pass.cb.phase = cb.phase /\ pass.cb.spec = cb.spec /\ PhaseOK("GENERATING_SECRETS", cb.spec)
    BY Zenon, <2>1, CleanPass
  <2>4. Talos = Absent /\ Fresh(Secrets)
    BY Zenon, <2>3 DEF PhaseOK
  <2>5. Only(Secrets, cb.spec)
    BY Zenon, <2>4 DEF Fresh, Only
  <2>6. PhaseOK("STAGING", cb.spec)
    BY Zenon, <2>1, <2>4, <2>5 DEF PhaseOK
  <2>7. PhaseOK("STAGING", cb.spec)'
    BY Zenon, <2>6, FilesSame, PhaseSame DEF SecretsPresent
  <2>8. StoreOK' /\ PutOK'
    BY Zenon, <2>2, <2>3, <2>7 DEF StoreOK, PutOK, SecretsPresent
  <2> QED
    BY Zenon, <2>1, <2>2, <2>3, <2>8, PassClean DEF SecretsPresent
\* The new bundle has a number that no configuration has.
<1>4. ASSUME GenerateSecrets PROVE CleanInv'
  <2> USE <1>4
  <2>1. pass.pc = "secrets" /\ pass.cb.phase = cb.phase /\ pass.cb.spec = cb.spec /\ cb.phase # "none"
    BY Zenon, CleanPass DEF GenerateSecrets
  <2>2. pass'.pc = "put" /\ pass'.then = "store" /\ pass'.todo = <<<<"secrets", pkis + 1>>>> /\ pass'.cb = pass.cb
    BY Zenon, GenerateKept
  <2>3. Fresh(pkis + 1)
    BY WorldBundles DEF Fresh, Base, BootShapes
  <2>4. World' = World
    BY Zenon DEF GenerateSecrets, World, matchboxVars
  <2>5. pass'.todo[1][2] = pkis + 1
    BY <2>2
  <2>6. PutOK' /\ StoreOK'
    BY Zenon, <2>2, <2>3, <2>4, <2>5 DEF PutOK, StoreOK, Fresh
  <2> QED
    BY Zenon, <2>1, <2>2, <2>6, PassClean DEF GenerateSecrets
\* The client configurations to be stored are of the stored bundle.
<1>5. ASSUME StageRenders PROVE CleanInv'
  <2> USE <1>5
  <2>1. pass.pc = "stage" /\ pass.cb.phase = cb.phase /\ pass.cb.spec = cb.spec /\ cb.phase # "none"
    BY Zenon, CleanPass DEF StageRenders
  <2>2. /\ pass'.pc = "put" /\ pass'.then = "matchbox" /\ pass'.cb = pass.cb
        /\ pass'.pki = Secrets /\ pass'.todo = <<<<"talos", Secrets>>, <<"kube", Blank>>>>
    BY Zenon, RendersKept
  <2>3. Secrets' = Secrets
    BY Zenon DEF StageRenders, Secrets
  <2>4. pass'.todo # <<<<"kube", Blank>>>>
    BY Zenon, <2>2, TwoTodo
  <2>5. PutOK' /\ StoreOK'
    BY Zenon, <2>2, <2>3, <2>4 DEF PutOK, StoreOK
  <2> QED
    BY Zenon, <2>1, <2>2, <2>5, PassClean DEF StageRenders
\* A node that answers has the configuration that was staged for it.
<1>6. ASSUME NodeReachable PROVE CleanInv'
  <2> USE <1>6
  <2>1. pass \in Pass /\ pass.pc = "install" /\ pass.cb.phase = "AWAITING_INSTALL"
    BY Zenon DEF NodeReachable, Base, BootShapes, PassInv, InPhase
  <2>2. pass'.pc = "store" /\ pass'.cb = pass.cb /\ pass'.then = "BOOTSTRAPPING"
    BY Zenon, <2>1, StoreFields DEF NodeReachable, Thens
  <2>3. pass.cb.phase = cb.phase /\ pass.cb.spec = cb.spec /\ PhaseOK("AWAITING_INSTALL", cb.spec)
    BY Zenon, <2>1, CleanPass
  <2>4. Talos \in {Blank, Secrets} /\ IsStaged(cb.spec) /\ Secrets > 0 /\ Only(Secrets, cb.spec)
    BY Zenon, <2>3 DEF PhaseOK
  <2>5. node.config # NoConfig /\ Talos = node.config.secrets /\ node.config.secrets > 0
    BY SMTT(30), TrustedNode DEF NodeReachable, Trusted, Base, BootShapes
  <2>6. node.config.secrets = Secrets
    BY <2>4, <2>5 DEF Blank
  <2>7. node.config = Rendering(Secrets, cb.spec)
    BY Zenon, <2>4, <2>5, <2>6 DEF Only, World
  <2>8. PhaseOK("BOOTSTRAPPING", cb.spec)
    BY Zenon, <2>4, <2>7 DEF PhaseOK
  <2>9. PhaseOK("BOOTSTRAPPING", cb.spec)'
    BY Zenon, <2>8, FilesSame, PhaseSame DEF NodeReachable
  <2>10. StoreOK' /\ PutOK'
    BY Zenon, <2>2, <2>3, <2>9 DEF StoreOK, PutOK, NodeReachable
  <2> QED
    BY Zenon, <2>1, <2>2, <2>3, <2>10, PassClean DEF NodeReachable
\* The node that answers has the stored bundle, so that the kubeconfig is of it too.
<1>7. ASSUME FetchKubeconfig PROVE CleanInv'
  <2> USE <1>7
  <2>1. pass.pc = "kube" /\ pass.cb.phase = "AWAITING_HEALTHY"
    BY Zenon DEF FetchKubeconfig, Base, PassInv, InPhase
  <2>2. pass.cb.phase = cb.phase /\ pass.cb.spec = cb.spec /\ PhaseOK("AWAITING_HEALTHY", cb.spec)
    BY Zenon, <2>1, CleanPass
  <2>3. node.config = Rendering(Secrets, cb.spec)
    BY Zenon, <2>2 DEF PhaseOK
  <2>4. node.config.secrets = Secrets /\ Talos = Secrets
    BY <2>3, RenderedFrom, TrustedNode DEF FetchKubeconfig
  <2>5. /\ pass'.pc = "put" /\ pass'.then = "seedCluster" /\ pass'.cb = pass.cb
        /\ pass'.todo = <<<<"talos", Secrets>>, <<"kube", Secrets>>>>
    BY Zenon, <2>4, FetchKept
  <2>6. UNCHANGED <<creds, backend, node>> /\ node.api
    BY Zenon DEF FetchKubeconfig
  <2>7. Secrets' = Secrets /\ Talos' = Talos /\ node'.api
    BY Zenon, <2>6 DEF Secrets, Talos
  <2>8. pass'.todo # <<<<"kube", Secrets>>>>
    BY <2>5, TwoTodo
  <2>9. PutOK' /\ StoreOK'
    BY Zenon, <2>5, <2>7, <2>8 DEF PutOK, StoreOK
  <2> QED
    BY Zenon, <2>1, <2>2, <2>5, <2>9, PassClean DEF FetchKubeconfig
<1> QED
  BY Zenon, <1>1, <1>2, <1>3, <1>4, <1>5, <1>6, <1>7

\* The steps of a pass that change etcd, the inventory or the record.
LEMMA LateClean ==
  ASSUME Base, Base', CleanInv, clean, BootstrapEtcd \/ SeedCluster \/ SeedPool \/ SeedMachine \/ PutRecord
  PROVE  CleanInv'
\* The node whose etcd is initialized is the one that was asked for.
<1>1. ASSUME BootstrapEtcd PROVE CleanInv'
  <2> USE <1>1
  <2>1. pass \in Pass /\ pass.pc = "etcd" /\ pass.cb.phase = "BOOTSTRAPPING"
    BY Zenon DEF BootstrapEtcd, Base, BootShapes, PassInv, InPhase
  <2>2. pass.cb.phase = cb.phase /\ pass.cb.spec = cb.spec /\ PhaseOK("BOOTSTRAPPING", cb.spec)
    BY Zenon, <2>1, CleanPass
  <2>3. node'.config = node.config /\ node'.etcd /\ UNCHANGED matchboxVars
    BY Zenon DEF BootstrapEtcd, Base, BootShapes
  <2>4. World' = World /\ CpSame
    BY Zenon, <2>3, FilesSame DEF World, matchboxVars
  <2>5. UNCHANGED <<creds, backend, cb, inv, create, del>>
    BY Zenon DEF BootstrapEtcd
  <2>6. PhaseOK("AWAITING_HEALTHY", cb.spec)' /\ PhaseOK("BOOTSTRAPPING", cb.spec)'
    <3>1. PhaseOK("BOOTSTRAPPING", cb.spec)'
      BY Zenon, <2>2, <2>3, <2>4, <2>5, PhaseKept DEF CpSame, CpFiles, Kinds
    <3> QED
      BY Zenon, <2>3, <3>1 DEF PhaseOK
  <2>7. \/ pass'.pc = "store" /\ pass'.cb = pass.cb /\ pass'.then = "AWAITING_HEALTHY"
        \/ pass'.pc = "idle"
    BY Zenon, <2>1, StoreFields, NoPassTyped DEF BootstrapEtcd, Abort, Thens
  <2>8. Recorded'
    <3>1. cb.phase = "none" => inv' = {}
      BY Zenon, <2>1, <2>2
    <3> QED
      BY Zenon, <2>1, <2>2, <2>5, <2>7, <3>1, Recording
  <2>9. PutOK' /\ SeedOK'
    BY Zenon, <2>7 DEF PutOK, SeedOK
  <2>10. StoreOK'
    BY Zenon, <2>2, <2>5, <2>6, <2>7 DEF StoreOK
  <2>11. StagingOK'
    BY Zenon, <2>7 DEF Base, DriverInv, StagingOK
  <2> QED
    BY Zenon, <2>1, <2>2, <2>5, <2>6, <2>8, <2>9, <2>10, <2>11 DEF CleanInv
\* The inventory is complete when the record is stored as READY.
<1>2. ASSUME SeedCluster \/ SeedPool \/ SeedMachine PROVE CleanInv'
  <2> USE <1>2
  <2>1. /\ pass \in Pass /\ pass.pc \in {"seedCluster", "seedPool", "seedMachine"}
        /\ pass.cb.phase = "AWAITING_HEALTHY" /\ inv \subseteq {"Cluster", "NodePool", "Machine"}
    BY Zenon DEF SeedCluster, SeedPool, SeedMachine, Seed, Base, BootShapes, PassInv, InPhase
  <2>2. /\ pass.cb.phase = cb.phase /\ pass.cb.spec = cb.spec /\ PhaseOK("AWAITING_HEALTHY", cb.spec)
    BY Zenon, <2>1, CleanPass
  <2>3. UNCHANGED <<cb, creds, backend, node, create, del, lost>> /\ CpSame
    BY Zenon, FilesSame DEF SeedCluster, SeedPool, SeedMachine, Seed
  <2>4. node.api /\ Talos = Secrets /\ Kube = Secrets
    BY Zenon, <2>1 DEF CleanInv, SeedOK
  <2>5. Secrets' = Secrets /\ Talos' = Talos /\ Kube' = Kube
    BY Zenon, <2>3 DEF Secrets, Talos, Kube
  <2>6. PhaseOK("AWAITING_HEALTHY", cb.spec)'
    BY Zenon, <2>2, <2>3, PhaseSame
  <2>7. \/ SeedCluster /\ pass'.pc = "seedPool" /\ pass'.cb = pass.cb
        \/ SeedPool /\ pass'.pc = "seedMachine" /\ pass'.cb = pass.cb
        \/ SeedMachine /\ pass'.pc = "store" /\ pass'.then = "READY" /\ pass'.cb = pass.cb
    BY Zenon, <2>1, ReplyFields, StoreFields DEF SeedCluster, SeedPool, SeedMachine, Seed, Thens
  <2>8. Recorded'
    BY Zenon, <2>1, <2>2, <2>3, <2>7, Recording
  <2>9. PutOK'
    BY Zenon, <2>7 DEF PutOK
  <2>10. SeedOK'
    <3>1. SeedCluster => "Cluster" \in inv'
      BY Zenon DEF SeedCluster, Seed
    <3>2. SeedPool => "Cluster" \in inv' /\ "NodePool" \in inv'
      BY Zenon DEF SeedPool, Seed, CleanInv, SeedOK
    <3> QED
      BY Zenon, <2>3, <2>4, <2>5, <2>7, <3>1, <3>2 DEF SeedOK
  <2>11. StagingOK'
    BY Zenon, <2>7 DEF Base, DriverInv, StagingOK
  <2>12. StoreOK'
    <3> SUFFICES ASSUME pass'.pc = "store" PROVE PhaseOK("READY", cb.spec)'
      BY Zenon, <2>2, <2>3, <2>7 DEF StoreOK
    <3>1. SeedMachine
      BY Zenon, <2>7
    <3>2. inv' = {"Cluster", "NodePool", "Machine"}
      BY Zenon, <2>1, <3>1 DEF SeedMachine, Seed, CleanInv, SeedOK
    <3>3. /\ node.config = Rendering(Secrets, cb.spec) /\ node.etcd /\ Secrets > 0
          /\ file[CpMac]["generic"].config = Rendering(Secrets, cb.spec)
      BY Zenon, <2>2 DEF PhaseOK, IsStaged
    <3>4. node.config.secrets = Secrets
      BY Zenon, <3>3, RenderedFrom
    <3>5. file'[CpMac]["generic"].config = node'.config
      BY Zenon, <2>3, <3>3 DEF CpSame, CpFiles, Kinds
    <3>6. /\ node'.config.secrets > 0 /\ node'.config = Rendering(node'.config.secrets, cb'.spec)
          /\ Talos' = node'.config.secrets /\ Kube' = node'.config.secrets /\ Secrets' = node'.config.secrets
          /\ node'.etcd /\ node'.api
      BY Zenon, <2>3, <2>4, <2>5, <3>3, <3>4
    <3>7. \A f \in Fields : creds'[backend'][f] = node'.config.secrets
      BY Zenon, <3>6 DEF Fields, Secrets, Talos, Kube
    <3>8. IsReady(cb.spec)'
      BY Zenon, <3>2, <3>5, <3>6, <3>7 DEF IsReady
    <3> QED
      BY Zenon, <2>3, <3>8 DEF PhaseOK
  <2> QED
    BY Zenon, <2>1, <2>2, <2>3, <2>6, <2>8, <2>9, <2>10, <2>11, <2>12 DEF CleanInv
\* The record becomes what the pass has made true.
<1>3. ASSUME PutRecord PROVE CleanInv'
  <2> USE <1>3
  <2>1. pass.pc = "store" /\ pass'.pc = "idle" /\ UNCHANGED <<creds, backend, node, inv, lost, create, del>>
    BY Zenon, NoPassTyped DEF PutRecord
  <2>2. pass.cb.spec = cb.spec /\ del = "idle" /\ create.pc = "idle"
    BY Zenon, <2>1, CleanPass
  <2>3. cb'.phase = pass.then /\ cb'.spec = pass.cb.spec /\ cb'.phase \in Working \cup {"READY", "FAILED"}
    BY Zenon, StoredPhase
  <2>4. cb'.phase # "none"
    BY Zenon, <2>3 DEF Working
  <2>5. PhaseOK(cb.phase, cb.spec)'
    <3>1. CASE pass.then = "FAILED"
      BY Zenon, <2>3, <3>1 DEF PhaseOK
    <3>2. CASE pass.then # "FAILED"
      <4>1. PhaseOK(pass.then, pass.cb.spec)
        BY Zenon, <2>1, <3>2 DEF CleanInv, StoreOK
      <4> DEFINE phase == pass.then
                 spec == pass.cb.spec
      <4>2. PhaseOK(phase, spec) /\ cb'.phase = phase /\ cb'.spec = spec
        BY Zenon, <2>3, <4>1
      <4> HIDE DEF phase, spec
      <4>3. CpSame
        BY Zenon, FilesSame DEF PutRecord
      <4>4. PICK p, s : p = phase /\ s = spec
        OBVIOUS
      <4>5. PhaseOK(p, s)'
        BY Zenon, <2>1, <4>2, <4>3, <4>4, PhaseSame
      <4> QED
        BY Zenon, <4>2, <4>4, <4>5
    <3> QED
      BY Zenon, <3>1, <3>2
  <2>6. Recorded'
    BY Zenon, <2>1, <2>2, <2>4 DEF Recorded
  <2>7. PutOK' /\ SeedOK' /\ StoreOK'
    BY Zenon, <2>1 DEF PutOK, SeedOK, StoreOK
  <2>8. StagingOK'
    BY Zenon, <2>1 DEF Base, DriverInv, StagingOK
  <2> QED
    BY Zenon, <2>5, <2>6, <2>7, <2>8 DEF CleanInv
<1> QED
  BY Zenon, <1>1, <1>2, <1>3

\* Credentials are written.
LEMMA PutClean ==
  ASSUME Base, Base', CleanInv, clean, PutItem \/ PutFile
  PROVE  CleanInv'
\* What a put changes.
<1>1. ASSUME NEW item \in [Fields -> Int], Puts(item)
      PROVE  /\ Secrets' = item["secrets"] /\ Talos' = item["talos"] /\ Kube' = item["kube"]
             /\ World' = World /\ CpSame /\ UNCHANGED <<cb, node, clean>>
             /\ pass.pc = "put" /\ pass.cb.phase = cb.phase /\ pass.cb.spec = cb.spec
             /\ PhaseOK(cb.phase, cb.spec) /\ PutOK
             /\ Recorded'
  <2> USE <1>1
  <2>1. UNCHANGED <<matchboxVars, cb, inv, backend, node, create, del, clean>> /\ pass.pc = "put"
    BY Zenon DEF PutItem, PutFile
  <2>2. creds'[backend'] = item
    BY Zenon, <2>1 DEF Puts, Base, BootShapes
  <2>3. /\ pass.cb.phase = cb.phase /\ pass.cb.spec = cb.spec /\ PhaseOK(cb.phase, cb.spec) /\ PutOK
        /\ cb.phase # "none"
    BY Zenon, <2>1, CleanPass DEF CleanInv
  <2>4. pass'.cb = pass.cb
    BY Zenon DEF Puts
  <2>5. Recorded'
    BY Zenon, <2>1, <2>3, <2>4, Recording
  <2> QED
    BY Zenon, <2>1, <2>2, <2>3, <2>5, FilesSame DEF Secrets, Talos, Kube, World, matchboxVars
\* A new bundle, which no configuration has.
<1>2. ASSUME pass.then = "store" PROVE CleanInv'
  <2> USE <1>2
  <2>1. pass.pc = "put" /\ pass.cb.phase = "GENERATING_SECRETS" /\ pkis \in Nat /\ creds[backend] \in [Fields -> Int]
    BY Zenon DEF PutItem, PutFile, Base, BootShapes, PassInv, InPhase
  <2>2. PICK p \in 1..pkis : pass.todo = <<<<"secrets", p>>>>
    BY Zenon, <2>1 DEF Base, PassInv, Todo
  <2>3. PICK v \in Int :
          /\ Puts([creds[backend] EXCEPT !["secrets"] = v])
          /\ \/ v = Blank /\ PutsStill(<<<<"secrets", p>>>>)
             \/ v = p /\ PutsDone
    <3>1. p \in Int /\ Blank \in Int /\ "secrets" \in Fields
      BY <2>1 DEF Blank, Fields
    <3> QED
      BY Zenon, <2>2, <3>1, PutOne
  <2> DEFINE item == [creds[backend] EXCEPT !["secrets"] = v]
  <2>4. item \in [Fields -> Int] /\ item["secrets"] = v /\ item["talos"] = Talos
    BY Zenon, <2>1 DEF Fields, Talos
  <2> HIDE DEF item
  <2>5. /\ Secrets' = v /\ Talos' = Talos /\ World' = World /\ UNCHANGED <<cb, clean>>
        /\ pass.cb.phase = cb.phase /\ pass.cb.spec = cb.spec
        /\ PhaseOK("GENERATING_SECRETS", cb.spec) /\ PutOK /\ Recorded'
    BY Zenon, <2>1, <2>3, <2>4, <1>1 DEF item
  <2>6. Talos = Absent /\ Fresh(p)
    BY SMTT(30), <2>1, <2>2, <2>5 DEF PhaseOK, PutOK
  <2>7. Fresh(Blank)
    BY Zenon, WorldBundles DEF Fresh
  <2>8. Fresh(p)' /\ Fresh(v)'
    BY Zenon, <2>3, <2>5, <2>6, <2>7 DEF Fresh
  <2>9. PhaseOK(cb.phase, cb.spec)'
    BY Zenon, <2>1, <2>5, <2>6, <2>8 DEF PhaseOK
  <2>10. pass'.cb = pass.cb
    BY Zenon, <2>3 DEF Puts
  <2>11. CASE v = Blank /\ PutsStill(<<<<"secrets", p>>>>)
    <3>1. pass'.pc = "put" /\ pass'.then = "store" /\ pass'.todo[1][2] = p
      BY <2>11 DEF PutsStill
    <3>2. PutOK' /\ StoreOK' /\ SeedOK'
      BY Zenon, <2>8, <3>1 DEF PutOK, StoreOK, SeedOK
    <3>3. StagingOK'
      BY Zenon, <3>1 DEF Base, DriverInv, StagingOK
    <3> QED
      BY Zenon, <2>5, <2>9, <3>2, <3>3 DEF CleanInv
  <2>12. CASE v = p /\ PutsDone
    <3>1. pass'.pc = "store" /\ pass'.then = "STAGING"
      BY Zenon, <2>12 DEF PutsDone
    <3>2. Only(Secrets, cb.spec)'
      BY Zenon, <2>5, <2>8 DEF Only, Fresh
    <3>3. PhaseOK("STAGING", cb.spec)'
      BY SMTT(30), <2>1, <2>5, <2>6, <2>12, <3>2 DEF PhaseOK
    <3>4. PutOK' /\ StoreOK' /\ SeedOK'
      BY Zenon, <2>5, <2>10, <3>1, <3>3 DEF PutOK, StoreOK, SeedOK
    <3>5. StagingOK'
      BY Zenon, <3>1 DEF Base, DriverInv, StagingOK
    <3> QED
      BY Zenon, <2>5, <2>9, <3>4, <3>5 DEF CleanInv
  <2> QED
    BY Zenon, <2>3, <2>11, <2>12
\* The client configurations: what the store has after a step, and what is still to come.
<1>3. ASSUME pass.then \in {"matchbox", "seedCluster"}, NEW t \in Int, NEW k \in Int,
             \/ pass.todo = <<<<"talos", t>>, <<"kube", k>>>>
             \/ pass.todo = <<<<"kube", k>>>> /\ Talos = t
      PROVE  \E item \in [Fields -> Int] :
               /\ Puts(item) /\ item["secrets"] = Secrets
               /\ \/ item["talos"] = Blank /\ PutsStill(<<<<"talos", t>>, <<"kube", k>>>>)
                  \/ item["talos"] = t /\ PutsStill(<<<<"kube", k>>>>)
                  \/ item["talos"] = t /\ item["kube"] = k /\ PutsDone
  <2> USE <1>3
  <2>1. creds[backend] \in [Fields -> Int] /\ Blank \in Int
    BY SMTT(30) DEF Base, BootShapes, Blank
  <2>2. CASE pass.todo = <<<<"kube", k>>>> /\ Talos = t
    <3>1. \E v \in {Blank, k} : /\ Puts([creds[backend] EXCEPT !["kube"] = v])
                                /\ PutsStill(<<<<"kube", k>>>>) \/ (v = k /\ PutsDone)
      BY Zenon, <2>2, PutOne DEF Fields
    <3>2. PICK v \in {Blank, k} : /\ Puts([creds[backend] EXCEPT !["kube"] = v])
                                  /\ PutsStill(<<<<"kube", k>>>>) \/ (v = k /\ PutsDone)
      BY Zenon, <3>1
    <3> DEFINE item == [creds[backend] EXCEPT !["kube"] = v]
    <3>3. item \in [Fields -> Int] /\ item["secrets"] = Secrets /\ item["talos"] = t /\ item["kube"] = v
      BY Zenon, <2>1, <2>2 DEF Fields, Secrets, Talos
    <3> HIDE DEF item
    <3> QED
      BY Zenon, <3>2, <3>3 DEF item
  <2>3. CASE pass.todo = <<<<"talos", t>>, <<"kube", k>>>>
    <3> DEFINE a == [creds[backend] EXCEPT !["talos"] = Blank]
               b == [creds[backend] EXCEPT !["talos"] = t]
               c == [creds[backend] EXCEPT !["talos"] = t, !["kube"] = k]
    <3>1. \/ Puts(a) /\ PutsStill(<<<<"talos", t>>, <<"kube", k>>>>)
          \/ Puts(b) /\ PutsStill(<<<<"kube", k>>>>)
          \/ Puts(c) /\ PutsDone
      BY Zenon, <2>3, PutTwo
    <3>2. /\ a \in [Fields -> Int] /\ a["secrets"] = Secrets /\ a["talos"] = Blank
          /\ b \in [Fields -> Int] /\ b["secrets"] = Secrets /\ b["talos"] = t
          /\ c \in [Fields -> Int] /\ c["secrets"] = Secrets /\ c["talos"] = t /\ c["kube"] = k
      BY Zenon, <2>1 DEF Fields, Secrets
    <3> HIDE DEF a, b, c
    <3> QED
      BY Zenon, <3>1, <3>2
  <2> QED
    BY Zenon, <2>2, <2>3
\* The first client configuration, of the bundle the control plane is staged with.
<1>4. ASSUME pass.then = "matchbox" PROVE CleanInv'
  <2> USE <1>4
  <2>1. pass.pc = "put" /\ pass.cb.phase = "STAGING" /\ PutOK
    BY Zenon DEF PutItem, PutFile, Base, PassInv, InPhase, CleanInv
  <2> Secrets \in Int /\ Blank \in Int
    BY StoredBundle DEF Blank
  <2>2. /\ pass.pki = Secrets
        /\ \/ pass.todo = <<<<"talos", Secrets>>, <<"kube", Blank>>>>
           \/ pass.todo = <<<<"kube", Blank>>>> /\ Talos = Secrets
    BY Zenon, <2>1 DEF Base, PassInv, Todo, PutOK
  <2>2a. \E item \in [Fields -> Int] :
             /\ Puts(item) /\ item["secrets"] = Secrets
             /\ \/ item["talos"] = Blank /\ PutsStill(<<<<"talos", Secrets>>, <<"kube", Blank>>>>)
                \/ item["talos"] = Secrets /\ PutsStill(<<<<"kube", Blank>>>>)
                \/ item["talos"] = Secrets /\ item["kube"] = Blank /\ PutsDone
    BY Zenon, <2>2, <1>3
  <2>3. PICK item \in [Fields -> Int] :
             /\ Puts(item) /\ item["secrets"] = Secrets
             /\ \/ item["talos"] = Blank /\ PutsStill(<<<<"talos", Secrets>>, <<"kube", Blank>>>>)
                \/ item["talos"] = Secrets /\ PutsStill(<<<<"kube", Blank>>>>)
                \/ item["talos"] = Secrets /\ PutsDone
    BY Zenon, <2>2a
  <2>4. /\ Secrets' = Secrets /\ Talos' = item["talos"] /\ World' = World /\ UNCHANGED <<cb, clean>>
        /\ pass.cb.phase = cb.phase /\ pass.cb.spec = cb.spec
        /\ PhaseOK("STAGING", cb.spec) /\ Recorded'
    BY Zenon, <2>1, <2>3, <1>1
  <2>5. pass'.cb = pass.cb /\ pass'.pki = Secrets
    BY Zenon, <2>2, <2>3 DEF Puts
  <2>6. PhaseOK(cb.phase, cb.spec)'
    <3>1. Secrets > 0 /\ Only(Secrets, cb.spec)
      BY Zenon, <2>4 DEF PhaseOK
    <3>2. Only(Secrets, cb.spec)'
      BY Zenon, <2>4, <3>1 DEF Only
    <3>3. Talos' \in {Blank, Secrets}
      BY Zenon, <2>3, <2>4
    <3> QED
      BY Zenon, <2>1, <2>4, <3>1, <3>2, <3>3 DEF PhaseOK
  <2>7. PutOK'
    <3>1. CASE PutsStill(<<<<"talos", Secrets>>, <<"kube", Blank>>>>)
      <4>1. pass'.todo # <<<<"kube", Blank>>>> /\ pass'.then = "matchbox"
        BY <3>1, TwoTodo DEF PutsStill
      <4> QED
        BY Zenon, <2>4, <2>5, <4>1 DEF PutOK
    <3>2. CASE item["talos"] = Secrets /\ PutsStill(<<<<"kube", Blank>>>>)
      BY Zenon, <2>4, <2>5, <3>2 DEF PutOK, PutsStill
    <3>3. CASE PutsDone
      BY Zenon, <3>3 DEF PutOK, PutsDone
    <3> QED
      BY Zenon, <2>3, <3>1, <3>2, <3>3
  <2>8. pass'.pc = "put" \/ (pass'.pc = "matchbox" /\ Talos' = Secrets)
    BY Zenon, <2>3, <2>4 DEF PutsStill, PutsDone
  <2>9. StoreOK' /\ SeedOK'
    BY Zenon, <2>8 DEF StoreOK, SeedOK
  <2>10. StagingOK'
    BY Zenon, <2>4, <2>5, <2>8 DEF Base, DriverInv, StagingOK
  <2> QED
    BY Zenon, <2>4, <2>6, <2>7, <2>9, <2>10 DEF CleanInv
\* The kubeconfig, with the talosconfig as it was.
<1>5. ASSUME pass.then = "seedCluster" PROVE CleanInv'
  <2> USE <1>5
  <2>1. pass.pc = "put" /\ pass.cb.phase = "AWAITING_HEALTHY" /\ PutOK /\ Secrets \in Int
    BY Zenon, StoredBundle DEF PutItem, PutFile, Base, PassInv, InPhase, CleanInv
  <2>2. /\ node.api
        /\ \/ pass.todo = <<<<"talos", Secrets>>, <<"kube", Secrets>>>>
           \/ pass.todo = <<<<"kube", Secrets>>>> /\ Talos = Secrets
    BY Zenon, <2>1 DEF PutOK
  <2>3. PICK item \in [Fields -> Int] :
             /\ Puts(item) /\ item["secrets"] = Secrets
             /\ \/ item["talos"] = Blank /\ PutsStill(<<<<"talos", Secrets>>, <<"kube", Secrets>>>>)
                \/ item["talos"] = Secrets /\ PutsStill(<<<<"kube", Secrets>>>>)
                \/ item["talos"] = Secrets /\ item["kube"] = Secrets /\ PutsDone
    BY Zenon, <2>1, <2>2, <1>3
  <2>4. /\ Secrets' = Secrets /\ Talos' = item["talos"] /\ Kube' = item["kube"] /\ World' = World
        /\ UNCHANGED <<cb, node, clean>> /\ CpSame
        /\ pass.cb.phase = cb.phase /\ pass.cb.spec = cb.spec
        /\ PhaseOK("AWAITING_HEALTHY", cb.spec) /\ Recorded'
    BY Zenon, <2>1, <2>3, <1>1
  <2>5. PhaseOK(cb.phase, cb.spec)'
    <3>1. /\ Secrets > 0 /\ Only(Secrets, cb.spec) /\ IsStaged(cb.spec) /\ node.etcd
          /\ node.config = Rendering(Secrets, cb.spec)
      BY Zenon, <2>4 DEF PhaseOK
    <3>2. Only(Secrets, cb.spec)'
      BY Zenon, <2>4, <3>1 DEF Only
    <3>3. IsStaged(cb.spec)'
      BY Zenon, <2>4, <3>1 DEF IsStaged, CpSame, CpFiles, Kinds
    <3>4. Talos' \in {Blank, Secrets}
      BY Zenon, <2>3, <2>4
    <3> QED
      BY Zenon, <2>1, <2>4, <3>1, <3>2, <3>3, <3>4 DEF PhaseOK
  <2>6. PutOK'
    <3>1. CASE PutsStill(<<<<"talos", Secrets>>, <<"kube", Secrets>>>>)
      <4>1. pass'.todo # <<<<"kube", Secrets>>>> /\ pass'.then = "seedCluster"
        BY <3>1, TwoTodo DEF PutsStill
      <4> QED
        BY Zenon, <2>2, <2>4, <3>1, <4>1 DEF PutOK, PutsStill
    <3>2. CASE item["talos"] = Secrets /\ PutsStill(<<<<"kube", Secrets>>>>)
      BY Zenon, <2>2, <2>4, <3>2 DEF PutOK, PutsStill
    <3>3. CASE PutsDone
      BY Zenon, <3>3 DEF PutOK, PutsDone
    <3> QED
      BY Zenon, <2>3, <3>1, <3>2, <3>3
  <2>7. pass'.pc = "put" \/ (pass'.pc = "seedCluster" /\ Talos' = Secrets /\ Kube' = Secrets)
    BY Zenon, <2>3, <2>4 DEF PutsStill, PutsDone
  <2>8. StoreOK' /\ SeedOK'
    BY Zenon, <2>2, <2>4, <2>7 DEF StoreOK, SeedOK
  <2>9. StagingOK'
    BY Zenon, <2>7 DEF Base, DriverInv, StagingOK
  <2> QED
    BY Zenon, <2>4, <2>5, <2>6, <2>8, <2>9 DEF CleanInv
<1>6. pass.then \in {"store", "matchbox", "seedCluster"}
  BY Zenon DEF PutItem, PutFile, Base, PassInv, InPhase
<1> QED
  BY Zenon, <1>2, <1>4, <1>5, <1>6

-----------------------------------------------------------------------------
(* Everything else.                                                        *)

\* The pass stays where it is, with the credentials and the files it works on.
PassStays ==
    /\ pass'.pc = pass.pc /\ pass'.then = pass.then /\ pass'.todo = pass.todo /\ pass'.pki = pass.pki
    /\ pass'.cb.phase = pass.cb.phase /\ pass'.cb.spec = pass.cb.spec
    /\ creds'[backend'] = creds[backend] /\ inv' = inv
    /\ CpSame /\ World' \subseteq World /\ (node.api /\ pass.cb.phase = "AWAITING_HEALTHY" => node'.api)

\* Then what the pass has done stays true, if the phase it is to store does.
LEMMA StaysClean ==
  ASSUME PassInv, PassStays, PutOK, StagingOK, SeedOK,
         pass.pc = "store" /\ pass.then # "FAILED" => PhaseOK(pass.then, pass.cb.spec)'
  PROVE  PutOK' /\ StagingOK' /\ SeedOK' /\ StoreOK'
<1>1. Secrets' = Secrets /\ Talos' = Talos /\ Kube' = Kube
  BY Zenon DEF PassStays, Secrets, Talos, Kube
<1>2. \A pki : Fresh(pki) => Fresh(pki)'
  BY Zenon DEF PassStays, Fresh
<1>3. PutOK'
  BY Zenon, <1>1, <1>2 DEF PassStays, PutOK, PassInv, InPhase
<1>4. StagingOK'
  BY Zenon, <1>1 DEF PassStays, StagingOK, CpSame, CpFiles, Kinds
<1>5. SeedOK'
  BY Zenon, <1>1 DEF PassStays, SeedOK, PassInv, InPhase
<1>6. StoreOK'
  BY Zenon DEF PassStays, StoreOK
<1> QED
  BY Zenon, <1>3, <1>4, <1>5, <1>6

\* The phase stored, and the one that is to be, while nothing changes but the time and the
\* bounds.
LEMMA PhasesSame ==
  ASSUME Base, CleanInv, clean, CpSame, UNCHANGED <<creds, backend, node, inv, lost>>,
         cb'.phase = cb.phase, cb'.spec = cb.spec, pass'.pc = pass.pc, pass'.then = pass.then,
         pass'.todo = pass.todo, pass'.pki = pass.pki, pass'.cb.phase = pass.cb.phase,
         pass'.cb.spec = pass.cb.spec, Recorded'
  PROVE  CleanInv'
<1>1. PhaseOK(cb.phase, cb.spec) /\ PutOK /\ StagingOK /\ SeedOK /\ StoreOK
  BY Zenon DEF CleanInv
<1>2. PhaseOK(cb.phase, cb.spec)'
  <2>1. ASSUME NEW phase, NEW spec, PhaseOK(phase, spec) PROVE PhaseOK(phase, spec)'
    BY Zenon, <2>1, PhaseSame
  <2> QED
    BY Zenon, <1>1, <2>1
<1>3. pass.pc = "store" /\ pass.then # "FAILED" => PhaseOK(pass.then, pass.cb.spec)'
  BY Zenon, <1>1, PhaseSame DEF StoreOK
<1>4. World' = World
  BY Zenon DEF World, CpSame, CpFiles, Kinds
<1>5. PassStays
  BY Zenon, <1>4 DEF PassStays
<1> QED
  BY Zenon, <1>1, <1>2, <1>3, <1>5, StaysClean DEF Base, CleanInv

\* Requests to create: the name has no credentials, and nothing is under way for it.
LEMMA CreateClean ==
  ASSUME Base, Base', CleanInv, clean, CreateChecks \/ CreateHost \/ CreateArms \/ DeregisterHost
  PROVE  CleanInv'
<1>1. Recorded /\ PhaseOK(cb.phase, cb.spec)
  BY Zenon DEF CleanInv
<1>2. CpSame /\ UNCHANGED <<creds, backend, node, inv, lost, pass, del>>
  BY Zenon, FilesSame DEF CreateChecks, CreateHost, CreateArms, DeregisterHost
<1>3. CASE CreateChecks
  <2>1. cb' = cb /\ cb.phase = "none"
    BY Zenon, <1>3 DEF CreateChecks
  <2>2. Recorded'
    BY Zenon, <1>1, <1>2, <2>1 DEF Recorded
  <2> QED
    BY Zenon, <1>2, <2>1, <2>2, PhasesSame
<1>4. CASE CreateHost \/ DeregisterHost
  <2>1. cb' = cb /\ (create'.pc # "idle" => create.pc # "idle")
    BY Zenon, <1>4 DEF CreateHost, DeregisterHost
  <2>2. Recorded'
    BY Zenon, <1>1, <1>2, <2>1 DEF Recorded
  <2> QED
    BY Zenon, <1>2, <2>1, <2>2, PhasesSame
<1>5. CASE CreateArms
  <2>1. /\ cb.phase = "none" /\ pass.pc = "idle" /\ cb'.phase = "NOT_BOOTSTRAPPED" /\ create'.pc = "idle"
        /\ del = "idle"
    BY Zenon, <1>1, <1>5 DEF CreateArms, Recorded
  <2>2. creds[backend] = NoCreds
    BY Zenon, <1>1, <2>1 DEF PhaseOK
  <2>3. Recorded'
    BY Zenon, <1>2, <2>1 DEF Recorded
  <2>4. PhaseOK(cb.phase, cb.spec)'
    BY Zenon, <1>2, <2>1, <2>2 DEF PhaseOK
  <2>5. PutOK' /\ SeedOK' /\ StoreOK' /\ StagingOK'
    BY Zenon, <1>2, <2>1 DEF Base, DriverInv, PutOK, SeedOK, StoreOK, StagingOK
  <2> QED
    BY Zenon, <2>3, <2>4, <2>5 DEF CleanInv
<1> QED
  BY Zenon, <1>3, <1>4, <1>5

\* A deletion that is complete leaves nothing under way.
LEMMA DeleteClean ==
  ASSUME Base, Base', CleanInv, DeleteRecords \/ DeleteCreds \/ DeleteCredsFails
  PROVE  CleanInv'
<1>1. CASE DeleteRecords
  BY Zenon, <1>1 DEF DeleteRecords, CleanInv
<1>2. CASE DeleteCredsFails
  BY Zenon, <1>2 DEF DeleteCredsFails, CleanInv, Recorded
<1>3. ASSUME DeleteCreds, clean' PROVE CleanInv'
  <2>1. /\ pass'.pc = "idle" /\ create'.pc = "idle" /\ cb'.phase = "none" /\ inv' = {} /\ del' = "idle"
    BY Zenon, <1>3 DEF DeleteCreds, Quiet
  <2>2. creds'[backend'] = NoCreds
    BY Zenon, <1>3 DEF DeleteCreds, Base, BootShapes
  <2>3. Recorded' /\ PhaseOK(cb.phase, cb.spec)'
    BY Zenon, <2>1, <2>2 DEF Recorded, PhaseOK
  <2>4. PutOK' /\ SeedOK' /\ StoreOK' /\ StagingOK'
    BY Zenon, <2>1 DEF Base, DriverInv, PutOK, SeedOK, StoreOK, StagingOK
  <2> QED
    BY Zenon, <2>3, <2>4 DEF CleanInv
<1> QED
  BY Zenon, <1>1, <1>2, <1>3 DEF CleanInv

\* Time passes.
LEMMA ExpireClean ==
  ASSUME Base, Base', CleanInv, clean, Expire
  PROVE  CleanInv'
<1>1. /\ cb'.phase = cb.phase /\ cb'.spec = cb.spec
      /\ pass'.pc = pass.pc /\ pass'.then = pass.then /\ pass'.todo = pass.todo /\ pass'.pki = pass.pki
      /\ pass'.cb.phase = pass.cb.phase /\ pass'.cb.spec = pass.cb.spec
  BY Zenon, ExpireKept
<1>2. CpSame /\ UNCHANGED <<creds, backend, node, inv, lost, create, del>>
  BY Zenon, FilesSame DEF Expire
<1>3. Recorded'
  BY Zenon, <1>1, <1>2 DEF CleanInv, Recorded
<1> QED
  BY Zenon, <1>1, <1>2, <1>3, PhasesSame

\* A machine that installs or comes up disturbs no pass that rests on the node.
LEMMA MachineClean ==
  ASSUME Base, Base', CleanInv, clean, Install \/ ApiServerUp
  PROVE  CleanInv'
\* A machine that installs has another configuration than the one that is staged, so that
\* no phase is reached that rests on the node.
<1>1. ASSUME NEW phase, NEW spec, PhaseOK(phase, spec)
      PROVE  /\ PhaseOK(phase, spec)'
             /\ phase = "AWAITING_HEALTHY" => ApiServerUp
  <2> USE <1>1
  <2>1. CpSame /\ UNCHANGED <<creds, backend, inv, lost>>
    BY Zenon, FilesSame DEF Install, ApiServerUp
  <2>2. /\ file'[CpMac]["group"].state = file[CpMac]["group"].state
        /\ file'[CpMac]["generic"].config = file[CpMac]["generic"].config
    BY Zenon, <2>1 DEF CpSame, CpFiles, Kinds
  <2>3. CASE Install
    <3>1. node'.config = file[CpMac]["generic"].config /\ file[CpMac]["generic"].config # node.config
      BY Zenon, <2>3 DEF Install
    <3>2. phase \notin {"BOOTSTRAPPING", "AWAITING_HEALTHY", "READY"}
      BY Zenon, <3>1 DEF PhaseOK, IsStaged, IsReady
    <3>3. World' \subseteq World
      BY Zenon, <2>1, <2>2, <3>1 DEF World, CpSame
    <3> QED
      BY Zenon, <2>1, <2>2, <3>2, <3>3, PhaseKept
  <2>4. CASE ApiServerUp
    <3>1. node'.config = node.config /\ node'.etcd = node.etcd /\ node'.api /\ node.etcd
      BY <2>4, Zenon DEF ApiServerUp, Base, BootShapes
    <3>2. World' \subseteq World
      BY Zenon, <2>1, <2>2, <3>1 DEF World, CpSame
    <3>3. CASE phase # "READY"
      BY Zenon, <2>1, <2>2, <2>4, <3>1, <3>2, <3>3, PhaseKept
    <3>4. CASE phase = "READY"
      <4>1. IsReady(spec)'
        BY Zenon, <2>1, <2>2, <3>1, <3>4, ReadyKept DEF PhaseOK
      <4> QED
        BY Zenon, <3>4, <4>1 DEF PhaseOK
    <3> QED
      BY Zenon, <3>3, <3>4
  <2> QED
    BY Zenon, <2>3, <2>4
<1>2. Recorded /\ PhaseOK(cb.phase, cb.spec) /\ PutOK /\ StagingOK /\ SeedOK /\ StoreOK
  BY Zenon DEF CleanInv
<1>3. CpSame /\ UNCHANGED <<cb, inv, creds, backend, pass, create, del, lost>>
  BY Zenon, FilesSame DEF Install, ApiServerUp
<1>4. PhaseOK(cb.phase, cb.spec)' /\ (cb.phase = "AWAITING_HEALTHY" => ApiServerUp)
  BY Zenon, <1>2, <1>3, <1>1
<1>5. pass.pc = "store" /\ pass.then # "FAILED" => PhaseOK(pass.then, pass.cb.spec)'
  BY Zenon, <1>2, <1>3, <1>1 DEF StoreOK
<1>6. pass.pc # "idle" /\ pass.cb.phase = "AWAITING_HEALTHY" => node'.api
  <2>1. ApiServerUp => node'.api
    BY Zenon DEF ApiServerUp, Base, BootShapes
  <2> QED
    BY Zenon, <1>2, <1>4, <2>1 DEF Recorded
<1>7. World' \subseteq World
  <2>1. node'.config \in {node.config, file[CpMac]["generic"].config}
    <3>1. ApiServerUp => node'.config = node.config
      BY Zenon DEF ApiServerUp, Base, BootShapes
    <3>2. Install => node'.config = file[CpMac]["generic"].config
      BY SMTT(30) DEF Install
    <3> QED
      BY Zenon, <3>1, <3>2
  <2> QED
    BY Zenon, <1>3, <2>1 DEF World, CpSame, CpFiles, Kinds
<1>8. Recorded'
  BY Zenon, <1>2, <1>3 DEF Recorded
<1>9. CASE pass.pc = "idle"
  BY Zenon, <1>3, <1>4, <1>8, <1>9 DEF CleanInv, Base, DriverInv, PutOK, SeedOK, StoreOK, StagingOK
<1>10. CASE pass.pc # "idle"
  <2>1. PassStays
    BY Zenon, <1>3, <1>6, <1>7, <1>10 DEF PassStays
  <2> QED
    BY Zenon, <1>2, <1>4, <1>5, <1>8, <2>1, StaysClean DEF Base, CleanInv
<1> QED
  BY Zenon, <1>9, <1>10

\* No pass is under way.
LEMMA IdleClean ==
  ASSUME Base', pass'.pc = "idle", Recorded', PhaseOK(cb.phase, cb.spec)'
  PROVE  CleanInv'
BY DEF CleanInv, Base, DriverInv, PutOK, SeedOK, StoreOK, StagingOK

\* Somebody exchanges credentials, and the cluster stays clean: they are the same, or it is
\* READY and those that are not are lost.
LEMMA ExchangeClean ==
  ASSUME Base, Base', CleanInv, clean, clean', Exchanged(creds'[backend']),
         file' = file, World' \subseteq World, UNCHANGED <<cb, inv, node>>, Recorded',
         pass'.pc = "idle" \/ (pass' = pass /\ CpSame)
  PROVE  CleanInv'
<1>1. Recorded /\ PhaseOK(cb.phase, cb.spec) /\ PutOK /\ StagingOK /\ SeedOK /\ StoreOK
  BY Zenon DEF CleanInv
<1> DEFINE now == creds'[backend']
           was == creds[backend]
<1>2. now \in [Fields -> Int] /\ was \in [Fields -> Int]
  BY Zenon DEF Base, BootShapes
<1>3. /\ (\A f \in Fields : now[f] = was[f]) \/ cb.phase = "READY"
      /\ \A f \in lost : f \in lost'
      /\ cb.phase = "READY" => \A f \in Fields \ lost' : now[f] = was[f]
  BY Zenon DEF Exchanged
<1>4. ASSUME cb.phase = "READY" PROVE CleanInv'
  <2>1. pass'.pc = "idle"
    BY Zenon, <1>4, CleanPass DEF Working
  <2>2. IsReady(cb.spec)
    BY Zenon, <1>1, <1>4 DEF PhaseOK
  <2>3. \A f \in Fields \ lost' : now[f] = node.config.secrets
    BY Zenon, <1>3, <1>4, <2>2 DEF IsReady
  <2>4. IsReady(cb.spec)'
    BY Zenon, <2>2, <2>3 DEF IsReady
  <2>5. PhaseOK(cb.phase, cb.spec)'
    BY Zenon, <1>4, <2>4 DEF PhaseOK
  <2> QED
    BY Zenon, <2>1, <2>5, IdleClean
<1>5. ASSUME cb.phase # "READY" PROVE CleanInv'
  <2>1. now = was
    <3>1. \A f \in Fields : now[f] = was[f]
      BY Zenon, <1>3, <1>5
    <3> HIDE DEF now, was
    <3> QED
      BY <1>2, <3>1
  <2>2. ASSUME NEW phase, NEW spec, PhaseOK(phase, spec) PROVE PhaseOK(phase, spec)'
    <3>1. CASE phase # "READY"
      <4>1. phase = "AWAITING_HEALTHY" => node'.etcd
        BY Zenon, <2>2 DEF PhaseOK
      <4> QED
        BY Zenon, <2>1, <2>2, <3>1, <4>1, PhaseKept
    <3>2. CASE phase = "READY"
      <4>1. IsReady(spec)
        BY Zenon, <2>2, <3>2 DEF PhaseOK
      <4>2. \A f \in Fields \ lost' : now[f] = node.config.secrets
        BY Zenon, <1>3, <2>1, <4>1 DEF IsReady
      <4>3. IsReady(spec)'
        BY Zenon, <4>1, <4>2 DEF IsReady
      <4> QED
        BY Zenon, <3>2, <4>3 DEF PhaseOK
    <3> QED
      BY Zenon, <3>1, <3>2
  <2>3. PhaseOK(cb.phase, cb.spec)'
    BY Zenon, <1>1, <2>2
  <2>4. CASE pass'.pc = "idle"
    BY Zenon, <2>3, <2>4, IdleClean
  <2>5. CASE pass' = pass /\ CpSame
    <3>1. pass.pc = "store" /\ pass.then # "FAILED" => PhaseOK(pass.then, pass.cb.spec)'
      BY Zenon, <1>1, <2>2, <2>5 DEF StoreOK
    <3>2. PassStays
      BY Zenon, <2>1, <2>5 DEF PassStays
    <3> QED
      BY Zenon, <1>1, <2>3, <3>1, <3>2, StaysClean DEF Base, CleanInv
  <2> QED
    BY Zenon, <2>4, <2>5
<1> QED
  BY Zenon, <1>4, <1>5

\* The commands that move credentials.
LEMMA CommandClean ==
  ASSUME Base, Base', CleanInv, clean, Command
  PROVE  CleanInv'
<1>1. /\ UNCHANGED <<cb, inv, backend, node, pass, create, del>> /\ CpSame
      /\ file' = file /\ World' \subseteq World
  BY Zenon, CommandFrame, FilesSame DEF matchboxVars, World
<1>2. Recorded'
  BY Zenon, <1>1 DEF CleanInv, Recorded
<1>3. ASSUME UNCHANGED <<creds, clean, lost>> PROVE CleanInv'
  BY Zenon, <1>1, <1>2, <1>3, PhasesSame
<1>4. ASSUME NEW pc, NEW store \in Stores, NEW fields, NEW next, Writes(pc, store, fields, next), clean'
      PROVE  CleanInv'
  <2> DEFINE now == [f \in Fields |-> IF f \in fields THEN cli.held[f] ELSE creds[store][f]]
  <2>1. /\ creds' = [creds EXCEPT ![store] = now]
        /\ Exchanged(IF store = backend THEN now ELSE creds[backend])
    BY Zenon, <1>4 DEF Writes
  <2> HIDE DEF now
  <2>2. creds'[backend'] = IF store = backend THEN now ELSE creds[backend]
    BY Zenon, <1>1, <2>1 DEF Base, BootShapes
  <2> QED
    BY Zenon, <1>1, <1>2, <1>4, <2>1, <2>2, ExchangeClean
<1>5. CASE CaptureSecrets \/ MigrateReads \/ MigrateSecretsRead \/ CommandFails
  BY Zenon, <1>3, <1>5 DEF CaptureSecrets, MigrateReads, MigrateSecretsRead, CommandFails, Reads
<1>6. CASE CaptureWrites \/ MigrateConfigs \/ MigrateSecrets
  <2>1. CASE ~clean'
    BY Zenon, <2>1 DEF CleanInv
  <2>2. ASSUME clean' PROVE CleanInv'
    BY Zenon, <1>4, <1>6, <2>2 DEF CaptureWrites, MigrateConfigs, MigrateSecrets, Stores
  <2> QED
    BY Zenon, <2>1, <2>2
<1> QED
  BY Zenon, <1>5, <1>6 DEF Command

\* The driver is given the configuration of the bundle that is stored.
LEMMA StageCallsClean ==
  ASSUME Base, Base', FilesInv, CleanInv, clean, StageCalls
  PROVE  CleanInv'
<1>1. pass.pc = "matchbox" /\ pass.cb.phase = "STAGING" /\ StagingOK
  BY Zenon DEF StageCalls, Base, PassInv, InPhase, CleanInv
<1>2. /\ pass.cb.phase = cb.phase /\ pass.cb.spec = cb.spec /\ PhaseOK("STAGING", cb.spec)
      /\ pass.pki = Secrets /\ Talos = Secrets
  BY Zenon, <1>1, CleanPass DEF StagingOK
<1>3. /\ pass'.pc = "staging" /\ pass'.cb = pass.cb /\ pass'.pki = pass.pki /\ file' = file
      /\ job'["bootstrap"].config = Rendering(pass.pki, pass.cb.spec) /\ job'["bootstrap"].pc = "generic"
  BY Zenon, StageCallsBase
<1>4. UNCHANGED <<cb, inv, creds, backend, node, create, del>>
  BY Zenon DEF StageCalls
<1>5. Recorded'
  BY Zenon, <1>1, <1>2, <1>3, <1>4, Recording
<1>6. Secrets' = Secrets /\ Talos' = Talos /\ World' \subseteq World \cup {Rendering(Secrets, cb.spec)}
  BY Zenon, <1>2, <1>3, <1>4 DEF Secrets, Talos, World
<1>7. Secrets > 0 /\ Only(Secrets, cb.spec)'
  BY Zenon, <1>2, <1>4, <1>6 DEF PhaseOK, Only
<1>8. PhaseOK(cb.phase, cb.spec)'
  BY Zenon, <1>1, <1>2, <1>4, <1>6, <1>7 DEF PhaseOK
<1>9. PutOK' /\ SeedOK' /\ StoreOK' /\ StagingOK'
  BY Zenon, <1>2, <1>3, <1>6 DEF PutOK, SeedOK, StoreOK, StagingOK
<1> QED
  BY Zenon, <1>5, <1>8, <1>9 DEF CleanInv

\* Staged: what the next phase stands for is there.
LEMMA StageReturnsClean ==
  ASSUME Base, Base', FilesInv, CleanInv, clean, StageReturns
  PROVE  CleanInv'
<1>1. pass.pc = "staging" /\ pass.cb.phase = "STAGING" /\ StagingOK
  BY Zenon DEF StageReturns, Base, PassInv, InPhase, CleanInv
<1>2. pass.cb.phase = cb.phase /\ pass.cb.spec = cb.spec /\ PhaseOK("STAGING", cb.spec)
  BY Zenon, <1>1, CleanPass
<1>3. UNCHANGED <<cb, inv, creds, backend, node, create, del>>
  BY Zenon DEF StageReturns
<1>4. file' = file /\ job'["bootstrap"] = NoJob /\ NoJob.config = NoConfig /\ NoJob.pc = "idle"
  BY Zenon, StageReturnsBase DEF NoJob
<1>5. World' \subseteq World
  BY Zenon, <1>3, <1>4 DEF World
<1>6. PhaseOK("STAGING", cb.spec)'
  <2>1. PhaseOK("STAGING", cb.spec)
    BY Zenon, <1>2
  <2>2. ASSUME NEW spec, PhaseOK("STAGING", spec) PROVE PhaseOK("STAGING", spec)'
    BY Zenon, <1>3, <1>5, <2>2, PhaseKept
  <2> QED
    BY Zenon, <1>3, <2>1, <2>2
<1>7. CASE pass' = NoPass
  <2>1. pass'.pc = "idle"
    BY Zenon, <1>7, NoPassTyped
  <2>2. Recorded'
    BY Zenon, <1>1, <1>2, <1>3, <2>1, Recording
  <2> QED
    BY Zenon, <1>1, <1>2, <1>3, <1>6, <2>1, <2>2, IdleClean
<1>8. ASSUME pass' # NoPass PROVE CleanInv'
  <2>1. /\ job["bootstrap"].pc = "ok" /\ pass'.pc = "store" /\ pass'.then = "AWAITING_INSTALL"
        /\ pass'.cb = pass.cb
    BY Zenon, <1>8, StageReturnsBase
  <2>2. Recorded'
    BY Zenon, <1>1, <1>2, <1>3, <2>1, Recording
  <2>3. IsStaged(cb.spec) /\ Talos = Secrets
    BY Zenon, <1>1, <1>2, <2>1 DEF StagingOK, IsStaged
  <2>4. Secrets' = Secrets /\ Talos' = Talos /\ IsStaged(cb.spec)'
    BY Zenon, <1>3, <1>4, <2>3 DEF Secrets, Talos, IsStaged
  <2>5. PhaseOK("AWAITING_INSTALL", cb.spec)'
    BY Zenon, <1>6, <2>3, <2>4 DEF PhaseOK
  <2>6. PutOK' /\ SeedOK' /\ StoreOK' /\ StagingOK'
    BY Zenon, <1>2, <1>3, <1>4, <2>1, <2>5 DEF PutOK, SeedOK, StoreOK, StagingOK
  <2> QED
    BY Zenon, <1>1, <1>2, <1>3, <1>6, <2>2, <2>6 DEF CleanInv
<1> QED
  BY Zenon, <1>7, <1>8

\* The drivers.
LEMMA WorkersClean ==
  ASSUME Base, Base', FilesInv, CleanInv, clean,
         WorkerCalls \/ WorkerReturns \/ (\E e \in Executors : Driver(e)) \/ DownloadFails
  PROVE  CleanInv'
\* A step of the driver for the control plane, with the configuration it was given.
<1>1. ASSUME CpStep, UNCHANGED OfCluster
      PROVE  CleanInv'
  <2> USE <1>1
  <2>1. job["bootstrap"].pc # "idle" /\ pass.pc = "staging" /\ pass.cb.phase = "STAGING" /\ StagingOK
    BY Zenon DEF CpStep, Kinds, Base, DriverInv, PassInv, InPhase, CleanInv
  <2>2. pass.cb.phase = cb.phase /\ pass.cb.spec = cb.spec /\ PhaseOK("STAGING", cb.spec) /\ Recorded
    BY Zenon, <2>1, CleanPass DEF CleanInv
  <2>3. UNCHANGED <<cb, inv, creds, backend, node, pass, create, del>>
    BY Zenon DEF OfCluster
  <2>4. Secrets' = Secrets /\ Talos' = Talos /\ Recorded'
    BY Zenon, <2>2, <2>3 DEF Secrets, Talos, Recorded
  <2> DEFINE c == Rendering(Secrets, pass.cb.spec)
  <2>5. job["bootstrap"].config = c /\ job'["bootstrap"].config = c
    BY Zenon, <2>1 DEF StagingOK, CpStep
  <2>6. /\ file'[CpMac]["generic"].config \in {file[CpMac]["generic"].config, c, NoConfig}
        /\ job'["bootstrap"].pc \in {"mirror", "create", "copy", "rename", "profile", "group", "ok"} =>
             file'[CpMac]["generic"].config = c
        /\ job'["bootstrap"].pc = "ok" => file'[CpMac]["group"].state = "whole"
    BY SMTT(30), <2>1, <2>5 DEF StagingOK, CpStep, CpFiles, Kinds, EmptyFile
  <2>7. StagingOK'
    <3> HIDE DEF c
    <3>1. c' = c
      BY Zenon, <2>3, <2>4 DEF c
    <3> QED
      BY Zenon, <2>1, <2>3, <2>4, <2>5, <2>6, <3>1 DEF StagingOK, c
  <2>8. World' \subseteq World
    BY Zenon, <2>3, <2>5, <2>6 DEF World
  <2>9. PhaseOK(cb.phase, cb.spec)'
    <3>1. ASSUME NEW spec, PhaseOK("STAGING", spec) PROVE PhaseOK("STAGING", spec)'
      BY Zenon, <2>3, <2>8, <3>1, PhaseKept
    <3> QED
      BY Zenon, <2>1, <2>2, <2>3, <3>1
  <2>10. PutOK' /\ SeedOK' /\ StoreOK'
    BY Zenon, <2>1, <2>3 DEF PutOK, SeedOK, StoreOK
  <2> QED
    BY Zenon, <2>4, <2>7, <2>9, <2>10 DEF CleanInv
<1>2. UNCHANGED OfCluster /\ (CpSame \/ CpStep)
  BY Zenon, WorkersBase
<1>3. CASE CpStep
  BY Zenon, <1>2, <1>3, <1>1
<1>4. CASE CpSame
  <2>1. Recorded'
    BY Zenon, <1>2 DEF OfCluster, CleanInv, Recorded
  <2> QED
    BY Zenon, <1>2, <1>4, <2>1, PhasesSame DEF OfCluster
<1> QED
  BY Zenon, <1>2, <1>3, <1>4

\* A crash leaves the files, and the server comes back with a store that has the
\* credentials, if the cluster is to be clean.
LEMMA CrashClean ==
  ASSUME Base, Base', FilesInv, CleanInv, clean, Crash
  PROVE  CleanInv'
<1>1. /\ UNCHANGED <<cb, inv, creds, node>>
      /\ pass' = NoPass /\ create' = [pc |-> "idle", spec |-> NoSpec] /\ del' = "idle"
      /\ Exchanged(creds[backend'])
  BY Zenon DEF Crash
<1>2. pass'.pc = "idle" /\ create'.pc = "idle"
  BY Zenon, <1>1, NoPassTyped
<1>3. Recorded'
  BY Zenon, <1>1, <1>2 DEF CleanInv, Recorded
<1>4. job'["bootstrap"] = NoJob /\ NoJob.config = NoConfig /\ file' = file
  BY Zenon, CrashBase DEF NoJob
<1>5. World' \subseteq World
  BY Zenon, <1>1, <1>4 DEF World
<1>6. CASE ~clean'
  BY Zenon, <1>6 DEF CleanInv
<1>7. ASSUME clean' PROVE CleanInv'
  BY Zenon, <1>1, <1>2, <1>3, <1>4, <1>5, <1>7, ExchangeClean
<1> QED
  BY Zenon, <1>6, <1>7

\* Only a deletion makes a cluster clean.
LEMMA CleanAgain ==
  ASSUME [Next]_allVars, clean'
  PROVE  clean \/ DeleteCreds
<1>1. CASE UNCHANGED allVars
  BY Zenon, <1>1 DEF allVars, bootVars
<1>2. CASE StageCalls \/ StageReturns \/ Crash
  BY Zenon, <1>2 DEF StageCalls, StageReturns, Crash, Exchanged
<1>3. CASE WorkerCalls \/ WorkerReturns \/ (\E e \in Executors : Driver(e)) \/ DownloadFails
  BY Zenon, <1>3 DEF WorkerCalls, WorkerReturns, Driver, DownloadFails, bootVars
<1>4. CASE StartPass \/ PutRecord \/ PutItem \/ PutFile \/ SecretsPresent \/ GenerateSecrets \/ StageRenders
  BY Zenon, <1>4 DEF StartPass, PutRecord, PutItem, PutFile, SecretsPresent, GenerateSecrets, StageRenders
<1>5. CASE NodeReachable \/ BootstrapEtcd \/ FetchKubeconfig \/ SeedCluster \/ SeedPool \/ SeedMachine \/ Park
  BY Zenon, <1>5 DEF NodeReachable, BootstrapEtcd, FetchKubeconfig, SeedCluster, SeedPool, SeedMachine, Seed, Park
<1>6. CASE PassFails \/ Install \/ ApiServerUp \/ Expire
  BY Zenon, <1>6 DEF PassFails, Install, ApiServerUp, Expire
<1>6a. CASE Command
  <2>1. ASSUME NEW pc, NEW store, NEW fields, NEW next, Writes(pc, store, fields, next) PROVE clean
    BY Zenon, <2>1 DEF Writes, Exchanged
  <2>2. CASE CaptureSecrets \/ MigrateReads \/ MigrateSecretsRead \/ CommandFails
    BY Zenon, <2>2 DEF CaptureSecrets, MigrateReads, MigrateSecretsRead, CommandFails, Reads
  <2>3. CASE CaptureWrites \/ MigrateConfigs \/ MigrateSecrets
    BY Zenon, <2>1, <2>3 DEF CaptureWrites, MigrateConfigs, MigrateSecrets
  <2> QED
    BY Zenon, <1>6a, <2>2, <2>3 DEF Command
<1>7. CASE Request
  BY Zenon, <1>7 DEF Request, CreateChecks, CreateHost, CreateArms, DeregisterHost, DeleteRecords, DeleteCreds,
              DeleteCredsFails
<1> QED
  BY Zenon, <1>1, <1>2, <1>3, <1>4, <1>5, <1>6, <1>6a, <1>7, StepKinds DEF Elsewhere

\* Every step keeps what the phases stand for.
LEMMA CleanStep ==
  ASSUME Base, Base', FilesInv, CleanInv, [Next]_allVars
  PROVE  CleanInv'
<1>1. CASE DeleteRecords \/ DeleteCreds \/ DeleteCredsFails
  BY Zenon, <1>1, DeleteClean
<1>2. CASE ~(DeleteRecords \/ DeleteCreds \/ DeleteCredsFails) /\ ~clean
  BY Zenon, <1>2, CleanAgain DEF CleanInv
<1>3. ASSUME clean, ~(DeleteRecords \/ DeleteCreds \/ DeleteCredsFails) PROVE CleanInv'
  <2>1. CASE StageCalls \/ StageReturns \/ Crash
    BY Zenon, <1>3, <2>1, StageCallsClean, StageReturnsClean, CrashClean
  <2>2. CASE WorkerCalls \/ WorkerReturns \/ (\E e \in Executors : Driver(e)) \/ DownloadFails
    BY Zenon, <1>3, <2>2, WorkersClean
  <2>3. CASE StartPass \/ PutRecord \/ SecretsPresent \/ GenerateSecrets \/ StageRenders
    BY Zenon, <1>3, <2>3, EarlyClean, LateClean
  <2>4. CASE PutItem \/ PutFile
    <3>1. pass.then \in {"store", "matchbox", "seedCluster"}
      BY Zenon, <2>4 DEF PutItem, PutFile, Base, PassInv, InPhase
    <3> QED
      BY Zenon, <1>3, <2>4, <3>1, PutClean
  <2>5. CASE NodeReachable \/ BootstrapEtcd \/ FetchKubeconfig \/ SeedCluster \/ SeedPool \/ SeedMachine
    BY Zenon, <1>3, <2>5, EarlyClean, LateClean
  <2>6. CASE Park \/ PassFails \/ Install \/ ApiServerUp \/ Expire
    BY Zenon, <1>3, <2>6, EarlyClean, MachineClean, ExpireClean
  <2>7. CASE Command
    BY Zenon, <1>3, <2>7, CommandClean
  <2>8. CASE Request
    BY Zenon, <1>3, <2>8, CreateClean DEF Request
  <2>9. CASE UNCHANGED allVars
    <3>1. CpSame /\ UNCHANGED OfCluster
      BY Zenon, <2>9, FilesSame DEF allVars, bootVars, OfCluster
    <3>2. Recorded'
      BY Zenon, <1>3, <3>1 DEF OfCluster, CleanInv, Recorded
    <3> QED
      BY Zenon, <1>3, <3>1, <3>2, PhasesSame DEF OfCluster
  <2> QED
    BY Zenon, <2>1, <2>2, <2>3, <2>4, <2>5, <2>6, <2>7, <2>8, <2>9, StepKinds DEF Elsewhere
<1> QED
  BY Zenon, <1>1, <1>2, <1>3

\* Before the first request there is nothing.
LEMMA InitClean == Init => CleanInv
<1> SUFFICES ASSUME Init PROVE CleanInv
  OBVIOUS
<1>1. /\ cb.phase = "none" /\ pass.pc = "idle" /\ create.pc = "idle" /\ inv = {} /\ del = "idle"
  BY Zenon, NoPassTyped DEF Init
<1>2. backend \in Stores /\ creds[backend] = NoCreds
  BY Zenon, StartsAssumption DEF Init, Stores
<1>3. Recorded /\ PhaseOK(cb.phase, cb.spec)
  BY Zenon, <1>1, <1>2 DEF Recorded, PhaseOK
<1>4. DriverInv
  BY Zenon, InitBase DEF Base
<1> QED
  BY Zenon, <1>1, <1>3, <1>4 DEF CleanInv, DriverInv, PutOK, SeedOK, StoreOK, StagingOK

\* The inductive invariant holds.
LEMMA CleanInvariance ==
  ASSUME ConfigsGiven
  PROVE  Spec => [](Base /\ CleanInv)
<1>1. Init => CleanInv
  BY Zenon, InitClean
<1>2. Base /\ Base' /\ FilesInv /\ CleanInv /\ [Next]_allVars => CleanInv'
  BY Zenon, CleanStep
<1>3. Spec => [](Base /\ FilesInv)
  BY Zenon, BaseInvariance
<1> QED
  BY <1>1, <1>2, <1>3, PTL DEF Spec

\* The bundle in the store is the one the staged configuration was rendered from, from the
\* moment the record says so until READY.
THEOREM BundleKept ==
  ASSUME ConfigsGiven
  PROVE  Spec => []OneBundle
<1>1. Base /\ CleanInv => OneBundle
  BY Zenon DEF CleanInv, PhaseOK, IsStaged, OneBundle, Rendering, Secrets, Talos
<1> QED
  BY <1>1, CleanInvariance, PTL

\* A cluster that is READY is complete: inventory, node and credentials, in whichever store
\* the server uses.
THEOREM ReadyIsComplete ==
  ASSUME ConfigsGiven
  PROVE  Spec => []CreatedComplete
<1>1. Base /\ CleanInv => CreatedComplete
  BY Zenon DEF CleanInv, PhaseOK, IsReady, CreatedComplete, GetCredentials, Rendering
<1> QED
  BY <1>1, CleanInvariance, PTL

-----------------------------------------------------------------------------
(* The credentials of a deleted cluster: neither store, no command and no  *)
(* pass has one of its bundles, and so none can write it again.            *)

Olds == 1..old
Listed(todo, gone) == \A i \in DOMAIN todo : todo[i][2] \notin gone

Gone ==
    /\ old \in Nat /\ old <= pkis
    /\ \A b \in Stores, f \in Fields : creds[b][f] \notin Olds
    /\ cli.pc # "idle" => \A f \in Fields : cli.held[f] \notin Olds
    /\ pass.pc = "matchbox" => pass.pki \notin Olds
    /\ pass.pc = "put" => Listed(pass.todo, Olds) /\ (pass.then = "matchbox" => pass.pki \notin Olds)
    /\ job["bootstrap"].pc # "idle" => job["bootstrap"].config.secrets \notin Olds

\* The credentials that are still to be written, one or two of them.
LEMMA ListedOne ==
  ASSUME NEW g, NEW v, NEW gone
  PROVE  Listed(<<<<g, v>>>>, gone) <=> v \notin gone
BY DEF Listed

LEMMA ListedTwo ==
  ASSUME NEW t, NEW k, NEW gone
  PROVE  Listed(<<<<"talos", t>>, <<"kube", k>>>>, gone) <=> t \notin gone /\ k \notin gone
BY DEF Listed

\* What is not there is no bundle.
LEMMA NoneOld ==
  ASSUME old \in Nat
  PROVE  Absent \notin Olds /\ Blank \notin Olds /\ \A f \in Fields : NoCreds[f] \notin Olds
BY DEF Absent, Blank, NoCreds, Olds

\* A step that writes no credentials and starts nothing with them.
LEMMA GoneSame ==
  ASSUME Base, Gone, UNCHANGED <<creds, old, pkis>>,
         cli'.pc # "idle" => cli' = cli,
         pass'.pc \in {"put", "matchbox"} =>
           pass'.pc = pass.pc /\ pass'.then = pass.then /\ pass'.todo = pass.todo /\ pass'.pki = pass.pki,
         job'["bootstrap"].pc # "idle" =>
           job["bootstrap"].pc # "idle" /\ job'["bootstrap"].config = job["bootstrap"].config
  PROVE  Gone'
<1>1. Olds' = Olds
  BY Zenon DEF Olds
<1>2. /\ pass'.pc = "matchbox" => pass'.pki \notin Olds
      /\ pass'.pc = "put" => Listed(pass'.todo, Olds) /\ (pass'.then = "matchbox" => pass'.pki \notin Olds)
  BY Zenon DEF Gone
<1>3. cli'.pc # "idle" => \A f \in Fields : cli'.held[f] \notin Olds
  BY Zenon DEF Gone
<1> QED
  BY Zenon, <1>1, <1>2, <1>3 DEF Gone

\* The requests, the machine, the clock, and the steps of a pass that put nothing.
LEMMA QuietGone ==
  ASSUME Base, Base', Gone, Elsewhere,
         ~(PutItem \/ PutFile \/ GenerateSecrets \/ StageRenders \/ FetchKubeconfig \/ Command \/ DeleteCreds)
  PROVE  Gone'
<1>1. UNCHANGED job
  BY Zenon, ElsewhereStaging DEF matchboxVars
<1>2. ASSUME UNCHANGED <<creds, old, pkis, cli>>, pass'.pc \notin {"put", "matchbox"} \/ pass' = pass
      PROVE  Gone'
  BY Zenon, <1>1, <1>2, GoneSame
<1>3. CASE StartPass
  <2>1. pass'.pc \in {"store", "secrets", "stage", "install", "etcd", "kube"}
    BY Zenon, <1>3, StartFields DEF Base
  <2> QED
    BY Zenon, <1>2, <1>3, <2>1 DEF StartPass
<1>4. CASE PutRecord \/ Park \/ PassFails
  <2>1. pass'.pc = "idle"
    BY Zenon, <1>4, NoPassTyped DEF PutRecord, Park, PassFails, Abort
  <2> QED
    BY Zenon, <1>2, <1>4, <2>1 DEF PutRecord, Park, PassFails
<1>5. CASE SecretsPresent \/ NodeReachable \/ BootstrapEtcd \/ SeedMachine
  <2>1. ASSUME NEW phase \in Thens, pass' = Store(phase) PROVE pass'.pc = "store"
    BY Zenon, <2>1, StoreFields DEF Base, BootShapes
  <2>2. ASSUME pass' = NoPass PROVE pass'.pc = "idle"
    BY Zenon, <2>2, NoPassTyped
  <2>3. pass'.pc \in {"store", "idle"}
    BY Zenon, <1>5, <2>1, <2>2
    DEF SecretsPresent, NodeReachable, BootstrapEtcd, SeedMachine, Seed, Abort, Thens
  <2> QED
    BY Zenon, <1>2, <1>5, <2>3 DEF SecretsPresent, NodeReachable, BootstrapEtcd, SeedMachine, Seed
<1>6. CASE SeedCluster \/ SeedPool
  <2>1. pass'.pc \in {"seedPool", "seedMachine"}
    BY Zenon, <1>6 DEF SeedCluster, SeedPool, Seed, Base, BootShapes, Pass
  <2> QED
    BY Zenon, <1>2, <1>6, <2>1 DEF SeedCluster, SeedPool, Seed
<1>7. CASE CreateChecks \/ CreateHost \/ CreateArms \/ DeregisterHost \/ DeleteRecords \/ DeleteCredsFails
  BY Zenon, <1>2, <1>7 DEF CreateChecks, CreateHost, CreateArms, DeregisterHost, DeleteRecords, DeleteCredsFails
<1>8. CASE Install \/ ApiServerUp
  BY Zenon, <1>2, <1>8 DEF Install, ApiServerUp
<1>9. CASE Expire
  <2>1. UNCHANGED <<creds, old, pkis, cli>>
    BY Zenon, <1>9 DEF Expire
  <2> QED
    BY Zenon, <1>1, <1>9, <2>1, ExpireKept, GoneSame
<1> QED
  BY Zenon, <1>3, <1>4, <1>5, <1>6, <1>7, <1>8, <1>9 DEF Elsewhere, Request

\* The credentials go, and with them, if nobody has a copy, every bundle there has been.
LEMMA DeleteGone ==
  ASSUME Base, Gone, DeleteCreds
  PROVE  Gone'
<1>1. /\ creds \in [Stores -> [Fields -> Int]] /\ backend \in Stores
      /\ creds' = [creds EXCEPT ![backend] = NoCreds] /\ old' = (IF NoCopies THEN pkis ELSE old)
      /\ UNCHANGED <<job, pass, cli, pkis>>
  BY Zenon DEF DeleteCreds, matchboxVars, Base, BootShapes
<1>2. /\ creds'[backend] = NoCreds
      /\ \A b \in Stores \ {backend} : creds'[b] = creds[b]
  BY Zenon, <1>1
<1>3. CASE ~NoCopies
  <2>1. old' = old /\ Olds' = Olds
    BY Zenon, <1>1, <1>3 DEF Olds
  <2>2. \A b \in Stores, f \in Fields : creds'[b][f] \notin Olds
    BY Zenon, <1>2, NoneOld DEF Gone
  <2> QED
    BY Zenon, <1>1, <2>1, <2>2 DEF Gone
<1>4. CASE NoCopies
  <2>1. old' = pkis /\ pkis \in Nat
    BY Zenon, <1>1, <1>4 DEF Base, BootShapes
  <2>2. old' \in Nat /\ old' <= pkis'
    BY <1>1, <2>1
  <2>3. \A f \in Fields : NoCreds[f] \notin Olds'
    BY <2>2 DEF NoCreds, Absent, Olds
  <2>4. \A b \in Stores : creds'[b] = NoCreds
    BY Zenon, <1>1, <1>2, <1>4 DEF NoCopies
  <2>5. pass'.pc = "idle" /\ cli'.pc = "idle" /\ job'["bootstrap"].pc = "idle"
    BY Zenon, <1>1, <1>4 DEF NoCopies, Base, DriverInv
  <2> QED
    BY Zenon, <2>2, <2>3, <2>4, <2>5 DEF Gone
<1> QED
  BY Zenon, <1>3, <1>4

\* A command has what a store has, and writes what it has.
LEMMA CommandGone ==
  ASSUME Base, Gone, Command
  PROVE  Gone'
<1>1. UNCHANGED <<job, node, pass, pkis, old>> /\ Olds' = Olds
  BY Zenon, CommandFrame DEF matchboxVars, Olds
<1>2. creds \in [Stores -> [Fields -> Int]] /\ "file" \in Stores /\ creds["file"] \in [Fields -> Int]
  BY Zenon DEF Base, BootShapes, Stores
<1>3. /\ \A b \in Stores, f \in Fields : creds[b][f] \notin Olds
      /\ cli.pc # "idle" => \A f \in Fields : cli.held[f] \notin Olds
  BY Zenon DEF Gone
<1>4. \A b \in Stores, f \in Fields : creds'[b][f] \notin Olds
  <2>1. CASE creds' = creds
    BY Zenon, <1>3, <2>1
  <2>2. CASE creds' # creds
    <3>1. cli.pc # "idle"
      BY Zenon, <2>2, CommandData
    <3>2. PICK store \in Stores, fields \in SUBSET Fields :
            creds' = [creds EXCEPT ![store] =
                        [f \in Fields |-> IF f \in fields THEN cli.held[f] ELSE creds[store][f]]]
      BY Zenon, <2>2, CommandData
    <3> DEFINE now == [f \in Fields |-> IF f \in fields THEN cli.held[f] ELSE creds[store][f]]
    <3>3. \A f \in Fields : now[f] \notin Olds
      BY Zenon, <1>3, <3>1
    <3>4. creds'[store] = now /\ \A b \in Stores \ {store} : creds'[b] = creds[b]
      BY Zenon, <1>2, <3>2
    <3> HIDE DEF now
    <3> QED
      BY Zenon, <1>3, <3>3, <3>4
  <2> QED
    BY Zenon, <2>1, <2>2
<1>5. \A f \in Fields : cli'.held[f] \notin Olds
  <2>1. /\ Absent \notin Olds /\ NoCreds \in [Fields -> Int] /\ \A f \in Fields : NoCreds[f] \notin Olds
        /\ "secrets" \in Fields /\ "talos" \in Fields
    BY Zenon, NoneOld, NoCredsTyped DEF Gone, Fields
  <2>2. CASE cli'.held = NoCreds
    BY Zenon, <2>1, <2>2
  <2>3. CASE /\ creds["file"].talos = node.config.secrets
             /\ cli'.held = [NoCreds EXCEPT !.secrets = node.config.secrets]
    BY Zenon, <1>2, <1>3, <2>1, <2>3
  <2>4. CASE cli'.held = [creds["file"] EXCEPT !.secrets = Absent]
    BY Zenon, <1>2, <1>3, <2>1, <2>4
  <2>5. CASE cli'.held = [NoCreds EXCEPT !.secrets = creds["file"].secrets]
    BY Zenon, <1>2, <1>3, <2>1, <2>5
  <2> QED
    BY Zenon, <2>2, <2>3, <2>4, <2>5, CommandData
<1> QED
  BY Zenon, <1>1, <1>4, <1>5 DEF Gone

\* A pass puts a new bundle, or what it has read from the store or from a node that answers
\* the credentials of the store.
LEMMA ReadyToPutGone ==
  ASSUME Base, Gone, GenerateSecrets \/ StageRenders \/ FetchKubeconfig
  PROVE  Gone'
<1>1. UNCHANGED <<job, creds, cli, old>> /\ Olds' = Olds
  BY Zenon DEF GenerateSecrets, StageRenders, FetchKubeconfig, matchboxVars, Olds
<1>2. backend \in Stores /\ old \in Nat /\ pkis \in Nat /\ old <= pkis /\ Blank \notin Olds
  BY Zenon, NoneOld DEF Base, BootShapes, Gone
<1>3. Secrets \notin Olds /\ Talos \notin Olds
  BY Zenon, <1>2 DEF Gone, Secrets, Talos, Fields
<1>4. ASSUME old <= pkis', pass'.pc = "put", Listed(pass'.todo, Olds),
             pass'.then = "matchbox" => pass'.pki \notin Olds
      PROVE  Gone'
  BY Zenon, <1>1, <1>4 DEF Gone
<1>5. CASE GenerateSecrets
  <2>1. pass'.pc = "put" /\ pass'.then = "store" /\ pass'.todo = <<<<"secrets", pkis + 1>>>> /\ pkis' = pkis + 1
    BY Zenon, <1>5, GenerateKept DEF GenerateSecrets
  <2>2. old <= pkis' /\ pkis + 1 \notin Olds
    BY <1>2, <2>1 DEF Olds
  <2> QED
    BY Zenon, <1>4, <2>1, <2>2, ListedOne
<1>6. CASE StageRenders
  <2>1. /\ pass'.pc = "put" /\ pass'.pki = Secrets /\ pass'.todo = <<<<"talos", Secrets>>, <<"kube", Blank>>>>
        /\ old <= pkis'
    BY Zenon, <1>2, <1>6, RendersKept DEF StageRenders
  <2>2. Listed(<<<<"talos", Secrets>>, <<"kube", Blank>>>>, Olds)
    BY Zenon, <1>2, <1>3, ListedTwo
  <2> QED
    BY Zenon, <1>3, <1>4, <2>1, <2>2
<1>7. CASE FetchKubeconfig
  <2>1. /\ pass'.pc = "put" /\ pass'.then = "seedCluster" /\ old <= pkis' /\ Talos = node.config.secrets
        /\ pass'.todo = <<<<"talos", Talos>>, <<"kube", node.config.secrets>>>>
    BY Zenon, <1>2, <1>7, FetchKept, TrustedNode DEF FetchKubeconfig
  <2>2. node.config.secrets \notin Olds
    BY Zenon, <1>3, <2>1
  <2>3. Listed(<<<<"talos", Talos>>, <<"kube", node.config.secrets>>>>, Olds)
    BY Zenon, <1>3, <2>2, ListedTwo
  <2> QED
    BY Zenon, <1>4, <2>1, <2>3
<1> QED
  BY Zenon, <1>5, <1>6, <1>7

\* A pass puts what is listed, and goes on.
LEMMA PutGone ==
  ASSUME Base, Gone, PutItem \/ PutFile
  PROVE  Gone'
<1>1. UNCHANGED <<job, cli, pkis, old>> /\ Olds' = Olds
  BY Zenon DEF PutItem, PutFile, matchboxVars, Olds
<1>2. /\ pass.pc = "put" /\ Todo /\ pass.then \in {"store", "matchbox", "seedCluster"}
      /\ backend \in Stores /\ creds \in [Stores -> [Fields -> Int]] /\ creds[backend] \in [Fields -> Int]
      /\ pkis \in Nat /\ Blank \in Int
  BY SMTT(30) DEF PutItem, PutFile, Base, PassInv, InPhase, BootShapes, Blank
<1>3. /\ Listed(pass.todo, Olds) /\ (pass.then = "matchbox" => pass.pki \notin Olds)
      /\ Blank \notin Olds /\ \A b \in Stores, f \in Fields : creds[b][f] \notin Olds
  BY Zenon, <1>2, NoneOld DEF Gone
<1>4. ASSUME NEW item \in [Fields -> Int], Puts(item), \A f \in Fields : item[f] \notin Olds,
             \/ PutsDone
             \/ \E todo : PutsStill(todo) /\ Listed(todo, Olds)
      PROVE  Gone'
  <2>1. \A b \in Stores, f \in Fields : creds'[b][f] \notin Olds
    <3>1. creds'[backend] = item /\ \A b \in Stores \ {backend} : creds'[b] = creds[b]
      BY Zenon, <1>2, <1>4 DEF Puts
    <3> QED
      BY Zenon, <1>3, <1>4, <3>1
  <2>2. /\ pass'.pc = "matchbox" => pass'.pki \notin Olds
        /\ pass'.pc = "put" => Listed(pass'.todo, Olds) /\ (pass'.then = "matchbox" => pass'.pki \notin Olds)
    <3>1. CASE PutsDone
      BY Zenon, <1>2, <1>3, <1>4, <3>1 DEF PutsDone, Puts
    <3>2. CASE \E todo : PutsStill(todo) /\ Listed(todo, Olds)
      BY Zenon, <1>2, <1>3, <1>4, <3>2 DEF PutsStill, Puts
    <3> QED
      BY Zenon, <1>4, <3>1, <3>2
  <2> QED
    BY Zenon, <1>1, <2>1, <2>2 DEF Gone
<1>5. ASSUME NEW g \in Fields, NEW v \in Int, pass.todo = <<<<g, v>>>> PROVE Gone'
  <2> DEFINE a == [creds[backend] EXCEPT ![g] = Blank]
             b == [creds[backend] EXCEPT ![g] = v]
  <2>1. v \notin Olds
    BY Zenon, <1>3, <1>5, ListedOne
  <2>2. \/ Puts(a) /\ PutsStill(<<<<g, v>>>>)
        \/ Puts(b) /\ PutsDone
    BY Zenon, <1>2, <1>5, PutOne
  <2>3. /\ a \in [Fields -> Int] /\ \A f \in Fields : a[f] \notin Olds
        /\ b \in [Fields -> Int] /\ \A f \in Fields : b[f] \notin Olds
    BY Zenon, <1>2, <1>3, <1>5, <2>1
  <2> HIDE DEF a, b
  <2> QED
    BY Zenon, <1>3, <1>4, <1>5, <2>2, <2>3
<1>6. ASSUME NEW t \in Int, NEW k \in Int, pass.todo = <<<<"talos", t>>, <<"kube", k>>>> PROVE Gone'
  <2> DEFINE a == [creds[backend] EXCEPT !["talos"] = Blank]
             b == [creds[backend] EXCEPT !["talos"] = t]
             c == [creds[backend] EXCEPT !["talos"] = t, !["kube"] = k]
  <2>1. t \notin Olds /\ k \notin Olds /\ Listed(<<<<"kube", k>>>>, Olds) /\ "talos" \in Fields /\ "kube" \in Fields
    BY Zenon, <1>3, <1>6, ListedTwo, ListedOne DEF Fields
  <2>2. \/ Puts(a) /\ PutsStill(<<<<"talos", t>>, <<"kube", k>>>>)
        \/ Puts(b) /\ PutsStill(<<<<"kube", k>>>>)
        \/ Puts(c) /\ PutsDone
    BY Zenon, <1>2, <1>6, PutTwo
  <2>3. /\ a \in [Fields -> Int] /\ \A f \in Fields : a[f] \notin Olds
        /\ b \in [Fields -> Int] /\ \A f \in Fields : b[f] \notin Olds
    BY Zenon, <1>2, <1>3, <1>6, <2>1
  <2>4. c \in [Fields -> Int] /\ \A f \in Fields : c[f] \notin Olds
    BY Zenon, <1>2, <1>3, <1>6, <2>1
  <2> HIDE DEF a, b, c
  <2> QED
    BY Zenon, <1>3, <1>4, <1>6, <2>1, <2>2, <2>3, <2>4
<1>7. \/ \E g \in Fields, v \in Int : pass.todo = <<<<g, v>>>>
      \/ \E t, k \in Int : pass.todo = <<<<"talos", t>>, <<"kube", k>>>>
  <2>1. /\ "secrets" \in Fields /\ "talos" \in Fields /\ "kube" \in Fields
        /\ \A n \in 1..pkis : n \in Int
    BY <1>2 DEF Fields
  <2> QED
    BY Zenon, <1>2, <2>1 DEF Todo
<1> QED
  BY Zenon, <1>5, <1>6, <1>7

\* Every step keeps it.
LEMMA GoneStep ==
  ASSUME Base, Base', FilesInv, Gone, [Next]_allVars
  PROVE  Gone'
<1>1. CASE UNCHANGED allVars
  BY Zenon, <1>1, GoneSame DEF allVars, bootVars, matchboxVars
<1>2. CASE Elsewhere
  BY Zenon, <1>2, QuietGone, DeleteGone, CommandGone, ReadyToPutGone, PutGone
<1>3. CASE StageCalls
  <2>1. /\ pass.pc = "matchbox" /\ pass.pki \notin Olds /\ UNCHANGED <<creds, cli, pkis, old>> /\ Olds' = Olds
        /\ pass'.pc = "staging" /\ job'["bootstrap"].config.secrets = pass.pki
    BY Zenon, <1>3, StageCallsBase, RenderedFrom DEF StageCalls, Gone, Olds
  <2> QED
    BY Zenon, <2>1 DEF Gone
<1>4. CASE StageReturns
  <2>1. UNCHANGED <<creds, cli, pkis, old>> /\ job'["bootstrap"] = NoJob /\ pass'.pc \in {"idle", "store"}
    BY Zenon, <1>4, StageReturnsBase, NoPassTyped DEF StageReturns
  <2>2. job'["bootstrap"].pc = "idle"
    BY Zenon, <2>1, IdleJob
  <2> QED
    BY Zenon, <2>1, <2>2, GoneSame
<1>5. CASE WorkerCalls \/ WorkerReturns \/ (\E e \in Executors : Driver(e)) \/ DownloadFails
  <2>1. UNCHANGED OfCluster /\ (CpSame \/ CpStep)
    BY Zenon, <1>5, WorkersBase
  <2>2. /\ job'["bootstrap"].config = job["bootstrap"].config
        /\ job'["bootstrap"].pc # "idle" => job["bootstrap"].pc # "idle"
    BY Zenon, <2>1 DEF CpSame, CpStep, Kinds
  <2> QED
    BY Zenon, <2>1, <2>2, GoneSame DEF OfCluster
<1>6. CASE Crash
  <2>1. UNCHANGED <<creds, cli, pkis, old>> /\ pass'.pc = "idle" /\ job'["bootstrap"].pc = "idle"
    BY Zenon, <1>6, CrashBase, IdleJob, NoPassTyped DEF Crash
  <2> QED
    BY Zenon, <2>1, GoneSame
<1> QED
  BY Zenon, <1>1, <1>2, <1>3, <1>4, <1>5, <1>6, StepKinds

\* Once DeleteCluster has removed the credentials of a cluster, and nobody had a copy, they
\* are in no store and in no configuration that is staged, ever again, though the node that
\* was installed with them still runs and answers.
THEOREM DeletedForGood ==
  ASSUME ConfigsGiven
  PROVE  Spec => []DeletedStaysGone
<1>1. Init => Gone
  <2> SUFFICES ASSUME Init PROVE Gone
    OBVIOUS
  <2>1. old = 0 /\ pkis = 0
    BY Zenon DEF Init
  <2>2. Olds = {} /\ old \in Nat /\ old <= pkis
    BY <2>1 DEF Olds
  <2>3. \A todo : Listed(todo, {})
    BY Zenon DEF Listed
  <2> QED
    BY Zenon, <2>2, <2>3 DEF Gone
<1>2. Base /\ Base' /\ FilesInv /\ Gone /\ [Next]_allVars => Gone'
  BY Zenon, GoneStep
<1>3. Base /\ Gone => DeletedStaysGone
  <2>1. Base => DOMAIN creds = Stores
    BY Zenon DEF Base, BootShapes
  <2> QED
    BY Zenon, <2>1 DEF Gone, DeletedStaysGone, Olds
<1>4. Spec => [](Base /\ FilesInv)
  BY Zenon, BaseInvariance
<1> QED
  BY <1>1, <1>2, <1>3, <1>4, PTL DEF Spec
============================================================================
