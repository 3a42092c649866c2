------------------------------ MODULE Bootstrap ------------------------------
(***************************************************************************)
(* Creating a cluster (internal/provision/bootstrap.go and                 *)
(* bootstrap_executor.go): a confirmed CreateCluster arms a                *)
(* ClusterBootstrap record, and passes of the bootstrap executor take the  *)
(* control-plane node from bare metal to a cluster that Medea operates.    *)
(* Composed with the Matchbox driver the node is installed through, with   *)
(* the credential store of internal/creds (files, or one 1Password item),  *)
(* with DeleteCluster, and with the commands that move credentials.        *)
(*                                                                         *)
(* A pass reads the record once, and each store write, each file written,  *)
(* each vault item written and each call of the node is a step of its own; *)
(* requests, the provisioning executor and crashes come in between.  The   *)
(* record is written last, from the copy, whatever it has become.          *)
(***************************************************************************)
EXTENDS Matchbox, MachineConfig

CONSTANTS
    CpMac,         \* the control-plane host
    SpecsOf,       \* what a request may ask for when so many are left
    NoSpec,        \* none of that
    FactoryHost,   \* the registry of the installer images
    WorkerConfig,  \* the configuration of a worker that is provisioned meanwhile
    Starts         \* the credential store the server starts with, and, bounds, how many
                   \* requests, commands, crashes, faults and calls for workers there are

\* What is bounded.
Bounds == {"creates", "deletes", "commands", "crashes", "faults", "stagings"}

ASSUME BootstrapExecutors == Executors = {"bootstrap", "provisioning"}
ASSUME CpAssumption == HostsOf["bootstrap"] = {CpMac}
ASSUME StartsAssumption ==
    \A s \in Starts :
        /\ s.backend \in {"file", "onepassword"}
        /\ s.left \in [Bounds -> Nat]
        /\ 1..s.left.creates \subseteq DOMAIN SpecsOf

VARIABLES
    cb,       \* the ClusterBootstrap record
    inv,      \* the inventory records of the cluster
    host,     \* whether the control-plane host is registered
    creds,    \* the contents of each credential store
    backend,  \* the one the server uses
    node,     \* the machine: its configuration, etcd, the API server
    pass,     \* the pass of the bootstrap executor
    create,   \* a CreateCluster request
    del,      \* a DeleteCluster request
    cli,      \* a command that moves credentials
    pkis,     \* secrets bundles generated so far
    clean,    \* history: the last deletion was complete, nothing ran across it, and nobody
              \* exchanged the credentials under a cluster that was not READY
    lost,     \* history: the credentials that were exchanged under a READY cluster
    old,      \* history: the bundles up to this one are of clusters that were deleted
    left      \* bound: what may still happen

bootVars == <<cb, inv, host, creds, backend, node, pass, create, del, cli, pkis, clean, lost, old, left>>
allVars == <<matchboxVars, bootVars>>

NoRecord == [phase |-> "none", started |-> "never", spec |-> NoSpec]

\* The phases in their order; FETCHING_KUBECONFIG is never stored.
Phases == <<"NOT_BOOTSTRAPPED", "GENERATING_SECRETS", "STAGING", "AWAITING_INSTALL",
            "BOOTSTRAPPING", "AWAITING_HEALTHY", "READY">>
TerminalBootstrap(phase) == phase \in {"READY", "FAILED"}
Pending(phase) == phase # "none" /\ ~TerminalBootstrap(phase)

\* A credential is the number of the bundle it was derived from.
Absent == 0
Blank == -1
Fields == {"secrets", "talos", "kube"}
NoCreds == [f \in Fields |-> Absent]

\* then is where the pass goes on, or the phase it stores; todo are the credentials it
\* still has to write, half whether the next file has been emptied for that.
NoPass == [pc |-> "idle", cb |-> NoRecord, then |-> "", todo |-> <<>>, half |-> FALSE, pki |-> 0]

\* held are the credentials that the command has read.
NoCommand == [pc |-> "idle", held |-> NoCreds]

BlankNode == [config |-> NoConfig, etcd |-> FALSE, api |-> FALSE]

Init ==
    /\ MatchboxInit
    /\ cb = NoRecord /\ inv = {} /\ host = FALSE
    /\ creds = [b \in {"file", "onepassword"} |-> NoCreds]
    /\ node = BlankNode
    /\ pass = NoPass /\ create = [pc |-> "idle", spec |-> NoSpec] /\ del = "idle" /\ cli = NoCommand
    /\ pkis = 0 /\ clean = TRUE /\ lost = {} /\ old = 0
    /\ \E s \in Starts : backend = s.backend /\ left = s.left

Spend(what) == left[what] > 0 /\ left' = [left EXCEPT ![what] = @ - 1]

-----------------------------------------------------------------------------
(* Requests.                                                               *)

\* CreateCluster refuses a name that has a Cluster or a ClusterBootstrap.
CreateChecks ==
    /\ create.pc = "idle" /\ "Cluster" \notin inv /\ cb.phase = "none"
    /\ Spend("creates")
    /\ \E s \in SpecsOf[left.creates] : create' = [pc |-> "host", spec |-> s]
    /\ UNCHANGED <<matchboxVars, cb, inv, host, creds, backend, node, pass, del, cli, pkis,
                   clean, lost, old>>

\* PutHostDesired at revision 0: a conflict if the host is registered.
CreateHost ==
    /\ create.pc = "host"
    /\ host' = TRUE
    /\ create' = IF host THEN [pc |-> "idle", spec |-> NoSpec] ELSE [create EXCEPT !.pc = "arm"]
    /\ UNCHANGED <<matchboxVars, cb, inv, creds, backend, node, pass, del, cli, pkis, clean, lost, old, left>>

CreateArms ==
    /\ create.pc = "arm"
    /\ cb' = [phase |-> "NOT_BOOTSTRAPPED", started |-> "never", spec |-> create.spec]
    /\ create' = [pc |-> "idle", spec |-> NoSpec]
    /\ UNCHANGED <<matchboxVars, inv, host, creds, backend, node, pass, del, cli, pkis, clean, lost, old, left>>

\* DeregisterHost, which makes way for a CreateCluster after one that was cut short.
DeregisterHost ==
    /\ host /\ Spend("deletes")
    /\ host' = FALSE
    /\ UNCHANGED <<matchboxVars, cb, inv, creds, backend, node, pass, create, del, cli, pkis,
                   clean, lost, old>>

\* DeleteCluster: first every record of the cluster, in one transaction.
DeleteRecords ==
    /\ del = "idle" /\ Spend("deletes")
    /\ cb' = NoRecord /\ inv' = {} /\ host' = FALSE
    /\ del' = "creds"
    /\ clean' = FALSE
    /\ UNCHANGED <<matchboxVars, creds, backend, node, pass, create, cli, pkis, lost, old>>

\* Nothing that could bring the cluster back is under way, and nothing has.
Quiet == pass.pc = "idle" /\ create.pc = "idle" /\ cb.phase = "none" /\ inv = {} /\ ~host

\* Nobody has the credentials in hand, and the other store has none.
NoCopies == pass.pc = "idle" /\ cli.pc = "idle" /\ \A b \in DOMAIN creds \ {backend} : creds[b] = NoCreds

\* Mutant: the secrets bundle is forgotten.
DeleteCredsMutant ==
    /\ del = "creds" /\ del' = "idle"
    /\ creds' = [creds EXCEPT ![backend].talos = Absent, ![backend].kube = Absent]
    /\ clean' = Quiet /\ lost' = {} /\ old' = IF NoCopies THEN pkis ELSE old
    /\ UNCHANGED <<matchboxVars, cb, inv, host, backend, node, pass, create, cli, pkis, left>>

\* Then the credentials.
DeleteCreds ==
    /\ del = "creds" /\ del' = "idle"
    /\ creds' = [creds EXCEPT ![backend] = NoCreds]
    /\ clean' = Quiet /\ lost' = {} /\ old' = IF NoCopies THEN pkis ELSE old
    /\ UNCHANGED <<matchboxVars, cb, inv, host, backend, node, pass, create, cli, pkis, left>>

\* creds.Delete fails, and the request with it; DeleteCluster can be called again.
DeleteCredsFails ==
    /\ del = "creds" /\ del' = "idle"
    /\ Spend("faults")
    /\ UNCHANGED <<matchboxVars, cb, inv, host, creds, backend, node, pass, create, cli, pkis,
                   clean, lost, old>>

-----------------------------------------------------------------------------
(* A pass of the executor.                                                 *)

Reply(pc) == pass' = [pass EXCEPT !.pc = pc]
Abort == pass' = NoPass
Store(phase) == [pass EXCEPT !.pc = "store", !.then = phase]

\* Where Reconcile goes in each phase.
Step == [NOT_BOOTSTRAPPED |-> "store", GENERATING_SECRETS |-> "secrets", STAGING |-> "stage",
         AWAITING_INSTALL |-> "install", BOOTSTRAPPING |-> "etcd", AWAITING_HEALTHY |-> "kube"]

\* Mutant: the start is not stamped.
StartPassMutant ==
    /\ pass.pc = "idle" /\ Pending(cb.phase)
    /\ pass' = [NoPass EXCEPT
                  !.cb = cb,
                  !.pc = IF cb.started = "long ago" THEN "store" ELSE Step[cb.phase],
                  !.then = CASE cb.started = "long ago" -> "FAILED"
                             [] cb.started # "long ago" /\ cb.phase = "NOT_BOOTSTRAPPED" -> "GENERATING_SECRETS"
                             [] OTHER -> ""]
    /\ UNCHANGED <<matchboxVars, cb, inv, host, creds, backend, node, create, del, cli, pkis,
                   clean, lost, old, left>>

\* Reconcile reads the record, fails one that has timed out, and stamps the start of a new one.
StartPass ==
    /\ pass.pc = "idle" /\ Pending(cb.phase)
    /\ pass' = [NoPass EXCEPT
                  !.cb = IF cb.phase = "NOT_BOOTSTRAPPED" THEN [cb EXCEPT !.started = "recently"] ELSE cb,
                  !.pc = IF cb.started = "long ago" THEN "store" ELSE Step[cb.phase],
                  !.then = CASE cb.started = "long ago" -> "FAILED"
                             [] cb.started # "long ago" /\ cb.phase = "NOT_BOOTSTRAPPED" -> "GENERATING_SECRETS"
                             [] OTHER -> ""]
    /\ UNCHANGED <<matchboxVars, cb, inv, host, creds, backend, node, create, del, cli, pkis,
                   clean, lost, old, left>>

\* put: the copy replaces the record, if there still is one or not.
PutRecord ==
    /\ pass.pc = "store"
    /\ cb' = [pass.cb EXCEPT !.phase = pass.then]
    /\ pass' = NoPass
    /\ UNCHANGED <<matchboxVars, inv, host, creds, backend, node, create, del, cli, pkis, clean, lost, old, left>>

\* The pass, with these credentials still to write.
Writing(todo) ==
    IF todo # <<>> THEN [pass EXCEPT !.todo = todo, !.half = FALSE]
    ELSE [pass EXCEPT !.pc = pass.then, !.todo = <<>>, !.half = FALSE,
                      !.then = IF pass.then = "store" THEN "STAGING" ELSE ""]

\* An item with the fields given; it keeps the others.
WriteFields(item, fields) ==
    [f \in Fields |-> IF \E i \in DOMAIN fields : fields[i][1] = f
                      THEN fields[CHOOSE i \in DOMAIN fields : fields[i][1] = f][2]
                      ELSE item[f]]

\* 1Password takes all of them at once.
PutItem ==
    /\ pass.pc = "put" /\ backend = "onepassword"
    /\ creds' = [creds EXCEPT ![backend] = WriteFields(@, pass.todo)]
    /\ pass' = Writing(<<>>)
    /\ UNCHANGED <<matchboxVars, cb, inv, host, backend, node, create, del, cli, pkis, clean, lost, old, left>>

\* The file store takes one after the other, and each file is empty in between.
PutFile ==
    /\ pass.pc = "put" /\ backend = "file"
    /\ creds' = [creds EXCEPT ![backend][Head(pass.todo)[1]] =
                    IF pass.half THEN Head(pass.todo)[2] ELSE Blank]
    /\ pass' = IF pass.half THEN Writing(Tail(pass.todo)) ELSE [pass EXCEPT !.half = TRUE]
    /\ UNCHANGED <<matchboxVars, cb, inv, host, backend, node, create, del, cli, pkis, clean, lost, old, left>>

\* generateSecrets: secrets that are there are kept.
SecretsPresent ==
    /\ pass.pc = "secrets" /\ creds[backend].secrets > 0
    /\ pass' = Store("STAGING")
    /\ UNCHANGED <<matchboxVars, cb, inv, host, creds, backend, node, create, del, cli, pkis,
                   clean, lost, old, left>>

\* Secrets that are not there, or that cannot be read, are generated.
GenerateSecrets ==
    /\ pass.pc = "secrets"
    /\ IF creds[backend].secrets > 0 THEN Spend("faults") ELSE UNCHANGED left
    /\ pkis' = pkis + 1
    /\ pass' = [pass EXCEPT !.pc = "put", !.then = "store", !.todo = <<<<"secrets", pkis + 1>>>>]
    /\ UNCHANGED <<matchboxVars, cb, inv, host, creds, backend, node, create, del, cli, clean, lost, old>>

\* Mutant: the configuration is rendered from a bundle of its own.
StageRendersMutant ==
    /\ pass.pc = "stage" /\ creds[backend].secrets > 0
    /\ pkis' = pkis + 1
    /\ pass' = [pass EXCEPT !.pc = "put", !.then = "matchbox", !.pki = pkis + 1,
                            !.todo = <<<<"talos", pkis + 1>>, <<"kube", Blank>>>>]
    /\ UNCHANGED <<matchboxVars, cb, inv, host, creds, backend, node, create, del, cli,
                   clean, lost, old, left>>

\* stage: the talosconfig and the configuration come from the same bundle, the
\* kubeconfig is stored empty.
StageRenders ==
    /\ pass.pc = "stage" /\ creds[backend].secrets > 0
    /\ pass' = [pass EXCEPT !.pc = "put", !.then = "matchbox", !.pki = creds[backend].secrets,
                            !.todo = <<<<"talos", creds[backend].secrets>>, <<"kube", Blank>>>>]
    /\ UNCHANGED <<matchboxVars, cb, inv, host, creds, backend, node, create, del, cli, pkis,
                   clean, lost, old, left>>

\* The call of the driver, and its return.
StageCalls ==
    /\ pass.pc = "matchbox"
    /\ Stage("bootstrap", CpMac, RenderControlPlaneConfig(FactoryHost, pass.pki, pass.cb.spec))
    /\ Reply("staging")
    /\ UNCHANGED <<cb, inv, host, creds, backend, node, create, del, cli, pkis, clean, lost, old, left>>

StageReturns ==
    /\ pass.pc = "staging"
    /\ \/ Return("bootstrap", "ok") /\ pass' = Store("AWAITING_INSTALL")
       \/ Return("bootstrap", "error") /\ Abort
    /\ UNCHANGED <<cb, inv, host, creds, backend, node, create, del, cli, pkis, clean, lost, old, left>>

\* The Talos API answers a client whose certificate is of the node's own bundle.
Trusted == node.config # NoConfig /\ creds[backend].talos = node.config.secrets

\* awaitInstall: tc.Version answers.
NodeReachable ==
    /\ pass.pc = "install" /\ Trusted
    /\ pass' = Store("BOOTSTRAPPING")
    /\ UNCHANGED <<matchboxVars, cb, inv, host, creds, backend, node, create, del, cli, pkis,
                   clean, lost, old, left>>

\* bootstrapEtcd: Talos initializes etcd, or says that it already has.  The answer is
\* lost, or means success either way.
BootstrapEtcd ==
    /\ pass.pc = "etcd" /\ Trusted
    /\ node' = [node EXCEPT !.etcd = TRUE]
    /\ pass' = Store("AWAITING_HEALTHY") \/ Abort
    /\ UNCHANGED <<matchboxVars, cb, inv, host, creds, backend, create, del, cli, pkis, clean, lost, old, left>>

\* Mutant: the kubeconfig is stored with an empty talosconfig.
FetchKubeconfigMutant ==
    /\ pass.pc = "kube" /\ Trusted /\ node.api
    /\ pass' = [pass EXCEPT !.pc = "put", !.then = "seedCluster",
                            !.todo = <<<<"talos", Blank>>, <<"kube", node.config.secrets>>>>]
    /\ UNCHANGED <<matchboxVars, cb, inv, host, creds, backend, node, create, del, cli, pkis,
                   clean, lost, old, left>>

\* fetchKubeconfig: it can be fetched once the API server is up.  The talosconfig is
\* read and written again with it.
FetchKubeconfig ==
    /\ pass.pc = "kube" /\ Trusted /\ node.api
    /\ pass' = [pass EXCEPT !.pc = "put", !.then = "seedCluster",
                            !.todo = <<<<"talos", creds[backend].talos>>,
                                       <<"kube", node.config.secrets>>>>]
    /\ UNCHANGED <<matchboxVars, cb, inv, host, creds, backend, node, create, del, cli, pkis,
                   clean, lost, old, left>>

\* seedInventory: each record that is missing is created.
Seed(pc, record, next) ==
    /\ pass.pc = pc
    /\ inv' = inv \cup {record}
    /\ pass' = next
    /\ UNCHANGED <<matchboxVars, cb, host, creds, backend, node, create, del, cli, pkis, clean, lost, old, left>>
SeedCluster == Seed("seedCluster", "Cluster", [pass EXCEPT !.pc = "seedPool"])
SeedPool == Seed("seedPool", "NodePool", [pass EXCEPT !.pc = "seedMachine"])
SeedMachine == Seed("seedMachine", "Machine", Store("READY"))

\* A call that is not answered, or a step that returns an error: the next pass tries again.
Park ==
    /\ pass.pc \in {"stage", "install", "etcd", "kube"}
    /\ Abort
    /\ UNCHANGED <<matchboxVars, cb, inv, host, creds, backend, node, create, del, cli, pkis,
                   clean, lost, old, left>>

\* A store, vault or file operation fails, and the pass with it.
PassFails ==
    /\ pass.pc \in {"put", "store", "seedCluster", "seedPool", "seedMachine"}
    /\ Spend("faults")
    /\ Abort
    /\ UNCHANGED <<matchboxVars, cb, inv, host, creds, backend, node, create, del, cli, pkis,
                   clean, lost, old>>

-----------------------------------------------------------------------------
(* The commands that move credentials, run beside the server.              *)

\* From now on the server finds these credentials: somebody else has exchanged them.
Exchanged(now) ==
    LET changed == {f \in Fields : now[f] # creds[backend][f]}
    IN  /\ clean' = (clean /\ (changed = {} \/ cb.phase = "READY"))
        /\ lost' = IF cb.phase = "READY" THEN lost \cup changed ELSE lost

\* A command reads credentials, for this step.
Reads(pc, held) ==
    /\ cli' = [pc |-> pc, held |-> held]
    /\ UNCHANGED <<matchboxVars, cb, inv, host, creds, backend, node, pass, create, del, pkis,
                   clean, lost, old>>

\* A command writes these of the credentials it has read.
Writes(pc, store, fields, next) ==
    LET now == [f \in Fields |-> IF f \in fields THEN cli.held[f] ELSE creds[store][f]]
    IN  /\ cli.pc = pc /\ cli' = next
        /\ creds' = [creds EXCEPT ![store] = now]
        /\ Exchanged(IF store = backend THEN now ELSE creds[backend])
        /\ UNCHANGED <<matchboxVars, cb, inv, host, backend, node, pass, create, del, pkis, old, left>>

\* "medea capture-secrets": the bundle of the running node, into the file store.
CaptureSecrets ==
    /\ cli.pc = "idle" /\ Spend("commands")
    /\ node.config # NoConfig /\ creds["file"].talos = node.config.secrets
    /\ Reads("capture", [NoCreds EXCEPT !.secrets = node.config.secrets])
CaptureWrites == Writes("capture", "file", {"secrets"}, NoCommand)

\* "medea creds migrate": both client configurations at once.
MigrateReads ==
    /\ cli.pc = "idle" /\ Spend("commands")
    /\ creds["file"].talos # Absent /\ creds["file"].kube # Absent
    /\ Reads("configs", [creds["file"] EXCEPT !.secrets = Absent])
MigrateConfigs == Writes("configs", "onepassword", {"talos", "kube"}, [pc |-> "read", held |-> NoCreds])

\* Then the secrets; if they cannot be read they are skipped.
MigrateSecretsRead ==
    /\ cli.pc = "read"
    /\ \/ /\ creds["file"].secrets # Absent
          /\ Reads("secrets", [NoCreds EXCEPT !.secrets = creds["file"].secrets])
          /\ UNCHANGED left
       \/ /\ IF creds["file"].secrets # Absent THEN Spend("faults") ELSE UNCHANGED left
          /\ Reads("idle", NoCreds)
MigrateSecrets == Writes("secrets", "onepassword", {"secrets"}, NoCommand)

\* A write of a command fails, and the command with it.
CommandFails == cli.pc # "idle" /\ Spend("faults") /\ Reads("idle", NoCreds)

Command ==
    \/ CaptureSecrets \/ CaptureWrites \/ MigrateReads \/ MigrateConfigs
    \/ MigrateSecretsRead \/ MigrateSecrets \/ CommandFails

-----------------------------------------------------------------------------
(* The machine, the other executor, time and crashes.                      *)

Served == \A a \in Assets : dest[a] # 0 /\ disk[dest[a]] = Blocks

\* The machine is started, netboots what is staged for it, and installs it.
Install ==
    /\ \A k \in Kinds : file[CpMac][k].state = "whole"
    /\ Served
    /\ file[CpMac]["generic"].config # node.config
    /\ node' = [config |-> file[CpMac]["generic"].config, etcd |-> FALSE, api |-> FALSE]
    /\ UNCHANGED <<matchboxVars, cb, inv, host, creds, backend, pass, create, del, cli, pkis,
                   clean, lost, old, left>>

ApiServerUp ==
    /\ node.etcd /\ ~node.api
    /\ node' = [node EXCEPT !.api = TRUE]
    /\ UNCHANGED <<matchboxVars, cb, inv, host, creds, backend, pass, create, del, cli, pkis,
                   clean, lost, old, left>>

\* The provisioning executor stages and unstages workers.
WorkerCalls ==
    /\ Spend("stagings")
    /\ \E m \in HostsOf["provisioning"] :
         Stage("provisioning", m, WorkerConfig) \/ Unstage("provisioning", m)
    /\ UNCHANGED <<cb, inv, host, creds, backend, node, pass, create, del, cli, pkis, clean, lost, old>>

WorkerReturns ==
    /\ Return("provisioning", "ok") \/ Return("provisioning", "error")
    /\ UNCHANGED bootVars

Driver(e) == DriverStep(e) /\ UNCHANGED bootVars

DownloadFails ==
    /\ \E e \in Executors : FetchFails(e)
    /\ Spend("faults")
    /\ UNCHANGED <<cb, inv, host, creds, backend, node, pass, create, del, cli, pkis, clean, lost, old>>

\* The timeout of the whole bring-up passes.
Late(started) == IF started = "recently" THEN "long ago" ELSE started
Expire ==
    /\ cb.started = "recently"
    /\ cb' = [cb EXCEPT !.started = Late(@)]
    /\ pass' = [pass EXCEPT !.cb.started = Late(@)]
    /\ UNCHANGED <<matchboxVars, inv, host, creds, backend, node, create, del, cli, pkis, clean, lost, old, left>>

\* The server dies and starts again, with the credential store it is told to use.
Crash ==
    /\ Spend("crashes")
    /\ MatchboxCrash
    /\ pass' = NoPass /\ create' = [pc |-> "idle", spec |-> NoSpec] /\ del' = "idle"
    /\ backend' \in DOMAIN creds
    /\ Exchanged(creds[backend'])
    /\ UNCHANGED <<cb, inv, host, creds, node, cli, pkis, old>>

PassStep ==
    \/ StartPass \/ PutRecord \/ PutItem \/ PutFile \/ SecretsPresent \/ GenerateSecrets
    \/ StageRenders \/ StageCalls \/ StageReturns \/ NodeReachable \/ BootstrapEtcd
    \/ FetchKubeconfig \/ SeedCluster \/ SeedPool \/ SeedMachine \/ Park

Request == CreateChecks \/ CreateHost \/ CreateArms \/ DeregisterHost
           \/ DeleteRecords \/ DeleteCreds \/ DeleteCredsFails

Next ==
    \/ PassStep \/ PassFails \/ Request
    \/ Command
    \/ Install \/ ApiServerUp \/ WorkerCalls \/ WorkerReturns
    \/ \E e \in Executors : Driver(e)
    \/ DownloadFails \/ Expire \/ Crash

Spec == Init /\ [][Next]_allVars

\* The executor makes passes as long as the server runs, and time passes.  The driver
\* returns: a download has no timeout of its own, and is assumed to go on or to fail.
Fairness == WF_allVars(PassStep) /\ WF_allVars(Driver("bootstrap")) /\ WF_allVars(Expire)
FairSpec == Spec /\ Fairness

-----------------------------------------------------------------------------
(* Properties.                                                             *)

\* What GetCredentials returns for the cluster, once it is in the inventory.
GetCredentials(f) == IF "Cluster" \in inv THEN creds[backend][f] ELSE Absent

\* Once the record says that the control plane is staged, and until the cluster is
\* READY, the bundle in the credential store is the one the staged configuration was
\* rendered from, and the node that gets installed has it: "never regenerate for a
\* cluster that already has a bundle", across crashes, failed reads and retries.
OneBundle ==
    clean /\ cb.phase \in {"AWAITING_INSTALL", "BOOTSTRAPPING", "AWAITING_HEALTHY"} =>
        /\ file[CpMac]["group"].state = "whole"
        /\ file[CpMac]["generic"].config =
             RenderControlPlaneConfig(FactoryHost, creds[backend].secrets, cb.spec)
        /\ creds[backend].talos \in {creds[backend].secrets, Blank}

\* A cluster that is READY is in the inventory, runs the configuration that was asked
\* for, and GetCredentials returns the credentials of that very node, in whichever
\* store the server uses, except those that a command or a restart with another store
\* has exchanged since.
CreatedComplete ==
    clean /\ cb.phase = "READY" =>
        /\ inv = {"Cluster", "NodePool", "Machine"}
        /\ node.etcd /\ node.api
        /\ node.config = RenderControlPlaneConfig(FactoryHost, node.config.secrets, cb.spec)
        /\ \A f \in Fields \ lost : GetCredentials(f) = node.config.secrets

\* The credentials of a deleted cluster never come back, "so a name can be re-created
\* cleanly": once DeleteCluster has removed them, and unless a pass or a command had
\* them in hand or the other store had a copy, no store gets them again and no
\* configuration rendered from them is staged, though the old node still runs.
DeletedStaysGone ==
    /\ \A b \in DOMAIN creds, f \in Fields : creds[b][f] \notin 1..old
    /\ job["bootstrap"].pc # "idle" => job["bootstrap"].config.secrets \notin 1..old

\* A bootstrap ends: it is READY, FAILED or deleted, whatever the node does and wherever
\* a crash or an error stops a pass, because each pass begins with the timeout.
BootstrapEnds == Pending(cb.phase) ~> ~Pending(cb.phase)
============================================================================
