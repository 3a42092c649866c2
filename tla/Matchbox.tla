------------------------------ MODULE Matchbox ------------------------------
(***************************************************************************)
(* The Matchbox driver (internal/provision/matchbox): the files a machine  *)
(* is network-booted from.  A host has a generic file (its machine         *)
(* configuration), a profile and a group; the boot assets are downloaded   *)
(* once and shared by all hosts.                                           *)
(*                                                                         *)
(* The provisioning and the bootstrap executor each own a driver, on one   *)
(* directory.  A call of Stage or Unstage is a job of its executor: one    *)
(* file operation is one step, and the steps of two jobs interleave.       *)
(* os.WriteFile is two: it empties the file, then it writes it, and a      *)
(* machine that boots, or a crash, may come in between.                    *)
(***************************************************************************)
EXTENDS Integers, FiniteSets

CONSTANTS
    Executors,  \* the goroutines with a driver
    Macs,       \* hosts
    HostsOf,    \* the hosts each executor stages: new workers, or the control plane
    Configs,    \* machine configurations
    NoConfig,   \* none of them
    NAssets,    \* boot assets of a profile: 1 is the kernel, the others are initrds
    NBlocks     \* an asset is downloaded in this many blocks

ASSUME AssetsAssumption == NAssets \in Nat \ {0} /\ NBlocks \in Nat \ {0}
ASSUME ExecutorsAssumption == IsFiniteSet(Executors)
ASSUME HostsAssumption ==
    /\ HostsOf \in [Executors -> SUBSET Macs]
    /\ \A e, f \in Executors : e # f => HostsOf[e] \cap HostsOf[f] = {}

VARIABLES
    file,   \* the files of each host
    disk,   \* the blocks each inode holds
    tmp,    \* the inode of dest + ".tmp", per asset; 0 if there is no such file
    dest,   \* the inode of the asset that is served; 0 if there is none
    job,    \* the calls in progress
    clash,  \* history: assets two drivers were downloading at the same time
    torn    \* history: staged hosts of which Stage, called again, has emptied a file that is
            \* not written again yet

matchboxVars == <<file, disk, tmp, dest, job, clash, torn>>

Kinds == {"generic", "profile", "group"}
Contents == {"none", "empty", "whole"}

\* A generic file holds a configuration.
File == [state : Contents, config : Configs \cup {NoConfig}]
NoFile == [state |-> "none", config |-> NoConfig]
EmptyFile == [state |-> "empty", config |-> NoConfig]

Assets == 1..NAssets
Blocks == 1..NBlocks

\* A name, and a descriptor of each executor, can hold on to an inode: one is always free
\* for a file that is to be created.
Inodes == 1..(2 * NAssets + Cardinality(Executors))

JobPCs == {"idle", "generic", "mirror", "create", "copy", "rename", "profile", "group",
           "rmGroup", "rmProfile", "rmGeneric", "ok", "error"}

\* asset is the one being mirrored, fd its open file, got the blocks copied so far.
Job == [pc : JobPCs, mac : Macs \cup {"no mac"}, config : Configs \cup {NoConfig},
        asset : 0..(NAssets + 1), fd : Inodes \cup {0}, got : 0..NBlocks]
NoJob == [pc |-> "idle", mac |-> "no mac", config |-> NoConfig, asset |-> 0, fd |-> 0, got |-> 0]

MatchboxInit ==
    /\ file = [m \in Macs |-> [k \in Kinds |-> NoFile]]
    /\ disk = [i \in Inodes |-> {}]
    /\ tmp = [a \in Assets |-> 0]
    /\ dest = [a \in Assets |-> 0]
    /\ job = [e \in Executors |-> NoJob]
    /\ clash = {} /\ torn = {}

InUse == {tmp[a] : a \in Assets} \cup {dest[a] : a \in Assets} \cup {job[e].fd : e \in Executors}

To(e, pc) == job' = [job EXCEPT ![e] = [@ EXCEPT !.pc = pc]]

Whole(m, kinds) == \A k \in kinds : file[m][k].state = "whole"

\* os.WriteFile opens the file with O_TRUNC.
Truncate(e) ==
    /\ job[e].pc \in Kinds
    /\ file[job[e].mac][job[e].pc].state # "empty"
    /\ file' = [file EXCEPT ![job[e].mac][job[e].pc] = EmptyFile]
    /\ torn' = IF job[e].pc # "group" /\ file[job[e].mac]["group"].state # "none"
               THEN torn \cup {job[e].mac} ELSE torn
    /\ UNCHANGED <<disk, tmp, dest, job, clash>>

\* Then it writes it; the driver goes on to the asset given.
WriteFile(e, k, config, pc, asset) ==
    /\ file[job[e].mac][k].state = "empty"
    /\ file' = [file EXCEPT ![job[e].mac][k] = [state |-> "whole", config |-> config]]
    /\ torn' = IF Whole(job[e].mac, {"generic", "profile"} \ {k}) THEN torn \ {job[e].mac} ELSE torn
    /\ job' = [job EXCEPT ![e] = [@ EXCEPT !.pc = pc, !.asset = asset]]
    /\ UNCHANGED <<disk, tmp, dest, clash>>

\* os.Remove, where a file that does not exist is no error.
RemoveFile(e, k, pc) ==
    /\ file' = [file EXCEPT ![job[e].mac][k] = NoFile]
    /\ torn' = IF k = "group" THEN torn \ {job[e].mac} ELSE torn
    /\ To(e, pc)
    /\ UNCHANGED <<disk, tmp, dest, clash>>

\* Mutant: the group comes before what it points to.
WriteGenericMutant(e) ==
    /\ job[e].pc = "generic" /\ file[job[e].mac]["generic"].state = "empty"
    /\ file' = [file EXCEPT ![job[e].mac]["group"] = [state |-> "whole", config |-> NoConfig],
                            ![job[e].mac]["generic"] = [state |-> "whole", config |-> job[e].config]]
    /\ job' = [job EXCEPT ![e].pc = "mirror", ![e].asset = 1]
    /\ UNCHANGED <<disk, tmp, dest, clash, torn>>

\* Stage: the configuration, the assets, the profile, and the group last.
WriteGeneric(e) == job[e].pc = "generic" /\ WriteFile(e, "generic", job[e].config, "mirror", 1)
WriteProfile(e) == job[e].pc = "profile" /\ WriteFile(e, "profile", NoConfig, "group", job[e].asset)
WriteGroup(e) == job[e].pc = "group" /\ WriteFile(e, "group", NoConfig, "ok", job[e].asset)

\* Unstage: the group first.
RemoveGroup(e) == job[e].pc = "rmGroup" /\ RemoveFile(e, "group", "rmProfile")
RemoveProfile(e) == job[e].pc = "rmProfile" /\ RemoveFile(e, "profile", "rmGeneric")
RemoveGeneric(e) == job[e].pc = "rmGeneric" /\ RemoveFile(e, "generic", "ok")

\* A file of that name that is not empty is a cache hit.
Cached(a) == dest[a] # 0 /\ disk[dest[a]] # {}

\* The assets are mirrored one after the other.
AfterAsset(e) == IF job[e].asset < NAssets
                 THEN [job[e] EXCEPT !.pc = "mirror", !.asset = @ + 1, !.fd = 0, !.got = 0]
                 ELSE [job[e] EXCEPT !.pc = "profile", !.asset = NAssets + 1, !.fd = 0, !.got = 0]

\* mirror, and fetchIfAbsent up to the request.
Mirror(e) ==
    /\ job[e].pc = "mirror"
    /\ job' = [job EXCEPT ![e] = IF Cached(@.asset) THEN AfterAsset(e) ELSE [@ EXCEPT !.pc = "create"]]
    /\ UNCHANGED <<file, disk, tmp, dest, clash, torn>>

Fetching(e, a) == job[e].pc \in {"copy", "rename"} /\ job[e].asset = a

\* os.Create(tmp): empties the file if there is one, whoever is writing it.  A new file
\* takes an inode that nothing holds; without one only FetchFails could follow.
CreateTmp(e) ==
    LET a == job[e].asset
        i == IF tmp[a] # 0 THEN tmp[a] ELSE CHOOSE j \in Inodes : j \notin InUse
    IN  /\ job[e].pc = "create"
        /\ tmp[a] # 0 \/ \E j \in Inodes : j \notin InUse
        /\ tmp' = [tmp EXCEPT ![a] = i]
        /\ disk' = [disk EXCEPT ![i] = {}]
        /\ job' = [job EXCEPT ![e] = [@ EXCEPT !.pc = "copy", !.fd = i, !.got = 0]]
        /\ clash' = IF \E f \in Executors \ {e} : Fetching(f, a) THEN clash \cup {a} ELSE clash
        /\ UNCHANGED <<file, dest, torn>>

\* io.Copy, block by block.
Copied(j) == [j EXCEPT !.got = j.got + 1, !.pc = IF j.got + 1 = NBlocks THEN "rename" ELSE "copy"]

CopyBlock(e) ==
    /\ job[e].pc = "copy"
    /\ disk' = [disk EXCEPT ![job[e].fd] = @ \cup {job[e].got + 1}]
    /\ job' = [job EXCEPT ![e] = Copied(job[e])]
    /\ UNCHANGED <<file, tmp, dest, clash, torn>>

\* Mutant: a copy that was cut short is renamed all the same.
RenameMutant(e) ==
    LET a == job[e].asset
    IN  /\ job[e].pc \in {"copy", "rename"}
        /\ IF tmp[a] = 0
           THEN /\ job' = [job EXCEPT ![e] = [@ EXCEPT !.pc = "error", !.fd = 0]]
                /\ UNCHANGED <<tmp, dest>>
           ELSE /\ dest' = [dest EXCEPT ![a] = tmp[a]]
                /\ tmp' = [tmp EXCEPT ![a] = 0]
                /\ job' = [job EXCEPT ![e] = AfterAsset(e)]
        /\ UNCHANGED <<file, disk, clash, torn>>

\* os.Rename, which fails if another driver has renamed the file.
Rename(e) ==
    LET a == job[e].asset
    IN  /\ job[e].pc = "rename"
        /\ IF tmp[a] = 0
           THEN /\ job' = [job EXCEPT ![e] = [@ EXCEPT !.pc = "error", !.fd = 0]]
                /\ UNCHANGED <<tmp, dest>>
           ELSE /\ dest' = [dest EXCEPT ![a] = tmp[a]]
                /\ tmp' = [tmp EXCEPT ![a] = 0]
                /\ job' = [job EXCEPT ![e] = AfterAsset(e)]
        /\ UNCHANGED <<file, disk, clash, torn>>

\* The download is refused or breaks off; the temporary file is removed.
FetchFails(e) ==
    /\ job[e].pc \in {"create", "copy"}
    /\ tmp' = IF job[e].pc = "copy" THEN [tmp EXCEPT ![job[e].asset] = 0] ELSE tmp
    /\ job' = [job EXCEPT ![e] = [@ EXCEPT !.pc = "error", !.fd = 0]]
    /\ UNCHANGED <<file, disk, dest, clash, torn>>

\* The process dies, and leaves the files as they are.
MatchboxCrash ==
    /\ job' = [e \in Executors |-> NoJob]
    /\ UNCHANGED <<file, disk, tmp, dest, clash, torn>>

\* An executor calls the driver, and takes its answer.
Stage(e, m, config) ==
    /\ job[e].pc = "idle"
    /\ job' = [job EXCEPT ![e] = [NoJob EXCEPT !.pc = "generic", !.mac = m, !.config = config]]
    /\ UNCHANGED <<file, disk, tmp, dest, clash, torn>>

Unstage(e, m) ==
    /\ job[e].pc = "idle"
    /\ job' = [job EXCEPT ![e] = [NoJob EXCEPT !.pc = "rmGroup", !.mac = m]]
    /\ UNCHANGED <<file, disk, tmp, dest, clash, torn>>

Return(e, pc) ==
    /\ job[e].pc = pc
    /\ job' = [job EXCEPT ![e] = NoJob]
    /\ UNCHANGED <<file, disk, tmp, dest, clash, torn>>

DriverStep(e) ==
    \/ Truncate(e) \/ WriteGeneric(e) \/ WriteProfile(e) \/ WriteGroup(e)
    \/ RemoveGroup(e) \/ RemoveProfile(e) \/ RemoveGeneric(e)
    \/ Mirror(e) \/ CreateTmp(e) \/ CopyBlock(e) \/ Rename(e)

MatchboxNext ==
    \/ \E e \in Executors : \/ DriverStep(e)
                            \/ FetchFails(e)
                            \/ \E m \in HostsOf[e], c \in Configs : Stage(e, m, c)
                            \/ \E m \in HostsOf[e] : Unstage(e, m)
                            \/ Return(e, "ok")
                            \/ Return(e, "error")
    \/ MatchboxCrash

MatchboxSpec == MatchboxInit /\ [][MatchboxNext]_matchboxVars

-----------------------------------------------------------------------------
(* Properties.                                                             *)

\* The type of every variable.
MatchboxTypeOK ==
    /\ file \in [Macs -> [Kinds -> File]]
    /\ disk \in [Inodes -> SUBSET Blocks]
    /\ tmp \in [Assets -> Inodes \cup {0}] /\ dest \in [Assets -> Inodes \cup {0}]
    /\ job \in [Executors -> Job]
    /\ clash \subseteq Assets /\ torn \subseteq Macs \cup {"no mac"}

\* A machine that Matchbox matches to a group finds the profile and the
\* configuration it names, and both whole, at every point of Stage and Unstage and
\* after a crash: the group is written last and removed first.  Only while Stage, called
\* again for a staged host, has emptied one of the two and not written it again, or was
\* cut there, does the machine find an empty one.
MatchedIsStaged ==
    \A m \in Macs : file[m]["group"].state # "none" =>
        /\ file[m]["profile"].state # "none" /\ file[m]["generic"].state # "none"
        /\ m \notin torn => Whole(m, {"generic", "profile"})

\* An asset that is served is complete, whatever was interrupted or refused
\* ("an interrupted mirror never leaves a truncated kernel"), as long as only one
\* driver at a time downloads it.
ServedComplete == \A a \in Assets \ clash : dest[a] # 0 => disk[dest[a]] = Blocks
============================================================================
