--------------------------- MODULE StagingProofs ---------------------------
(***************************************************************************)
(* What the Matchbox drivers promise, for any executors, hosts, assets and *)
(* sizes, and that creating clusters beside the provisioning of workers    *)
(* uses them as they are specified.                                        *)
(*                                                                         *)
(* ServedComplete: a temporary file that one driver alone writes holds     *)
(* what that driver has copied, and no file that is served is open.  This  *)
(* takes an account of which inodes are whose (Names and Private).         *)
(* MatchedIsStaged: where a job is tells which files its host has          *)
(* (Progress), because no two executors work on one host.                  *)
(* In the composition, a call of the driver belongs to the pass that waits *)
(* for it (Base).                                                          *)
(***************************************************************************)
EXTENDS Bootstrap, TLAPS

-----------------------------------------------------------------------------
(* The assets of the drivers.                                              *)

\* No inode has two names.
Names ==
    /\ \A a, b \in Assets : tmp[a] # 0 => tmp[a] # dest[b]
    /\ \A a, b \in Assets : a # b /\ tmp[a] # 0 => tmp[a] # tmp[b]
    /\ \A a, b \in Assets : a # b /\ dest[a] # 0 => dest[a] # dest[b]

\* A driver is at one of the assets while it mirrors, and has a file open only while
\* it downloads.
InJob(e) ==
    /\ job[e].pc \in {"mirror", "create", "copy", "rename"} => job[e].asset \in Assets
    /\ job[e].pc \in {"copy", "rename"} <=> job[e].fd # 0

\* The open file of a driver is not, and is not served as, another asset.  It is the
\* asset's temporary file, with the blocks copied so far, unless two drivers were
\* downloading the asset.
Private(e) ==
    job[e].pc \in {"copy", "rename"} =>
        /\ \A b \in Assets \ {job[e].asset} : job[e].fd # tmp[b] /\ job[e].fd # dest[b]
        /\ \A f \in Executors \ {e} : Fetching(f, job[e].asset) => job[e].asset \in clash
        /\ job[e].asset \notin clash =>
             /\ tmp[job[e].asset] = job[e].fd
             /\ disk[job[e].fd] = 1..job[e].got
        /\ job[e].pc = "copy" => job[e].got < NBlocks
        /\ job[e].pc = "rename" => job[e].got = NBlocks

AssetsInv ==
    /\ MatchboxTypeOK /\ Names /\ ServedComplete
    /\ \A e \in Executors : InJob(e) /\ Private(e)

\* Initially there are no files.
LEMMA InitAssets == MatchboxInit => AssetsInv
  <1> SUFFICES ASSUME MatchboxInit PROVE AssetsInv
    OBVIOUS
  <1>1. NAssets \in Nat /\ NBlocks \in Nat BY Zenon, AssetsAssumption
  <1>2. NoJob \in Job /\ NoJob.pc = "idle" /\ NoJob.fd = 0 BY <1>1 DEF NoJob, Job, JobPCs
  <1>3. NoFile \in File BY Zenon DEF NoFile, File, Contents
  <1>4. MatchboxTypeOK BY Zenon, <1>2, <1>3 DEF MatchboxInit, MatchboxTypeOK
  <1>5. Names /\ ServedComplete BY Zenon DEF MatchboxInit, Names, ServedComplete
  <1>6. \A e \in Executors : InJob(e) /\ Private(e) BY Zenon, <1>2 DEF MatchboxInit, InJob, Private
  <1> QED BY Zenon, <1>4, <1>5, <1>6 DEF AssetsInv

\* The state of a driver that is done with an asset.
LEMMA AfterAssetTyped ==
  ASSUME AssetsInv, NEW e \in Executors, job[e].asset \in Assets
  PROVE  /\ AfterAsset(e) \in Job
         /\ AfterAsset(e).fd = 0
         /\ AfterAsset(e).pc \in {"mirror", "profile"}
         /\ AfterAsset(e).mac = job[e].mac
         /\ AfterAsset(e).pc = "mirror" => AfterAsset(e).asset \in Assets
  <1>1. job[e] \in Job /\ NAssets \in Nat /\ NBlocks \in Nat /\ 0 \in 0..NBlocks
    <2>1. job[e] \in Job BY Zenon DEF AssetsInv, MatchboxTypeOK
    <2> QED BY <2>1, AssetsAssumption
  <1>2. CASE job[e].asset < NAssets
    <2> DEFINE x == job[e].asset + 1
               r == [job[e] EXCEPT !.pc = "mirror", !.asset = x, !.fd = 0, !.got = 0]
    <2>1. AfterAsset(e) = r BY Zenon, <1>2 DEF AfterAsset
    <2>2. x \in Assets /\ x \in 0..(NAssets + 1) BY <1>1, <1>2 DEF Assets
    <2> HIDE DEF x
    <2>3. r \in Job BY Zenon, <1>1, <2>2 DEF Job, JobPCs
    <2>4. r.fd = 0 /\ r.pc = "mirror" /\ r.asset = x /\ r.mac = job[e].mac BY Zenon, <1>1 DEF Job
    <2> HIDE DEF r
    <2> QED BY Zenon, <2>1, <2>2, <2>3, <2>4
  <1>3. CASE ~(job[e].asset < NAssets)
    <2> DEFINE x == NAssets + 1
               r == [job[e] EXCEPT !.pc = "profile", !.asset = x, !.fd = 0, !.got = 0]
    <2>1. AfterAsset(e) = r BY Zenon, <1>3 DEF AfterAsset
    <2>2. x \in 0..(NAssets + 1) BY <1>1
    <2> HIDE DEF x
    <2>3. r \in Job BY Zenon, <1>1, <2>2 DEF Job, JobPCs
    <2>4. r.fd = 0 /\ r.pc = "profile" /\ r.mac = job[e].mac BY Zenon, <1>1 DEF Job
    <2> HIDE DEF r
    <2> QED BY Zenon, <2>1, <2>3, <2>4
  <1> QED BY Zenon, <1>2, <1>3

\* The idle job.
LEMMA IdleJob == NoJob \in Job /\ NoJob.pc = "idle" /\ NoJob.fd = 0
  BY AssetsAssumption DEF NoJob, Job, JobPCs

\* os.Create has opened inode i for the temporary file of e's asset: no other asset has it.
Opened(e, i) ==
    /\ job[e].pc = "create"
    /\ \A b \in Assets : dest[b] # i
    /\ \A b \in Assets \ {job[e].asset} : tmp[b] # i
    /\ \A f \in Executors :
         job[f].pc \in {"copy", "rename"} /\ job[f].asset # job[e].asset => job[f].fd # i
    /\ tmp' = [tmp EXCEPT ![job[e].asset] = i]
    /\ disk' = [disk EXCEPT ![i] = {}]
    /\ job' = [job EXCEPT ![e] = [@ EXCEPT !.pc = "copy", !.fd = i, !.got = 0]]
    /\ clash' = IF \E f \in Executors \ {e} : Fetching(f, job[e].asset)
                THEN clash \cup {job[e].asset} ELSE clash
    /\ UNCHANGED <<file, dest, torn>>

\* Every step keeps the account of the inodes.
LEMMA NextAssets == AssetsInv /\ [MatchboxNext]_matchboxVars => AssetsInv'
  \* A step that leaves the assets alone, and in which no driver begins to download or
  \* goes on downloading.
  <1>1. ASSUME AssetsInv, MatchboxTypeOK', UNCHANGED <<disk, tmp, dest, clash>>,
               \A e \in Executors :
                  \/ /\ job'[e].pc = job[e].pc
                     /\ job'[e].asset = job[e].asset
                     /\ job'[e].fd = job[e].fd
                     /\ job'[e].got = job[e].got
                  \/ /\ job'[e].pc \notin {"copy", "rename"}
                     /\ job'[e].fd = 0
                     /\ job'[e].pc \in {"mirror", "create"} => job'[e].asset \in Assets
        PROVE  AssetsInv'
    <2> USE <1>1
    <2>1. Names' /\ ServedComplete' BY Zenon DEF AssetsInv, Names, ServedComplete
    <2>2. \A e \in Executors : InJob(e)' BY Zenon DEF AssetsInv, InJob
    <2>3. \A f \in Executors, a \in Assets : Fetching(f, a)' => Fetching(f, a) BY Zenon DEF Fetching
    <2>4. \A e \in Executors : Private(e)'
      <3> SUFFICES ASSUME NEW e \in Executors, job'[e].pc \in {"copy", "rename"} PROVE Private(e)'
        BY Zenon DEF Private
      <3>1. /\ job'[e].pc = job[e].pc /\ job'[e].asset = job[e].asset
            /\ job'[e].fd = job[e].fd /\ job'[e].got = job[e].got
        OBVIOUS
      <3>2. Private(e) /\ job[e].asset \in Assets BY Zenon, <3>1 DEF AssetsInv, InJob
      <3> QED BY Zenon, <2>3, <3>1, <3>2 DEF Private, Fetching
    <2> QED BY Zenon, <2>1, <2>2, <2>4 DEF AssetsInv
  \* A step of one driver outside of a download.
  <1>2. ASSUME AssetsInv, NEW e \in Executors, NEW r \in Job, job' = [job EXCEPT ![e] = r],
               file' \in [Macs -> [Kinds -> File]], torn' \subseteq Macs \cup {"no mac"},
               UNCHANGED <<disk, tmp, dest, clash>>,
               r.pc \notin {"copy", "rename"}, r.fd = 0, r.pc \in {"mirror", "create"} => r.asset \in Assets
        PROVE  AssetsInv'
    <2> USE <1>2
    <2>1. job' \in [Executors -> Job] /\ \A f \in Executors : job'[f] = IF f = e THEN r ELSE job[f]
      BY Zenon DEF AssetsInv, MatchboxTypeOK
    <2>2. MatchboxTypeOK' BY Zenon, <2>1 DEF AssetsInv, MatchboxTypeOK
    <2> QED BY Zenon, <2>1, <2>2, <1>1
  \* A driver empties a file of its host.
  <1>2a. ASSUME AssetsInv, NEW e \in Executors, Truncate(e)
         PROVE  AssetsInv'
    <2> USE <1>2a
    <2>1. EmptyFile \in File BY Zenon DEF EmptyFile, File, Contents
    <2>2. file' \in [Macs -> [Kinds -> File]] BY Zenon, <2>1 DEF AssetsInv, MatchboxTypeOK, Truncate
    <2>3. job[e].mac \in Macs \cup {"no mac"} BY Zenon DEF AssetsInv, MatchboxTypeOK, Job
    <2>4. torn' \subseteq Macs \cup {"no mac"} BY Zenon, <2>3 DEF AssetsInv, MatchboxTypeOK, Truncate
    <2>5. UNCHANGED <<disk, tmp, dest, clash, job>> BY Zenon DEF Truncate
    <2>6. MatchboxTypeOK' BY Zenon, <2>2, <2>4, <2>5 DEF AssetsInv, MatchboxTypeOK
    <2> QED BY Zenon, <2>5, <2>6, <1>1
  \* A driver writes a file of its host.
  <1>3. ASSUME AssetsInv, NEW e \in Executors, NEW k \in Kinds, NEW c \in Configs \cup {NoConfig},
               NEW pc \in {"mirror", "group", "ok"}, NEW x \in 0..(NAssets + 1), pc = "mirror" => x = 1,
               job[e].pc \notin {"copy", "rename"}, WriteFile(e, k, c, pc, x)
        PROVE  AssetsInv'
    <2> USE <1>3
    <2> DEFINE r == [job[e] EXCEPT !.pc = pc, !.asset = x]
    <2>1. 1 \in Assets BY AssetsAssumption DEF Assets
    <2>2. job[e] \in Job /\ job[e].fd = 0 BY Zenon DEF AssetsInv, MatchboxTypeOK, InJob
    <2>3. r \in Job /\ r.pc = pc /\ r.fd = 0 /\ r.asset = x BY Zenon, <2>2 DEF Job, JobPCs
    <2>4. [state |-> "whole", config |-> c] \in File BY Zenon DEF File, Contents
    <2>5. file' \in [Macs -> [Kinds -> File]] /\ torn' \subseteq Macs \cup {"no mac"} BY Zenon, <2>4 DEF AssetsInv, MatchboxTypeOK, WriteFile
    <2>6. job' = [job EXCEPT ![e] = r] /\ UNCHANGED <<disk, tmp, dest, clash>> BY Zenon DEF WriteFile
    <2> HIDE DEF r
    <2> QED BY Zenon, <2>1, <2>3, <2>5, <2>6, <1>2
  \* A driver removes a file of its host.
  <1>4. ASSUME AssetsInv, NEW e \in Executors, NEW k \in Kinds, NEW pc \in {"rmProfile", "rmGeneric", "ok"},
               job[e].pc \notin {"copy", "rename"}, RemoveFile(e, k, pc)
        PROVE  AssetsInv'
    <2> USE <1>4
    <2> DEFINE r == [job[e] EXCEPT !.pc = pc]
    <2>1. job[e] \in Job /\ job[e].fd = 0 BY Zenon DEF AssetsInv, MatchboxTypeOK, InJob
    <2>2. r \in Job /\ r.pc = pc /\ r.fd = 0 BY Zenon, <2>1 DEF Job, JobPCs
    <2>3. NoFile \in File BY Zenon DEF NoFile, File, Contents
    <2>4. file' \in [Macs -> [Kinds -> File]] /\ torn' \subseteq Macs \cup {"no mac"} BY Zenon, <2>3 DEF AssetsInv, MatchboxTypeOK, RemoveFile
    <2>5. job' = [job EXCEPT ![e] = r] /\ UNCHANGED <<disk, tmp, dest, clash>> BY Zenon DEF RemoveFile, To
    <2> HIDE DEF r
    <2> QED BY Zenon, <2>2, <2>4, <2>5, <1>2
  \* os.Create, of the inode that has the temporary name or of a free one.
  <1>5. ASSUME AssetsInv, NEW e \in Executors, NEW i \in Inodes, Opened(e, i)
        PROVE  AssetsInv'
    <2> USE <1>5 DEF Opened
    <2> DEFINE a == job[e].asset
               r == [job[e] EXCEPT !.pc = "copy", !.fd = i, !.got = 0]
    <2>1. a \in Assets /\ job[e] \in Job BY Zenon DEF AssetsInv, InJob, MatchboxTypeOK
    <2>2. NBlocks \in Nat /\ 0 < NBlocks /\ 0 \in 0..NBlocks /\ i # 0
      BY AssetsAssumption DEF Inodes
    <2>3. r \in Job /\ r.pc = "copy" /\ r.asset = a /\ r.fd = i /\ r.got = 0
      BY Zenon, <2>1, <2>2 DEF Job, JobPCs
    <2>4. job' = [job EXCEPT ![e] = r] OBVIOUS
    <2> HIDE DEF r
    <2>5. job' \in [Executors -> Job] /\ \A f \in Executors : job'[f] = IF f = e THEN r ELSE job[f]
      BY Zenon, <2>3, <2>4 DEF AssetsInv, MatchboxTypeOK
    <2>6. MatchboxTypeOK' BY Zenon, <2>1, <2>5 DEF AssetsInv, MatchboxTypeOK
    <2>7. \A b \in Assets : tmp'[b] = IF b = a THEN i ELSE tmp[b] BY Zenon DEF AssetsInv, MatchboxTypeOK
    <2>8. \A j \in Inodes : disk'[j] = IF j = i THEN {} ELSE disk[j] BY Zenon DEF AssetsInv, MatchboxTypeOK
    <2>9. Names' BY <2>7 DEF AssetsInv, Names
    <2>10. ServedComplete' BY Zenon, <2>8 DEF AssetsInv, ServedComplete, MatchboxTypeOK
    <2>11. \A f \in Executors : InJob(f)' BY Zenon, <2>1, <2>2, <2>3, <2>5 DEF AssetsInv, InJob
    <2>12. \A f \in Executors \ {e} : Fetching(f, a) => a \in clash' OBVIOUS
    <2>13. clash \subseteq clash' OBVIOUS
    <2>14. Private(e)'
      <3>1. \A f \in Executors \ {e} : Fetching(f, a)' => a \in clash' BY <2>5, <2>12 DEF Fetching
      <3>2. \A b \in Assets \ {a} : i # tmp'[b] /\ i # dest'[b] BY Zenon, <2>7
      <3>3. tmp'[a] = i /\ disk'[i] = 1..0 BY <2>1, <2>7, <2>8
      <3> QED BY <2>2, <2>3, <2>5, <3>1, <3>2, <3>3 DEF Private
    <2>15. ASSUME NEW f \in Executors \ {e} PROVE Private(f)'
      <3> SUFFICES ASSUME job[f].pc \in {"copy", "rename"} PROVE Private(f)'
        BY Zenon, <2>5 DEF Private
      <3>1. job'[f] = job[f] /\ Private(f) /\ job[f].asset \in Assets /\ job[f].fd \in Inodes
        BY Zenon, <2>5 DEF AssetsInv, InJob, MatchboxTypeOK, Job
      <3>2. \A b \in Assets \ {job[f].asset} : job[f].fd # tmp'[b] /\ job[f].fd # dest'[b]
        BY <2>7, <3>1 DEF Private
      <3>3. \A g \in Executors \ {f} : Fetching(g, job[f].asset)' => job[f].asset \in clash'
        <4>1. \A g \in Executors \ {f, e} : Fetching(g, job[f].asset)' => job[f].asset \in clash'
          BY Zenon, <2>5, <2>13, <3>1 DEF Fetching, Private
        <4>2. job[f].asset = a => Fetching(f, a) BY Zenon DEF Fetching
        <4>3. Fetching(e, job[f].asset)' => job[f].asset = a BY Zenon, <2>3, <2>5, <3>1 DEF Fetching
        <4> QED BY <2>12, <4>1, <4>2, <4>3
      <3>4. ASSUME job[f].asset \notin clash'
            PROVE  tmp'[job[f].asset] = job[f].fd /\ disk'[job[f].fd] = 1..job[f].got
        <4>1. job[f].asset # a BY Zenon, <2>12, <3>4 DEF Fetching
        <4> QED BY <2>7, <2>8, <2>13, <3>1, <3>4, <4>1 DEF Private
      <3> QED BY <3>1, <3>2, <3>3, <3>4 DEF Private
    <2> QED BY Zenon, <2>6, <2>9, <2>10, <2>11, <2>14, <2>15 DEF AssetsInv
  \* fetchIfAbsent creates the temporary file.
  <1>6. ASSUME AssetsInv, NEW e \in Executors, CreateTmp(e)
        PROVE  AssetsInv'
    <2> USE <1>6
    <2> DEFINE a == job[e].asset
               new == CHOOSE j \in Inodes : j \notin InUse
               i == IF tmp[a] # 0 THEN tmp[a] ELSE new
    <2>1. job[e].pc = "create" /\ a \in Assets BY Zenon DEF CreateTmp, AssetsInv, InJob
    <2>2. /\ tmp[a] # 0 \/ \E j \in Inodes : j \notin InUse
          /\ tmp' = [tmp EXCEPT ![job[e].asset] = i]
          /\ disk' = [disk EXCEPT ![i] = {}]
          /\ job' = [job EXCEPT ![e] = [@ EXCEPT !.pc = "copy", !.fd = i, !.got = 0]]
          /\ clash' = IF \E f \in Executors \ {e} : Fetching(f, job[e].asset)
                      THEN clash \cup {job[e].asset} ELSE clash
          /\ UNCHANGED <<file, dest, torn>>
      BY Zenon DEF CreateTmp
    <2>3. /\ i \in Inodes
          /\ \A b \in Assets : dest[b] # i
          /\ \A b \in Assets \ {job[e].asset} : tmp[b] # i
          /\ \A f \in Executors :
               job[f].pc \in {"copy", "rename"} /\ job[f].asset # job[e].asset => job[f].fd # i
      <3>1. CASE tmp[a] # 0
        <4>1. i = tmp[a] BY Zenon, <3>1
        <4> HIDE DEF i
        <4> QED BY Zenon, <2>1, <3>1, <4>1 DEF AssetsInv, MatchboxTypeOK, Names, Private
      <3>2. CASE tmp[a] = 0
        <4>1. i = new BY Zenon, <3>2
        <4>2. new \in Inodes /\ new \notin InUse BY Zenon, <2>2, <3>2
        <4> HIDE DEF i, new
        <4> QED BY Zenon, <4>1, <4>2 DEF InUse
      <3> QED BY Zenon, <3>1, <3>2
    <2> HIDE DEF i
    <2>4. Opened(e, i) BY Zenon, <2>1, <2>2, <2>3 DEF Opened
    <2> QED BY Zenon, <2>3, <2>4, <1>5
  \* io.Copy appends a block.
  <1>7. ASSUME AssetsInv, NEW e \in Executors, CopyBlock(e)
        PROVE  AssetsInv'
    <2> USE <1>7
    <2> DEFINE a == job[e].asset
               i == job[e].fd
               x == job[e].got + 1
               pc == IF x = NBlocks THEN "rename" ELSE "copy"
               r == Copied(job[e])
    <2>1. job[e].pc = "copy" /\ a \in Assets /\ job[e] \in Job /\ i \in Inodes /\ i # 0
      BY Zenon DEF CopyBlock, AssetsInv, InJob, MatchboxTypeOK, Job
    <2>2. job[e].got < NBlocks /\ NBlocks \in Nat /\ job[e].got \in 0..NBlocks
      BY Zenon, <2>1, AssetsAssumption DEF AssetsInv, Private, Job
    <2>3. x \in Blocks /\ x \in 0..NBlocks /\ 1..x = (1..job[e].got) \cup {x} BY <2>2 DEF Blocks
    <2>4. pc \in {"copy", "rename"} /\ (pc = "rename" => x = NBlocks) /\ (pc = "copy" => x < NBlocks)
      BY <2>2
    <2>5. job' = [job EXCEPT ![e] = r] /\ disk' = [disk EXCEPT ![i] = @ \cup {x}]
          /\ UNCHANGED <<file, tmp, dest, clash, torn>>
      BY Zenon DEF CopyBlock
    <2>6. r \in Job /\ r.pc = pc /\ r.asset = a /\ r.fd = i /\ r.got = x
      <3>1. r = [job[e] EXCEPT !.got = x, !.pc = pc] BY Zenon DEF Copied
      <3> HIDE DEF r, pc, x
      <3> QED BY Zenon, <2>1, <2>3, <2>4, <3>1 DEF Job, JobPCs
    <2> HIDE DEF pc, x
    <2> HIDE DEF r
    <2>7. job' \in [Executors -> Job] /\ \A f \in Executors : job'[f] = IF f = e THEN r ELSE job[f]
      BY Zenon, <2>5, <2>6 DEF AssetsInv, MatchboxTypeOK
    <2>8. disk' \in [Inodes -> SUBSET Blocks]
          /\ \A j \in Inodes : disk'[j] = IF j = i THEN disk[i] \cup {x} ELSE disk[j]
      BY Zenon, <2>1, <2>3, <2>5 DEF AssetsInv, MatchboxTypeOK
    <2>9. MatchboxTypeOK' BY Zenon, <2>5, <2>7, <2>8 DEF AssetsInv, MatchboxTypeOK
    <2>10. Names' BY Zenon, <2>5 DEF AssetsInv, Names
    <2>11. ServedComplete'
      <3> SUFFICES ASSUME NEW b \in Assets \ clash, dest[b] # 0 PROVE disk'[dest[b]] = Blocks
        BY Zenon, <2>5 DEF ServedComplete
      <3>1. disk[dest[b]] = Blocks /\ dest[b] \in Inodes BY Zenon DEF AssetsInv, ServedComplete, MatchboxTypeOK
      <3> QED BY Zenon, <2>3, <2>8, <3>1
    <2>12. \A f \in Executors : InJob(f)' BY Zenon, <2>1, <2>4, <2>6, <2>7 DEF AssetsInv, InJob
    <2>13. \A f \in Executors, b \in Assets : Fetching(f, b)' <=> Fetching(f, b)
      BY Zenon, <2>1, <2>4, <2>6, <2>7 DEF Fetching
    <2>14. Private(e)'
      <3>1. Private(e) BY Zenon DEF AssetsInv
      <3>2. a \notin clash => disk'[i] = 1..x BY Zenon, <2>1, <2>3, <2>8, <3>1 DEF Private
      <3>3. \A f \in Executors \ {e} : Fetching(f, a)' => a \in clash
        BY Zenon, <2>1, <2>6, <2>7, <2>13, <3>1 DEF Private
      <3>4. \A b \in Assets \ {a} : i # tmp'[b] /\ i # dest'[b]
        BY Zenon, <2>1, <2>5, <3>1 DEF Private
      <3>5. a \notin clash => tmp'[a] = i BY Zenon, <2>1, <2>5, <3>1 DEF Private
      <3>6. job'[e] = r /\ clash' = clash BY Zenon, <2>5, <2>7
      <3> QED BY Zenon, <2>4, <2>6, <3>2, <3>3, <3>4, <3>5, <3>6 DEF Private
    <2>15. ASSUME NEW f \in Executors \ {e} PROVE Private(f)'
      <3> SUFFICES ASSUME job[f].pc \in {"copy", "rename"} PROVE Private(f)'
        BY Zenon, <2>7 DEF Private
      <3>1. job'[f] = job[f] /\ Private(f) /\ job[f].asset \in Assets /\ job[f].fd \in Inodes
        BY Zenon, <2>7 DEF AssetsInv, InJob, MatchboxTypeOK, Job
      <3>2. \A g \in Executors \ {f} : Fetching(g, job[f].asset)' => job[f].asset \in clash
        BY Zenon, <2>13, <3>1 DEF Private
      <3>3. ASSUME job[f].asset \notin clash PROVE disk'[job[f].fd] = 1..job[f].got
        <4>1. job[f].asset # a BY Zenon, <2>1, <3>1, <3>3 DEF Private, Fetching
        <4>2. i # tmp[job[f].asset] BY Zenon, <2>1, <3>1, <4>1 DEF AssetsInv, Private
        <4> QED BY Zenon, <2>8, <3>1, <3>3, <4>2 DEF Private
      <3> QED BY <2>5, <3>1, <3>2, <3>3 DEF Private
    <2> QED BY Zenon, <2>9, <2>10, <2>11, <2>12, <2>14, <2>15 DEF AssetsInv
  \* A driver that gives up.
  <1>8. ASSUME AssetsInv, NEW e \in Executors, NEW r, r = [job[e] EXCEPT !.pc = "error", !.fd = 0]
        PROVE  r \in Job /\ r.pc = "error" /\ r.fd = 0
    <2> USE <1>8
    <2>1. job[e] \in Job BY Zenon DEF AssetsInv, MatchboxTypeOK
    <2> QED BY Zenon, <2>1 DEF Job, JobPCs
  \* A driver takes the temporary name off its asset, or gives it the asset's name, and
  \* is done with the download.
  <1>9. ASSUME AssetsInv, NEW e \in Executors, NEW a \in Assets, Fetching(e, a), NEW r \in Job,
               job' = [job EXCEPT ![e] = r], r.pc \notin {"copy", "rename"}, r.fd = 0,
               r.pc \in {"mirror", "create"} => r.asset \in Assets, tmp' = [tmp EXCEPT ![a] = 0],
               \/ dest' = dest
               \/ dest' = [dest EXCEPT ![a] = tmp[a]] /\ tmp[a] # 0 /\ job[e].pc = "rename",
               UNCHANGED <<file, disk, clash, torn>>
        PROVE  AssetsInv'
    <2> USE <1>9
    <2>1. job' \in [Executors -> Job] /\ \A f \in Executors : job'[f] = IF f = e THEN r ELSE job[f]
      BY Zenon DEF AssetsInv, MatchboxTypeOK
    <2>2. \A b \in Assets : tmp'[b] = IF b = a THEN 0 ELSE tmp[b] BY Zenon DEF AssetsInv, MatchboxTypeOK
    <2>3. \/ \A b \in Assets : dest'[b] = dest[b]
          \/ /\ \A b \in Assets : dest'[b] = IF b = a THEN tmp[a] ELSE dest[b]
             /\ tmp[a] # 0 /\ job[e].pc = "rename"
      BY Zenon DEF AssetsInv, MatchboxTypeOK
    <2>4. MatchboxTypeOK' BY Zenon, <2>1 DEF AssetsInv, MatchboxTypeOK
    <2>5. Names' BY <2>2, <2>3 DEF AssetsInv, Names
    <2>6. ServedComplete'
      <3> SUFFICES ASSUME NEW b \in Assets \ clash, dest'[b] # 0 PROVE disk[dest'[b]] = Blocks
        BY Zenon DEF ServedComplete
      <3>1. CASE dest'[b] = dest[b] BY Zenon, <3>1 DEF AssetsInv, ServedComplete
      <3>2. CASE dest'[b] # dest[b]
        <4>1. b = a /\ dest'[b] = tmp[a] /\ job[e].pc = "rename" /\ job[e].asset = a
          BY Zenon, <2>3, <3>2 DEF Fetching
        <4>2. disk[tmp[a]] = 1..NBlocks BY Zenon, <4>1 DEF AssetsInv, Private
        <4> QED BY Zenon, <4>1, <4>2 DEF Blocks
      <3> QED BY Zenon, <3>1, <3>2
    <2>7. \A f \in Executors : InJob(f)' BY Zenon, <2>1 DEF AssetsInv, InJob
    <2>8. \A f \in Executors, b \in Assets : Fetching(f, b)' => f # e /\ Fetching(f, b)
      BY Zenon, <2>1 DEF Fetching
    <2>9. ASSUME NEW f \in Executors PROVE Private(f)'
      <3> SUFFICES ASSUME f # e, job[f].pc \in {"copy", "rename"} PROVE Private(f)'
        BY Zenon, <2>1 DEF Private
      <3>1. job'[f] = job[f] /\ Private(f) /\ job[f].asset \in Assets /\ job[f].fd # 0
        BY Zenon, <2>1 DEF AssetsInv, InJob
      <3>2. \A b \in Assets \ {job[f].asset} : job[f].fd # tmp'[b] /\ job[f].fd # dest'[b]
        BY <2>2, <2>3, <3>1 DEF Private
      <3>3. \A g \in Executors \ {f} : Fetching(g, job[f].asset)' => job[f].asset \in clash
        BY Zenon, <2>1, <2>8, <3>1 DEF Private
      <3>4. job[f].asset \notin clash => job[f].asset # a BY Zenon, <3>1 DEF Private
      <3> QED BY <2>2, <3>1, <3>2, <3>3, <3>4 DEF Private
    <2> QED BY Zenon, <2>4, <2>5, <2>6, <2>7, <2>9 DEF AssetsInv
  \* The download gets its name, or finds that another driver has renamed the file.
  <1>10. ASSUME AssetsInv, NEW e \in Executors, Rename(e)
         PROVE  AssetsInv'
    <2> USE <1>10
    <2> DEFINE a == job[e].asset
    <2>1. job[e].pc = "rename" /\ a \in Assets /\ Fetching(e, a) BY Zenon DEF Rename, AssetsInv, InJob, Fetching
    <2>2. CASE tmp[a] = 0
      <3> DEFINE r == [job[e] EXCEPT !.pc = "error", !.fd = 0]
      <3>1. r \in Job /\ r.pc = "error" /\ r.fd = 0 BY Zenon, <1>8
      <3>2. job' = [job EXCEPT ![e] = r] /\ UNCHANGED <<file, disk, tmp, dest, clash, torn>> BY Zenon, <2>2 DEF Rename
      <3> HIDE DEF r
      <3>3. file' \in [Macs -> [Kinds -> File]] /\ torn' \subseteq Macs \cup {"no mac"} BY Zenon, <3>2 DEF AssetsInv, MatchboxTypeOK
      <3> QED BY Zenon, <3>1, <3>2, <3>3, <1>2
    <2>3. CASE tmp[a] # 0
      <3>1. /\ job' = [job EXCEPT ![e] = AfterAsset(e)]
            /\ tmp' = [tmp EXCEPT ![a] = 0]
            /\ dest' = [dest EXCEPT ![a] = tmp[a]]
            /\ UNCHANGED <<file, disk, clash, torn>>
        BY Zenon, <2>3 DEF Rename
      <3> QED BY Zenon, <2>1, <2>3, <3>1, AfterAssetTyped, <1>9
    <2> QED BY Zenon, <2>2, <2>3
  \* The download is refused, or breaks off and its file is removed.
  <1>11. ASSUME AssetsInv, NEW e \in Executors, FetchFails(e)
         PROVE  AssetsInv'
    <2> USE <1>11
    <2> DEFINE r == [job[e] EXCEPT !.pc = "error", !.fd = 0]
    <2>1. r \in Job /\ r.pc = "error" /\ r.fd = 0 BY Zenon, <1>8
    <2>2. job' = [job EXCEPT ![e] = r] /\ UNCHANGED <<file, disk, dest, clash, torn>> BY Zenon DEF FetchFails
    <2>3. file' \in [Macs -> [Kinds -> File]] /\ torn' \subseteq Macs \cup {"no mac"} BY Zenon, <2>2 DEF AssetsInv, MatchboxTypeOK
    <2> HIDE DEF r
    <2>4. CASE job[e].pc = "create"
      <3>1. tmp' = tmp BY Zenon, <2>4 DEF FetchFails
      <3> QED BY Zenon, <2>1, <2>2, <2>3, <3>1, <1>2
    <2>5. CASE job[e].pc = "copy"
      <3>1. tmp' = [tmp EXCEPT ![job[e].asset] = 0] BY Zenon, <2>5 DEF FetchFails
      <3>2. job[e].asset \in Assets /\ Fetching(e, job[e].asset) BY Zenon, <2>5 DEF AssetsInv, InJob, Fetching
      <3> QED BY Zenon, <2>1, <2>2, <3>1, <3>2, <1>9
    <2> QED BY Zenon, <2>4, <2>5 DEF FetchFails
  \* A driver looks for an asset in its cache.
  <1>12. ASSUME AssetsInv, NEW e \in Executors, Mirror(e)
         PROVE  AssetsInv'
    <2> USE <1>12
    <2> DEFINE a == job[e].asset
               r == [job[e] EXCEPT !.pc = "create"]
    <2>1. job[e] \in Job /\ a \in Assets /\ job[e].fd = 0 BY Zenon DEF Mirror, AssetsInv, InJob, MatchboxTypeOK
    <2>2. r \in Job /\ r.pc = "create" /\ r.fd = 0 /\ r.asset = a BY Zenon, <2>1 DEF Job, JobPCs
    <2>3. UNCHANGED <<file, disk, tmp, dest, clash, torn>> /\ file' \in [Macs -> [Kinds -> File]]
          /\ torn' \subseteq Macs \cup {"no mac"}
      BY Zenon DEF Mirror, AssetsInv, MatchboxTypeOK
    <2>4. CASE Cached(a)
      <3>1. job' = [job EXCEPT ![e] = AfterAsset(e)] BY Zenon, <2>4 DEF Mirror
      <3> QED BY Zenon, <2>1, <2>3, <3>1, AfterAssetTyped, <1>2
    <2>5. CASE ~Cached(a)
      <3>1. job' = [job EXCEPT ![e] = r] BY Zenon, <2>5 DEF Mirror
      <3> HIDE DEF r
      <3> QED BY Zenon, <2>1, <2>2, <2>3, <3>1, <1>2
    <2> QED BY Zenon, <2>4, <2>5
  \* An executor calls the driver or takes its answer.
  <1>13. ASSUME AssetsInv, NEW e \in Executors, NEW r \in Job, r.pc \in {"idle", "generic", "rmGroup"}, r.fd = 0,
                job' = [job EXCEPT ![e] = r], UNCHANGED <<file, disk, tmp, dest, clash, torn>>
         PROVE  AssetsInv'
    <2> USE <1>13
    <2>1. file' \in [Macs -> [Kinds -> File]] /\ torn' \subseteq Macs \cup {"no mac"} BY Zenon DEF AssetsInv, MatchboxTypeOK
    <2> QED BY Zenon, <2>1, <1>2
  \* The process dies.
  <1>14. ASSUME AssetsInv, MatchboxCrash
         PROVE  AssetsInv'
    <2> USE <1>14
    <2>3. job' \in [Executors -> Job] /\ \A e \in Executors : job'[e] = NoJob BY Zenon, IdleJob DEF MatchboxCrash
    <2>4. UNCHANGED <<file, disk, tmp, dest, clash, torn>> BY Zenon DEF MatchboxCrash
    <2>5. MatchboxTypeOK' BY Zenon, <2>3, <2>4 DEF AssetsInv, MatchboxTypeOK
    <2> QED BY Zenon, <2>3, <2>4, <2>5, IdleJob, <1>1
  <1> SUFFICES ASSUME AssetsInv, [MatchboxNext]_matchboxVars PROVE AssetsInv'
    OBVIOUS
  <1>15. \A e \in Executors : job[e] \in Job /\ job[e].config \in Configs \cup {NoConfig}
                             /\ job[e].asset \in 0..(NAssets + 1)
    BY Zenon DEF AssetsInv, MatchboxTypeOK, Job
  <1>16. 1 \in 0..(NAssets + 1) BY AssetsAssumption
  <1>17. ASSUME NEW e \in Executors, DriverStep(e) PROVE AssetsInv'
    <2>1. CASE WriteGeneric(e) BY Zenon, <1>15, <1>16, <2>1, <1>3 DEF WriteGeneric, Kinds
    <2>2. CASE WriteProfile(e) BY Zenon, <1>15, <2>2, <1>3 DEF WriteProfile, Kinds
    <2>3. CASE WriteGroup(e) BY Zenon, <1>15, <2>3, <1>3 DEF WriteGroup, Kinds
    <2>4. CASE RemoveGroup(e) BY Zenon, <2>4, <1>4 DEF RemoveGroup, Kinds
    <2>5. CASE RemoveProfile(e) BY Zenon, <2>5, <1>4 DEF RemoveProfile, Kinds
    <2>6. CASE RemoveGeneric(e) BY Zenon, <2>6, <1>4 DEF RemoveGeneric, Kinds
    <2> QED BY Zenon, <1>17, <2>1, <2>2, <2>3, <2>4, <2>5, <2>6, <1>12, <1>6,
               <1>7, <1>10, <1>2a DEF DriverStep
  <1>18. ASSUME NEW e \in Executors, NEW m \in HostsOf[e], NEW c \in Configs, Stage(e, m, c) PROVE AssetsInv'
    <2> DEFINE r == [NoJob EXCEPT !.pc = "generic", !.mac = m, !.config = c]
    <2>1. m \in Macs BY Zenon, HostsAssumption
    <2>2. r \in Job /\ r.pc = "generic" /\ r.fd = 0 BY Zenon, <2>1, IdleJob DEF Job, JobPCs
    <2>3. job' = [job EXCEPT ![e] = r] /\ UNCHANGED <<file, disk, tmp, dest, clash, torn>>
      BY Zenon, <1>18 DEF Stage
    <2> HIDE DEF r
    <2> QED BY Zenon, <2>2, <2>3, <1>13
  <1>19. ASSUME NEW e \in Executors, NEW m \in HostsOf[e], Unstage(e, m) PROVE AssetsInv'
    <2>1. m \in Macs BY Zenon, HostsAssumption
    <2> DEFINE r == [NoJob EXCEPT !.pc = "rmGroup", !.mac = m]
    <2>2. r \in Job /\ r.pc = "rmGroup" /\ r.fd = 0 BY Zenon, <2>1, IdleJob DEF Job, JobPCs
    <2>3. job' = [job EXCEPT ![e] = r] /\ UNCHANGED <<file, disk, tmp, dest, clash, torn>> BY Zenon, <1>19 DEF Unstage
    <2> HIDE DEF r
    <2> QED BY Zenon, <2>2, <2>3, <1>13
  <1>20. ASSUME NEW e \in Executors, NEW pc, Return(e, pc) PROVE AssetsInv'
    BY Zenon, <1>20, IdleJob, <1>13 DEF Return
  <1>21. CASE UNCHANGED matchboxVars
    BY Zenon, <1>21, <1>1 DEF matchboxVars, AssetsInv, MatchboxTypeOK
  <1> QED BY Zenon, <1>17, <1>18, <1>19, <1>20, <1>21, <1>11, <1>14 DEF MatchboxNext

\* What Matchbox serves is never truncated: fetchIfAbsent downloads to a temporary
\* name and renames it once it is complete, so that neither a crash nor a failed
\* download leaves part of an asset under its name, for any number of drivers, assets
\* and blocks, as long as no two drivers download the asset at the same time.
THEOREM NeverTruncated == MatchboxSpec => []ServedComplete
  <1>1. AssetsInv => ServedComplete BY Zenon DEF AssetsInv
  <1> QED BY <1>1, InitAssets, NextAssets, PTL DEF MatchboxSpec

-----------------------------------------------------------------------------
(* The files of a host.                                                    *)

\* A host has this file, if only an empty one.
Has(m, k) == file[m][k].state # "none"

\* What a host is matched to is there, and whole unless Stage is called again.
Matched(m) ==
    Has(m, "group") =>
        /\ Has(m, "profile") /\ Has(m, "generic")
        /\ m \notin torn => Whole(m, {"generic", "profile"})

\* The files of the host a driver is working on, by how far it is.
Progress(e) ==
    LET m == job[e].mac
    IN  /\ job[e].pc # "idle" => m \in HostsOf[e]
        /\ job[e].pc \in {"mirror", "create", "copy", "rename", "profile", "group"} => Whole(m, {"generic"})
        /\ job[e].pc = "group" => Whole(m, {"profile"})
        /\ job[e].pc \in {"rmProfile", "rmGeneric"} => ~Has(m, "group")

FilesInv ==
    /\ AssetsInv
    /\ \A m \in Macs : Matched(m)
    /\ \A e \in Executors : Progress(e)

\* Every step keeps the order of the files.
LEMMA NextFiles == FilesInv /\ [MatchboxNext]_matchboxVars => FilesInv'
  \* A step of one driver on a host of its executor.
  <1>1. ASSUME FilesInv, AssetsInv', NEW e \in Executors, \A f \in Executors \ {e} : job'[f] = job[f],
               \A m \in Macs \ HostsOf[e] : file'[m] = file[m] /\ (m \in torn => m \in torn'),
               \A m \in HostsOf[e] : Matched(m)', Progress(e)'
        PROVE  FilesInv'
    <2> USE <1>1
    <2>1. \A m \in Macs : Matched(m)' BY Zenon DEF FilesInv, Matched, Has, Whole
    <2>2. ASSUME NEW f \in Executors \ {e} PROVE Progress(f)'
      <3>1. Progress(f) BY Zenon DEF FilesInv
      <3>2. CASE job[f].pc = "idle" BY Zenon, <3>2 DEF Progress
      <3>3. CASE job[f].pc # "idle"
        <4>1. job[f].mac \in Macs \ HostsOf[e] BY Zenon, <3>1, <3>3, HostsAssumption DEF Progress
        <4> QED BY Zenon, <3>1, <4>1 DEF Progress, Has, Whole
      <3> QED BY Zenon, <3>2, <3>3
    <2> QED BY Zenon, <2>1, <2>2 DEF FilesInv
  \* A step that leaves the files alone.
  <1>2. ASSUME FilesInv, AssetsInv', NEW e \in Executors, NEW r, UNCHANGED <<file, torn>>,
               job' = [job EXCEPT ![e] = r],
               r.pc # "idle" => r.mac \in HostsOf[e],
               r.pc \in {"mirror", "create", "copy", "rename", "profile", "group"} => Whole(r.mac, {"generic"}),
               r.pc \notin {"group", "rmProfile", "rmGeneric"}
        PROVE  FilesInv'
    <2> USE <1>2
    <2>1. \A f \in Executors : job'[f] = IF f = e THEN r ELSE job[f]
      BY Zenon DEF FilesInv, AssetsInv, MatchboxTypeOK
    <2>2. \A m \in HostsOf[e] : Matched(m)' BY Zenon, HostsAssumption DEF FilesInv, Matched, Has, Whole
    <2>3. Progress(e)' BY Zenon, <2>1 DEF Progress, Has, Whole
    <2> QED BY Zenon, <2>1, <2>2, <2>3, <1>1
  \* A driver writes or removes a file of its host: the other files stay.
  <1>3. ASSUME FilesInv, NEW e \in Executors, job[e].pc # "idle", NEW k \in Kinds, NEW v \in File,
               file' = [file EXCEPT ![job[e].mac][k] = v]
        PROVE  /\ job[e].mac \in HostsOf[e] /\ job[e].mac \in Macs
               /\ \A m \in Macs \ {job[e].mac} : file'[m] = file[m]
               /\ file'[job[e].mac][k] = v
               /\ \A l \in Kinds \ {k} : file'[job[e].mac][l] = file[job[e].mac][l]
    <2> USE <1>3
    <2>1. job[e].mac \in HostsOf[e] BY Zenon DEF FilesInv, Progress
    <2>2. job[e].mac \in Macs BY Zenon, <2>1, HostsAssumption
    <2> QED BY Zenon, <2>1, <2>2 DEF FilesInv, AssetsInv, MatchboxTypeOK
  \* Stage writes the group when the other two files are there.
  <1>4. ASSUME FilesInv, AssetsInv', NEW e \in Executors, NEW k \in Kinds, NEW c \in Configs \cup {NoConfig}, NEW pc,
               NEW x, WriteFile(e, k, c, pc, x),
               \/ k = "generic" /\ job[e].pc = "generic" /\ pc = "mirror"
               \/ k = "profile" /\ job[e].pc = "profile" /\ pc = "group"
               \/ k = "group" /\ job[e].pc = "group" /\ pc = "ok"
        PROVE  FilesInv'
    <2> USE <1>4
    <2> DEFINE v == [state |-> "whole", config |-> c]
               r == [job[e] EXCEPT !.pc = pc, !.asset = x]
               m == job[e].mac
    <2>1. v \in File /\ v.state = "whole" BY Zenon DEF File, Contents
    <2>2. /\ file' = [file EXCEPT ![job[e].mac][k] = v] /\ job' = [job EXCEPT ![e] = r]
          /\ file[m][k].state = "empty"
          /\ torn' = IF Whole(m, {"generic", "profile"} \ {k}) THEN torn \ {m} ELSE torn
      BY Zenon DEF WriteFile
    <2>3. job[e] \in Job /\ Progress(e) /\ Matched(m)
      BY Zenon, HostsAssumption DEF FilesInv, AssetsInv, MatchboxTypeOK, Progress
    <2>4. r.pc = pc /\ r.mac = m BY Zenon, <2>3 DEF Job
    <2> HIDE DEF v, r
    <2>5. \A f \in Executors : job'[f] = IF f = e THEN r ELSE job[f]
      BY Zenon, <2>2 DEF FilesInv, AssetsInv, MatchboxTypeOK
    <2>6. /\ m \in HostsOf[e] /\ m \in Macs
          /\ \A n \in Macs \ {m} : file'[n] = file[n]
          /\ file'[m][k] = v
          /\ \A l \in Kinds \ {k} : file'[m][l] = file[m][l]
      BY Zenon, <2>1, <2>2, <1>3
    <2>7. \A l \in Kinds : /\ file'[m][l].state # "none" <=> (l = k \/ file[m][l].state # "none")
                           /\ file'[m][l].state = "whole" <=> (l = k \/ file[m][l].state = "whole")
      BY Zenon, <2>1, <2>6
    <2>8. \A n \in HostsOf[e] : Matched(n)'
      <3>1. ASSUME NEW n \in HostsOf[e] \ {m} PROVE Matched(n)'
        <4>1. n \in Macs /\ Matched(n) BY Zenon, HostsAssumption DEF FilesInv
        <4>2. file'[n] = file[n] /\ (n \in torn => n \in torn') BY Zenon, <2>2, <2>6, <4>1
        <4> QED BY Zenon, <4>1, <4>2 DEF Matched, Has, Whole
      <3>2. file'[m]["group"].state # "none" =>
              file'[m]["profile"].state # "none" /\ file'[m]["generic"].state # "none"
        BY Zenon, <2>3, <2>7 DEF Matched, Has, Progress, Whole, Kinds
      <3>3. ASSUME file'[m]["group"].state # "none", m \notin torn'
            PROVE  file'[m]["profile"].state = "whole" /\ file'[m]["generic"].state = "whole"
        <4>1. CASE k = "group" BY Zenon, <2>3, <2>7, <4>1 DEF Progress, Whole, Kinds
        <4>2. CASE Whole(m, {"generic", "profile"} \ {k})
          BY Zenon, <2>7, <4>2 DEF Whole, Kinds
        <4>3. CASE k # "group" /\ ~Whole(m, {"generic", "profile"} \ {k})
          <5>1. torn' = torn /\ file[m]["group"].state # "none" BY Zenon, <2>2, <2>7, <3>3, <4>3 DEF Kinds
          <5>2. Whole(m, {"generic", "profile"}) BY Zenon, <2>3, <3>3, <5>1 DEF Matched, Has
          <5> QED BY Zenon, <4>3, <5>2 DEF Whole
        <4> QED BY Zenon, <4>1, <4>2, <4>3
      <3>4. ASSUME NEW n, n = m PROVE Matched(n)' BY Zenon, <3>2, <3>3, <3>4 DEF Matched, Has, Whole
      <3> QED BY Zenon, <3>1, <3>4
    <2>9. Progress(e)' BY Zenon, <2>3, <2>4, <2>5, <2>6, <2>7 DEF Progress, Has, Whole, Kinds
    <2>10. \A n \in Macs \ HostsOf[e] : file'[n] = file[n] /\ (n \in torn => n \in torn')
      BY Zenon, <2>2, <2>6
    <2> QED BY Zenon, <2>5, <2>8, <2>9, <2>10, <1>1
  \* Before that it empties the file: this host, if it is staged, is then being staged again.
  <1>4a. ASSUME FilesInv, AssetsInv', NEW e \in Executors, Truncate(e)
         PROVE  FilesInv'
    <2> USE <1>4a
    <2> DEFINE k == job[e].pc
               m == job[e].mac
    <2>1. EmptyFile \in File /\ EmptyFile.state = "empty" BY Zenon DEF EmptyFile, File, Contents
    <2>2. /\ file' = [file EXCEPT ![job[e].mac][k] = EmptyFile] /\ job' = job
          /\ k \in Kinds
          /\ torn' = IF k # "group" /\ file[m]["group"].state # "none" THEN torn \cup {m} ELSE torn
      BY Zenon DEF Truncate
    <2>3. Progress(e) /\ Matched(m) /\ job[e].pc # "idle"
      <3>1. Progress(e) /\ job[e].pc # "idle" BY Zenon, <2>2 DEF FilesInv, Kinds
      <3>2. m \in Macs BY Zenon, <3>1, HostsAssumption DEF Progress
      <3> QED BY Zenon, <3>1, <3>2 DEF FilesInv
    <2>4. /\ m \in HostsOf[e] /\ m \in Macs
          /\ \A n \in Macs \ {m} : file'[n] = file[n]
          /\ file'[m][k] = EmptyFile
          /\ \A l \in Kinds \ {k} : file'[m][l] = file[m][l]
      BY Zenon, <2>1, <2>2, <2>3, <1>3
    <2>5. \A n \in HostsOf[e] : Matched(n)'
      <3>1. ASSUME NEW n \in HostsOf[e] \ {m} PROVE Matched(n)'
        <4>1. n \in Macs /\ Matched(n) BY Zenon, HostsAssumption DEF FilesInv
        <4>2. file'[n] = file[n] /\ (n \in torn => n \in torn') BY Zenon, <2>2, <2>4, <4>1
        <4> QED BY Zenon, <4>1, <4>2 DEF Matched, Has, Whole
      <3>2. CASE k = "group"
        <4>1. file'[m]["profile"].state = "whole" /\ file'[m]["generic"].state = "whole"
          BY Zenon, <2>3, <2>4, <3>2 DEF Progress, Whole, Kinds
        <4>2. ASSUME NEW n, n = m PROVE Matched(n)' BY Zenon, <4>1, <4>2 DEF Matched, Has, Whole
        <4> QED BY Zenon, <3>1, <4>2
      <3>3. CASE k # "group"
        <4>1. file'[m]["group"] = file[m]["group"] BY Zenon, <2>4, <3>3 DEF Kinds
        <4>2. file'[m]["group"].state # "none" =>
                file'[m]["profile"].state # "none" /\ file'[m]["generic"].state # "none"
          BY Zenon, <2>1, <2>3, <2>4, <4>1 DEF Matched, Has, Kinds
        <4>3. file'[m]["group"].state # "none" => m \in torn' BY Zenon, <2>2, <3>3, <4>1
        <4>4. ASSUME NEW n, n = m PROVE Matched(n)' BY Zenon, <4>2, <4>3, <4>4 DEF Matched, Has
        <4> QED BY Zenon, <3>1, <4>4
      <3> QED BY Zenon, <3>2, <3>3
    <2>6. Progress(e)'
      <3>1. job'[e] = job[e] /\ k \in Kinds BY Zenon, <2>2
      <3>2. ASSUME k \in {"profile", "group"} PROVE file'[m]["generic"].state = "whole"
        <4>1. file[m]["generic"].state = "whole" BY Zenon, <2>3, <3>2 DEF Progress, Whole
        <4>2. "generic" \in Kinds \ {k} BY Zenon, <3>2 DEF Kinds
        <4> QED BY Zenon, <2>4, <4>1, <4>2
      <3>3. k = "group" => file'[m]["profile"].state = "whole"
        BY Zenon, <2>3, <2>4 DEF Progress, Whole, Kinds
      <3> QED BY Zenon, <2>4, <3>1, <3>2, <3>3 DEF Progress, Whole, Kinds
    <2>7. \A n \in Macs \ HostsOf[e] : file'[n] = file[n] /\ (n \in torn => n \in torn')
      BY Zenon, <2>2, <2>4
    <2> QED BY Zenon, <2>2, <2>5, <2>6, <2>7, <1>1
  \* Unstage removes the group before the files it points to.
  <1>5. ASSUME FilesInv, AssetsInv', NEW e \in Executors, NEW k \in Kinds, NEW pc, RemoveFile(e, k, pc),
               \/ k = "group" /\ job[e].pc = "rmGroup" /\ pc = "rmProfile"
               \/ k = "profile" /\ job[e].pc = "rmProfile" /\ pc = "rmGeneric"
               \/ k = "generic" /\ job[e].pc = "rmGeneric" /\ pc = "ok"
        PROVE  FilesInv'
    <2> USE <1>5
    <2> DEFINE r == [job[e] EXCEPT !.pc = pc]
               m == job[e].mac
    <2>1. NoFile \in File /\ NoFile.state = "none" BY Zenon DEF NoFile, File, Contents
    <2>2. /\ file' = [file EXCEPT ![job[e].mac][k] = NoFile] /\ job' = [job EXCEPT ![e] = r]
          /\ torn' = IF k = "group" THEN torn \ {m} ELSE torn
      BY Zenon DEF RemoveFile, To
    <2>3. job[e] \in Job /\ Progress(e) /\ Matched(m)
      BY Zenon, HostsAssumption DEF FilesInv, AssetsInv, MatchboxTypeOK, Progress
    <2>4. r.pc = pc /\ r.mac = m BY Zenon, <2>3 DEF Job
    <2> HIDE DEF r
    <2>5. \A f \in Executors : job'[f] = IF f = e THEN r ELSE job[f]
      BY Zenon, <2>2 DEF FilesInv, AssetsInv, MatchboxTypeOK
    <2>6. /\ m \in HostsOf[e] /\ m \in Macs
          /\ \A n \in Macs \ {m} : file'[n] = file[n]
          /\ file'[m][k] = NoFile
          /\ \A l \in Kinds \ {k} : file'[m][l] = file[m][l]
      BY Zenon, <2>1, <2>2, <1>3
    <2>7. \A l \in Kinds : file'[m][l].state # "none" <=> (l # k /\ file[m][l].state # "none")
      BY Zenon, <2>1, <2>6
    <2>8. \A n \in HostsOf[e] : Matched(n)'
      <3>1. ASSUME NEW n \in HostsOf[e] \ {m} PROVE Matched(n)'
        <4>1. n \in Macs /\ Matched(n) BY Zenon, HostsAssumption DEF FilesInv
        <4>2. file'[n] = file[n] /\ (n \in torn => n \in torn') BY Zenon, <2>2, <2>6, <4>1
        <4> QED BY Zenon, <4>1, <4>2 DEF Matched, Has, Whole
      <3>2. file'[m]["group"].state = "none" BY Zenon, <2>3, <2>7 DEF Has, Progress, Kinds
      <3>3. ASSUME NEW n, n = m PROVE Matched(n)' BY Zenon, <3>2, <3>3 DEF Matched, Has
      <3> QED BY Zenon, <3>1, <3>3
    <2>9. Progress(e)' BY Zenon, <2>3, <2>4, <2>5, <2>6, <2>7 DEF Progress, Has, Kinds
    <2>10. \A n \in Macs \ HostsOf[e] : file'[n] = file[n] /\ (n \in torn => n \in torn')
      BY Zenon, <2>2, <2>6
    <2> QED BY Zenon, <2>5, <2>8, <2>9, <2>10, <1>1
  \* The steps of a download, which leave the files of the hosts alone.
  <1>6. ASSUME FilesInv, AssetsInv', NEW e \in Executors,
               Mirror(e) \/ CreateTmp(e) \/ CopyBlock(e) \/ Rename(e) \/ FetchFails(e)
        PROVE  FilesInv'
    <2> USE <1>6
    <2>1. AssetsInv /\ job[e] \in Job /\ UNCHANGED <<file, torn>>
      BY Zenon DEF FilesInv, AssetsInv, MatchboxTypeOK, Mirror, CreateTmp, CopyBlock, Rename, FetchFails
    <2>2. job[e].pc \in {"mirror", "create", "copy", "rename"}
      BY Zenon DEF Mirror, CreateTmp, CopyBlock, Rename, FetchFails
    <2>3. job[e].asset \in Assets /\ job[e].mac \in HostsOf[e] /\ Whole(job[e].mac, {"generic"})
      BY Zenon, <2>1, <2>2 DEF AssetsInv, InJob, FilesInv, Progress
    <2>4. SUFFICES \E r : /\ job' = [job EXCEPT ![e] = r]
                          /\ r.mac = job[e].mac
                          /\ r.pc \in {"mirror", "create", "copy", "rename", "profile", "error"}
      BY Zenon, <2>1, <2>3, <1>2
    <2>5. /\ AfterAsset(e).mac = job[e].mac
          /\ AfterAsset(e).pc \in {"mirror", "create", "copy", "rename", "profile", "error"}
      BY Zenon, <2>1, <2>3, AfterAssetTyped
    <2>6. CASE Mirror(e)
      <3>1. CASE Cached(job[e].asset) BY Zenon, <2>5, <2>6, <3>1 DEF Mirror
      <3>2. CASE ~Cached(job[e].asset)
        <4> DEFINE r == [job[e] EXCEPT !.pc = "create"]
        <4>1. r.mac = job[e].mac /\ r.pc = "create" BY Zenon, <2>1 DEF Job
        <4>2. job' = [job EXCEPT ![e] = r] BY Zenon, <2>6, <3>2 DEF Mirror
        <4> HIDE DEF r
        <4> QED BY Zenon, <4>1, <4>2
      <3> QED BY Zenon, <3>1, <3>2
    <2>7. CASE CreateTmp(e)
      <3> DEFINE i == IF tmp[job[e].asset] # 0 THEN tmp[job[e].asset] ELSE CHOOSE j \in Inodes : j \notin InUse
                 r == [job[e] EXCEPT !.pc = "copy", !.fd = i, !.got = 0]
      <3>1. job' = [job EXCEPT ![e] = r] BY Zenon, <2>7 DEF CreateTmp
      <3> HIDE DEF i
      <3>2. r.mac = job[e].mac /\ r.pc = "copy" BY Zenon, <2>1 DEF Job
      <3> HIDE DEF r
      <3> QED BY Zenon, <3>1, <3>2
    <2>8. CASE CopyBlock(e)
      <3> DEFINE x == job[e].got + 1
                 pc == IF x = NBlocks THEN "rename" ELSE "copy"
                 r == Copied(job[e])
      <3>1. job' = [job EXCEPT ![e] = r] BY Zenon, <2>8 DEF CopyBlock
      <3>2. r = [job[e] EXCEPT !.got = x, !.pc = pc] BY Zenon DEF Copied
      <3>3. pc \in {"rename", "copy"} OBVIOUS
      <3> HIDE DEF r, x, pc
      <3>4. r.mac = job[e].mac /\ r.pc = pc BY Zenon, <2>1, <3>2 DEF Job
      <3> QED BY Zenon, <3>1, <3>3, <3>4
    <2>9. ASSUME job' = [job EXCEPT ![e] = [@ EXCEPT !.pc = "error", !.fd = 0]]
          PROVE  \E r : /\ job' = [job EXCEPT ![e] = r]
                        /\ r.mac = job[e].mac
                        /\ r.pc \in {"mirror", "create", "copy", "rename", "profile", "error"}
      <3> DEFINE r == [job[e] EXCEPT !.pc = "error", !.fd = 0]
      <3>1. r.mac = job[e].mac /\ r.pc = "error" BY Zenon, <2>1 DEF Job
      <3>2. job' = [job EXCEPT ![e] = r] BY Zenon, <2>9
      <3> HIDE DEF r
      <3> QED BY Zenon, <3>1, <3>2
    <2>10. CASE Rename(e) BY Zenon, <2>5, <2>9, <2>10 DEF Rename
    <2>11. CASE FetchFails(e) BY Zenon, <2>9, <2>11 DEF FetchFails
    <2> QED BY Zenon, <2>6, <2>7, <2>8, <2>10, <2>11
  \* A crash leaves the files as they are, and no job.
  <1>7. ASSUME FilesInv, AssetsInv', MatchboxCrash
        PROVE  FilesInv'
    <2> USE <1>7
    <2>1. \A m \in Macs : Matched(m)' BY Zenon DEF MatchboxCrash, FilesInv, Matched, Has, Whole
    <2>2. \A e \in Executors : Progress(e)' BY Zenon, IdleJob DEF MatchboxCrash, Progress
    <2> QED BY Zenon, <2>1, <2>2 DEF FilesInv
  <1> SUFFICES ASSUME FilesInv, [MatchboxNext]_matchboxVars PROVE FilesInv'
    OBVIOUS
  <1>8. AssetsInv' BY Zenon, NextAssets DEF FilesInv
  <1>9. \A e \in Executors : job[e].config \in Configs \cup {NoConfig}
    BY Zenon DEF FilesInv, AssetsInv, MatchboxTypeOK, Job
  <1>10. ASSUME NEW e \in Executors, DriverStep(e) PROVE FilesInv'
    <2>1. CASE WriteGeneric(e) BY Zenon, <1>8, <1>9, <2>1, <1>4 DEF WriteGeneric, Kinds
    <2>2. CASE WriteProfile(e) BY Zenon, <1>8, <2>2, <1>4 DEF WriteProfile, Kinds
    <2>3. CASE WriteGroup(e) BY Zenon, <1>8, <2>3, <1>4 DEF WriteGroup, Kinds
    <2>4. CASE RemoveGroup(e) BY Zenon, <1>8, <2>4, <1>5 DEF RemoveGroup, Kinds
    <2>5. CASE RemoveProfile(e) BY Zenon, <1>8, <2>5, <1>5 DEF RemoveProfile, Kinds
    <2>6. CASE RemoveGeneric(e) BY Zenon, <1>8, <2>6, <1>5 DEF RemoveGeneric, Kinds
    <2> QED BY Zenon, <1>8, <1>10, <2>1, <2>2, <2>3, <2>4, <2>5, <2>6, <1>6, <1>4a DEF DriverStep
  <1>11. ASSUME NEW e \in Executors, NEW m \in HostsOf[e], NEW c \in Configs, Stage(e, m, c) PROVE FilesInv'
    <2> DEFINE r == [NoJob EXCEPT !.pc = "generic", !.mac = m, !.config = c]
    <2>1. r.pc = "generic" /\ r.mac = m BY Zenon, IdleJob DEF Job
    <2>2. job' = [job EXCEPT ![e] = r] /\ UNCHANGED <<file, torn>> BY Zenon, <1>11 DEF Stage
    <2> HIDE DEF r
    <2> QED BY Zenon, <1>8, <2>1, <2>2, <1>2
  <1>12. ASSUME NEW e \in Executors, NEW m \in HostsOf[e], Unstage(e, m) PROVE FilesInv'
    <2> DEFINE r == [NoJob EXCEPT !.pc = "rmGroup", !.mac = m]
    <2>1. r.pc = "rmGroup" /\ r.mac = m BY Zenon, IdleJob DEF Job
    <2>2. job' = [job EXCEPT ![e] = r] /\ UNCHANGED <<file, torn>> BY Zenon, <1>12 DEF Unstage
    <2> HIDE DEF r
    <2> QED BY Zenon, <1>8, <2>1, <2>2, <1>2
  <1>13. ASSUME NEW e \in Executors, NEW pc, Return(e, pc) PROVE FilesInv'
    BY Zenon, <1>8, <1>13, IdleJob, <1>2 DEF Return
  <1>14. CASE UNCHANGED matchboxVars BY Zenon, <1>8, <1>14 DEF matchboxVars, FilesInv, Matched, Has, Whole, Progress
  <1> QED BY Zenon, <1>8, <1>10, <1>11, <1>12, <1>13, <1>14, <1>6, <1>7 DEF MatchboxNext

\* Initially there are no files.
LEMMA InitFiles == MatchboxInit => FilesInv
  <1> SUFFICES ASSUME MatchboxInit PROVE FilesInv OBVIOUS
  <1>1. \A m \in Macs : Matched(m) BY Zenon DEF MatchboxInit, Matched, Has, NoFile, Kinds
  <1>2. \A e \in Executors : Progress(e) BY Zenon, IdleJob DEF MatchboxInit, Progress
  <1> QED BY Zenon, <1>1, <1>2, InitAssets DEF FilesInv

\* No machine boots into nothing: Stage writes the group last and Unstage removes it
\* first, so that the profile and the configuration a group names are there, and whole,
\* between any two steps of any number of drivers, and after a crash.  They can be empty
\* only where Stage was called again for a host that was staged, until it has written
\* them again.
THEOREM GroupLast == MatchboxSpec => []MatchedIsStaged
  <1>1. FilesInv => MatchedIsStaged BY Zenon DEF FilesInv, Matched, Has, MatchedIsStaged
  <1> QED BY <1>1, InitFiles, NextFiles, PTL DEF MatchboxSpec

Stores == {"file", "onepassword"}
Specs == UNION {SpecsOf[n] : n \in DOMAIN SpecsOf}

Rendering(pki, spec) == RenderControlPlaneConfig(FactoryHost, pki, spec)

\* The machine configurations include those that are rendered here.
ConfigsGiven ==
    /\ WorkerConfig \in Configs
    /\ \A pki \in Nat \ {0}, spec \in Specs : Rendering(pki, spec) \in Configs

-----------------------------------------------------------------------------
(* The shape of the state.                                                 *)

Working == {"NOT_BOOTSTRAPPED", "GENERATING_SECRETS", "STAGING", "AWAITING_INSTALL", "BOOTSTRAPPING",
            "AWAITING_HEALTHY"}
ClusterBootstrap == [phase : Working \cup {"none", "READY", "FAILED"}, started : {"never", "recently", "long ago"},
                     spec : Specs \cup {NoSpec}]
Thens == {"", "store", "matchbox", "seedCluster", "GENERATING_SECRETS", "STAGING", "AWAITING_INSTALL",
          "BOOTSTRAPPING", "AWAITING_HEALTHY", "READY", "FAILED"}
Pass == [pc : {"idle", "store", "put", "secrets", "stage", "matchbox", "staging", "install", "etcd", "kube",
               "seedCluster", "seedPool", "seedMachine"},
         cb : ClusterBootstrap, then : Thens, todo : Seq(Fields \X Int), half : BOOLEAN, pki : Nat]

Commands == [pc : {"idle", "capture", "configs", "read", "secrets"}, held : [Fields -> Int]]

\* The configurations rendered so far for the control plane.
Rendered == {Rendering(pki, spec) : pki \in 1..pkis, spec \in Specs}

BootShapes ==
    /\ cb \in ClusterBootstrap
    /\ create \in [pc : {"idle", "host", "arm"}, spec : Specs \cup {NoSpec}]
    /\ pass \in Pass
    /\ node \in [config : Rendered \cup {NoConfig}, etcd : BOOLEAN, api : BOOLEAN]
    /\ creds \in [Stores -> [Fields -> Int]] /\ backend \in Stores
    /\ inv \subseteq {"Cluster", "NodePool", "Machine"}
    /\ pkis \in Nat
    /\ del \in {"idle", "creds"} /\ cli \in Commands
    /\ left \in [Bounds -> Nat]
    /\ 1..left.creates \subseteq DOMAIN SpecsOf

\* A bundle that is stored, or that a command holds, was generated; a record, a request and a pass have a
\* specification.
Given ==
    /\ \A b \in Stores : creds[b].secrets <= pkis
    /\ cli.held.secrets <= pkis
    /\ cb.phase # "none" => cb.spec \in Specs
    /\ create.pc # "idle" => create.spec \in Specs
    /\ pass.pc # "idle" => pass.cb.spec \in Specs

\* The credentials that a pass still has to write.
Todo ==
    \/ /\ pass.then = "store"
       /\ \E pki \in 1..pkis : pass.todo = <<<<"secrets", pki>>>>
    \/ /\ pass.then = "matchbox" /\ pass.pki \in 1..pkis
       /\ pass.todo \in {<<<<"talos", pass.pki>>, <<"kube", Blank>>>>, <<<<"kube", Blank>>>>}
    \/ /\ pass.then = "seedCluster"
       /\ \E t, k \in 1..pkis : pass.todo \in {<<<<"talos", t>>, <<"kube", k>>>>, <<<<"kube", k>>>>}

\* The phase of the record that each step of a pass belongs to, and the next one.
InPhase ==
    /\ pass.pc # "idle" => pass.cb.phase \in Working
    /\ pass.pc = "secrets" => pass.cb.phase = "GENERATING_SECRETS"
    /\ pass.pc \in {"stage", "matchbox", "staging"} => pass.cb.phase = "STAGING"
    /\ pass.pc = "install" => pass.cb.phase = "AWAITING_INSTALL"
    /\ pass.pc = "etcd" => pass.cb.phase = "BOOTSTRAPPING"
    /\ pass.pc \in {"kube", "seedCluster", "seedPool", "seedMachine"} => pass.cb.phase = "AWAITING_HEALTHY"
    /\ pass.pc = "put" => <<pass.cb.phase, pass.then>> \in
         {<<"GENERATING_SECRETS", "store">>, <<"STAGING", "matchbox">>, <<"AWAITING_HEALTHY", "seedCluster">>}
    /\ pass.pc = "store" => pass.then = "FAILED" \/ <<pass.cb.phase, pass.then>> \in
         {<<"NOT_BOOTSTRAPPED", "GENERATING_SECRETS">>, <<"GENERATING_SECRETS", "STAGING">>,
          <<"STAGING", "AWAITING_INSTALL">>, <<"AWAITING_INSTALL", "BOOTSTRAPPING">>,
          <<"BOOTSTRAPPING", "AWAITING_HEALTHY">>, <<"AWAITING_HEALTHY", "READY">>}

PassInv ==
    /\ InPhase
    /\ pass.pc = "put" => Todo
    /\ pass.pc = "matchbox" => pass.pki \in 1..pkis

\* The bootstrap executor's driver stages the control plane, for the pass that waits for it.
DriverInv ==
    /\ pass.pc = "staging" <=> job["bootstrap"].pc # "idle"
    /\ job["bootstrap"].pc # "idle" =>
         /\ job["bootstrap"].config \in Rendered
         /\ job["bootstrap"].pc \notin {"rmGroup", "rmProfile", "rmGeneric"}
    /\ job["bootstrap"].config \in Rendered \cup {NoConfig}
    /\ file[CpMac]["generic"].config \in Rendered \cup {NoConfig}
    /\ file[CpMac]["generic"].state = "whole" => file[CpMac]["generic"].config \in Rendered

Base == BootShapes /\ Given /\ PassInv /\ DriverInv

\* The credentials in the store in use.
Secrets == creds[backend].secrets
Talos == creds[backend].talos
Kube == creds[backend].kube

-----------------------------------------------------------------------------
(* Lemmas about the operators.                                             *)

\* The two executors, and the host that only one of them stages.
LEMMA TwoDrivers ==
  /\ "bootstrap" \in Executors /\ "provisioning" \in Executors
  /\ CpMac \in Macs /\ CpMac \notin HostsOf["provisioning"]
  /\ \A e \in Executors : e = "bootstrap" \/ e = "provisioning"
BY BootstrapExecutors, CpAssumption, HostsAssumption

\* A configuration tells the bundle it was rendered from.
LEMMA RenderedFrom == \A pki, spec : Rendering(pki, spec).secrets = pki
BY DEF Rendering, RenderControlPlaneConfig

\* The configurations in use have bundles that were generated.
LEMMA RenderedBundle ==
  ASSUME pkis \in Nat, NEW c \in Rendered
  PROVE  c.secrets \in 1..pkis /\ \E spec \in Specs : c = Rendering(c.secrets, spec)
<1>1. PICK pki \in 1..pkis, spec \in Specs : c = Rendering(pki, spec)
  BY DEF Rendered
<1> QED
  BY Zenon, <1>1, RenderedFrom

\* Lists of one and of two credentials.
LEMMA OneTodo ==
  ASSUME NEW a
  PROVE  Head(<<a>>) = a /\ Tail(<<a>>) = <<>> /\ <<a>> # <<>> /\ <<a>>[1] = a
OBVIOUS

\* Two credentials.
LEMMA TwoTodo ==
  ASSUME NEW a, NEW b
  PROVE  Head(<<a, b>>) = a /\ Tail(<<a, b>>) = <<b>> /\ <<a, b>> # <<>> /\ \A c : <<a, b>> # <<c>>
OBVIOUS

\* What 1Password has after a put.
LEMMA WriteOne ==
  ASSUME NEW item, NEW g \in Fields, NEW v
  PROVE  WriteFields(item, <<<<g, v>>>>) = [f \in Fields |-> IF f = g THEN v ELSE item[f]]
<1> DEFINE s == <<<<g, v>>>>
<1>1. DOMAIN s = {1} /\ s[1] = <<g, v>>
  OBVIOUS
<1> HIDE DEF s
<1>2. \A f \in Fields : (IF \E i \in DOMAIN s : s[i][1] = f THEN s[CHOOSE i \in DOMAIN s : s[i][1] = f][2] ELSE item[f])
                          = IF f = g THEN v ELSE item[f]
  BY <1>1
<1> QED
  BY Zenon, <1>2 DEF WriteFields, s

\* What it has after a put of both client configurations.
LEMMA WriteTwo ==
  ASSUME NEW item, NEW t, NEW k
  PROVE  WriteFields(item, <<<<"talos", t>>, <<"kube", k>>>>)
           = [f \in Fields |-> IF f = "talos" THEN t ELSE IF f = "kube" THEN k ELSE item[f]]
<1> DEFINE s == <<<<"talos", t>>, <<"kube", k>>>>
<1>1. DOMAIN s = {1, 2} /\ s[1] = <<"talos", t>> /\ s[2] = <<"kube", k>>
  OBVIOUS
<1> HIDE DEF s
<1>2. \A f \in Fields : (IF \E i \in DOMAIN s : s[i][1] = f THEN s[CHOOSE i \in DOMAIN s : s[i][1] = f][2] ELSE item[f])
                          = IF f = "talos" THEN t ELSE IF f = "kube" THEN k ELSE item[f]
  <2>1. (CHOOSE i \in DOMAIN s : s[i][1] = "talos") = 1 /\ (CHOOSE i \in DOMAIN s : s[i][1] = "kube") = 2
    BY <1>1
  <2> QED
    BY <1>1, <2>1
<1> QED
  BY Zenon, <1>2 DEF WriteFields, s

-----------------------------------------------------------------------------
(* What the steps do to the pass.                                          *)

\* Between two passes.
LEMMA NoPassTyped ==
  /\ NoPass \in Pass /\ NoPass.pc = "idle" /\ NoRecord \in ClusterBootstrap /\ NoRecord.phase = "none"
  /\ NoPass.cb = NoRecord
<1>1. NoRecord \in ClusterBootstrap
  BY Zenon DEF NoRecord, ClusterBootstrap
<1>2. <<>> \in Seq(Fields \X Int)
  OBVIOUS
<1>3. NoPass \in Pass
  BY <1>1, <1>2, Zenon DEF NoPass, Pass, Thens
<1> QED
  BY Zenon, <1>1, <1>3 DEF NoPass, NoRecord

\* A pass that goes on.
LEMMA ReplyFields ==
  ASSUME pass \in Pass,
         NEW pc \in {"idle", "store", "put", "secrets", "stage", "matchbox", "staging", "install", "etcd", "kube",
                     "seedCluster", "seedPool", "seedMachine"},
         pass' = [pass EXCEPT !.pc = pc]
  PROVE  /\ pass' \in Pass /\ pass'.pc = pc /\ pass'.cb = pass.cb /\ pass'.then = pass.then
         /\ pass'.todo = pass.todo /\ pass'.pki = pass.pki
BY DEF Pass

\* A pass that is to store a phase.
LEMMA StoreFields ==
  ASSUME pass \in Pass, NEW phase \in Thens, pass' = Store(phase)
  PROVE  pass' \in Pass /\ pass'.pc = "store" /\ pass'.cb = pass.cb /\ pass'.then = phase
BY Zenon DEF Pass, Store

\* A pass that writes credentials, and then goes on where it was told to.
LEMMA WritingFields ==
  ASSUME pass \in Pass, pass.pc = "put", NEW todo \in Seq(Fields \X Int), pass' = Writing(todo),
         pass.then \in {"store", "matchbox", "seedCluster"}
  PROVE  /\ pass' \in Pass /\ pass'.cb = pass.cb /\ pass'.pki = pass.pki
         /\ todo # <<>> => pass'.pc = "put" /\ pass'.then = pass.then /\ pass'.todo = todo
         /\ todo = <<>> => /\ pass'.pc = pass.then
                           /\ pass.then = "store" => pass'.then = "STAGING"
<1>1. CASE todo # <<>>
  BY Zenon, <1>1 DEF Writing, Pass
<1>2. CASE todo = <<>>
  BY Zenon, <1>2 DEF Writing, Pass, Thens
<1> QED
  BY Zenon, <1>1, <1>2

\* The credentials of a put.
LEMMA PutFields ==
  ASSUME pass \in Pass, NEW then \in {"store", "matchbox", "seedCluster"}, NEW todo \in Seq(Fields \X Int),
         NEW pki \in Nat,
         pass' = [pass EXCEPT !.pc = "put", !.then = then, !.pki = pki, !.todo = todo]
  PROVE  /\ pass' \in Pass /\ pass'.pc = "put" /\ pass'.then = then /\ pass'.todo = todo /\ pass'.cb = pass.cb
         /\ pass'.pki = pki
BY Zenon DEF Pass, Thens

\* Where Reconcile begins.
LEMMA StartFields ==
  ASSUME BootShapes, StartPass
  PROVE  /\ pass' \in Pass /\ pass'.cb.phase = cb.phase /\ pass'.cb.spec = cb.spec /\ cb.phase \in Working
         /\ \/ pass'.pc = "store" /\ pass'.then = "FAILED"
            \/ /\ cb.phase = "NOT_BOOTSTRAPPED" /\ pass'.pc = "store"
               /\ pass'.then = "GENERATING_SECRETS"
            \/ <<cb.phase, pass'.pc>> \in
                 {<<"GENERATING_SECRETS", "secrets">>, <<"STAGING", "stage">>, <<"AWAITING_INSTALL", "install">>,
                  <<"BOOTSTRAPPING", "etcd">>, <<"AWAITING_HEALTHY", "kube">>}
<1> DEFINE r == IF cb.phase = "NOT_BOOTSTRAPPED" THEN [cb EXCEPT !.started = "recently"] ELSE cb
           p == IF cb.started = "long ago" THEN "store" ELSE Step[cb.phase]
           t == CASE cb.started = "long ago" -> "FAILED"
                  [] cb.started # "long ago" /\ cb.phase = "NOT_BOOTSTRAPPED" -> "GENERATING_SECRETS"
                  [] OTHER -> ""
<1>1. cb \in ClusterBootstrap /\ cb.phase \in Working
  BY Zenon DEF BootShapes, StartPass, Pending, TerminalBootstrap, ClusterBootstrap
<1>2. r \in ClusterBootstrap /\ r.phase = cb.phase /\ r.spec = cb.spec
  BY Zenon, <1>1 DEF ClusterBootstrap
<1>3. \/ p = "store" /\ t = "FAILED"
      \/ cb.phase = "NOT_BOOTSTRAPPED" /\ p = "store" /\ t = "GENERATING_SECRETS"
      \/ t = "" /\ <<cb.phase, p>> \in
           {<<"GENERATING_SECRETS", "secrets">>, <<"STAGING", "stage">>, <<"AWAITING_INSTALL", "install">>,
            <<"BOOTSTRAPPING", "etcd">>, <<"AWAITING_HEALTHY", "kube">>}
  <2>1. /\ cb.started = "long ago" => p = "store" /\ t = "FAILED"
        /\ cb.started # "long ago" => p = Step[cb.phase]
    BY Zenon
  <2>2. cb.started # "long ago" /\ cb.phase = "NOT_BOOTSTRAPPED" => t = "GENERATING_SECRETS"
    BY Zenon
  <2>3. cb.started # "long ago" /\ cb.phase # "NOT_BOOTSTRAPPED" => t = ""
    BY Zenon
  <2>4. /\ Step["NOT_BOOTSTRAPPED"] = "store" /\ Step["GENERATING_SECRETS"] = "secrets"
        /\ Step["STAGING"] = "stage" /\ Step["AWAITING_INSTALL"] = "install"
        /\ Step["BOOTSTRAPPING"] = "etcd" /\ Step["AWAITING_HEALTHY"] = "kube"
    BY Zenon DEF Step
  <2> HIDE DEF p, t
  <2> QED
    BY Zenon, <1>1, <2>1, <2>2, <2>3, <2>4 DEF Working
<1>4. pass' = [NoPass EXCEPT !.cb = r, !.pc = p, !.then = t]
  BY Zenon DEF StartPass
<1> HIDE DEF r, p, t
<1>5. pass' \in Pass /\ pass'.cb = r /\ pass'.pc = p /\ pass'.then = t
  BY Zenon, <1>2, <1>3, <1>4, NoPassTyped DEF Pass, Thens
<1> QED
  BY Zenon, <1>1, <1>2, <1>3, <1>5

-----------------------------------------------------------------------------
(* Every step keeps the shape.                                             *)

\* What is kept apart from the drivers.
Kept == BootShapes /\ Given /\ PassInv

\* A bundle more can only add to what was rendered.
LEMMA RenderedGrows ==
  ASSUME pkis \in Nat, pkis' \in Nat, pkis <= pkis'
  PROVE  Rendered \subseteq Rendered'
BY DEF Rendered

\* A step that no driver takes.
LEMMA DriverSame ==
  ASSUME Base, UNCHANGED matchboxVars, Kept', pkis <= pkis', pass'.pc = "staging" <=> pass.pc = "staging"
  PROVE  Base'
<1>1. Rendered \subseteq Rendered'
  BY Zenon, RenderedGrows DEF Base, Kept, BootShapes
<1>2. DriverInv'
  BY Zenon, <1>1 DEF Base, DriverInv, matchboxVars
<1> QED
  BY Zenon, <1>2 DEF Base, Kept

\* What is rendered depends on the bundles that were generated only.
LEMMA RenderedSame == pkis' = pkis => Rendered' = Rendered
BY DEF Rendered

\* A specification that a request may ask for.
LEMMA SpendLeft ==
  ASSUME BootShapes, NEW what \in DOMAIN left, Spend(what)
  PROVE  /\ left' \in [Bounds -> Nat]
         /\ left'.creates <= left.creates
         /\ 1..left'.creates \subseteq DOMAIN SpecsOf
<1>1. left' \in [Bounds -> Nat] /\ left'.creates <= left.creates
  BY DEF BootShapes, Spend, Bounds
<1> QED
  BY <1>1 DEF BootShapes, Bounds

\* The steps of the requests.
LEMMA RequestKept ==
  ASSUME Base, Request
  PROVE  Kept'
\* A request that is accepted has a specification.
<1>1. ASSUME CreateChecks PROVE Kept'
  <2> USE <1>1
  <2>1. left.creates \in DOMAIN SpecsOf
    BY DEF CreateChecks, Spend, Base, BootShapes, Bounds
  <2>2. PICK s \in SpecsOf[left.creates] : create' = [pc |-> "host", spec |-> s]
    BY Zenon DEF CreateChecks
  <2>3. s \in Specs
    BY Zenon, <2>1, <2>2 DEF Specs
  <2>4. /\ left' \in [Bounds -> Nat]
        /\ 1..left'.creates \subseteq DOMAIN SpecsOf
    BY Zenon, SpendLeft DEF Base, BootShapes, CreateChecks, Bounds
  <2>5. BootShapes'
    BY Zenon, <2>2, <2>3, <2>4, RenderedSame DEF Base, BootShapes, CreateChecks
  <2>6. Given' /\ PassInv'
    BY Zenon, <2>2, <2>3 DEF Base, Given, PassInv, InPhase, Todo, CreateChecks
  <2> QED
    BY Zenon, <2>5, <2>6 DEF Kept
\* The other steps of the requests.
<1>2. ASSUME CreateHost \/ CreateArms \/ DeregisterHost \/ DeleteRecords \/ DeleteCreds \/ DeleteCredsFails
      PROVE  Kept'
  <2> USE <1>2
  <2> USE DEF Base
  <2>1. DeregisterHost \/ DeleteRecords \/ DeleteCredsFails =>
          /\ left' \in [Bounds -> Nat]
          /\ 1..left'.creates \subseteq DOMAIN SpecsOf
    BY Zenon, SpendLeft DEF BootShapes, DeregisterHost, DeleteRecords, DeleteCredsFails, Bounds
  <2>2. CASE CreateHost
    <3>1. BootShapes'
      BY Zenon, <2>2, RenderedSame DEF BootShapes, CreateHost
    <3>2. Given' /\ PassInv'
      BY <2>2 DEF BootShapes, Given, PassInv, InPhase, Todo, CreateHost
    <3> QED
      BY Zenon, <3>1, <3>2 DEF Kept
  <2>3. CASE CreateArms
    <3>0. cb' \in ClusterBootstrap
      BY Zenon, <2>3 DEF Given, CreateArms, ClusterBootstrap, Working
    <3>1. BootShapes'
      BY Zenon, <2>3, <3>0, RenderedSame DEF BootShapes, CreateArms
    <3>2. Given' /\ PassInv'
      BY Zenon, <2>3 DEF BootShapes, Given, PassInv, InPhase, Todo, CreateArms
    <3> QED
      BY Zenon, <3>1, <3>2 DEF Kept
  <2>4. CASE DeregisterHost \/ DeleteCredsFails
    <3>1. BootShapes'
      <4>1. CASE DeregisterHost
        BY Zenon, <2>1, <4>1, RenderedSame DEF BootShapes, DeregisterHost
      <4>2. CASE DeleteCredsFails
        BY Zenon, <2>1, <4>2, RenderedSame DEF BootShapes, DeleteCredsFails
      <4> QED
        BY Zenon, <2>4, <4>1, <4>2
    <3>2. Given' /\ PassInv'
      BY SMTT(30), <2>4 DEF BootShapes, Given, PassInv, InPhase, Todo, DeregisterHost, DeleteCredsFails
    <3> QED
      BY Zenon, <3>1, <3>2 DEF Kept
  <2>5. CASE DeleteRecords
    <3>1. BootShapes'
      BY Zenon, <2>1, <2>5, NoPassTyped, RenderedSame DEF BootShapes, DeleteRecords
    <3>2. Given' /\ PassInv'
      BY Zenon, <2>5, NoPassTyped DEF BootShapes, Given, PassInv, InPhase, Todo, DeleteRecords
    <3> QED
      BY Zenon, <3>1, <3>2 DEF Kept
  <2>6. CASE DeleteCreds
    <3>1. creds' \in [Stores -> [Fields -> Int]] /\ \A b \in Stores : creds'[b] = creds[b] \/ creds'[b].secrets = 0
      BY <2>6 DEF BootShapes, DeleteCreds, NoCreds, Fields, Absent
    <3>2. BootShapes'
      BY Zenon, <2>6, <3>1, RenderedSame DEF BootShapes, DeleteCreds
    <3>3. Given'
      BY <2>6, <3>1 DEF BootShapes, Given, DeleteCreds
    <3>4. PassInv'
      BY Zenon, <2>6 DEF PassInv, InPhase, Todo, DeleteCreds
    <3> QED
      BY Zenon, <3>2, <3>3, <3>4 DEF Kept
  <2> QED
    BY Zenon, <2>2, <2>3, <2>4, <2>5, <2>6
<1> QED
  BY Zenon, <1>1, <1>2 DEF Request

\* A step that only changes the pass.
LEMMA PassChanges ==
  ASSUME Base, pass' \in Pass, PassInv', pass'.pc # "idle" => pass'.cb.spec \in Specs,
         UNCHANGED <<cb, inv, creds, backend, node, create, del, cli, pkis, left>>
  PROVE  Kept'
<1>1. BootShapes'
  BY DEF Base, BootShapes, Rendered
<1>2. Given'
  BY Zenon DEF Base, Given
<1> QED
  BY Zenon, <1>1, <1>2 DEF Kept

\* No pass.
LEMMA NoPassInv ==
  ASSUME pass' = NoPass
  PROVE  pass' \in Pass /\ PassInv' /\ pass'.pc = "idle"
BY Zenon, NoPassTyped DEF PassInv, InPhase

\* A pass that goes on, or is to store the next phase.
LEMMA GoesOn ==
  ASSUME Base, pass' \in Pass, pass.pc # "idle", pass'.cb = pass.cb,
         \/ /\ pass'.pc = "store"
            /\ <<pass.cb.phase, pass'.then>> \in
                 {<<"NOT_BOOTSTRAPPED", "GENERATING_SECRETS">>, <<"GENERATING_SECRETS", "STAGING">>,
                  <<"STAGING", "AWAITING_INSTALL">>, <<"AWAITING_INSTALL", "BOOTSTRAPPING">>,
                  <<"BOOTSTRAPPING", "AWAITING_HEALTHY">>, <<"AWAITING_HEALTHY", "READY">>}
         \/ pass'.pc \in {"seedCluster", "seedPool", "seedMachine"} /\ pass.cb.phase = "AWAITING_HEALTHY"
         \/ pass'.pc = "staging" /\ pass.cb.phase = "STAGING"
         \/ pass'.pc = "matchbox" /\ pass.cb.phase = "STAGING" /\ pass'.pki \in 1..pkis'
         \/ /\ pass'.pc = "put" /\ Todo'
            /\ <<pass.cb.phase, pass'.then>> \in
                 {<<"GENERATING_SECRETS", "store">>, <<"STAGING", "matchbox">>, <<"AWAITING_HEALTHY", "seedCluster">>}
  PROVE  PassInv' /\ (pass'.pc # "idle" => pass'.cb.spec \in Specs)
<1>1. pass.cb.phase \in Working /\ pass.cb.spec \in Specs
  BY Zenon DEF Base, PassInv, InPhase, Given
<1> QED
  BY Zenon, <1>1 DEF PassInv, InPhase

\* The phase that is stored.
LEMMA StoredPhase ==
  ASSUME Base, PutRecord
  PROVE  /\ cb' \in ClusterBootstrap /\ cb'.phase = pass.then /\ cb'.spec = pass.cb.spec /\ cb'.spec \in Specs
         /\ cb'.phase \in Working \cup {"READY", "FAILED"}
<1>1. pass.cb \in ClusterBootstrap /\ pass.cb.spec \in Specs
  BY Zenon DEF Base, BootShapes, Pass, Given, PutRecord
<1>2. pass.then \in Working \cup {"READY", "FAILED"}
  BY Zenon DEF Base, PassInv, InPhase, PutRecord, Working
<1> QED
  BY Zenon, <1>1, <1>2 DEF PutRecord, ClusterBootstrap

\* The steps of a pass that write no credentials.
LEMMA PassKept ==
  ASSUME Base, StartPass \/ Park \/ PassFails \/ PutRecord \/ SecretsPresent \/ NodeReachable \/ BootstrapEtcd
  PROVE  Kept'
\* A pass begins.
<1>1. ASSUME StartPass PROVE Kept'
  <2> USE <1>1
  <2>1. PassInv' /\ pass' \in Pass
    BY Zenon, StartFields DEF Base, PassInv, InPhase
  <2>2. pass'.cb.spec \in Specs
    BY Zenon, StartFields DEF Base, Given, Working
  <2> QED
    BY Zenon, <2>1, <2>2, PassChanges DEF StartPass
\* A pass ends and stores nothing.
<1>2. ASSUME Park \/ PassFails PROVE Kept'
  <2> USE <1>2
  <2>1. CASE Park
    BY Zenon, <2>1, NoPassInv, PassChanges DEF Park, Abort
  <2>2. CASE PassFails
    <3>1. /\ left' \in [Bounds -> Nat]
          /\ 1..left'.creates \subseteq DOMAIN SpecsOf
      BY Zenon, <2>2, SpendLeft DEF Base, BootShapes, PassFails, Bounds
    <3>2. BootShapes'
      BY <2>2, <3>1, NoPassInv DEF Base, BootShapes, Rendered, PassFails, Abort
    <3>3. Given' /\ PassInv'
      BY Zenon, <2>2, NoPassInv DEF Base, Given, PassFails, Abort
    <3> QED
      BY Zenon, <3>2, <3>3 DEF Kept
  <2> QED
    BY Zenon, <2>1, <2>2
\* A pass stores its record.
<1>3. ASSUME PutRecord PROVE Kept'
  <2> USE <1>3
  <2>1. BootShapes'
    BY StoredPhase, NoPassInv DEF Base, BootShapes, Rendered, PutRecord
  <2>2. Given' /\ PassInv'
    BY Zenon, StoredPhase, NoPassInv DEF Base, Given, PutRecord
  <2> QED
    BY Zenon, <2>1, <2>2 DEF Kept
\* A pass that finds a phase done.
<1>4. ASSUME SecretsPresent \/ NodeReachable PROVE Kept'
  <2> USE <1>4
  <2>1. CASE SecretsPresent
    <3>1. pass.pc = "secrets" /\ pass.cb.phase = "GENERATING_SECRETS"
      BY Zenon, <2>1 DEF SecretsPresent, Base, PassInv, InPhase
    <3>2. pass' \in Pass /\ pass'.pc = "store" /\ pass'.cb = pass.cb /\ pass'.then = "STAGING"
      BY Zenon, <2>1, StoreFields DEF SecretsPresent, Base, BootShapes, Thens
    <3> QED
      BY Zenon, <2>1, <3>1, <3>2, GoesOn, PassChanges DEF SecretsPresent
  <2>2. CASE NodeReachable
    <3>1. pass.pc = "install" /\ pass.cb.phase = "AWAITING_INSTALL"
      BY Zenon, <2>2 DEF NodeReachable, Base, PassInv, InPhase
    <3>2. pass' \in Pass /\ pass'.pc = "store" /\ pass'.cb = pass.cb /\ pass'.then = "BOOTSTRAPPING"
      BY Zenon, <2>2, StoreFields DEF NodeReachable, Base, BootShapes, Thens
    <3> QED
      BY Zenon, <2>2, <3>1, <3>2, GoesOn, PassChanges DEF NodeReachable
  <2> QED
    BY Zenon, <2>1, <2>2
\* etcd is initialized, and the answer may be lost.
<1>5. ASSUME BootstrapEtcd PROVE Kept'
  <2> USE <1>5
  <2>1. pass.pc = "etcd" /\ pass.cb.phase = "BOOTSTRAPPING" /\ pass \in Pass
    BY Zenon DEF BootstrapEtcd, Base, BootShapes, PassInv, InPhase
  <2>2. pass' \in Pass /\ PassInv' /\ (pass'.pc # "idle" => pass'.cb.spec \in Specs)
    <3>1. CASE pass' = Store("AWAITING_HEALTHY")
      <4>1. pass' \in Pass /\ pass'.pc = "store" /\ pass'.cb = pass.cb /\ pass'.then = "AWAITING_HEALTHY"
        BY Zenon, <2>1, <3>1, StoreFields DEF Thens
      <4> QED
        BY Zenon, <2>1, <4>1, GoesOn
    <3>2. CASE Abort
      BY Zenon, <3>2, NoPassInv DEF Abort
    <3> QED
      BY Zenon, <3>1, <3>2 DEF BootstrapEtcd
  <2>3. node' \in [config : Rendered \cup {NoConfig}, etcd : BOOLEAN, api : BOOLEAN]
    BY Zenon DEF BootstrapEtcd, Base, BootShapes
  <2>4. BootShapes'
    BY <2>2, <2>3 DEF Base, BootShapes, BootstrapEtcd, Rendered
  <2>5. Given'
    BY Zenon, <2>2 DEF Base, Given, BootstrapEtcd
  <2> QED
    BY Zenon, <2>2, <2>4, <2>5 DEF Kept
<1> QED
  BY Zenon, <1>1, <1>2, <1>3, <1>4, <1>5

\* Lists of credentials to write.
LEMMA TodoTyped ==
  ASSUME NEW t \in Int, NEW k \in Int, NEW f \in Fields
  PROVE  <<<<f, k>>>> \in Seq(Fields \X Int) /\ <<<<"talos", t>>, <<"kube", k>>>> \in Seq(Fields \X Int)
BY DEF Fields

\* A new bundle gets a number of its own, and is to be stored.
LEMMA GenerateKept ==
  ASSUME Base, GenerateSecrets
  PROVE  /\ Kept' /\ pass'.pc = "put" /\ pass'.then = "store" /\ pass'.todo = <<<<"secrets", pkis + 1>>>>
         /\ pass'.cb = pass.cb
<1>1. pass.pc = "secrets" /\ pass.cb.phase = "GENERATING_SECRETS" /\ pass \in Pass /\ pkis \in Nat /\ pass.pki \in Nat
  BY Zenon DEF GenerateSecrets, Base, BootShapes, PassInv, InPhase, Pass
<1> DEFINE todo == <<<<"secrets", pkis + 1>>>>
<1>2. todo \in Seq(Fields \X Int)
  BY <1>1, TodoTyped DEF Fields
<1>3. pass' = [pass EXCEPT !.pc = "put", !.then = "store", !.pki = pass.pki, !.todo = todo]
  BY Zenon, <1>1 DEF GenerateSecrets, Pass
<1> HIDE DEF todo
<1>4. pass' \in Pass /\ pass'.pc = "put" /\ pass'.then = "store" /\ pass'.todo = todo /\ pass'.cb = pass.cb
  BY Zenon, <1>1, <1>2, <1>3, PutFields
<1>5. pkis' = pkis + 1 /\ pkis' \in Nat /\ pkis + 1 \in 1..pkis'
  BY <1>1 DEF GenerateSecrets
<1>6. Todo'
  BY Zenon, <1>4, <1>5 DEF Todo, todo
<1>7. PassInv' /\ pass'.cb.spec \in Specs
  BY Zenon, <1>1, <1>4, <1>6, GoesOn
<1>8. /\ left' \in [Bounds -> Nat]
      /\ 1..left'.creates \subseteq DOMAIN SpecsOf
  <2>1. Spend("faults") \/ left' = left
    BY Zenon DEF GenerateSecrets
  <2> QED
    BY Zenon, <2>1, SpendLeft DEF Base, BootShapes, Bounds
<1>9. Rendered \subseteq Rendered'
  BY <1>1, <1>5, RenderedGrows
<1>10. BootShapes'
  BY Zenon, <1>4, <1>5, <1>8, <1>9 DEF Base, BootShapes, GenerateSecrets
<1>11. Given'
  <2>1. /\ cli' = cli /\ creds' = creds /\ cb' = cb /\ create' = create
        /\ cli.held \in [Fields -> Int] /\ creds \in [Stores -> [Fields -> Int]]
    BY Zenon DEF Base, BootShapes, Commands, GenerateSecrets
  <2>2. (\A b \in Stores : creds[b].secrets <= pkis) /\ cli.held.secrets <= pkis
    BY Zenon DEF Base, Given
  <2>3. (\A b \in Stores : creds'[b].secrets <= pkis') /\ cli'.held.secrets <= pkis'
    BY <1>1, <1>5, <2>1, <2>2 DEF Fields
  <2> QED
    BY Zenon, <1>7, <2>1, <2>3 DEF Base, Given
<1> QED
  BY Zenon, <1>4, <1>7, <1>10, <1>11 DEF Kept, todo

\* The bundle that is stored, when one is.
LEMMA StoredBundle ==
  ASSUME Base
  PROVE  /\ Secrets \in Int /\ Talos \in Int /\ Kube \in Int
         /\ Secrets > 0 => Secrets \in 1..pkis
<1>1. creds[backend] \in [Fields -> Int] /\ backend \in Stores /\ pkis \in Nat
  BY Zenon DEF Base, BootShapes
<1>2. Secrets <= pkis
  BY Zenon, <1>1 DEF Base, Given, Secrets
<1> QED
  BY <1>1, <1>2 DEF Secrets, Talos, Kube, Fields

\* The configuration is rendered from the stored bundle, and the client configurations are to be stored.
LEMMA RendersKept ==
  ASSUME Base, StageRenders
  PROVE  /\ Kept' /\ pass'.pc = "put" /\ pass'.then = "matchbox" /\ pass'.cb = pass.cb
         /\ pass'.pki = Secrets /\ pass'.todo = <<<<"talos", Secrets>>, <<"kube", Blank>>>>
<1>1. pass.pc = "stage" /\ pass.cb.phase = "STAGING" /\ pass \in Pass /\ pkis \in Nat
  BY Zenon DEF StageRenders, Base, BootShapes, PassInv, InPhase
<1>2. Secrets \in 1..pkis /\ Secrets \in Nat /\ Blank \in Int
  BY StoredBundle DEF StageRenders, Secrets, Blank
<1> DEFINE todo == <<<<"talos", Secrets>>, <<"kube", Blank>>>>
<1>3. todo \in Seq(Fields \X Int)
  BY <1>2, TodoTyped DEF Fields
<1>4. pass' = [pass EXCEPT !.pc = "put", !.then = "matchbox", !.pki = Secrets, !.todo = todo]
  BY Zenon DEF StageRenders, Secrets
<1> HIDE DEF todo
<1>5. /\ pass' \in Pass /\ pass'.pc = "put" /\ pass'.then = "matchbox" /\ pass'.todo = todo /\ pass'.cb = pass.cb
      /\ pass'.pki = Secrets
  BY Zenon, <1>1, <1>2, <1>3, <1>4, PutFields
<1>6. Todo'
  BY Zenon, <1>2, <1>5 DEF Todo, todo, StageRenders
<1>7. PassInv' /\ pass'.cb.spec \in Specs
  BY Zenon, <1>1, <1>5, <1>6, GoesOn
<1>8. Kept'
  BY Zenon, <1>5, <1>7, PassChanges DEF StageRenders
<1> QED
  BY Zenon, <1>5, <1>8 DEF todo

\* A node that answers has the configuration of some bundle.
LEMMA TrustedNode ==
  ASSUME Base, Trusted
  PROVE  /\ node.config \in Rendered /\ node.config.secrets \in 1..pkis /\ Talos = node.config.secrets
         /\ \E s \in Specs : node.config = Rendering(node.config.secrets, s)
<1>1. node.config \in Rendered /\ pkis \in Nat
  BY Zenon DEF Base, BootShapes, Trusted
<1>2. node.config.secrets \in 1..pkis /\ \E s \in Specs : node.config = Rendering(node.config.secrets, s)
  BY Zenon, <1>1, RenderedBundle
<1> QED
  BY Zenon, <1>1, <1>2 DEF Trusted, Talos

\* The kubeconfig is fetched, and both client configurations are to be stored.
LEMMA FetchKept ==
  ASSUME Base, FetchKubeconfig
  PROVE  /\ Kept' /\ pass'.pc = "put" /\ pass'.then = "seedCluster" /\ pass'.cb = pass.cb
         /\ pass'.todo = <<<<"talos", Talos>>, <<"kube", node.config.secrets>>>>
<1>1. pass.pc = "kube" /\ pass.cb.phase = "AWAITING_HEALTHY" /\ pass \in Pass /\ pkis \in Nat /\ pass.pki \in Nat
  BY Zenon DEF FetchKubeconfig, Base, BootShapes, PassInv, InPhase, Pass
<1> DEFINE k == node.config.secrets
           todo == <<<<"talos", Talos>>, <<"kube", k>>>>
<1>2. k \in 1..pkis /\ Talos = k
  BY Zenon, TrustedNode DEF FetchKubeconfig
<1>3. pass' = [pass EXCEPT !.pc = "put", !.then = "seedCluster", !.pki = pass.pki, !.todo = todo]
  BY Zenon, <1>1 DEF FetchKubeconfig, Pass, Talos
<1> HIDE DEF k
<1>4. todo \in Seq(Fields \X Int)
  BY <1>1, <1>2, TodoTyped DEF Fields
<1> HIDE DEF todo
<1>5. pass' \in Pass /\ pass'.pc = "put" /\ pass'.then = "seedCluster" /\ pass'.todo = todo /\ pass'.cb = pass.cb
  BY Zenon, <1>1, <1>3, <1>4, PutFields
<1>6. Todo'
  BY Zenon, <1>2, <1>5 DEF Todo, todo, FetchKubeconfig
<1>7. PassInv' /\ pass'.cb.spec \in Specs
  BY Zenon, <1>1, <1>5, <1>6, GoesOn
<1>8. Kept'
  BY Zenon, <1>5, <1>7, PassChanges DEF FetchKubeconfig
<1> QED
  BY Zenon, <1>5, <1>8 DEF todo, k

-----------------------------------------------------------------------------
(* Credentials are written.                                                *)

\* The pass goes on with these; or it is done with its credentials.
PutsStill(todo) == pass'.pc = "put" /\ pass'.then = pass.then /\ pass'.todo = todo
PutsDone == pass'.pc = pass.then /\ (pass.then = "store" => pass'.then = "STAGING")

\* The store that the server uses gets these, and the pass goes on.
Puts(item) ==
    /\ creds' = [creds EXCEPT ![backend] = item]
    /\ pass' \in Pass /\ pass'.cb = pass.cb /\ pass'.pki = pass.pki

\* A file is emptied, and then it is written.
LEMMA PutFileDoes ==
  ASSUME Base, PutFile, NEW g \in Fields, NEW v \in Int, Head(pass.todo) = <<g, v>>
  PROVE  /\ pass.half => /\ creds' = [creds EXCEPT ![backend] = [creds[backend] EXCEPT ![g] = v]]
                         /\ pass' = Writing(Tail(pass.todo))
         /\ ~pass.half => /\ creds' = [creds EXCEPT ![backend] = [creds[backend] EXCEPT ![g] = Blank]]
                          /\ pass' = [pass EXCEPT !.half = TRUE]
<1>1. backend \in Stores /\ creds \in [Stores -> [Fields -> Int]]
  BY Zenon DEF Base, BootShapes
<1>2. Head(pass.todo)[1] = g /\ Head(pass.todo)[2] = v
  OBVIOUS
<1> DEFINE w == IF pass.half THEN Head(pass.todo)[2] ELSE Blank
<1>3. creds' = [creds EXCEPT ![backend][g] = w]
  BY <1>2, Zenon DEF PutFile
<1>4. (pass.half => w = v) /\ (~pass.half => w = Blank)
  BY Zenon, <1>2
<1> HIDE DEF w
<1>5. creds' = [creds EXCEPT ![backend] = [creds[backend] EXCEPT ![g] = w]]
  BY Zenon, <1>1, <1>3
<1>6. /\ pass.half => pass' = Writing(Tail(pass.todo))
      /\ ~pass.half => pass' = [pass EXCEPT !.half = TRUE]
  BY Zenon DEF PutFile
<1> QED
  BY Zenon, <1>4, <1>5, <1>6

\* One step with one credential to write.
LEMMA PutOne ==
  ASSUME Base, PutItem \/ PutFile, pass.then \in {"store", "matchbox", "seedCluster"},
         NEW g \in Fields, NEW v \in Int, pass.todo = <<<<g, v>>>>
  PROVE  \/ Puts([creds[backend] EXCEPT ![g] = Blank]) /\ PutsStill(<<<<g, v>>>>)
         \/ Puts([creds[backend] EXCEPT ![g] = v]) /\ PutsDone
<1>1. pass \in Pass /\ pass.pc = "put" /\ backend \in Stores /\ creds \in [Stores -> [Fields -> Int]]
  BY Zenon DEF PutItem, PutFile, Base, BootShapes
<1>2. Head(pass.todo) = <<g, v>> /\ Tail(pass.todo) = <<>>
  BY Zenon, OneTodo
<1>3. <<>> \in Seq(Fields \X Int)
  OBVIOUS
<1>4. CASE PutItem
  <2>1. creds' = [creds EXCEPT ![backend] = WriteFields(creds[backend], <<<<g, v>>>>)] /\ pass' = Writing(<<>>)
    BY Zenon, <1>4 DEF PutItem
  <2>2. WriteFields(creds[backend], <<<<g, v>>>>) = [creds[backend] EXCEPT ![g] = v]
    BY <1>1, WriteOne
  <2>3. pass' \in Pass /\ pass'.cb = pass.cb /\ pass'.pki = pass.pki /\ PutsDone
    BY Zenon, <1>1, <1>3, <2>1, WritingFields DEF PutsDone
  <2> QED
    BY Zenon, <2>1, <2>2, <2>3 DEF Puts
<1>5. CASE PutFile /\ pass.half
  <2>1. creds' = [creds EXCEPT ![backend] = [creds[backend] EXCEPT ![g] = v]] /\ pass' = Writing(<<>>)
    BY Zenon, <1>2, <1>5, PutFileDoes DEF Fields
  <2>2. pass' \in Pass /\ pass'.cb = pass.cb /\ pass'.pki = pass.pki /\ PutsDone
    BY Zenon, <1>1, <1>3, <2>1, WritingFields DEF PutsDone
  <2> QED
    BY Zenon, <2>1, <2>2 DEF Puts
<1>6. CASE PutFile /\ ~pass.half
  <2>1. creds' = [creds EXCEPT ![backend] = [creds[backend] EXCEPT ![g] = Blank]]
        /\ pass' = [pass EXCEPT !.half = TRUE]
    BY Zenon, <1>2, <1>6, PutFileDoes DEF Fields
  <2>2. /\ pass' \in Pass /\ pass'.cb = pass.cb /\ pass'.pki = pass.pki /\ pass'.pc = pass.pc
        /\ pass'.then = pass.then /\ pass'.todo = pass.todo
    BY Zenon, <1>1, <2>1 DEF Pass
  <2> QED
    BY Zenon, <1>1, <2>1, <2>2 DEF Puts, PutsStill
<1> QED
  BY Zenon, <1>4, <1>5, <1>6

\* One step with both client configurations to write.
LEMMA PutTwo ==
  ASSUME Base, PutItem \/ PutFile, pass.then \in {"store", "matchbox", "seedCluster"},
         NEW t \in Int, NEW k \in Int, pass.todo = <<<<"talos", t>>, <<"kube", k>>>>
  PROVE  \/ Puts([creds[backend] EXCEPT !["talos"] = Blank]) /\ PutsStill(<<<<"talos", t>>, <<"kube", k>>>>)
         \/ Puts([creds[backend] EXCEPT !["talos"] = t]) /\ PutsStill(<<<<"kube", k>>>>)
         \/ Puts([creds[backend] EXCEPT !["talos"] = t, !["kube"] = k]) /\ PutsDone
<1>1. pass \in Pass /\ pass.pc = "put" /\ backend \in Stores /\ creds \in [Stores -> [Fields -> Int]]
  BY Zenon DEF PutItem, PutFile, Base, BootShapes
<1>2. Head(pass.todo) = <<"talos", t>> /\ Tail(pass.todo) = <<<<"kube", k>>>>
  BY Zenon, TwoTodo
<1>3. <<>> \in Seq(Fields \X Int) /\ <<<<"kube", k>>>> \in Seq(Fields \X Int) /\ <<<<"kube", k>>>> # <<>>
  BY TodoTyped, OneTodo DEF Fields
<1>4. CASE PutItem
  <2>1. /\ creds' = [creds EXCEPT ![backend] = WriteFields(creds[backend], <<<<"talos", t>>, <<"kube", k>>>>)]
        /\ pass' = Writing(<<>>)
    BY Zenon, <1>4 DEF PutItem
  <2>2. WriteFields(creds[backend], <<<<"talos", t>>, <<"kube", k>>>>)
          = [creds[backend] EXCEPT !["talos"] = t, !["kube"] = k]
    BY <1>1, WriteTwo
  <2>3. pass' \in Pass /\ pass'.cb = pass.cb /\ pass'.pki = pass.pki /\ PutsDone
    BY Zenon, <1>1, <1>3, <2>1, WritingFields DEF PutsDone
  <2> QED
    BY Zenon, <2>1, <2>2, <2>3 DEF Puts
<1>5. CASE PutFile /\ pass.half
  <2>1. /\ creds' = [creds EXCEPT ![backend] = [creds[backend] EXCEPT !["talos"] = t]]
        /\ pass' = Writing(<<<<"kube", k>>>>)
    BY Zenon, <1>2, <1>5, PutFileDoes DEF Fields
  <2>2. pass' \in Pass /\ pass'.cb = pass.cb /\ pass'.pki = pass.pki /\ PutsStill(<<<<"kube", k>>>>)
    BY Zenon, <1>1, <1>3, <2>1, WritingFields DEF PutsStill
  <2> QED
    BY Zenon, <2>1, <2>2 DEF Puts
<1>6. CASE PutFile /\ ~pass.half
  <2>1. /\ creds' = [creds EXCEPT ![backend] = [creds[backend] EXCEPT !["talos"] = Blank]]
        /\ pass' = [pass EXCEPT !.half = TRUE]
    BY Zenon, <1>2, <1>6, PutFileDoes DEF Fields
  <2>2. /\ pass' \in Pass /\ pass'.cb = pass.cb /\ pass'.pki = pass.pki /\ pass'.pc = pass.pc
        /\ pass'.then = pass.then /\ pass'.todo = pass.todo
    BY Zenon, <1>1, <2>1 DEF Pass
  <2> QED
    BY Zenon, <1>1, <2>1, <2>2 DEF Puts, PutsStill
<1> QED
  BY Zenon, <1>4, <1>5, <1>6

\* Credentials are written.
LEMMA PutKept ==
  ASSUME Base, PutItem \/ PutFile
  PROVE  Kept'
\* What is written is a bundle's number or nothing.
<1>1. ASSUME NEW item \in [Fields -> Int], Puts(item), item.secrets <= pkis, PassInv',
             pass'.pc # "idle" => pass'.cb.spec \in Specs
      PROVE  Kept'
  <2> USE <1>1
  <2>1. UNCHANGED <<cb, inv, backend, node, create, del, cli, pkis, left>>
    BY Zenon DEF PutItem, PutFile
  <2>2. creds' \in [Stores -> [Fields -> Int]] /\ \A b \in Stores : creds'[b].secrets <= pkis
    BY Zenon DEF Puts, Base, BootShapes, Given, Fields
  <2>3. BootShapes'
    BY Zenon, <2>1, <2>2, RenderedSame DEF Puts, Base, BootShapes
  <2>4. Given'
    BY Zenon, <2>1, <2>2 DEF Base, Given
  <2> QED
    BY Zenon, <2>3, <2>4 DEF Kept
<1>2. pass.pc = "put" /\ Todo /\ pkis \in Nat /\ pkis' = pkis /\ pass \in Pass /\ pass.pki \in Nat
  BY Zenon DEF PutItem, PutFile, Base, PassInv, BootShapes, Pass
<1>3. creds[backend] \in [Fields -> Int] /\ creds[backend].secrets <= pkis /\ Blank \in Int /\ Blank <= pkis
  BY <1>2 DEF Base, BootShapes, Given, Blank
<1>4. <<pass.cb.phase, pass.then>> \in
        {<<"GENERATING_SECRETS", "store">>, <<"STAGING", "matchbox">>, <<"AWAITING_HEALTHY", "seedCluster">>}
  BY Zenon, <1>2 DEF Base, PassInv, InPhase
<1>5. ASSUME NEW g \in Fields, NEW v \in Int, pass.todo = <<<<g, v>>>>, g = "secrets" => v \in 1..pkis,
             pass.then = "matchbox" => pass.pki \in 1..pkis
      PROVE  Kept'
  <2>1. CASE Puts([creds[backend] EXCEPT ![g] = Blank]) /\ PutsStill(<<<<g, v>>>>)
    <3>1. Todo'
      BY Zenon, <1>2, <1>5, <2>1 DEF Todo, PutsStill, Puts
    <3>2. PassInv' /\ (pass'.pc # "idle" => pass'.cb.spec \in Specs)
      BY Zenon, <1>2, <1>4, <2>1, <3>1, GoesOn DEF PutsStill, Puts
    <3> QED
      BY Zenon, <1>3, <2>1, <3>2, <1>1 DEF Fields
  <2>2. CASE Puts([creds[backend] EXCEPT ![g] = v]) /\ PutsDone
    <3>1. PassInv' /\ (pass'.pc # "idle" => pass'.cb.spec \in Specs)
      BY Zenon, <1>2, <1>4, <1>5, <2>2, GoesOn DEF PutsDone, Puts
    <3>2. [creds[backend] EXCEPT ![g] = v] \in [Fields -> Int] /\ [creds[backend] EXCEPT ![g] = v].secrets <= pkis
      BY <1>2, <1>3, <1>5 DEF Fields
    <3> QED
      BY Zenon, <2>2, <3>1, <3>2, <1>1
  <2> QED
    BY Zenon, <1>4, <1>5, <2>1, <2>2, PutOne
<1>6. ASSUME NEW t \in 1..pkis, NEW k \in 1..pkis \cup {Blank}, pass.todo = <<<<"talos", t>>, <<"kube", k>>>>,
             pass.then \in {"matchbox", "seedCluster"},
             pass.then = "matchbox" => pass.pki \in 1..pkis /\ t = pass.pki /\ k = Blank,
             pass.then = "seedCluster" => k \in 1..pkis
      PROVE  Kept'
  <2>0. t \in Int /\ k \in Int
    BY <1>2, <1>3
  <2>1. CASE Puts([creds[backend] EXCEPT !["talos"] = Blank]) /\ PutsStill(<<<<"talos", t>>, <<"kube", k>>>>)
    <3>1. Todo'
      BY Zenon, <1>2, <1>6, <2>1 DEF Todo, PutsStill, Puts, Blank
    <3>2. PassInv' /\ (pass'.pc # "idle" => pass'.cb.spec \in Specs)
      BY Zenon, <1>2, <1>4, <2>1, <3>1, GoesOn DEF PutsStill, Puts
    <3> QED
      BY Zenon, <1>3, <2>1, <3>2, <1>1 DEF Fields
  <2>2. CASE Puts([creds[backend] EXCEPT !["talos"] = t]) /\ PutsStill(<<<<"kube", k>>>>)
    <3>1. Todo'
      BY Zenon, <1>2, <1>6, <2>2 DEF Todo, PutsStill, Puts, Blank
    <3>2. PassInv' /\ (pass'.pc # "idle" => pass'.cb.spec \in Specs)
      BY Zenon, <1>2, <1>4, <2>2, <3>1, GoesOn DEF PutsStill, Puts
    <3> QED
      BY Zenon, <1>3, <2>0, <2>2, <3>2, <1>1 DEF Fields
  <2>3. CASE Puts([creds[backend] EXCEPT !["talos"] = t, !["kube"] = k]) /\ PutsDone
    <3>1. PassInv' /\ (pass'.pc # "idle" => pass'.cb.spec \in Specs)
      BY Zenon, <1>2, <1>4, <1>6, <2>3, GoesOn DEF PutsDone, Puts
    <3> QED
      BY Zenon, <1>3, <2>0, <2>3, <3>1, <1>1 DEF Fields
  <2> QED
    BY Zenon, <1>6, <2>0, <2>1, <2>2, <2>3, PutTwo
<1> QED
  BY <1>2, <1>3, <1>5, <1>6 DEF Todo, Fields

\* The inventory is seeded.
LEMMA SeedKept ==
  ASSUME Base, SeedCluster \/ SeedPool \/ SeedMachine
  PROVE  Kept'
<1>1. /\ pass \in Pass /\ pass.cb.phase = "AWAITING_HEALTHY" /\ pass.pc # "idle"
      /\ inv' \subseteq {"Cluster", "NodePool", "Machine"}
      /\ UNCHANGED <<cb, creds, backend, node, create, del, cli, pkis, left>>
  BY Zenon DEF SeedCluster, SeedPool, SeedMachine, Seed, Base, BootShapes, PassInv, InPhase
<1>2. pass' \in Pass /\ PassInv' /\ (pass'.pc # "idle" => pass'.cb.spec \in Specs)
  <2>1. CASE SeedCluster \/ SeedPool
    <3>1. pass' \in Pass /\ pass'.pc \in {"seedPool", "seedMachine"} /\ pass'.cb = pass.cb
      BY Zenon, <1>1, <2>1, ReplyFields DEF SeedCluster, SeedPool, Seed
    <3> QED
      BY Zenon, <1>1, <3>1, GoesOn
  <2>2. CASE SeedMachine
    <3>1. pass' \in Pass /\ pass'.pc = "store" /\ pass'.then = "READY" /\ pass'.cb = pass.cb
      BY Zenon, <1>1, <2>2, StoreFields DEF SeedMachine, Seed, Thens
    <3> QED
      BY Zenon, <1>1, <3>1, GoesOn
  <2> QED
    BY Zenon, <2>1, <2>2
<1>3. BootShapes'
  BY Zenon, <1>1, <1>2, RenderedSame DEF Base, BootShapes
<1>4. Given'
  BY Zenon, <1>1, <1>2 DEF Base, Given
<1> QED
  BY Zenon, <1>2, <1>3, <1>4 DEF Kept

-----------------------------------------------------------------------------
(* Commands, the machine and time.                                         *)

\* What the commands leave alone.
LEMMA CommandFrame ==
  ASSUME Command
  PROVE  UNCHANGED <<matchboxVars, cb, inv, host, backend, node, pass, create, del, pkis, old>>
<1>1. ASSUME NEW pc, NEW held, Reads(pc, held)
      PROVE  UNCHANGED <<matchboxVars, cb, inv, host, backend, node, pass, create, del, pkis, old>>
  BY Zenon, <1>1 DEF Reads
<1>2. ASSUME NEW pc, NEW store, NEW fields, NEW next, Writes(pc, store, fields, next)
      PROVE  UNCHANGED <<matchboxVars, cb, inv, host, backend, node, pass, create, del, pkis, old>>
  BY Zenon, <1>2 DEF Writes
<1>3. CASE CaptureSecrets \/ MigrateReads \/ MigrateSecretsRead \/ CommandFails
  BY Zenon, <1>1, <1>3 DEF CaptureSecrets, MigrateReads, MigrateSecretsRead, CommandFails
<1>4. CASE CaptureWrites \/ MigrateConfigs \/ MigrateSecrets
  BY Zenon, <1>2, <1>4 DEF CaptureWrites, MigrateConfigs, MigrateSecrets
<1> QED
  BY Zenon, <1>3, <1>4 DEF Command

\* No credentials.
LEMMA NoCredsTyped == NoCreds \in [Fields -> Int] /\ \A f \in Fields : NoCreds[f] = 0
BY DEF NoCreds, Absent, Fields

\* The credentials that a command reads and writes.
LEMMA CommandData ==
  ASSUME Base, Command
  PROVE  /\ cli' \in Commands
         /\ \/ creds' = creds
            \/ /\ cli'.held = NoCreds /\ cli.pc # "idle"
               /\ \E store \in Stores, fields \in SUBSET Fields :
                    creds' = [creds EXCEPT ![store] =
                                [f \in Fields |-> IF f \in fields THEN cli.held[f] ELSE creds[store][f]]]
         /\ \/ cli'.held = NoCreds
            \/ /\ node.config \in Rendered /\ creds["file"].talos = node.config.secrets
               /\ cli'.held = [NoCreds EXCEPT !.secrets = node.config.secrets]
            \/ cli'.held = [creds["file"] EXCEPT !.secrets = Absent]
            \/ cli'.held = [NoCreds EXCEPT !.secrets = creds["file"].secrets]
         /\ left' \in [Bounds -> Nat] /\ 1..left'.creates \subseteq DOMAIN SpecsOf
<1>1. /\ creds \in [Stores -> [Fields -> Int]] /\ "file" \in Stores /\ "onepassword" \in Stores
      /\ creds["file"] \in [Fields -> Int] /\ Absent \in Int
      /\ "secrets" \in Fields /\ "talos" \in Fields /\ "kube" \in Fields
  BY DEF Base, BootShapes, Fields, Stores, Absent
<1>2. /\ NoCommand \in Commands /\ [pc |-> "read", held |-> NoCreds] \in Commands
      /\ NoCommand.held = NoCreds /\ [pc |-> "read", held |-> NoCreds].held = NoCreds
  BY Zenon, NoCredsTyped DEF NoCommand, Commands
<1>3. ASSUME NEW pc \in {"idle", "capture", "configs", "read", "secrets"}, NEW held \in [Fields -> Int], Reads(pc, held)
      PROVE  cli' \in Commands /\ cli'.held = held /\ creds' = creds
  BY Zenon, <1>3 DEF Reads, Commands
<1>5. left' \in [Bounds -> Nat] /\ 1..left'.creates \subseteq DOMAIN SpecsOf
  <2>1. Spend("commands") \/ Spend("faults") \/ left' = left
    <3>1. CASE CaptureSecrets \/ MigrateReads \/ MigrateSecretsRead \/ CommandFails
      BY Zenon, <3>1 DEF CaptureSecrets, MigrateReads, MigrateSecretsRead, CommandFails
    <3>2. CASE CaptureWrites \/ MigrateConfigs \/ MigrateSecrets
      BY Zenon, <3>2 DEF CaptureWrites, MigrateConfigs, MigrateSecrets, Writes
    <3> QED
      BY Zenon, <3>1, <3>2 DEF Command
  <2>2. "commands" \in Bounds /\ "faults" \in Bounds
    BY Zenon DEF Bounds
  <2> QED
    BY Zenon, <2>1, <2>2, SpendLeft DEF Base, BootShapes, Bounds
<1>6. CASE CaptureSecrets
  <2> DEFINE held == [NoCreds EXCEPT !.secrets = node.config.secrets]
  <2>1. node.config \in Rendered /\ pkis \in Nat /\ creds["file"].talos = node.config.secrets
    BY Zenon, <1>6 DEF CaptureSecrets, Base, BootShapes
  <2>2. node.config.secrets \in Int
    BY <2>1, RenderedBundle
  <2>3. held \in [Fields -> Int]
    BY Zenon, <1>1, <2>2, NoCredsTyped
  <2>4. Reads("capture", held)
    BY Zenon, <1>6 DEF CaptureSecrets
  <2> HIDE DEF held
  <2>5. cli' \in Commands /\ cli'.held = held /\ creds' = creds
    BY Zenon, <2>3, <2>4, <1>3
  <2> QED
    BY Zenon, <1>5, <2>1, <2>5 DEF held
<1>7. CASE MigrateReads
  <2> DEFINE held == [creds["file"] EXCEPT !.secrets = Absent]
  <2>1. held \in [Fields -> Int]
    BY Zenon, <1>1
  <2>2. Reads("configs", held)
    BY Zenon, <1>7 DEF MigrateReads
  <2> HIDE DEF held
  <2>3. cli' \in Commands /\ cli'.held = held /\ creds' = creds
    BY Zenon, <2>1, <2>2, <1>3
  <2> QED
    BY Zenon, <1>5, <2>3 DEF held
<1>8. CASE MigrateSecretsRead
  <2> DEFINE held == [NoCreds EXCEPT !.secrets = creds["file"].secrets]
  <2>1. held \in [Fields -> Int]
    BY Zenon, <1>1, NoCredsTyped
  <2>2. Reads("secrets", held) \/ Reads("idle", NoCreds)
    BY Zenon, <1>8 DEF MigrateSecretsRead
  <2> HIDE DEF held
  <2>3. cli' \in Commands /\ (cli'.held = held \/ cli'.held = NoCreds) /\ creds' = creds
    BY Zenon, <2>1, <2>2, <1>3, NoCredsTyped
  <2> QED
    BY Zenon, <1>5, <2>3 DEF held
<1>9. CASE CommandFails
  <2>1. cli' \in Commands /\ cli'.held = NoCreds /\ creds' = creds
    BY Zenon, <1>9, <1>3, NoCredsTyped DEF CommandFails
  <2> QED
    BY Zenon, <1>5, <2>1
<1>10. CASE CaptureWrites \/ MigrateConfigs \/ MigrateSecrets
  <2>1. ASSUME NEW pc, NEW store \in Stores, NEW fields \in SUBSET Fields, NEW next \in Commands,
               next.held = NoCreds, Writes(pc, store, fields, next)
        PROVE  /\ cli' \in Commands /\ cli'.held = NoCreds
               /\ \E b \in Stores, fs \in SUBSET Fields :
                    creds' = [creds EXCEPT ![b] = [f \in Fields |-> IF f \in fs THEN cli.held[f] ELSE creds[b][f]]]
    <3>1. /\ cli' = next
          /\ creds' = [creds EXCEPT ![store] =
                         [f \in Fields |-> IF f \in fields THEN cli.held[f] ELSE creds[store][f]]]
      BY Zenon, <2>1 DEF Writes
    <3> QED
      BY Zenon, <2>1, <3>1
  <2>2. {"secrets"} \in SUBSET Fields /\ {"talos", "kube"} \in SUBSET Fields
    BY DEF Fields
  <2>2a. cli.pc # "idle"
    BY Zenon, <1>10 DEF CaptureWrites, MigrateConfigs, MigrateSecrets, Writes
  <2>3. /\ cli' \in Commands /\ cli'.held = NoCreds
        /\ \E b \in Stores, fs \in SUBSET Fields :
             creds' = [creds EXCEPT ![b] = [f \in Fields |-> IF f \in fs THEN cli.held[f] ELSE creds[b][f]]]
    <3>1. CASE CaptureWrites
      BY Zenon, <1>1, <1>2, <2>1, <2>2, <3>1 DEF CaptureWrites
    <3>2. CASE MigrateConfigs
      BY Zenon, <1>1, <1>2, <2>1, <2>2, <3>2 DEF MigrateConfigs
    <3>3. CASE MigrateSecrets
      BY Zenon, <1>1, <1>2, <2>1, <2>2, <3>3 DEF MigrateSecrets
    <3> QED
      BY Zenon, <1>10, <3>1, <3>2, <3>3
  <2> QED
    BY Zenon, <1>5, <2>2a, <2>3
<1> QED
  BY Zenon, <1>6, <1>7, <1>8, <1>9, <1>10 DEF Command

\* The commands keep the shape.
LEMMA CommandKept ==
  ASSUME Base, Command
  PROVE  Kept'
<1>1. UNCHANGED <<cb, inv, backend, node, pass, create, del, pkis>>
  BY Zenon, CommandFrame
<1>2. /\ creds \in [Stores -> [Fields -> Int]] /\ \A b \in Stores : creds[b].secrets <= pkis
      /\ cli.held \in [Fields -> Int] /\ cli.held.secrets <= pkis /\ pkis \in Nat
      /\ "file" \in Stores /\ Fields = {"secrets", "talos", "kube"}
  BY Zenon DEF Base, BootShapes, Given, Fields, Stores, Commands
<1>3. creds' \in [Stores -> [Fields -> Int]] /\ \A b \in Stores : creds'[b].secrets <= pkis
  <2>1. CASE creds' = creds
    BY Zenon, <1>2, <2>1
  <2>2. CASE creds' # creds
    <3>1. PICK store \in Stores, fields \in SUBSET Fields :
            creds' = [creds EXCEPT ![store] =
                        [f \in Fields |-> IF f \in fields THEN cli.held[f] ELSE creds[store][f]]]
      BY Zenon, <2>2, CommandData
    <3> DEFINE now == [f \in Fields |-> IF f \in fields THEN cli.held[f] ELSE creds[store][f]]
    <3>2. now \in [Fields -> Int]
      BY <1>2
    <3>3. now.secrets <= pkis
      BY Zenon, <1>2
    <3> HIDE DEF now
    <3> QED
      BY Zenon, <1>2, <3>1, <3>2, <3>3 DEF now
  <2> QED
    BY Zenon, <2>1, <2>2
<1>4. cli'.held.secrets <= pkis
  <2>1. CASE cli'.held = NoCreds \/ cli'.held = [creds["file"] EXCEPT !.secrets = Absent]
    BY <1>2, <2>1, NoCredsTyped DEF Absent
  <2>2. CASE node.config \in Rendered /\ cli'.held = [NoCreds EXCEPT !.secrets = node.config.secrets]
    <3>1. node.config.secrets \in 1..pkis
      BY Zenon, <1>2, <2>2, RenderedBundle
    <3>2. cli'.held.secrets = node.config.secrets
      BY Zenon, <1>2, <2>2, NoCredsTyped
    <3> QED
      BY <1>2, <3>1, <3>2
  <2>3. CASE cli'.held = [NoCreds EXCEPT !.secrets = creds["file"].secrets]
    BY Zenon, <1>2, <2>3, NoCredsTyped
  <2> QED
    BY Zenon, <2>1, <2>2, <2>3, CommandData
<1>5. BootShapes'
  BY Zenon, <1>1, <1>3, CommandData, RenderedSame DEF Base, BootShapes
<1>6. Given' /\ PassInv'
  BY Zenon, <1>1, <1>3, <1>4 DEF Base, Given, PassInv, InPhase, Todo
<1> QED
  BY Zenon, <1>5, <1>6 DEF Kept

\* The machine installs, and its API server comes up.
LEMMA MachineKept ==
  ASSUME Base, Install \/ ApiServerUp
  PROVE  Kept'
<1>1. node' \in [config : Rendered \cup {NoConfig}, etcd : BOOLEAN, api : BOOLEAN]
  <2>1. CASE Install
    <3>1. file[CpMac]["generic"].config \in Rendered \cup {NoConfig}
      BY Zenon DEF Base, DriverInv
    <3> QED
      BY <2>1, <3>1, Zenon DEF Install
  <2>2. CASE ApiServerUp
    BY <2>2, Zenon DEF ApiServerUp, Base, BootShapes
  <2> QED
    BY Zenon, <2>1, <2>2
<1>2. UNCHANGED <<cb, inv, creds, backend, pass, create, del, cli, pkis, left>>
  BY Zenon DEF Install, ApiServerUp
<1>3. BootShapes'
  BY <1>1, <1>2 DEF Base, BootShapes, Rendered
<1>4. Given' /\ PassInv'
  BY Zenon, <1>2 DEF Base, Given, PassInv, InPhase, Todo
<1> QED
  BY Zenon, <1>3, <1>4 DEF Kept

\* Time passes for the record and for the copy of it.
LEMMA ExpireKept ==
  ASSUME Base, Expire
  PROVE  /\ Kept'
         /\ cb'.phase = cb.phase /\ cb'.spec = cb.spec
         /\ pass'.pc = pass.pc /\ pass'.then = pass.then /\ pass'.todo = pass.todo /\ pass'.pki = pass.pki
         /\ pass'.cb.phase = pass.cb.phase /\ pass'.cb.spec = pass.cb.spec
<1>1. cb \in ClusterBootstrap /\ pass \in Pass /\ pass.cb \in ClusterBootstrap
  BY Zenon DEF Base, BootShapes, Pass
<1>2. \A s \in {"never", "recently", "long ago"} : Late(s) \in {"never", "recently", "long ago"}
  BY Zenon DEF Late
<1>3. cb' \in ClusterBootstrap /\ cb'.phase = cb.phase /\ cb'.spec = cb.spec
  BY Zenon, <1>1, <1>2 DEF Expire, ClusterBootstrap
<1> DEFINE r == [pass.cb EXCEPT !.started = Late(@)]
<1>4. r \in ClusterBootstrap /\ r.phase = pass.cb.phase /\ r.spec = pass.cb.spec
  BY Zenon, <1>1, <1>2 DEF ClusterBootstrap
<1>5. pass' = [pass EXCEPT !.cb = r]
  BY Zenon, <1>1 DEF Expire, Pass, ClusterBootstrap
<1> HIDE DEF r
<1>6. /\ pass' \in Pass /\ pass'.pc = pass.pc /\ pass'.then = pass.then /\ pass'.todo = pass.todo
      /\ pass'.pki = pass.pki /\ pass'.cb = r
  BY Zenon, <1>1, <1>4, <1>5 DEF Pass
<1>7. BootShapes'
  BY <1>3, <1>6 DEF Base, BootShapes, Rendered, Expire
<1>8. Given'
  BY Zenon, <1>3, <1>4, <1>6 DEF Base, Given, Expire
<1>9. PassInv'
  BY Zenon, <1>4, <1>6 DEF Base, PassInv, InPhase, Todo, Expire
<1> QED
  BY Zenon, <1>3, <1>4, <1>6, <1>7, <1>8, <1>9 DEF Kept

-----------------------------------------------------------------------------
(* The drivers.                                                            *)

\* The control plane's host has these files still.
CpFiles(kinds) == \A k \in kinds : file'[CpMac][k] = file[CpMac][k]

\* A step of the other driver.
CpSame == job'["bootstrap"] = job["bootstrap"] /\ CpFiles(Kinds)

\* A step of the bootstrap executor's driver.
CpStep ==
    /\ job'["bootstrap"].config = job["bootstrap"].config
    /\ \/ /\ job["bootstrap"].pc \in Kinds /\ job'["bootstrap"].pc = job["bootstrap"].pc
          /\ file'[CpMac][job["bootstrap"].pc] = EmptyFile
          /\ CpFiles(Kinds \ {job["bootstrap"].pc})
       \/ /\ job["bootstrap"].pc = "generic" /\ job'["bootstrap"].pc = "mirror"
          /\ file'[CpMac]["generic"] = [state |-> "whole", config |-> job["bootstrap"].config]
          /\ CpFiles({"group"})
       \/ /\ job["bootstrap"].pc \in {"mirror", "create", "copy", "rename"}
          /\ job'["bootstrap"].pc \in {"mirror", "create", "copy", "rename", "profile", "error"}
          /\ CpFiles({"generic", "group"})
       \/ /\ job["bootstrap"].pc = "profile" /\ job'["bootstrap"].pc = "group"
          /\ CpFiles({"generic", "group"})
       \/ /\ job["bootstrap"].pc = "group" /\ job'["bootstrap"].pc = "ok"
          /\ CpFiles({"generic"}) /\ file'[CpMac]["group"].state = "whole"

\* Each driver works on the hosts of its executor.
LEMMA OwnMac ==
  ASSUME FilesInv, NEW e \in Executors, job[e].pc # "idle"
  PROVE  job[e].mac \in Macs /\ (e = "bootstrap" <=> job[e].mac = CpMac)
<1>1. job[e].mac \in HostsOf[e]
  BY Zenon DEF FilesInv, Progress
<1> QED
  BY Zenon, <1>1, TwoDrivers, CpAssumption, HostsAssumption

\* What a step of a driver means for the job of the other.
LEMMA JobStep ==
  ASSUME FilesInv, NEW e \in Executors, NEW r, job' = [job EXCEPT ![e] = r]
  PROVE  /\ e = "bootstrap" => job'["bootstrap"] = r
         /\ e # "bootstrap" => job'["bootstrap"] = job["bootstrap"]
<1>1. job \in [Executors -> Job]
  BY Zenon DEF FilesInv, AssetsInv, MatchboxTypeOK
<1> QED
  BY Zenon, <1>1, TwoDrivers

\* A step of a driver, as the control plane sees it.
LEMMA DriverEffect ==
  ASSUME FilesInv, DriverInv, NEW e \in Executors, DriverStep(e) \/ FetchFails(e)
  PROVE  IF e = "bootstrap" THEN CpStep ELSE CpSame
\* The file a step writes or removes, when it is one of the control plane's.
<1>1. ASSUME job[e].pc # "idle", NEW k \in Kinds, NEW v, file' = [file EXCEPT ![job[e].mac][k] = v]
      PROVE  /\ e = "bootstrap" => file'[CpMac][k] = v /\ CpFiles(Kinds \ {k})
             /\ e # "bootstrap" => CpFiles(Kinds)
  <2> USE <1>1
  <2>1. file \in [Macs -> [Kinds -> File]]
    BY Zenon DEF FilesInv, AssetsInv, MatchboxTypeOK
  <2> QED
    BY Zenon, <2>1, OwnMac, TwoDrivers DEF CpFiles
\* The next asset, for the same configuration.
<1>2. AfterAsset(e).config = job[e].config /\ AfterAsset(e).pc \in {"mirror", "profile"}
  <2>1. job[e] \in Job
    BY Zenon DEF FilesInv, AssetsInv, MatchboxTypeOK
  <2> DEFINE x == job[e].asset + 1
  <2>2. CASE job[e].asset < NAssets
    <3>1. AfterAsset(e) = [job[e] EXCEPT !.pc = "mirror", !.asset = x, !.fd = 0, !.got = 0]
      BY Zenon, <2>2 DEF AfterAsset
    <3> QED
      BY Zenon, <2>1, <3>1 DEF Job
  <2>3. CASE ~(job[e].asset < NAssets)
    <3>1. AfterAsset(e) = [job[e] EXCEPT !.pc = "profile", !.asset = NAssets + 1, !.fd = 0, !.got = 0]
      BY Zenon, <2>3 DEF AfterAsset
    <3> QED
      BY Zenon, <2>1, <3>1 DEF Job
  <2> QED
    BY Zenon, <2>2, <2>3
\* A download.
<1>3. ASSUME Mirror(e) \/ CreateTmp(e) \/ CopyBlock(e) \/ Rename(e) \/ FetchFails(e)
      PROVE  IF e = "bootstrap" THEN CpStep ELSE CpSame
  <2> USE <1>3
  <2>1. job[e] \in Job
    BY Zenon DEF FilesInv, AssetsInv, MatchboxTypeOK
  <2>2. /\ job[e].pc \in {"mirror", "create", "copy", "rename"}
        /\ CpFiles(Kinds) /\ CpFiles({"generic", "group"})
    BY Zenon DEF Mirror, CreateTmp, CopyBlock, Rename, FetchFails, CpFiles
  <2>3. PICK r : /\ job' = [job EXCEPT ![e] = r]
                 /\ r.config = job[e].config
                 /\ r.pc \in {"mirror", "create", "copy", "rename", "profile", "error"}
    <3>1. CASE Mirror(e)
      <4>1. CASE Cached(job[e].asset)
        BY Zenon, <2>1, <3>1, <4>1, <1>2 DEF Mirror
      <4>2. CASE ~Cached(job[e].asset)
        <5> DEFINE r == [job[e] EXCEPT !.pc = "create"]
        <5>1. job' = [job EXCEPT ![e] = r]
          BY Zenon, <3>1, <4>2 DEF Mirror
        <5>2. r.config = job[e].config /\ r.pc = "create"
          BY Zenon, <2>1 DEF Job
        <5> QED
          BY Zenon, <5>1, <5>2
      <4> QED
        BY Zenon, <4>1, <4>2
    <3>2. CASE CreateTmp(e)
      <4>1. PICK i : job' = [job EXCEPT ![e] = [@ EXCEPT !.pc = "copy", !.fd = i, !.got = 0]]
        BY Zenon, <3>2 DEF CreateTmp
      <4> DEFINE r == [job[e] EXCEPT !.pc = "copy", !.fd = i, !.got = 0]
      <4>2. job' = [job EXCEPT ![e] = r]
        BY Zenon, <4>1
      <4>3. r.config = job[e].config /\ r.pc = "copy"
        BY Zenon, <2>1 DEF Job
      <4> QED
        BY Zenon, <4>2, <4>3
    <3>3. CASE CopyBlock(e)
      <4> DEFINE r == Copied(job[e])
      <4>1. job' = [job EXCEPT ![e] = r]
        BY Zenon, <3>3 DEF CopyBlock
      <4>2. r.config = job[e].config /\ r.pc \in {"rename", "copy"}
        BY Zenon, <2>1 DEF Job, Copied
      <4> QED
        BY Zenon, <4>1, <4>2
    <3>4. CASE Rename(e) \/ FetchFails(e)
      <4> DEFINE r == [job[e] EXCEPT !.pc = "error", !.fd = 0]
      <4>1. job' = [job EXCEPT ![e] = r] \/ job' = [job EXCEPT ![e] = AfterAsset(e)]
        BY Zenon, <3>4 DEF Rename, FetchFails
      <4>2. r.config = job[e].config /\ r.pc = "error"
        BY Zenon, <2>1 DEF Job
      <4> QED
        BY Zenon, <4>1, <4>2, <1>2
    <3> QED
      BY Zenon, <3>1, <3>2, <3>3, <3>4
  <2> QED
    BY Zenon, <2>2, <2>3, JobStep DEF CpStep, CpSame
\* Stage and Unstage write and remove files.
<1>4. ASSUME WriteGeneric(e) \/ WriteProfile(e) \/ WriteGroup(e)
      PROVE  IF e = "bootstrap" THEN CpStep ELSE CpSame
  <2> USE <1>4
  <2>1. job[e] \in Job
    BY Zenon DEF FilesInv, AssetsInv, MatchboxTypeOK
  <2>2. ASSUME NEW k \in Kinds, NEW c, NEW pc, NEW x, WriteFile(e, k, c, pc, x), job[e].pc # "idle"
        PROVE  /\ e = "bootstrap" => /\ file'[CpMac][k] = [state |-> "whole", config |-> c]
                                     /\ CpFiles(Kinds \ {k})
                                     /\ job'["bootstrap"].config = job["bootstrap"].config
                                     /\ job'["bootstrap"].pc = pc
               /\ e # "bootstrap" => CpSame
    <3> DEFINE r == [job[e] EXCEPT !.pc = pc, !.asset = x]
               v == [state |-> "whole", config |-> c]
    <3>1. file' = [file EXCEPT ![job[e].mac][k] = v] /\ job' = [job EXCEPT ![e] = r]
      BY Zenon, <2>2 DEF WriteFile
    <3>2. r.pc = pc /\ r.config = job[e].config
      BY Zenon, <2>1 DEF Job
    <3> HIDE DEF r, v
    <3>3. /\ e = "bootstrap" => file'[CpMac][k] = v /\ CpFiles(Kinds \ {k})
          /\ e # "bootstrap" => CpFiles(Kinds)
      BY Zenon, <2>2, <3>1, <1>1
    <3> QED
      BY Zenon, <3>1, <3>2, <3>3, JobStep DEF CpSame, v
  <2>3. CASE WriteGeneric(e)
    <3>1. WriteFile(e, "generic", job[e].config, "mirror", 1) /\ job[e].pc = "generic" /\ "generic" \in Kinds
      BY Zenon, <2>3 DEF WriteGeneric, Kinds
    <3>2. /\ e = "bootstrap" => /\ file'[CpMac]["generic"] = [state |-> "whole", config |-> job[e].config]
                                /\ CpFiles(Kinds \ {"generic"})
                                /\ job'["bootstrap"].config = job["bootstrap"].config
                                /\ job'["bootstrap"].pc = "mirror"
          /\ e # "bootstrap" => CpSame
      BY Zenon, <2>2, <3>1
    <3> QED
      BY Zenon, <3>1, <3>2 DEF CpStep, CpFiles, Kinds
  <2>4. CASE WriteProfile(e)
    <3>1. WriteFile(e, "profile", NoConfig, "group", job[e].asset) /\ job[e].pc = "profile" /\ "profile" \in Kinds
      BY Zenon, <2>4 DEF WriteProfile, Kinds
    <3>2. /\ e = "bootstrap" => /\ file'[CpMac]["profile"] = [state |-> "whole", config |-> NoConfig]
                                /\ CpFiles(Kinds \ {"profile"})
                                /\ job'["bootstrap"].config = job["bootstrap"].config
                                /\ job'["bootstrap"].pc = "group"
          /\ e # "bootstrap" => CpSame
      BY Zenon, <2>2, <3>1
    <3> QED
      BY Zenon, <3>1, <3>2 DEF CpStep, CpFiles, Kinds
  <2>5. CASE WriteGroup(e)
    <3>1. WriteFile(e, "group", NoConfig, "ok", job[e].asset) /\ job[e].pc = "group" /\ "group" \in Kinds
      BY Zenon, <2>5 DEF WriteGroup, Kinds
    <3>2. /\ e = "bootstrap" => /\ file'[CpMac]["group"] = [state |-> "whole", config |-> NoConfig]
                                /\ CpFiles(Kinds \ {"group"})
                                /\ job'["bootstrap"].config = job["bootstrap"].config
                                /\ job'["bootstrap"].pc = "ok"
          /\ e # "bootstrap" => CpSame
      BY Zenon, <2>2, <3>1
    <3>3. e = "bootstrap" => file'[CpMac]["group"].state = "whole"
      BY <3>2
    <3> QED
      BY Zenon, <3>1, <3>2, <3>3 DEF CpStep, CpFiles, Kinds
  <2> QED
    BY Zenon, <2>3, <2>4, <2>5
\* Files are removed for workers only.
<1>5. ASSUME e # "bootstrap", RemoveGroup(e) \/ RemoveProfile(e) \/ RemoveGeneric(e)
      PROVE  CpSame
  <2> USE <1>5
  <2>1. ASSUME NEW k \in Kinds, NEW pc, RemoveFile(e, k, pc), job[e].pc # "idle"
        PROVE  CpSame
    <3> DEFINE r == [job[e] EXCEPT !.pc = pc]
    <3>1. file' = [file EXCEPT ![job[e].mac][k] = NoFile] /\ job' = [job EXCEPT ![e] = r]
      BY Zenon, <2>1 DEF RemoveFile, To
    <3> HIDE DEF r
    <3>2. CpFiles(Kinds)
      BY Zenon, <2>1, <3>1, <1>1
    <3> QED
      BY Zenon, <3>1, <3>2, JobStep DEF CpSame
  <2> QED
    BY Zenon, <2>1 DEF RemoveGroup, RemoveProfile, RemoveGeneric, Kinds
\* A file is emptied first.
<1>5a. ASSUME Truncate(e)
       PROVE  IF e = "bootstrap" THEN CpStep ELSE CpSame
  <2>1. /\ job[e].pc \in Kinds /\ job[e].pc # "idle" /\ job' = job
        /\ file' = [file EXCEPT ![job[e].mac][job[e].pc] = EmptyFile]
    BY Zenon, <1>5a DEF Truncate, Kinds
  <2>2. /\ e = "bootstrap" => file'[CpMac][job[e].pc] = EmptyFile /\ CpFiles(Kinds \ {job[e].pc})
        /\ e # "bootstrap" => CpFiles(Kinds)
    BY Zenon, <2>1, <1>1
  <2> QED
    BY Zenon, <2>1, <2>2 DEF CpStep, CpSame
<1>6. CASE WriteGeneric(e) \/ WriteProfile(e) \/ WriteGroup(e) \/ Truncate(e)
  BY Zenon, <1>6, <1>4, <1>5a
<1>7. CASE RemoveGroup(e) \/ RemoveProfile(e) \/ RemoveGeneric(e)
  <2>1. e # "bootstrap"
    BY Zenon, <1>7 DEF DriverInv, RemoveGroup, RemoveProfile, RemoveGeneric
  <2> QED
    BY Zenon, <1>7, <2>1, <1>5
<1>8. CASE Mirror(e) \/ CreateTmp(e) \/ CopyBlock(e) \/ Rename(e) \/ FetchFails(e)
  BY Zenon, <1>8, <1>3
<1> QED
  BY Zenon, <1>6, <1>7, <1>8 DEF DriverStep

\* The drivers' part of the invariant.
LEMMA DriverSteps ==
  ASSUME Base, CpSame \/ CpStep, pkis' = pkis, pass' = pass
  PROVE  DriverInv'
<1>1. Rendered' = Rendered
  BY DEF Rendered
<1>2. CASE CpSame
  BY Zenon, <1>1, <1>2 DEF Base, DriverInv, CpSame, CpFiles, Kinds
<1>3. CASE CpStep
  <2>1. job["bootstrap"].config \in Rendered /\ pass.pc = "staging"
    BY Zenon, <1>3 DEF Base, DriverInv, CpStep, Kinds
  <2>2. \/ file'[CpMac]["generic"] = file[CpMac]["generic"]
        \/ file'[CpMac]["generic"].config = job["bootstrap"].config
        \/ file'[CpMac]["generic"] = EmptyFile
    BY <1>3 DEF CpStep, CpFiles, Kinds
  <2>3. job'["bootstrap"].config \in Rendered /\ job'["bootstrap"].pc \notin {"idle", "rmGroup", "rmProfile", "rmGeneric"}
    BY Zenon, <1>3, <2>1 DEF CpStep, Kinds
  <2>4. EmptyFile.config = NoConfig /\ EmptyFile.state = "empty"
    BY Zenon DEF EmptyFile
  <2> QED
    BY Zenon, <1>1, <2>1, <2>2, <2>3, <2>4 DEF Base, DriverInv
<1> QED
  BY Zenon, <1>2, <1>3

\* The bootstrap executor calls its driver.
LEMMA StageCallsBase ==
  ASSUME Base, FilesInv, StageCalls
  PROVE  /\ Base'
         /\ pass'.pc = "staging" /\ pass'.cb = pass.cb /\ pass'.pki = pass.pki
         /\ job'["bootstrap"].config = Rendering(pass.pki, pass.cb.spec) /\ job'["bootstrap"].pc = "generic"
         /\ file' = file
<1>1. pass \in Pass /\ pass.pc = "matchbox" /\ pass.pki \in 1..pkis /\ pass.cb.phase = "STAGING" /\ pass.cb.spec \in Specs
  BY Zenon DEF StageCalls, Base, BootShapes, PassInv, InPhase, Given
<1>2. pass' \in Pass /\ pass'.pc = "staging" /\ pass'.cb = pass.cb /\ pass'.pki = pass.pki
  BY Zenon, <1>1, ReplyFields DEF StageCalls, Reply
<1>3. PassInv' /\ pass'.cb.spec \in Specs
  BY Zenon, <1>1, <1>2, GoesOn
<1>4. Kept'
  BY Zenon, <1>2, <1>3, PassChanges DEF StageCalls
<1> DEFINE c == Rendering(pass.pki, pass.cb.spec)
           r == [NoJob EXCEPT !.pc = "generic", !.mac = CpMac, !.config = c]
<1>5. job' = [job EXCEPT !["bootstrap"] = r] /\ file' = file
  BY Zenon DEF StageCalls, Stage, Rendering
<1>6. c \in Rendered
  BY <1>1 DEF Rendered
<1>7. r.pc = "generic" /\ r.config = c
  BY Zenon DEF NoJob
<1> HIDE DEF c, r
<1>8. job'["bootstrap"] = r
  BY Zenon, <1>5, JobStep, TwoDrivers
<1>9. DriverInv'
  BY SMTT(30), <1>2, <1>5, <1>6, <1>7, <1>8 DEF Base, DriverInv, Rendered, StageCalls
<1> QED
  BY Zenon, <1>2, <1>4, <1>5, <1>7, <1>8, <1>9 DEF Base, Kept, c

\* The call returns.
LEMMA StageReturnsBase ==
  ASSUME Base, FilesInv, StageReturns
  PROVE  /\ Base'
         /\ file' = file /\ job'["bootstrap"] = NoJob
         /\ \/ pass' = NoPass
            \/ /\ job["bootstrap"].pc = "ok"
               /\ pass'.pc = "store" /\ pass'.then = "AWAITING_INSTALL" /\ pass'.cb = pass.cb
<1>1. pass \in Pass /\ pass.pc = "staging" /\ pass.cb.phase = "STAGING"
  BY Zenon DEF StageReturns, Base, BootShapes, PassInv, InPhase
<1>2. job' = [job EXCEPT !["bootstrap"] = NoJob] /\ file' = file
  BY Zenon DEF StageReturns, Return
<1>3. job'["bootstrap"] = NoJob
  BY Zenon, <1>2, JobStep, TwoDrivers
<1>4. \/ /\ pass' \in Pass /\ pass'.pc = "store" /\ pass'.then = "AWAITING_INSTALL" /\ pass'.cb = pass.cb
         /\ job["bootstrap"].pc = "ok"
      \/ pass' = NoPass
  <2>1. CASE Return("bootstrap", "ok") /\ pass' = Store("AWAITING_INSTALL")
    BY Zenon, <1>1, <2>1, StoreFields DEF Return, Thens
  <2>2. CASE Abort
    BY Zenon, <2>2 DEF Abort
  <2> QED
    BY Zenon, <2>1, <2>2 DEF StageReturns
<1>5. pass' \in Pass /\ PassInv' /\ pass'.pc # "staging" /\ (pass'.pc # "idle" => pass'.cb.spec \in Specs)
  <2>1. CASE pass' = NoPass
    BY Zenon, <2>1, NoPassInv
  <2>2. CASE pass' # NoPass
    BY Zenon, <1>1, <1>4, <2>2, GoesOn
  <2> QED
    BY Zenon, <2>1, <2>2
<1>6. Kept'
  BY Zenon, <1>5, PassChanges DEF StageReturns
<1>7. NoJob.pc = "idle" /\ NoJob.config = NoConfig
  BY Zenon DEF NoJob
<1>8. DriverInv'
  BY SMTT(30), <1>2, <1>3, <1>5, <1>7 DEF Base, DriverInv, Rendered, StageReturns
<1> QED
  BY Zenon, <1>2, <1>3, <1>4, <1>6, <1>8 DEF Base, Kept

\* The state apart from the drivers and the bounds.
OfCluster == <<cb, inv, creds, backend, node, pass, create, del, cli, pkis, clean, lost, old>>

\* A step of the drivers leaves the rest of the shape as it is.
LEMMA ClusterSame ==
  ASSUME Base, UNCHANGED OfCluster,
         left' \in [Bounds -> Nat],
         1..left'.creates \subseteq DOMAIN SpecsOf
  PROVE  Kept'
<1>1. BootShapes'
  BY DEF Base, BootShapes, Rendered, OfCluster
<1>2. Given' /\ PassInv'
  BY Zenon DEF Base, Given, PassInv, InPhase, Todo, OfCluster
<1> QED
  BY Zenon, <1>1, <1>2 DEF Kept

\* The other executor, and the steps of both drivers.
LEMMA WorkersBase ==
  ASSUME Base, FilesInv, WorkerCalls \/ WorkerReturns \/ (\E e \in Executors : Driver(e)) \/ DownloadFails
  PROVE  Base' /\ UNCHANGED OfCluster /\ (CpSame \/ CpStep)
<1>1. UNCHANGED OfCluster
  BY Zenon DEF OfCluster, WorkerCalls, WorkerReturns, Driver, DownloadFails, bootVars
<1>2. /\ left' \in [Bounds -> Nat]
      /\ 1..left'.creates \subseteq DOMAIN SpecsOf
  <2>1. Spend("stagings") \/ Spend("faults") \/ left' = left
    BY Zenon DEF WorkerCalls, WorkerReturns, Driver, DownloadFails, bootVars
  <2> QED
    BY Zenon, <2>1, SpendLeft DEF Base, BootShapes, Bounds
<1>3. CpSame \/ CpStep
  <2>1. ASSUME NEW r, job' = [job EXCEPT !["provisioning"] = r], file' = file
        PROVE  CpSame
    BY Zenon, <2>1, JobStep, TwoDrivers DEF CpSame, CpFiles
  <2>2. CASE WorkerCalls
    BY Zenon, <2>1, <2>2 DEF WorkerCalls, Stage, Unstage
  <2>3. CASE WorkerReturns
    BY Zenon, <2>1, <2>3 DEF WorkerReturns, Return
  <2>4. CASE \E e \in Executors : Driver(e)
    BY Zenon, <2>4, DriverEffect DEF Base, Driver
  <2>5. CASE DownloadFails
    BY Zenon, <2>5, DriverEffect DEF Base, DownloadFails
  <2> QED
    BY Zenon, <2>2, <2>3, <2>4, <2>5
<1>4. Kept'
  BY Zenon, <1>1, <1>2, ClusterSame
<1>5. DriverInv'
  BY Zenon, <1>1, <1>3, DriverSteps DEF OfCluster
<1> QED
  BY Zenon, <1>1, <1>3, <1>4, <1>5 DEF Base, Kept

\* A crash leaves no job, and the files as they were.
LEMMA CrashBase ==
  ASSUME Base, FilesInv, Crash
  PROVE  Base' /\ job'["bootstrap"] = NoJob /\ file' = file
<1>1. job'["bootstrap"] = NoJob
  BY Zenon, TwoDrivers DEF Crash, MatchboxCrash
<1>2. file' = file
  BY Zenon DEF Crash, MatchboxCrash
<1>3. /\ left' \in [Bounds -> Nat]
      /\ 1..left'.creates \subseteq DOMAIN SpecsOf
  BY Zenon, SpendLeft DEF Crash, Base, BootShapes, Bounds
<1>4. backend' \in Stores
  BY Zenon DEF Crash, Base, BootShapes
<1>5. /\ pass' = NoPass /\ create' = [pc |-> "idle", spec |-> NoSpec] /\ del' = "idle"
      /\ UNCHANGED <<cb, inv, creds, node, cli, pkis>>
  BY Zenon DEF Crash
<1>6. BootShapes'
  <2>1. /\ create' \in [pc : {"idle", "host", "arm"}, spec : Specs \cup {NoSpec}]
        /\ del' \in {"idle", "creds"} /\ pass' \in Pass
    BY Zenon, <1>5, NoPassTyped
  <2> QED
    BY Zenon, <1>3, <1>4, <1>5, <2>1, RenderedSame DEF Base, BootShapes
<1>7. Given' /\ PassInv'
  <2>1. create'.pc = "idle" /\ pass'.pc = "idle" /\ PassInv' /\ Given
    BY Zenon, <1>5, NoPassInv DEF Base
  <2> QED
    BY Zenon, <1>5, <2>1 DEF Given
<1>8. NoJob.pc = "idle" /\ NoJob.config = NoConfig
  BY Zenon DEF NoJob
<1>9. DriverInv'
  BY Zenon, <1>1, <1>2, <1>5, <1>8, NoPassTyped, RenderedSame DEF Crash, Base, DriverInv
<1> QED
  BY Zenon, <1>1, <1>2, <1>6, <1>7, <1>9 DEF Base

\* A step that changes neither files nor jobs.
Elsewhere ==
    \/ StartPass \/ PutRecord \/ PutItem \/ PutFile \/ SecretsPresent \/ GenerateSecrets \/ StageRenders
    \/ NodeReachable \/ BootstrapEtcd \/ FetchKubeconfig \/ SeedCluster \/ SeedPool \/ SeedMachine \/ Park
    \/ PassFails \/ Request \/ Command \/ Install \/ ApiServerUp \/ Expire

\* The steps by what they do to files and jobs.
LEMMA StepKinds ==
  Next <=> \/ Elsewhere \/ StageCalls \/ StageReturns
           \/ WorkerCalls \/ WorkerReturns \/ (\E e \in Executors : Driver(e)) \/ DownloadFails
           \/ Crash
BY DEF Next, PassStep, Elsewhere

\* The steps that change neither files nor jobs.
LEMMA ElsewhereKept ==
  ASSUME Base, Elsewhere
  PROVE  Kept'
<1>1. CASE StartPass \/ PutRecord \/ PutItem \/ PutFile \/ SecretsPresent \/ GenerateSecrets \/ StageRenders
  BY Zenon, <1>1, PassKept, PutKept, GenerateKept, RendersKept
<1>2. CASE NodeReachable \/ BootstrapEtcd \/ FetchKubeconfig \/ SeedCluster \/ SeedPool \/ SeedMachine
  BY Zenon, <1>2, PassKept, FetchKept, SeedKept
<1>3. CASE Park \/ PassFails \/ Request
  BY Zenon, <1>3, PassKept, RequestKept DEF Request
<1>4. CASE Command \/ Install \/ ApiServerUp \/ Expire
  BY Zenon, <1>4, CommandKept, MachineKept, ExpireKept
<1> QED
  BY Zenon, <1>1, <1>2, <1>3, <1>4 DEF Elsewhere

\* A pass that waits for the driver is left alone, and none begins to.
LEMMA ElsewhereStaging ==
  ASSUME Base, Elsewhere
  PROVE  /\ UNCHANGED matchboxVars
         /\ pkis <= pkis'
         /\ pass'.pc = "staging" <=> pass.pc = "staging"
<1>1. UNCHANGED matchboxVars
  BY Zenon, CommandFrame DEF Elsewhere, StartPass, PutRecord, PutItem, PutFile, SecretsPresent, GenerateSecrets, StageRenders,
         NodeReachable, BootstrapEtcd, FetchKubeconfig, SeedCluster, SeedPool, SeedMachine, Seed, Park, PassFails,
         Request, CreateChecks, CreateHost, CreateArms, DeregisterHost, DeleteRecords, DeleteCreds,
         DeleteCredsFails, Install, ApiServerUp, Expire
<1>2. pkis \in Nat /\ (pkis' = pkis \/ pkis' = pkis + 1)
  BY Zenon, CommandFrame DEF Elsewhere, StartPass, PutRecord, PutItem, PutFile, SecretsPresent, GenerateSecrets, StageRenders,
         NodeReachable, BootstrapEtcd, FetchKubeconfig, SeedCluster, SeedPool, SeedMachine, Seed, Park, PassFails,
         Request, CreateChecks, CreateHost, CreateArms, DeregisterHost, DeleteRecords, DeleteCreds,
         DeleteCredsFails, Install, ApiServerUp, Expire,
         Base, BootShapes
<1>3. pass \in Pass
  BY Zenon DEF Base, BootShapes
<1>4. CASE StartPass
  <2>1. pass'.pc # "staging"
    BY Zenon, <1>4, StartFields DEF Base
  <2>2. pass.pc = "idle"
    BY Zenon, <1>4 DEF StartPass
  <2> QED
    BY <1>1, <1>2, <2>1, <2>2
<1>5. CASE PutItem \/ PutFile
  <2>1. pass.pc = "put" /\ Kept'
    BY Zenon, <1>5, PutKept DEF PutItem, PutFile
  <2>2. pass.then \in {"store", "matchbox", "seedCluster"}
    BY Zenon, <2>1 DEF Base, PassInv, InPhase
  <2>3. pass'.pc \in {"put", pass.then}
    <3>1. CASE \E g \in Fields, v \in Int : pass.todo = <<<<g, v>>>>
      BY Zenon, <1>5, <2>2, <3>1, <2>1, PutOne DEF PutsStill, PutsDone
    <3>2. CASE \E t, k \in Int : pass.todo = <<<<"talos", t>>, <<"kube", k>>>>
      BY Zenon, <1>5, <2>2, <3>2, PutTwo DEF PutsStill, PutsDone
    <3>3. Todo /\ pkis \in Nat
      BY Zenon, <2>1 DEF Base, PassInv, BootShapes
    <3>4. \/ \E g \in Fields, v \in Int : pass.todo = <<<<g, v>>>>
          \/ \E t, k \in Int : pass.todo = <<<<"talos", t>>, <<"kube", k>>>>
      BY <3>3 DEF Todo, Fields, Blank
    <3> QED
      BY Zenon, <3>1, <3>2, <3>4
  <2> QED
    BY <1>1, <1>2, <2>1, <2>2, <2>3
<1>6. CASE PutRecord \/ Park \/ PassFails
  BY <1>1, <1>2, <1>6, NoPassTyped DEF PutRecord, Park, PassFails, Abort
<1>7. CASE SecretsPresent \/ NodeReachable \/ BootstrapEtcd \/ SeedMachine
  <2>1. pass.pc # "staging" /\ \/ pass' = NoPass
                               \/ \E phase \in Thens : pass' = Store(phase)
    BY Zenon, <1>7 DEF SecretsPresent, NodeReachable, BootstrapEtcd, SeedMachine, Seed, Thens, Abort
  <2>2. pass'.pc # "staging"
    BY Zenon, <1>3, <2>1, StoreFields, NoPassTyped
  <2> QED
    BY <1>1, <1>2, <2>1, <2>2
<1>8. CASE GenerateSecrets \/ StageRenders \/ FetchKubeconfig
  BY <1>1, <1>2, <1>8, GenerateKept, RendersKept, FetchKept DEF GenerateSecrets, StageRenders, FetchKubeconfig
<1>9. CASE SeedCluster \/ SeedPool
  <2>1. pass.pc # "staging" /\ \E pc \in {"seedPool", "seedMachine"} : pass' = [pass EXCEPT !.pc = pc]
    BY Zenon, <1>9 DEF SeedCluster, SeedPool, Seed
  <2>2. pass'.pc # "staging"
    BY Zenon, <1>3, <2>1, ReplyFields
  <2> QED
    BY <1>1, <1>2, <2>1, <2>2
<1>10. CASE Expire
  BY <1>1, <1>2, <1>10, ExpireKept
<1>11. CASE Request \/ Command \/ Install \/ ApiServerUp
  <2>1. pass' = pass
    BY Zenon, <1>11, CommandFrame DEF Request, CreateChecks, CreateHost, CreateArms, DeregisterHost, DeleteRecords, DeleteCreds,
         DeleteCredsFails, Install, ApiServerUp
  <2> QED
    BY <1>1, <1>2, <2>1
<1> QED
  BY Zenon, <1>4, <1>5, <1>6, <1>7, <1>8, <1>9, <1>10, <1>11 DEF Elsewhere

\* Every step keeps the shape of the state.
LEMMA BaseStep == Base /\ FilesInv /\ [Next]_allVars => Base'
<1> SUFFICES ASSUME Base, FilesInv, [Next]_allVars PROVE Base'
  OBVIOUS
<1>1. CASE Elsewhere
  BY Zenon, <1>1, ElsewhereKept, ElsewhereStaging, DriverSame
<1>2. CASE StageCalls \/ StageReturns \/ Crash
  BY Zenon, <1>2, StageCallsBase, StageReturnsBase, CrashBase
<1>3. CASE WorkerCalls \/ WorkerReturns \/ (\E e \in Executors : Driver(e)) \/ DownloadFails
  BY Zenon, <1>3, WorkersBase
<1>4. CASE UNCHANGED allVars
  <2>1. UNCHANGED <<matchboxVars, OfCluster, left>>
    BY Zenon, <1>4 DEF allVars, bootVars, OfCluster
  <2>2. Kept'
    BY Zenon, <2>1, ClusterSame DEF Base, BootShapes
  <2> QED
    BY <2>1, <2>2, DriverSame DEF OfCluster, Base, BootShapes
<1> QED
  BY Zenon, <1>1, <1>2, <1>3, <1>4, StepKinds

\* The composition uses the drivers as the driver's specification says.
LEMMA DriverUsed ==
  ASSUME ConfigsGiven, Base, FilesInv, [Next]_allVars
  PROVE  [MatchboxNext]_matchboxVars
<1>1. CASE Elsewhere
  BY Zenon, <1>1, ElsewhereStaging
<1>2. CASE StageCalls
  <2>1. pass.pki \in 1..pkis /\ pass.cb.spec \in Specs /\ pkis \in Nat
    BY Zenon, <1>2 DEF StageCalls, Base, BootShapes, PassInv, Given
  <2>2. Rendering(pass.pki, pass.cb.spec) \in Configs
    BY <2>1 DEF ConfigsGiven
  <2>3. Stage("bootstrap", CpMac, Rendering(pass.pki, pass.cb.spec))
    BY Zenon, <1>2 DEF StageCalls, Rendering
  <2>4. CpMac \in HostsOf["bootstrap"] /\ "bootstrap" \in Executors
    BY Zenon, CpAssumption, TwoDrivers
  <2> QED
    BY Zenon, <2>2, <2>3, <2>4 DEF MatchboxNext
<1>3. CASE StageReturns
  BY Zenon, <1>3, TwoDrivers DEF StageReturns, MatchboxNext
<1>4. CASE WorkerCalls
  BY Zenon, <1>4, TwoDrivers DEF WorkerCalls, MatchboxNext, ConfigsGiven
<1>5. CASE WorkerReturns
  BY Zenon, <1>5, TwoDrivers DEF WorkerReturns, MatchboxNext
<1>6. CASE \E e \in Executors : Driver(e)
  BY Zenon, <1>6 DEF Driver, MatchboxNext
<1>7. CASE DownloadFails
  BY Zenon, <1>7 DEF DownloadFails, MatchboxNext
<1>8. CASE Crash
  BY Zenon, <1>8 DEF Crash, MatchboxNext
<1>9. CASE UNCHANGED allVars
  BY Zenon, <1>9 DEF allVars
<1> QED
  BY Zenon, <1>1, <1>2, <1>3, <1>4, <1>5, <1>6, <1>7, <1>8, <1>9, StepKinds

\* The state that the server starts in.
LEMMA InitBase == Init => Base
<1> SUFFICES ASSUME Init PROVE Base
  OBVIOUS
<1>1. /\ cb = NoRecord /\ create = [pc |-> "idle", spec |-> NoSpec] /\ pass = NoPass /\ inv = {}
      /\ creds = [b \in Stores |-> NoCreds] /\ node = BlankNode /\ pkis = 0 /\ del = "idle"
      /\ cli = NoCommand
  BY Zenon DEF Init, Stores
<1>2. /\ backend \in Stores
      /\ left \in [Bounds -> Nat]
      /\ 1..left.creates \subseteq DOMAIN SpecsOf
  BY Zenon, StartsAssumption DEF Init, Stores
<1>3. node \in [config : Rendered \cup {NoConfig}, etcd : BOOLEAN, api : BOOLEAN]
  BY <1>1, Zenon DEF BlankNode
<1>4. /\ creds \in [Stores -> [Fields -> Int]] /\ \A b \in Stores : creds[b].secrets = 0
  <2>1. NoCreds \in [Fields -> Int] /\ NoCreds.secrets = 0
    BY Zenon, NoCredsTyped DEF Fields
  <2> QED
    BY Zenon, <1>1, <2>1
<1>4a. cli \in Commands /\ cli.held.secrets = 0
  BY Zenon, <1>1, NoCredsTyped DEF NoCommand, Commands, Fields
<1>5. BootShapes
  BY Zenon, <1>1, <1>2, <1>3, <1>4, <1>4a, NoPassTyped DEF BootShapes
<1>6. Given /\ PassInv
  <2>1. cb.phase = "none" /\ create.pc = "idle" /\ pass.pc = "idle"
    BY Zenon, <1>1, NoPassTyped
  <2>2. (\A b \in Stores : creds[b].secrets <= pkis) /\ cli.held.secrets <= pkis
    BY <1>1, <1>4, <1>4a
  <2>3. PassInv
    BY Zenon, <2>1 DEF PassInv, InPhase
  <2> QED
    BY Zenon, <1>1, <2>1, <2>2, <2>3 DEF Given
<1>7. job["bootstrap"] = NoJob /\ file[CpMac]["generic"] = NoFile
  BY Zenon, TwoDrivers DEF Init, MatchboxInit, Kinds
<1>8. NoJob.pc = "idle" /\ NoJob.config = NoConfig /\ NoFile.config = NoConfig /\ NoFile.state = "none"
  BY Zenon DEF NoJob, NoFile
<1>9. DriverInv
  BY Zenon, <1>1, <1>7, <1>8, NoPassTyped DEF DriverInv
<1> QED
  BY Zenon, <1>5, <1>6, <1>9 DEF Base

\* The shape of the state is an invariant, and the drivers' invariant with it.
LEMMA BaseInvariance ==
  ASSUME ConfigsGiven
  PROVE  Spec => [](Base /\ FilesInv)
<1>1. Base /\ FilesInv /\ [Next]_allVars => (Base /\ FilesInv)'
  BY Zenon, BaseStep, DriverUsed, NextFiles
<1>2. Init => Base /\ FilesInv
  BY Zenon, InitBase, InitFiles DEF Init
<1> QED
  BY <1>1, <1>2, PTL DEF Spec

\* Bootstrap and provisioning together use the Matchbox drivers as the drivers'
\* specification lets any executors do: each step of Reconcile, of a request, of the
\* other executor or of a crash is a step of Matchbox or leaves its files alone.
THEOREM DriversImplemented ==
  ASSUME ConfigsGiven
  PROVE  Spec => MatchboxSpec
<1>1. Init => MatchboxInit
  BY Zenon DEF Init
<1>2. Base /\ FilesInv /\ [Next]_allVars => [MatchboxNext]_matchboxVars
  BY Zenon, DriverUsed
<1> QED
  BY <1>1, <1>2, BaseInvariance, PTL DEF Spec, MatchboxSpec

\* A control-plane host or a worker that matches a group finds its profile and its
\* configuration, whatever the two executors are doing at the same time.
THEOREM MatchedHostsStaged ==
  ASSUME ConfigsGiven
  PROVE  Spec => []MatchedIsStaged
BY DriversImplemented, GroupLast, PTL

\* The boot assets that machines of either executor are served are complete.
THEOREM AssetsComplete ==
  ASSUME ConfigsGiven
  PROVE  Spec => []ServedComplete
BY DriversImplemented, NeverTruncated, PTL
============================================================================
