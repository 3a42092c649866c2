---------------------------- MODULE MCBootstrap ----------------------------
EXTENDS Bootstrap

TwoExecutors == {"bootstrap", "provisioning"}
TwoMacs == {"cp", "worker"}
OneEach == [bootstrap |-> {"cp"}, provisioning |-> {"worker"}]

Factory == <<"factory.example", ":", "5000">>

\* A cluster with its own CNI, and one whose caller's patch overrides the typed setting.
TwoSpecs ==
    {[extensions |-> "", version |-> "v1", cni |-> "none", disableKubeProxy |-> TRUE,
      patches |-> <<>>],
     [extensions |-> "iscsi", version |-> "v1", cni |-> "none", disableKubeProxy |-> FALSE,
      patches |-> <<"cni" :> "custom", "proxy" :> "disabled">>]}

\* The cluster that is created again is not the one that was deleted.
FirstThenOther == [n \in 1..2 |-> {s \in TwoSpecs : (s.extensions = "iscsi") <=> (n = 1)}]

AWorker == RenderWorkerConfig(Factory, 0, "", "v1")
AnyConfig == {RenderControlPlaneConfig(Factory, p, s) : p \in 1..3, s \in TwoSpecs} \cup {AWorker}

Start(b, c, d, m, k, f, s) ==
    [backend |-> b, left |-> [creates |-> c, deletes |-> d, commands |-> m, crashes |-> k, faults |-> f,
                              stagings |-> s]]

\* With either store a cluster is created, deleted and created again; or credentials are
\* moved in the middle of that; or a step of the creation fails; or both executors stage
\* at once.
SomeStarts == {Start("file", 2, 1, 0, 1, 0, 0), Start("onepassword", 2, 1, 0, 1, 0, 0),
               Start("file", 2, 1, 1, 0, 0, 0), Start("file", 1, 1, 1, 1, 0, 0),
               Start("file", 1, 1, 1, 0, 1, 0), Start("file", 1, 1, 0, 1, 1, 0),
               Start("file", 1, 0, 0, 1, 0, 2)}

Hosts == {Factory, <<"factory.example">>}
Versions == {"v1", "v2"}

\* DeriveInstallerImage "preserving the registry, repo, and Image Factory schematic":
\* an upgrade of what InstallImage made is what InstallImage makes of the new version,
\* and an image without a tag gets one.
ASSUME UpgradeKeepsSchematic ==
    \A h \in Hosts, s \in {"stock", "iscsi"}, v, w \in Versions :
        LET image == InstallImage(h, s, v)
        IN  /\ DeriveInstallerImage(image, w) = InstallImage(h, s, w)
            /\ DeriveInstallerImage(SubSeq(image, 1, Len(image) - 2), w) = InstallImage(h, s, w)

\* The rendered settings are those of the last patch that sets them, or else the typed
\* ones, or else the defaults.
ASSUME LastPatchWins ==
    \A s \in TwoSpecs, k \in DOMAIN Defaults :
        LET Setters == {i \in DOMAIN s.patches : k \in DOMAIN s.patches[i]}
            typed == CniProxyPatch(s.cni, s.disableKubeProxy)
        IN  RenderControlPlaneConfig(Factory, 1, s).settings[k] =
              IF Setters # {} THEN s.patches[CHOOSE i \in Setters : \A j \in Setters : j <= i][k]
              ELSE IF k \in DOMAIN typed THEN typed[k] ELSE Defaults[k]
============================================================================
