---------------------------- MODULE MachineConfig ----------------------------
(***************************************************************************)
(* What a machine is told to become: the installer image it runs           *)
(* (internal/provision/schematic.go, internal/talos/image.go) and the      *)
(* machine configuration Medea renders for it                              *)
(* (internal/provision/config.go).                                         *)
(*                                                                         *)
(* An image reference is a sequence of tokens in which "/" and ":" are     *)
(* tokens of their own.  A configuration is a record: the secrets it was   *)
(* rendered from, the image to install, and the settings that patches      *)
(* change.  A patch is a function from the settings it sets to values.     *)
(***************************************************************************)
EXTENDS Naturals, Sequences, TLC

\* The factory's id is content-addressed, one per list of extensions: the name of the
\* list stands for it.  Without extensions it is the stock schematic.
Resolve(extensions) == IF extensions = "" THEN "stock" ELSE extensions

\* host is a sequence of tokens: it may name a port.
InstallImage(host, schematic, version) ==
    host \o <<"/", "metal-installer", "/", schematic, ":", version>>

DefaultInstaller == <<"ghcr.io", "/", "siderolabs", "/", "installer">>

\* strings.LastIndex(image, ":"), or 0.
LastColon(image) ==
    LET Colons == {i \in DOMAIN image : image[i] = ":"}
    IN  IF Colons = {} THEN 0 ELSE CHOOSE i \in Colons : \A j \in Colons : j <= i

\* The image to upgrade to: the tag is replaced, or added if there is none.  What
\* follows the last colon is a port, and no tag, when a "/" is in it.
DeriveInstallerImage(image, version) ==
    LET i == LastColon(image)
    IN  CASE image = <<>> -> DefaultInstaller \o <<":", version>>
          [] i > 0 /\ \A j \in (i + 1)..Len(image) : image[j] # "/" ->
               SubSeq(image, 1, i) \o <<version>>
          [] OTHER -> image \o <<":", version>>

-----------------------------------------------------------------------------

\* What Talos's generator sets when nobody says otherwise.
Defaults == [cni |-> "flannel", proxy |-> "enabled"]

\* The patch for the typed settings of a cluster: it only has the settings asked for.
CniProxyPatch(cni, disableKubeProxy) ==
    (IF cni = "" THEN <<>> ELSE "cni" :> cni)
        @@ (IF disableKubeProxy THEN "proxy" :> "disabled" ELSE <<>>)

\* Patches apply in their order: the last one that sets a setting wins.
ApplyPatches(settings, patches) ==
    LET after[n \in 0..Len(patches)] == IF n = 0 THEN settings ELSE patches[n] @@ after[n - 1]
    IN  after[Len(patches)]

\* The typed settings come first, so that a patch of the caller can override them.
RenderControlPlaneConfig(host, secrets, spec) ==
    [role |-> "controlplane", secrets |-> secrets,
     image |-> InstallImage(host, Resolve(spec.extensions), spec.version),
     settings |-> ApplyPatches(Defaults,
                      <<CniProxyPatch(spec.cni, spec.disableKubeProxy)>> \o spec.patches)]

RenderWorkerConfig(host, secrets, extensions, version) ==
    [role |-> "worker", secrets |-> secrets,
     image |-> InstallImage(host, Resolve(extensions), version), settings |-> Defaults]
============================================================================
