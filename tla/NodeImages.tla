----------------------------- MODULE NodeImages -----------------------------
(***************************************************************************)
(* One call of GetNodeBootstrapping (bakerapi.go) as far as the image of   *)
(* the pool's nodes goes.  The answer is put together from tables that are *)
(* kept apart: the images of the marketplace by cloud, the images of the   *)
(* galleries, and the lists of distros that say what an image carries.     *)
(* The payload's promise IS_VHD comes from such a list, and the script     *)
(* exits on a node whose image does not keep it.                           *)
(*                                                                         *)
(* Distros go by the names of their Go constants; an image is the set of   *)
(* what its definition or SKU says it is.                                  *)
(***************************************************************************)
EXTENDS Naturals, Sequences, FiniteSets

CONSTANTS
    Clouds,    \* values of CloudSpecConfig.CloudName
    Regions,   \* the cluster's locations
    Galleries  \* what the caller's SIGConfig holds: sets of galleries and ids

FullConfig == {"AKSUbuntu", "AKSCBLMariner", "AKSWindows", "ids"}

GalleriesAssumption == \A g \in Galleries : g \subseteq FullConfig

-----------------------------------------------------------------------------
\* The galleries' images, by the definition of each distro's template.
getSigUbuntuImageConfigMap ==
    [AKSUbuntu1604 |-> {"1604"}, AKSUbuntu1804 |-> {"1804"},
     AKSUbuntu1804Gen2 |-> {"1804", "gen2"}, AKSUbuntuGPU1804 |-> {"1804", "gpu"},
     AKSUbuntuGPU1804Gen2 |-> {"1804", "gen2", "gpu"},
     AKSUbuntuContainerd1804 |-> {"1804", "containerd"},
     AKSUbuntuContainerd1804Gen2 |-> {"1804", "gen2", "containerd"},
     AKSUbuntuGPUContainerd1804 |-> {"1804", "gpu", "containerd"},
     AKSUbuntuGPUContainerd1804Gen2 |-> {"1804", "gen2", "gpu", "containerd"},
     AKSUbuntuFipsContainerd1804 |-> {"1804", "fips", "containerd"},
     AKSUbuntuFipsContainerd1804Gen2 |-> {"1804", "gen2", "fips", "containerd"},
     AKSUbuntuFipsGPUContainerd1804 |-> {"1804", "fips", "gpu", "containerd"},
     AKSUbuntuFipsGPUContainerd1804Gen2 |-> {"1804", "gen2", "fips", "gpu", "containerd"}]
getSigCBLMarinerImageConfigMap == [AKSCBLMarinerV1 |-> {"mariner", "containerd"}]

\* Slip: the image with containerd is forgotten.
getSigWindowsImageConfigMapOld == [AKSWindows2019 |-> {"windows"}]

getSigWindowsImageConfigMap ==
    [AKSWindows2019 |-> {"windows"}, AKSWindows2019Containerd |-> {"windows", "containerd"}]

SigImages ==
    {<<d, getSigUbuntuImageConfigMap[d]>> : d \in DOMAIN getSigUbuntuImageConfigMap}
    \cup {<<d, getSigCBLMarinerImageConfigMap[d]>> : d \in DOMAIN getSigCBLMarinerImageConfigMap}
    \cup {<<d, getSigWindowsImageConfigMap[d]>> : d \in DOMAIN getSigWindowsImageConfigMap}

(***************************************************************************)
(* The lists.  The distros with fips are all of containerd.                *)
(***************************************************************************)
Fips == {"AKSUbuntuFipsContainerd1804", "AKSUbuntuFipsContainerd1804Gen2",
         "AKSUbuntuFipsGPUContainerd1804", "AKSUbuntuFipsGPUContainerd1804Gen2"}
AvailableContainerdDistros == Fips \cup
    {"AKSUbuntuContainerd1804", "AKSUbuntuContainerd1804Gen2", "AKSUbuntuGPUContainerd1804",
     "AKSUbuntuGPUContainerd1804Gen2", "AKSCBLMarinerV1"}

\* Slip: the newest image with a GPU is not added.
AvailableGPUDistrosOld ==
    {"AKSUbuntuGPU1804", "AKSUbuntuGPU1804Gen2", "AKSUbuntuGPUContainerd1804",
     "AKSUbuntuGPUContainerd1804Gen2", "AKSUbuntuFipsGPUContainerd1804"}

AvailableGPUDistros ==
    {"AKSUbuntuGPU1804", "AKSUbuntuGPU1804Gen2", "AKSUbuntuGPUContainerd1804",
     "AKSUbuntuGPUContainerd1804Gen2", "AKSUbuntuFipsGPUContainerd1804",
     "AKSUbuntuFipsGPUContainerd1804Gen2"}
AvailableGen2Distros ==
    {"AKSUbuntu1804Gen2", "AKSUbuntuGPU1804Gen2", "AKSUbuntuContainerd1804Gen2",
     "AKSUbuntuGPUContainerd1804Gen2", "AKSUbuntuFipsContainerd1804Gen2",
     "AKSUbuntuFipsGPUContainerd1804Gen2"}
AvailableCBLMarinerDistros == {"AKSCBLMarinerV1"}
AvailableWindowsSIGDistros ==
    {"AKSWindows2019", "AKSWindows2019Containerd", "CustomizedWindowsOSImage"}

\* Slip: the plain image of 18.04 is listed as well.
AKSDistrosAvailableOnVHDAndPlain ==
    {"AKSUbuntu1604", "AKSUbuntu1804", "Ubuntu1804"} \cup AvailableGen2Distros
        \cup AvailableGPUDistros \cup AvailableContainerdDistros

AKSDistrosAvailableOnVHD ==
    {"AKSUbuntu1604", "AKSUbuntu1804"} \cup AvailableGen2Distros \cup AvailableGPUDistros
        \cup AvailableContainerdDistros

Distros == AKSDistrosAvailableOnVHD \cup AvailableWindowsSIGDistros
    \cup {"Ubuntu", "Ubuntu1804", "RHEL", "CoreOS", "AKS1604Deprecated", "AKS1804Deprecated",
          "AKSWindows2019PIR"}

(***************************************************************************)
(* The marketplace's images: "aks" are those prepared for AKS.  The German *)
(* cloud has plain images where the others have prepared ones.  The distro *)
(* Ubuntu1804Gen2 is AKSUbuntu1804Gen2, by the value of the constants.     *)
(***************************************************************************)
PlainImages ==
    [Ubuntu |-> {"1604"}, Ubuntu1804 |-> {"1804"}, AKSUbuntu1804Gen2 |-> {"1804", "gen2", "aks"},
     RHEL |-> {"rhel"}, AKSWindows2019PIR |-> {"windows", "aks"}]
AKSImages ==
    [AKSUbuntu1604 |-> {"1604", "aks"}, AKS1604Deprecated |-> {"1604", "aks"},
     AKSUbuntu1804 |-> {"1804", "aks"}, AKS1804Deprecated |-> {"1804", "aks"}]
PublicImages ==
    [AKSUbuntuContainerd1804 |-> {"1804", "containerd", "aks"},
     AKSUbuntuContainerd1804Gen2 |-> {"1804", "gen2", "containerd", "aks"}]

PairsOf(table) == {<<d, table[d]>> : d \in DOMAIN table}

AzureCloudToOSImageMap(cloud) ==
    CASE cloud = "AzureGermanCloud" ->
            PairsOf(PlainImages) \cup {<<d, {"1604"}>> : d \in DOMAIN AKSImages}
      [] cloud = "AzurePublicCloud" ->
            PairsOf(PlainImages) \cup PairsOf(AKSImages) \cup PairsOf(PublicImages)
      [] OTHER -> PairsOf(PlainImages) \cup PairsOf(AKSImages)
KnownClouds ==
    {"AzurePublicCloud", "AzureChinaCloud", "AzureGermanCloud", "AzureUSGovernmentCloud"}

\* A region's cloud, in the gallery configuration and in the payload.
GetCloudTargetEnv(region) ==
    CASE region \in {"chinaeast", "chinanorth", "chinaeast2", "chinanorth2"} -> "AzureChinaCloud"
      [] region \in {"germanynortheast", "germanycentral"} -> "AzureGermanCloud"
      [] region \in {"usgovvirginia", "usdodeast"} -> "AzureUSGovernmentCloud"
      [] region = "usnateast" -> "USNatCloud"
      [] region = "usseceast" -> "USSecCloud"
      [] OTHER -> "AzurePublicCloud"

\* Slip: the regions of the department of defence are taken for public ones.
GetTargetEnvironmentWithoutDod(region) ==
    IF region \in {"usdodeast", "usnateast", "usseceast"} THEN "AzurePublicCloud"
    ELSE GetCloudTargetEnv(region)

\* The copy in utils.go does not know the national clouds.
GetTargetEnvironment(region) ==
    IF region \in {"usnateast", "usseceast"} THEN "AzurePublicCloud"
    ELSE GetCloudTargetEnv(region)

-----------------------------------------------------------------------------
VARIABLES
    request,   \* what the caller asks
    at,        \* how far the call is
    payload,   \* custom data and CSE: what they promise of the image and the cloud
    sigCloud,  \* the cloud the gallery configuration is for
    images,    \* the answer's images: {} or one from the marketplace, one from a gallery
    node       \* what becomes of a node made from one of them

vars == <<request, at, payload, sigCloud, images, node>>

NoPayload == [isVHD |-> FALSE, target |-> "none"]

Init ==
    /\ request \in [cloud : Clouds, region : Regions, distro : Distros, galleries : Galleries]
    /\ at = "called" /\ payload = NoPayload
    /\ sigCloud = "none" /\ images = {} /\ node = "none"

\* First of all the templates are rendered, whatever comes of the call.
Render ==
    /\ at = "called" /\ at' = "rendered"
    /\ payload' = [isVHD |-> request.distro \in AKSDistrosAvailableOnVHD,
                   target |-> GetTargetEnvironment(request.region)]
    /\ UNCHANGED <<request, sigCloud, images, node>>

UnknownCloud ==
    /\ at = "rendered" /\ request.cloud \notin KnownClouds
    /\ at' = "error"
    /\ UNCHANGED <<request, payload, sigCloud, images, node>>

FindOSImage ==
    /\ at = "rendered" /\ request.cloud \in KnownClouds
    /\ at' = "marketplace"
    /\ images' = {p[2] : p \in {q \in AzureCloudToOSImageMap(request.cloud) :
                                    q[1] = request.distro}}
    /\ UNCHANGED <<request, payload, sigCloud, node>>

\* GetSIGAzureCloudSpecConfig wants all three galleries, whichever holds the distro.
BadSIGConfig ==
    /\ at = "marketplace" /\ request.galleries # FullConfig
    /\ at' = "error" /\ images' = {}
    /\ UNCHANGED <<request, payload, sigCloud, node>>

FindSIGImage ==
    LET sig == {p[2] : p \in {q \in SigImages : q[1] = request.distro}}
    IN  /\ at = "marketplace" /\ request.galleries = FullConfig
        /\ sigCloud' = GetCloudTargetEnv(request.region)
        /\ images' = images \cup {i \cup {"aks"} : i \in sig}
        /\ at' = IF images' = {} THEN "error" ELSE "answered"
        /\ UNCHANGED <<request, payload, node>>

\* The caller picks an image of the answer; cse_main.sh looks for vhd-install.complete,
\* which the prepared Linux images have.
Boot ==
    /\ at = "answered" /\ at' = "booted"
    /\ \E i \in images :
        node' = IF "windows" \in i THEN "windows"
                ELSE IF "aks" \in i THEN "golden"
                ELSE IF payload.isVHD THEN "exit124" ELSE "installed"
    /\ UNCHANGED <<request, payload, sigCloud, images>>

Next == Render \/ UnknownCloud \/ FindOSImage \/ BadSIGConfig \/ FindSIGImage \/ Boot

Spec == Init /\ [][Next]_vars

-----------------------------------------------------------------------------
\* Every variable keeps its type.
TypeOK ==
    /\ at \in {"called", "rendered", "marketplace", "answered", "booted", "error"}
    /\ Cardinality(images) <= 2
    /\ payload.isVHD => request.distro \notin AvailableWindowsSIGDistros
    /\ sigCloud \in {"none", "USNatCloud", "USSecCloud"} \cup KnownClouds

\* The promise of a prepared image is kept by whatever image the answer names, the
\* German cloud's plain ones apart.
VHDPromiseKept == request.cloud # "AzureGermanCloud" => node # "exit124"

\* The same in every cloud: a distro said to use a VHD gets one (types.go).
VHDPromiseKeptEverywhere == node # "exit124"

\* The lists and the galleries agree on what a Linux distro's image is.
ListsAgree ==
    at = "answered" =>
        \A i \in images :
            /\ "gpu" \in i <=> request.distro \in AvailableGPUDistros
            /\ "gen2" \in i <=> request.distro \in AvailableGen2Distros
            /\ "mariner" \in i <=> request.distro \in AvailableCBLMarinerDistros
            /\ "windows" \notin i =>
                   ("containerd" \in i <=> request.distro \in AvailableContainerdDistros)

\* sig_config.go: IsContainerdSKU returns true if distro type is containerd-enabled.
ContainerdIsKnown ==
    at = "answered" =>
        \A i \in images :
            "containerd" \in i <=> request.distro \in AvailableContainerdDistros

\* Every distro of the VHD list and every Windows distro of the galleries is served, and
\* nothing but the customised image, unknown in every table, fails for want of an image.
KnownDistroIsServed ==
    at = "error" /\ request.cloud \in KnownClouds /\ request.galleries = FullConfig
        => request.distro \in {"CustomizedWindowsOSImage", "CoreOS"}

\* The node is told the cloud its image's gallery is configured for.  (The national
\* clouds, which only one of the two functions knows, have no images.)
CloudsAgree ==
    at = "answered" /\ sigCloud \notin {"USNatCloud", "USSecCloud"} => payload.target = sigCloud

\* The tables that make up an answer agree with the lists and with one another.
TablesAgree == VHDPromiseKept /\ ListsAgree /\ KnownDistroIsServed /\ CloudsAgree

\* types.go calls the deprecated names equivalent to those that replaced them.
DeprecatedIsEquivalent ==
    (/\ request.distro \in {"AKS1604Deprecated", "AKS1804Deprecated"}
     /\ \E i \in images : "aks" \in i) => payload.isVHD
=============================================================================
