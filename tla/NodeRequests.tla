---------------------------- MODULE NodeRequests ----------------------------
(***************************************************************************)
(* The bootstrapping API, seen from five sides: the custom cloud's name    *)
(* under overlapping calls, the kubelet's flags, the templates of a pool,  *)
(* the image of its nodes, and the versions a cluster may ask for.  The    *)
(* sides share no state, so a behaviour looks at one of them, chosen at    *)
(* first.  CustomCloud is extended; the variables of the others are put    *)
(* into the slots s1 to s10.                                               *)
(***************************************************************************)
EXTENDS CustomCloud

CONSTANTS
    GateLists,      \* the feature gates a caller names
    FlagSets,       \* the flags a caller's map sets
    CustomSets,     \* the flags customKubeletConfig sets
    Uses,           \* bound: how often a configuration is used
    PoolLists,      \* the agent pools of a cluster
    Clouds, Regions, Galleries,                   \* see NodeImages
    Versions, NotOnWindows, WindowsOnly, DefaultRelease, Releases   \* see KubernetesVersions

VARIABLES
    side,                                   \* the one that is looked at
    s1, s2, s3, s4, s5, s6, s7, s8, s9, s10   \* its variables

slots == <<s1, s2, s3, s4, s5, s6, s7, s8, s9, s10>>
allVars == <<side, vars, slots>>

Sides == {"cloud", "flags", "templates", "images", "versions"}

Flags == INSTANCE KubeletFlags WITH
    MaxCalls <- Uses,
    os <- s1, fileEnabled <- s2, customKc <- s3, token <- s4, asked <- s5, kubeletConfig <- s6,
    isNil <- s7, gates <- s8, payload <- s9, calls <- s10

Templates == INSTANCE PoolTemplates WITH
    cluster <- s1, pools <- s2, at <- s3, pool <- s4, payload <- s5, node <- s6

Images == INSTANCE NodeImages WITH
    request <- s1, at <- s2, payload <- s3, sigCloud <- s4, images <- s5, node <- s6

Supported == INSTANCE KubernetesVersions WITH
    table <- s1, call <- s2, answer <- s3, held <- s4, released <- s5

ASSUME FlagsAssumption == Flags!BoundsAssumption /\ Flags!GatesAssumption /\ Flags!SetsAssumption
ASSUME TemplatesAssumption == Templates!PoolsAssumption
ASSUME ImagesAssumption == Images!GalleriesAssumption
ASSUME SupportedAssumption == Supported!VersionsAssumption

-----------------------------------------------------------------------------
\* The slots a side leaves empty.
Empty == 0
Empty7 == s7 = Empty /\ s8 = Empty /\ s9 = Empty /\ s10 = Empty
Empty6 == s6 = Empty /\ Empty7
EmptySlots == s1 = Empty /\ s2 = Empty /\ s3 = Empty /\ s4 = Empty /\ s5 = Empty /\ Empty6

NoCloudCall ==
    /\ cloud = "akscustom" /\ name = String(cloud) /\ calls = 0
    /\ pc = [p \in Pools |-> 0] /\ oldName = [p \in Pools |-> String(cloud)]
    /\ seen = [p \in Pools |-> {}] /\ json = [p \in Pools |-> {}]
    /\ lent = {} /\ clashed = FALSE

SideInit(s) ==
    \/ s = "flags" /\ Flags!Init
    \/ s = "templates" /\ Templates!Init /\ Empty7
    \/ s = "images" /\ Images!Init /\ Empty7
    \/ s = "versions" /\ Supported!Init /\ Empty6

RequestsInit ==
    \/ side = "cloud" /\ Init /\ EmptySlots
    \/ NoCloudCall /\ side \in Sides \ {"cloud"} /\ SideInit(side)

SideNext ==
    \/ side = "flags" /\ Flags!Next
    \/ side = "templates" /\ Templates!Next /\ UNCHANGED <<s7, s8, s9, s10>>
    \/ side = "images" /\ Images!Next /\ UNCHANGED <<s7, s8, s9, s10>>
    \/ side = "versions" /\ Supported!Next /\ UNCHANGED <<s6, s7, s8, s9, s10>>

RequestsNext ==
    \/ side = "cloud" /\ Next /\ UNCHANGED <<side, slots>>
    \/ SideNext /\ UNCHANGED <<side, vars>>

RequestsSpec == RequestsInit /\ [][RequestsNext]_allVars

-----------------------------------------------------------------------------
\* Every variable of every side keeps its type.
RequestsTypeOK ==
    /\ side \in Sides /\ TypeOK
    /\ side = "flags" => Flags!TypeOK
    /\ side = "templates" => Templates!TypeOK
    /\ side = "images" => Images!TypeOK
    /\ side = "versions" => Supported!TypeOK

\* The properties below are those of the sides, with the comments they have there
\* (SeesItsOwnCloud and NameIsTheJsonsOnly are CustomCloud's own).
\* What the caller asks of a flag is in force, on the line or in the file, and dynamic
\* configuration is off (utils.go, baker.go).
FlagsInForce == side = "flags" => Flags!FlagsInForce
\* Switches, parameters and variables agree on a pool's files, runtime, directories, image
\* store and primary set (baker.go, params.go, variables.go, cse_install.sh).
TemplatesAgree == side = "templates" => Templates!TemplatesAgree
\* A payload that promises a prepared image gets one, lists and galleries agree, every known
\* distro is served, from its own cloud (bakerapi.go, types.go, sig_config.go, utils.go).
TablesAgree == side = "images" => Images!TablesAgree
\* A new cluster gets a version that is offered, a version asked for one of its release, a
\* change of patch the newest (versions.go).
VersionsFit == side = "versions" => Supported!VersionsFit

\* The API answers alike when it is asked again: the payload of a configuration that is
\* used again, the version of a cluster that is updated (baker.go, utils.go, versions.go).
SameAnswerAgain ==
    [][/\ side = "flags" => Flags!SamePayload
       /\ side = "versions" => Supported!UpdateKeeps]_allVars
=============================================================================
