------------------------ MODULE KubernetesVersions --------------------------
(***************************************************************************)
(* The table of Kubernetes versions (datamodel/versions.go) and the calls  *)
(* that turn what a caller asks for into a version of it.  A later release *)
(* of the package brings a table with more versions, of which fewer may be *)
(* asked for by new clusters; a caller holds on to an answer across them.  *)
(*                                                                         *)
(* A version is <<minor, patch, stage>>, in semver's order: stage 0 is an  *)
(* alpha or a beta, stage 1 the version itself.  What a caller writes is a *)
(* version with or without a leading "v".                                  *)
(***************************************************************************)
EXTENDS Naturals, FiniteSets

CONSTANTS
    Versions,        \* all that any table knows
    NotOnWindows,    \* the versions taken out of the Windows table
    WindowsOnly,     \* 1.8.12, which the Windows table offers whatever the other says
    DefaultRelease,  \* KubernetesDefaultRelease, by hasWindows
    Releases         \* bound: how often a newer package replaces the table

None == <<0, 0, 0>>

\* A minor of 0 is kept for the empty release: the table begins with 1.6.
VersionsAssumption ==
    /\ IsFiniteSet(Versions) /\ Versions \subseteq (Nat \ {0}) \X Nat \X {0, 1}
    /\ NotOnWindows \subseteq Versions /\ WindowsOnly \in Versions
    /\ DefaultRelease \in [BOOLEAN -> Nat]
    /\ Releases \in Nat

Older(v, w) ==
    \/ v[1] < w[1]
    \/ v[1] = w[1] /\ v[2] < w[2]
    \/ v[1] = w[1] /\ v[2] = w[2] /\ v[3] < w[3]

VARIABLES
    table,     \* AllKubernetesSupportedVersions: may new clusters ask for the version?
    call,      \* the call answered last
    answer,    \* its answer, None for the empty string
    held,      \* the answer a cluster was created with, None before
    released   \* releases so far

vars == <<table, call, answer, held, released>>

-----------------------------------------------------------------------------
getAllKubernetesWindowsSupportedVersionsMap ==
    [v \in ((DOMAIN table) \ NotOnWindows) \cup {WindowsOnly} |->
        IF v = WindowsOnly THEN TRUE ELSE table[v]]

TableOf(hasWindows) ==
    IF hasWindows THEN getAllKubernetesWindowsSupportedVersionsMap ELSE table

\* Slip: an update is offered no more than a new cluster.
OnlyOffered(isUpdate, hasWindows) ==
    {v \in DOMAIN TableOf(hasWindows) : TableOf(hasWindows)[v]}

GetAllSupportedKubernetesVersions(isUpdate, hasWindows) ==
    {v \in DOMAIN TableOf(hasWindows) : isUpdate \/ TableOf(hasWindows)[v]}

\* Slip: the first patch of the release is taken.
FirstPatchVersion(minor, versions) ==
    LET ofRelease == {v \in versions : v[1] = minor}
    IN  IF ofRelease = {} THEN None
        ELSE CHOOSE v \in ofRelease : \A w \in ofRelease : ~ Older(w, v)

GetLatestPatchVersion(minor, versions) ==
    LET ofRelease == {v \in versions : v[1] = minor}
    IN  IF ofRelease = {} THEN None
        ELSE CHOOSE v \in ofRelease : \A w \in ofRelease : ~ Older(v, w)

GetDefaultKubernetesVersion(hasWindows) ==
    GetLatestPatchVersion(DefaultRelease[hasWindows],
                          GetAllSupportedKubernetesVersions(FALSE, hasWindows))

\* Slip: what the table knows is taken for what it offers.
GetKnownKubernetesVersion(asked, hasWindows) ==
    IF ~ asked.v /\ asked.version \in DOMAIN TableOf(hasWindows) THEN asked.version
    ELSE GetDefaultKubernetesVersion(hasWindows)

\* The table is asked for the text as it is, which no "v" makes a key of.
GetSupportedKubernetesVersion(asked, hasWindows) ==
    IF ~ asked.v /\ asked.version \in DOMAIN TableOf(hasWindows)
            /\ TableOf(hasWindows)[asked.version]
    THEN asked.version
    ELSE GetDefaultKubernetesVersion(hasWindows)

\* Slip: a version that is not offered is replaced by the default one.
RationalizeToDefault(release, version, isUpdate, hasWindows) ==
    LET offered == GetAllSupportedKubernetesVersions(isUpdate, hasWindows)
    IN  IF release # 0 /\ version = None THEN GetLatestPatchVersion(release, offered)
        ELSE IF version \in offered THEN version ELSE GetDefaultKubernetesVersion(hasWindows)

\* The empty release is 0, the empty version None; a leading "v" makes no difference here.
RationalizeReleaseAndVersion(release, version, isUpdate, hasWindows) ==
    LET offered == GetAllSupportedKubernetesVersions(isUpdate, hasWindows)
    IN  CASE release = 0 /\ version = None -> GetDefaultKubernetesVersion(hasWindows)
          [] release # 0 /\ version = None -> GetLatestPatchVersion(release, offered)
          [] OTHER ->
                IF version \in offered /\ release \in {0, version[1]} THEN version ELSE None

\* Slip: the latest patch is given to whoever asks.
GetNewestPatchVersion(asked, isUpdate, hasWindows) ==
    RationalizeReleaseAndVersion(asked.version[1], None, isUpdate, hasWindows)

\* A version that is not offered is parsed, which a leading "v" does not survive.
GetValidPatchVersion(asked, isUpdate, hasWindows) ==
    LET same == RationalizeReleaseAndVersion(0, asked.version, isUpdate, hasWindows)
    IN  CASE same # None -> same
          [] same = None /\ asked.v -> None
          [] OTHER ->
                RationalizeReleaseAndVersion(asked.version[1], None, isUpdate, hasWindows)

-----------------------------------------------------------------------------
Texts == [version : Versions \cup {None}, v : BOOLEAN] \ {[version |-> None, v |-> TRUE]}
Empty == [version |-> None, v |-> FALSE]

NoCall == [fn |-> "none", asked |-> Empty, isUpdate |-> FALSE, hasWindows |-> FALSE]

\* Tests ask for a default version, with Windows and without.
Defaults(offers) ==
    /\ \E v \in DOMAIN offers : offers[v] /\ v[1] = DefaultRelease[FALSE]
    /\ \E v \in DOMAIN offers :
            offers[v] /\ v[1] = DefaultRelease[TRUE] /\ v \notin NotOnWindows

Init ==
    /\ \E known \in SUBSET Versions :
            table \in {offers \in [known -> BOOLEAN] : Defaults(offers)}
    /\ call = NoCall /\ answer = None /\ held = None /\ released = 0

Answer(fn, asked, isUpdate, hasWindows, version) ==
    /\ call' = [fn |-> fn, asked |-> asked, isUpdate |-> isUpdate, hasWindows |-> hasWindows]
    /\ answer' = version
    /\ UNCHANGED <<table, released>>

\* A new cluster asks for a version and keeps the answer.
Create ==
    \E asked \in Texts, hasWindows \in BOOLEAN :
        LET version == GetSupportedKubernetesVersion(asked, hasWindows)
        IN  /\ held = None /\ held' = version
            /\ Answer("supported", asked, FALSE, hasWindows, version)

\* A cluster with the same operating systems has its version validated for an update.
Update ==
    LET asked == [version |-> held, v |-> FALSE]
    IN  /\ held # None
        /\ Answer("patch", asked, TRUE, call.hasWindows,
                  GetValidPatchVersion(asked, TRUE, call.hasWindows))
        /\ UNCHANGED held

\* Anybody asks for the patch that goes with a version.
Validate ==
    \E asked \in Texts, isUpdate \in BOOLEAN, hasWindows \in BOOLEAN :
        /\ held = None
        /\ Answer("patch", asked, isUpdate, hasWindows,
                  GetValidPatchVersion(asked, isUpdate, hasWindows))
        /\ UNCHANGED held

\* A newer package: a version more, or one that new clusters get no longer.
NewPackage ==
    /\ held # None /\ released < Releases
    /\ \E v \in Versions :
            table' = IF v \in DOMAIN table THEN [table EXCEPT ![v] = FALSE]
                     ELSE [w \in (DOMAIN table) \cup {v} |-> IF w = v THEN TRUE ELSE table[w]]
    /\ Defaults(table')
    /\ released' = released + 1
    /\ call' = [NoCall EXCEPT !.hasWindows = call.hasWindows] /\ answer' = None
    /\ UNCHANGED held

Next == Create \/ Update \/ Validate \/ NewPackage

Spec == Init /\ [][Next]_vars

-----------------------------------------------------------------------------
\* Every variable keeps its type.
TypeOK ==
    /\ DOMAIN table \subseteq Versions
    /\ answer \in DOMAIN TableOf(call.hasWindows) \cup {None}
    /\ held \in Versions \cup {None}
    /\ released \in 0 .. Releases

\* A cluster keeps the version it was created with, whatever packages come in between.
UpdateKeeps == Update => answer' = held
VersionIsKept == [][UpdateKeeps]_vars

\* A new cluster gets a version that new clusters may have, and always some version.
NewIsOffered ==
    call.fn = "supported" =>
        answer \in GetAllSupportedKubernetesVersions(FALSE, call.hasWindows)

\* Whoever asks for a version of a release gets one of that release, and no version
\* only where the release has none to offer.
SameRelease ==
    call.fn = "patch" /\ call.asked.version # None /\ ~ call.asked.v =>
        LET offered == GetAllSupportedKubernetesVersions(call.isUpdate, call.hasWindows)
        IN  IF answer # None THEN answer[1] = call.asked.version[1]
            ELSE \A v \in offered : v[1] # call.asked.version[1]

\* A change of patch goes to the newest one there is.
ChangeIsToNewest ==
    call.fn = "patch" /\ call.asked.version # None
            /\ answer \notin {None, call.asked.version} =>
        \A v \in GetAllSupportedKubernetesVersions(call.isUpdate, call.hasWindows) :
            v[1] = answer[1] => ~ Older(answer, v)

\* Every answer fits what was asked and what is offered.
VersionsFit == NewIsOffered /\ SameRelease /\ ChangeIsToNewest

\* "v1.8.0" is equivalent to "1.8.0" (RationalizeReleaseAndVersion).
PrefixMakesNoDifference ==
    call.fn = "patch" =>
        answer = GetValidPatchVersion([call.asked EXCEPT !.v = FALSE],
                                      call.isUpdate, call.hasWindows)
=============================================================================
