------------------------ MODULE NodeRequests_proofs ------------------------
(***************************************************************************)
(* Theorems about the bootstrapping API as NodeRequests puts it together,  *)
(* for every table of versions, all pools, flags and galleries.  Each side *)
(* has an invariant of its own over the slots its variables are put into;  *)
(* the sections name the slots.                                            *)
(***************************************************************************)
EXTENDS NodeRequests, CustomCloud_proofs, FiniteSetTheorems, SequenceTheorems,
        WellFoundedInduction

-----------------------------------------------------------------------------
(***************************************************************************)
(* A step of the whole is one of its side.                                 *)
(***************************************************************************)
LEMMA InitOfSide ==
    ASSUME RequestsInit
    PROVE  /\ side \in Sides
           /\ side = "flags" => Flags!Init
           /\ side = "templates" => Templates!Init
           /\ side = "images" => Images!Init
           /\ side = "versions" => Supported!Init
  BY DEF RequestsInit, SideInit, Sides

LEMMA StepOfSide ==
    ASSUME [RequestsNext]_allVars
    PROVE  /\ side' = side
           /\ side = "flags" => Flags!Next \/ UNCHANGED Flags!vars
           /\ side = "templates" => Templates!Next \/ UNCHANGED Templates!vars
           /\ side = "images" => Images!Next \/ UNCHANGED Images!vars
           /\ side = "versions" => Supported!Next \/ UNCHANGED Supported!vars
<1>1. CASE side = "cloud" /\ RequestsNext
  BY <1>1 DEF RequestsNext, SideNext
<1>2. CASE side # "cloud" /\ RequestsNext
  <2>1. SideNext /\ UNCHANGED <<side, vars>>
    BY <1>2 DEF RequestsNext
  <2> QED
    BY <2>1 DEF SideNext
<1>3. CASE UNCHANGED allVars
  BY <1>3 DEF allVars, slots, Flags!vars, Flags!configuration, Templates!vars, Images!vars,
              Supported!vars
<1> QED
  BY <1>1, <1>2, <1>3

-----------------------------------------------------------------------------
(***************************************************************************)
(* CustomCloud.  The sides that leave the cloud alone are behaviours of it *)
(* in which nobody calls.                                                  *)
(***************************************************************************)
LEMMA InitOfCloud == ASSUME RequestsInit PROVE Init
<1>1. CASE NoCloudCall
  <2>1. "akscustom" \in CustomNames
    BY DEF CustomNames
  <2> QED
    BY <1>1, <2>1, Zenon DEF NoCloudCall, Init
<1> QED
  BY <1>1 DEF RequestsInit

LEMMA StepOfCloud == ASSUME [RequestsNext]_allVars PROVE [Next]_vars
  BY DEF RequestsNext, allVars

-----------------------------------------------------------------------------
(***************************************************************************)
(* KubernetesVersions.  A finite set of versions that is not empty has a   *)
(* latest: a smallest set without one would have one without some element. *)
(* The slots: s1 table, s2 call, s3 answer, s4 held, s5 released.          *)
(***************************************************************************)
AVersion == (Nat \ {0}) \X Nat \X {0, 1}

HasLatest(S) == \E v \in S : \A w \in S : ~ Supported!Older(v, w)

LEMMA OlderIsAnOrder ==
    ASSUME NEW u \in AVersion, NEW v \in AVersion, NEW w \in AVersion
    PROVE  /\ ~ Supported!Older(u, u)
           /\ Supported!Older(u, v) /\ Supported!Older(v, w) => Supported!Older(u, w)
  BY DEF AVersion, Supported!Older

LEMMA LatestWithOneMore ==
    ASSUME NEW S \in SUBSET AVersion, NEW x \in S, S \ {x} = {} \/ HasLatest(S \ {x})
    PROVE  HasLatest(S)
<1>1. CASE S \ {x} = {}
  <2>1. S = {x} /\ ~ Supported!Older(x, x)
    BY <1>1, OlderIsAnOrder
  <2> QED
    BY <2>1 DEF HasLatest
<1>2. CASE HasLatest(S \ {x})
  <2>1. PICK v \in S \ {x} : \A w \in S \ {x} : ~ Supported!Older(v, w)
    BY <1>2 DEF HasLatest
  <2>2. CASE Supported!Older(v, x)
    <3>1. \A w \in S \ {x} : ~ Supported!Older(x, w)
      BY <2>1, <2>2, OlderIsAnOrder
    <3>2. ~ Supported!Older(x, x)
      BY OlderIsAnOrder
    <3> QED
      BY <3>1, <3>2 DEF HasLatest
  <2>3. CASE ~ Supported!Older(v, x)
    BY <2>1, <2>3 DEF HasLatest
  <2> QED
    BY <2>2, <2>3
<1> QED
  BY <1>1, <1>2

LEMMA LatestExists ==
    ASSUME NEW S \in SUBSET AVersion, IsFiniteSet(S), S # {}
    PROVE  HasLatest(S)
<1> DEFINE Without == {T \in SUBSET S : T # {} /\ ~ HasLatest(T)}
           Sizes == {Cardinality(T) : T \in Without}
           R == {p \in Nat \X Nat : p[1] < p[2]}
<1> SUFFICES ASSUME Without # {} PROVE FALSE
  OBVIOUS
<1>1. \A T \in Without : IsFiniteSet(T) /\ Cardinality(T) \in Nat
  BY FS_Subset, FS_CardinalityType
<1>2. PICK n \in Sizes : \A m \in Sizes : ~ (<<m, n>> \in R)
  <2>1. Sizes \subseteq Nat /\ Sizes # {}
    BY <1>1
  <2>2. IsWellFoundedOn(R, Nat)
    BY NatLessThanWellFounded DEF OpToRel
  <2> HIDE DEF Sizes, R
  <2> QED
    BY <2>1, <2>2, WFMin
<1>3. PICK T \in Without : Cardinality(T) = n
  BY <1>2
<1>4. PICK x \in T : TRUE
  BY <1>3
<1>5. Cardinality(T \ {x}) \in Nat /\ Cardinality(T \ {x}) = Cardinality(T) - 1
  BY <1>1, <1>3, <1>4, FS_RemoveElement, FS_CardinalityType
<1>6. T \ {x} \notin Without
  <2>1. SUFFICES ASSUME T \ {x} \in Without PROVE FALSE
    OBVIOUS
  <2>2. Cardinality(T \ {x}) \in Sizes
    BY <2>1
  <2>3. <<Cardinality(T \ {x}), n>> \in R
    BY <1>1, <1>3, <1>5
  <2> QED
    BY <1>2, <2>2, <2>3
<1> QED
  BY <1>3, <1>4, <1>6, LatestWithOneMore

LEMMA LatestPatch ==
    ASSUME NEW minor, NEW S \in SUBSET AVersion, IsFiniteSet(S)
    PROVE  LET latest == Supported!GetLatestPatchVersion(minor, S)
           IN  IF \E v \in S : v[1] = minor
               THEN /\ latest \in S /\ latest[1] = minor
                    /\ \A v \in S : v[1] = minor => ~ Supported!Older(latest, v)
               ELSE latest = Supported!None
<1> DEFINE ofRelease == {v \in S : v[1] = minor}
<1>1. ofRelease \in SUBSET AVersion /\ IsFiniteSet(ofRelease)
  BY FS_Subset
<1>2. CASE ofRelease # {}
  <2>1. \E v \in ofRelease : \A w \in ofRelease : ~ Supported!Older(v, w)
    BY <1>1, <1>2, LatestExists DEF HasLatest
  <2> QED
    BY <1>2, <2>1 DEF Supported!GetLatestPatchVersion
<1>3. CASE ofRelease = {}
  BY <1>3 DEF Supported!GetLatestPatchVersion
<1> QED
  BY <1>2, <1>3

\* What NewPackage leaves of the table, and what every call reads.
TableIsWhole ==
    /\ DOMAIN s1 \subseteq Versions /\ s1 \in [DOMAIN s1 -> BOOLEAN]
    /\ Supported!Defaults(s1)

ACall == [fn : {"none", "supported", "patch"}, asked : Supported!Texts,
          isUpdate : BOOLEAN, hasWindows : BOOLEAN]

VersionsInv ==
    /\ TableIsWhole
    /\ s2 \in ACall
    /\ s3 \in DOMAIN Supported!TableOf(s2.hasWindows) \cup {Supported!None}
    /\ s4 \in DOMAIN Supported!TableOf(s2.hasWindows) \cup {Supported!None}
    /\ s5 \in 0 .. Releases
    /\ Supported!VersionsFit

LEMMA NoneIsNoVersion == Versions \subseteq AVersion /\ Supported!None \notin Versions
  BY SupportedAssumption DEF Supported!VersionsAssumption, AVersion, Supported!None

LEMMA VersionsAreFinite == IsFiniteSet(Versions)
  BY SupportedAssumption DEF Supported!VersionsAssumption, Supported!IsFiniteSet, IsFiniteSet

LEMMA TableOfVersions ==
    ASSUME TableIsWhole, NEW hasWindows \in BOOLEAN
    PROVE  /\ DOMAIN Supported!TableOf(hasWindows) \subseteq Versions
           /\ \A v \in DOMAIN Supported!TableOf(hasWindows) :
                  Supported!TableOf(hasWindows)[v] \in BOOLEAN
<1>1. WindowsOnly \in Versions
  BY SupportedAssumption DEF Supported!VersionsAssumption
<1>2. CASE hasWindows
  BY <1>1, <1>2 DEF TableIsWhole, Supported!TableOf,
                    Supported!getAllKubernetesWindowsSupportedVersionsMap
<1>3. CASE ~ hasWindows
  BY <1>3 DEF TableIsWhole, Supported!TableOf
<1> QED
  BY <1>2, <1>3

LEMMA OffersAreFinite ==
    ASSUME TableIsWhole, NEW isUpdate \in BOOLEAN, NEW hasWindows \in BOOLEAN
    PROVE  LET offered == Supported!GetAllSupportedKubernetesVersions(isUpdate, hasWindows)
           IN  /\ offered \subseteq DOMAIN Supported!TableOf(hasWindows)
               /\ offered \in SUBSET AVersion /\ IsFiniteSet(offered)
<1> DEFINE offered == Supported!GetAllSupportedKubernetesVersions(isUpdate, hasWindows)
<1>1. offered \subseteq DOMAIN Supported!TableOf(hasWindows)
  BY DEF Supported!GetAllSupportedKubernetesVersions
<1>2. offered \in SUBSET Versions
  BY <1>1, TableOfVersions
<1>3. IsFiniteSet(offered)
  BY <1>2, VersionsAreFinite, FS_Subset
<1> QED
  BY <1>1, <1>2, <1>3, NoneIsNoVersion

\* There is always a default version, on Windows too, and it is offered.
LEMMA DefaultIsOffered ==
    ASSUME TableIsWhole, NEW hasWindows \in BOOLEAN
    PROVE  Supported!GetDefaultKubernetesVersion(hasWindows)
               \in Supported!GetAllSupportedKubernetesVersions(FALSE, hasWindows)
<1> DEFINE offered == Supported!GetAllSupportedKubernetesVersions(FALSE, hasWindows)
<1>1. \E v \in offered : v[1] = DefaultRelease[hasWindows]
  <2>1. CASE hasWindows
    <3>1. PICK v \in DOMAIN s1 : s1[v] /\ v[1] = DefaultRelease[TRUE] /\ v \notin NotOnWindows
      BY Zenon DEF TableIsWhole, Supported!Defaults
    <3>2. v \in DOMAIN Supported!TableOf(hasWindows) /\ Supported!TableOf(hasWindows)[v]
      BY <2>1, <3>1 DEF Supported!TableOf, Supported!getAllKubernetesWindowsSupportedVersionsMap
    <3> QED
      BY <2>1, <3>1, <3>2 DEF Supported!GetAllSupportedKubernetesVersions
  <2>2. CASE ~ hasWindows
    <3>1. PICK v \in DOMAIN s1 : s1[v] /\ v[1] = DefaultRelease[FALSE]
      BY Zenon DEF TableIsWhole, Supported!Defaults
    <3> QED
      BY <2>2, <3>1 DEF Supported!GetAllSupportedKubernetesVersions, Supported!TableOf
  <2> QED
    BY <2>1, <2>2
<1>2. offered \in SUBSET AVersion /\ IsFiniteSet(offered)
  BY OffersAreFinite
<1> QED
  BY <1>1, <1>2, LatestPatch DEF Supported!GetDefaultKubernetesVersion

LEMMA NewClusterIsServed ==
    ASSUME TableIsWhole, NEW asked, NEW hasWindows \in BOOLEAN
    PROVE  Supported!GetSupportedKubernetesVersion(asked, hasWindows)
               \in Supported!GetAllSupportedKubernetesVersions(FALSE, hasWindows)
<1>1. CASE /\ ~ asked.v /\ asked.version \in DOMAIN Supported!TableOf(hasWindows)
           /\ Supported!TableOf(hasWindows)[asked.version]
  BY <1>1 DEF Supported!GetSupportedKubernetesVersion,
              Supported!GetAllSupportedKubernetesVersions
<1>2. CASE ~ (/\ ~ asked.v /\ asked.version \in DOMAIN Supported!TableOf(hasWindows)
              /\ Supported!TableOf(hasWindows)[asked.version])
  BY <1>2, DefaultIsOffered DEF Supported!GetSupportedKubernetesVersion
<1> QED
  BY <1>1, <1>2

LEMMA PatchFits ==
    ASSUME TableIsWhole, NEW asked \in Supported!Texts,
           NEW isUpdate \in BOOLEAN, NEW hasWindows \in BOOLEAN
    PROVE  LET offered == Supported!GetAllSupportedKubernetesVersions(isUpdate, hasWindows)
               version == Supported!GetValidPatchVersion(asked, isUpdate, hasWindows)
           IN  /\ version \in offered \cup {Supported!None}
               /\ asked.version # Supported!None /\ ~ asked.v =>
                      IF version # Supported!None THEN version[1] = asked.version[1]
                      ELSE \A v \in offered : v[1] # asked.version[1]
               /\ asked.version # Supported!None
                      /\ version \notin {Supported!None, asked.version} =>
                      \A v \in offered : v[1] = version[1] => ~ Supported!Older(version, v)
               /\ asked.version \in offered => version = asked.version
<1> DEFINE offered == Supported!GetAllSupportedKubernetesVersions(isUpdate, hasWindows)
           latest == Supported!GetLatestPatchVersion(asked.version[1], offered)
<1>1. offered \in SUBSET AVersion /\ IsFiniteSet(offered) /\ Supported!None \notin offered
  BY OffersAreFinite, NoneIsNoVersion, TableOfVersions
<1>2. CASE asked.version = Supported!None
  <2>1. Supported!GetDefaultKubernetesVersion(hasWindows) \in offered
    BY DefaultIsOffered DEF Supported!GetAllSupportedKubernetesVersions
  <2>2. Supported!GetValidPatchVersion(asked, isUpdate, hasWindows)
            = Supported!GetDefaultKubernetesVersion(hasWindows)
    BY <1>1, <1>2, <2>1
       DEF Supported!GetValidPatchVersion, Supported!RationalizeReleaseAndVersion
  <2> QED
    BY <1>1, <1>2, <2>1, <2>2
<1>3. CASE asked.version # Supported!None
  <2>1. asked.version \in AVersion /\ asked.version[1] # 0
    BY <1>3, NoneIsNoVersion DEF Supported!Texts, AVersion
  <2>2. Supported!RationalizeReleaseAndVersion(0, asked.version, isUpdate, hasWindows)
            = IF asked.version \in offered THEN asked.version ELSE Supported!None
    BY <1>3 DEF Supported!RationalizeReleaseAndVersion
  <2>3. Supported!RationalizeReleaseAndVersion(asked.version[1], Supported!None, isUpdate,
                                               hasWindows) = latest
    BY <2>1 DEF Supported!RationalizeReleaseAndVersion
  <2>4. CASE asked.version \in offered
    <3>1. Supported!GetValidPatchVersion(asked, isUpdate, hasWindows) = asked.version
      BY <1>3, <2>2, <2>4 DEF Supported!GetValidPatchVersion
    <3> QED
      BY <1>3, <2>4, <3>1
  <2>5. CASE asked.version \notin offered /\ asked.v
    <3>1. Supported!GetValidPatchVersion(asked, isUpdate, hasWindows) = Supported!None
      BY <2>2, <2>5 DEF Supported!GetValidPatchVersion
    <3> QED
      BY <2>5, <3>1
  <2>6. CASE asked.version \notin offered /\ ~ asked.v
    <3>1. Supported!GetValidPatchVersion(asked, isUpdate, hasWindows) = latest
      BY <2>2, <2>3, <2>6 DEF Supported!GetValidPatchVersion
    <3> HIDE DEF offered, latest
    <3>2. IF \E v \in offered : v[1] = asked.version[1]
          THEN /\ latest \in offered /\ latest[1] = asked.version[1]
               /\ \A v \in offered : v[1] = asked.version[1] => ~ Supported!Older(latest, v)
          ELSE latest = Supported!None
      BY <1>1, LatestPatch DEF latest
    <3> QED
      BY <1>1, <2>6, <3>1, <3>2 DEF offered
  <2> QED
    BY <2>4, <2>5, <2>6
<1> QED
  BY <1>2, <1>3

\* VersionsFit for an answer that is about to be given.
Fits(version, fn, asked, isUpdate, hasWindows) ==
    LET offered == Supported!GetAllSupportedKubernetesVersions(isUpdate, hasWindows)
    IN  /\ fn = "supported" =>
               version \in Supported!GetAllSupportedKubernetesVersions(FALSE, hasWindows)
        /\ fn = "patch" /\ asked.version # Supported!None /\ ~ asked.v =>
               IF version # Supported!None THEN version[1] = asked.version[1]
               ELSE \A v \in offered : v[1] # asked.version[1]
        /\ fn = "patch" /\ asked.version # Supported!None
               /\ version \notin {Supported!None, asked.version} =>
               \A v \in offered : v[1] = version[1] => ~ Supported!Older(version, v)

LEMMA AnswerKeeps ==
    ASSUME VersionsInv,
           NEW fn \in {"supported", "patch"}, NEW asked \in Supported!Texts,
           NEW isUpdate \in BOOLEAN, NEW hasWindows \in BOOLEAN, NEW version,
           Supported!Answer(fn, asked, isUpdate, hasWindows, version),
           version \in DOMAIN Supported!TableOf(hasWindows) \cup {Supported!None},
           s4' \in DOMAIN Supported!TableOf(hasWindows) \cup {Supported!None},
           Fits(version, fn, asked, isUpdate, hasWindows)
    PROVE  VersionsInv'
<1>1. /\ s2' = [fn |-> fn, asked |-> asked, isUpdate |-> isUpdate,
                hasWindows |-> hasWindows]
      /\ s1' = s1 /\ s3' = version /\ s5' = s5
  BY DEF Supported!Answer
<1>2. s2' \in ACall /\ s2'.fn = fn /\ s2'.asked = asked /\ s2'.isUpdate = isUpdate
      /\ s2'.hasWindows = hasWindows
  BY <1>1 DEF ACall
<1>3. TableIsWhole'
  BY <1>1 DEF VersionsInv, TableIsWhole, Supported!Defaults
<1>4. Supported!TableOf(s2.hasWindows)' = Supported!TableOf(hasWindows)
  BY <1>1, <1>2
     DEF Supported!TableOf, Supported!getAllKubernetesWindowsSupportedVersionsMap
<1>5. Fits(s3, s2.fn, s2.asked, s2.isUpdate, s2.hasWindows)'
  <2>1. \A b, c \in BOOLEAN :
            Supported!GetAllSupportedKubernetesVersions(b, c)'
                = Supported!GetAllSupportedKubernetesVersions(b, c)
    BY <1>1 DEF Supported!GetAllSupportedKubernetesVersions, Supported!TableOf,
                Supported!getAllKubernetesWindowsSupportedVersionsMap
  <2> QED
    BY <1>1, <1>2, <2>1 DEF Fits
<1>6. Supported!VersionsFit'
  BY <1>5 DEF Fits, Supported!VersionsFit, Supported!NewIsOffered, Supported!SameRelease,
              Supported!ChangeIsToNewest
<1> QED
  BY <1>1, <1>2, <1>3, <1>4, <1>6 DEF VersionsInv

LEMMA VersionsInit == ASSUME Supported!Init PROVE VersionsInv
<1>1. TableIsWhole
  BY DEF Supported!Init, TableIsWhole
<1>2. s2 \in ACall /\ s2.fn = "none" /\ s3 = Supported!None /\ s4 = Supported!None /\ s5 = 0
  BY DEF Supported!Init, Supported!NoCall, Supported!Empty, Supported!Texts, ACall
<1>3. Supported!VersionsFit
  BY <1>2 DEF Supported!VersionsFit, Supported!NewIsOffered, Supported!SameRelease,
              Supported!ChangeIsToNewest
<1>4. Releases \in Nat
  BY SupportedAssumption DEF Supported!VersionsAssumption
<1> QED
  BY <1>1, <1>2, <1>3, <1>4 DEF VersionsInv

\* The answer to an update: what is held is known to the table.
LEMMA HeldIsValid ==
    ASSUME VersionsInv, s4 # Supported!None
    PROVE  Supported!GetValidPatchVersion([version |-> s4, v |-> FALSE], TRUE, s2.hasWindows)
               = s4
<1>1. s4 \in DOMAIN Supported!TableOf(s2.hasWindows) /\ s2.hasWindows \in BOOLEAN
  BY DEF VersionsInv, ACall
<1>2. s4 \in Supported!GetAllSupportedKubernetesVersions(TRUE, s2.hasWindows)
  BY <1>1 DEF Supported!GetAllSupportedKubernetesVersions
<1>3. [version |-> s4, v |-> FALSE] \in Supported!Texts
  BY <1>1, TableOfVersions DEF VersionsInv, Supported!Texts
<1> QED
  BY <1>1, <1>2, <1>3, PatchFits DEF VersionsInv

LEMMA CreateKeeps == ASSUME VersionsInv, Supported!Create PROVE VersionsInv'
<1>1. PICK asked \in Supported!Texts, hasWindows \in BOOLEAN :
        LET version == Supported!GetSupportedKubernetesVersion(asked, hasWindows)
        IN  /\ s4' = version
            /\ Supported!Answer("supported", asked, FALSE, hasWindows, version)
  BY DEF Supported!Create
<1> DEFINE version == Supported!GetSupportedKubernetesVersion(asked, hasWindows)
<1>2. /\ version \in Supported!GetAllSupportedKubernetesVersions(FALSE, hasWindows)
      /\ version \in DOMAIN Supported!TableOf(hasWindows)
  BY NewClusterIsServed, OffersAreFinite DEF VersionsInv
<1>3. Fits(version, "supported", asked, FALSE, hasWindows)
  BY <1>2 DEF Fits
<1> QED
  BY <1>1, <1>2, <1>3, AnswerKeeps

LEMMA PatchKeeps ==
    ASSUME VersionsInv, NEW asked \in Supported!Texts,
           NEW isUpdate \in BOOLEAN, NEW hasWindows \in BOOLEAN, UNCHANGED s4,
           s4 # Supported!None => hasWindows = s2.hasWindows,
           Supported!Answer("patch", asked, isUpdate, hasWindows,
               Supported!GetValidPatchVersion(asked, isUpdate, hasWindows))
    PROVE  VersionsInv'
<1> DEFINE version == Supported!GetValidPatchVersion(asked, isUpdate, hasWindows)
<1>1. /\ Fits(version, "patch", asked, isUpdate, hasWindows)
      /\ version \in Supported!GetAllSupportedKubernetesVersions(isUpdate, hasWindows)
                        \cup {Supported!None}
  BY PatchFits DEF VersionsInv, Fits
<1>2. version \in DOMAIN Supported!TableOf(hasWindows) \cup {Supported!None}
  BY <1>1, OffersAreFinite DEF VersionsInv
<1>3. s4' \in DOMAIN Supported!TableOf(hasWindows) \cup {Supported!None}
  BY DEF VersionsInv
<1> HIDE DEF version
<1> QED
  BY <1>1, <1>2, <1>3, AnswerKeeps DEF version

\* A newer table knows all that the older one knew.
LEMMA NewPackageKeeps == ASSUME VersionsInv, Supported!NewPackage PROVE VersionsInv'
<1>1. PICK v \in Versions :
        s1' = IF v \in DOMAIN s1 THEN [s1 EXCEPT ![v] = FALSE]
              ELSE [w \in (DOMAIN s1) \cup {v} |-> IF w = v THEN TRUE ELSE s1[w]]
  BY DEF Supported!NewPackage
<1>2. /\ Supported!Defaults(s1)' /\ s5 < Releases /\ s5' = s5 + 1
      /\ s2' = [Supported!NoCall EXCEPT !.hasWindows = s2.hasWindows]
      /\ s3' = Supported!None /\ s4' = s4
  BY DEF Supported!NewPackage, Supported!Defaults
<1>3. DOMAIN s1 \subseteq DOMAIN s1' /\ DOMAIN s1' \subseteq Versions
      /\ s1' \in [DOMAIN s1' -> BOOLEAN]
  BY <1>1 DEF VersionsInv, TableIsWhole
<1>4. s2' \in ACall /\ s2'.fn = "none" /\ s2'.hasWindows = s2.hasWindows
  BY <1>2 DEF VersionsInv, ACall, Supported!NoCall, Supported!Empty, Supported!Texts
<1>5. DOMAIN Supported!TableOf(s2.hasWindows)
          \subseteq DOMAIN Supported!TableOf(s2.hasWindows)'
  BY <1>3, <1>4
     DEF Supported!TableOf, Supported!getAllKubernetesWindowsSupportedVersionsMap
<1>6. Supported!VersionsFit'
  BY <1>4 DEF Supported!VersionsFit, Supported!NewIsOffered, Supported!SameRelease,
              Supported!ChangeIsToNewest
<1>7. Releases \in Nat
  BY SupportedAssumption DEF Supported!VersionsAssumption
<1>8. TableIsWhole'
  BY <1>2, <1>3 DEF TableIsWhole
<1> QED
  BY <1>2, <1>4, <1>5, <1>6, <1>7, <1>8 DEF VersionsInv

LEMMA VersionsStep ==
    ASSUME VersionsInv, Supported!Next \/ UNCHANGED Supported!vars
    PROVE  VersionsInv'
<1>1. CASE Supported!Create
  BY <1>1, CreateKeeps
<1>2. CASE Supported!Update
  <2>1. [version |-> s4, v |-> FALSE] \in Supported!Texts /\ s2.hasWindows \in BOOLEAN
    BY <1>2, TableOfVersions
       DEF VersionsInv, ACall, Supported!Update, Supported!Texts
  <2> QED
    BY <1>2, <2>1, PatchKeeps DEF Supported!Update
<1>3. CASE Supported!Validate
  BY <1>3, PatchKeeps DEF Supported!Validate
<1>4. CASE Supported!NewPackage
  BY <1>4, NewPackageKeeps
<1>5. CASE UNCHANGED Supported!vars
  BY <1>5 DEF Supported!vars, VersionsInv, TableIsWhole, Supported!Defaults,
      Supported!TableOf, Supported!getAllKubernetesWindowsSupportedVersionsMap,
      Supported!VersionsFit, Supported!NewIsOffered, Supported!SameRelease,
      Supported!ChangeIsToNewest, Supported!GetAllSupportedKubernetesVersions
<1> QED
  BY <1>1, <1>2, <1>3, <1>4, <1>5 DEF Supported!Next

\* A cluster that is updated keeps the version it has.
LEMMA UpdateKeepsVersion == ASSUME VersionsInv PROVE Supported!UpdateKeeps
<1> SUFFICES ASSUME Supported!Update PROVE s3' = s4
  BY DEF Supported!UpdateKeeps
<1> QED
  BY HeldIsValid DEF Supported!Update, Supported!Answer

-----------------------------------------------------------------------------
(***************************************************************************)
(* PoolTemplates.  On a VHD the template writes no file of NotOnVHD.       *)
(* The slots: s1 cluster, s2 pools, s3 at, s4 pool, s5 payload, s6 node.   *)
(***************************************************************************)
Clean(files) == \E S : S \cap Templates!NotOnVHD = {} /\ files \in Seq(S)

LEMMA CleanLists ==
    /\ Clean(<<>>)
    /\ \A a : {a} \cap Templates!NotOnVHD = {} => Clean(<<a>>)
    /\ \A a, b : {a, b} \cap Templates!NotOnVHD = {} => Clean(<<a, b>>)
    /\ \A a, b, c : {a, b, c} \cap Templates!NotOnVHD = {} => Clean(<<a, b, c>>)
    /\ \A a, b, c, d : {a, b, c, d} \cap Templates!NotOnVHD = {} => Clean(<<a, b, c, d>>)
    /\ \A a, b, c, d, e, f : {a, b, c, d, e, f} \cap Templates!NotOnVHD = {} => Clean(<<a, b, c, d, e, f>>)
    /\ \A a, b, c, d, e, f, g : {a, b, c, d, e, f, g} \cap Templates!NotOnVHD = {} => Clean(<<a, b, c, d, e, f, g>>)
<1>1. Clean(<<>>)
  <2>1. <<>> \in Seq({})
    OBVIOUS
  <2> QED
    BY <2>1 DEF Clean
<1>2. ASSUME NEW a, {a} \cap Templates!NotOnVHD = {}
      PROVE  Clean(<<a>>)
  <2>1. <<a>> \in Seq({a})
    OBVIOUS
  <2> QED
    BY <1>2, <2>1 DEF Clean
<1>3. ASSUME NEW a, NEW b, {a, b} \cap Templates!NotOnVHD = {}
      PROVE  Clean(<<a, b>>)
  <2>1. <<a, b>> \in Seq({a, b})
    OBVIOUS
  <2> QED
    BY <1>3, <2>1 DEF Clean
<1>4. ASSUME NEW a, NEW b, NEW c, {a, b, c} \cap Templates!NotOnVHD = {}
      PROVE  Clean(<<a, b, c>>)
  <2>1. <<a, b, c>> \in Seq({a, b, c})
    OBVIOUS
  <2> QED
    BY <1>4, <2>1 DEF Clean
<1>5. ASSUME NEW a, NEW b, NEW c, NEW d, {a, b, c, d} \cap Templates!NotOnVHD = {}
      PROVE  Clean(<<a, b, c, d>>)
  <2>1. <<a, b, c, d>> \in Seq({a, b, c, d})
    OBVIOUS
  <2> QED
    BY <1>5, <2>1 DEF Clean
<1>6. ASSUME NEW a, NEW b, NEW c, NEW d, NEW e, NEW f, {a, b, c, d, e, f} \cap Templates!NotOnVHD = {}
      PROVE  Clean(<<a, b, c, d, e, f>>)
  <2>1. <<a, b, c, d, e, f>> \in Seq({a, b, c, d, e, f})
    OBVIOUS
  <2> QED
    BY <1>6, <2>1 DEF Clean
<1>7. ASSUME NEW a, NEW b, NEW c, NEW d, NEW e, NEW f, NEW g, {a, b, c, d, e, f, g} \cap Templates!NotOnVHD = {}
      PROVE  Clean(<<a, b, c, d, e, f, g>>)
  <2>1. <<a, b, c, d, e, f, g>> \in Seq({a, b, c, d, e, f, g})
    OBVIOUS
  <2> QED
    BY <1>7, <2>1 DEF Clean
<1> QED
  BY <1>1, <1>2, <1>3, <1>4, <1>5, <1>6, <1>7

LEMMA CleanParts ==
    ASSUME NEW s, NEW t, Clean(s), Clean(t)
    PROVE  Clean(s \o t)
<1>1. PICK S : S \cap Templates!NotOnVHD = {} /\ s \in Seq(S)
  BY DEF Clean
<1>2. PICK T : T \cap Templates!NotOnVHD = {} /\ t \in Seq(T)
  BY DEF Clean
<1>3. s \in Seq(S \cup T) /\ t \in Seq(S \cup T)
  BY <1>1, <1>2
<1>4. s \o t \in Seq(S \cup T)
  BY <1>3
<1> QED
  BY <1>1, <1>2, <1>4 DEF Clean

LEMMA CleanWhen ==
    ASSUME NEW s, Clean(s), NEW condition
    PROVE  Clean(Templates!CSE!When(condition, s))
<1>1. Clean(<<>>)
  BY CleanLists
<1> QED
  BY <1>1 DEF Templates!CSE!When

LEMMA CleanCse == ASSUME NEW c, "vhd" \in c PROVE Clean(Templates!CSE!cseFiles(c))
<1>1. Clean(<<"helpers", "helpers_distro", "provision_start.sh", "provision.sh",
              "installs", "installs_distro", "configs">>)
  BY CleanLists DEF Templates!NotOnVHD
<1>2. Templates!CSE!When("vhd" \notin c, <<"provision_cis.sh">>) = <<>>
  BY DEF Templates!CSE!When
<1>3. Clean(<<>>) /\ Clean(<<"init-aks-custom-cloud.sh">>)
  BY CleanLists DEF Templates!NotOnVHD
<1> QED
  BY <1>1, <1>2, <1>3, CleanWhen, CleanParts DEF Templates!CSE!cseFiles

LEMMA CleanService == ASSUME NEW c PROVE Clean(Templates!CSE!serviceFiles(c))
<1>1. /\ Clean(<<"reconcilePrivateHosts.sh", "reconcile-private-hosts.service">>)
      /\ Clean(<<"kubelet.service">>)
      /\ Clean(<<"mig-partition.service", "mig-partition.sh">>)
      /\ Clean(<<"update-node-labels.service", "update-node-labels.sh">>)
      /\ Clean(<<"bind-mount.sh", "bind-mount.service">>)
  BY CleanLists DEF Templates!NotOnVHD
<1> QED
  BY <1>1, CleanWhen, CleanParts DEF Templates!CSE!serviceFiles

LEMMA CleanNetwork == ASSUME NEW c PROVE Clean(Templates!CSE!networkFiles(c))
<1>1. /\ Clean(<<"99periodic">>)
      /\ Clean(<<"95proxy", "proxy.conf">>)
      /\ Clean(<<"proxyCA.pem">>)
      /\ Clean(<<"dhcpv6.service", "enable-dhcpv6.sh">>)
  BY CleanLists DEF Templates!NotOnVHD
<1> QED
  BY <1>1, CleanWhen, CleanParts DEF Templates!CSE!networkFiles

LEMMA CleanRuntime ==
    ASSUME NEW c, "vhd" \in c
    PROVE  Clean(Templates!CSE!containerdFiles(c)) /\ Clean(Templates!CSE!dockerFiles(c))
<1>1. /\ Clean(<<"config.toml", "kubenet_template.conf", "containerd.service",
                 "containerd/exec_start.conf", "crictl.yaml", "11-containerd.conf">>)
      /\ Clean(<<"teleportd.service">>)
      /\ Clean(<<"ensure-no-dup.service", "ensure-no-dup.sh">>)
      /\ Clean(<<"docker/exec_start.conf", "daemon.json">>)
  BY CleanLists DEF Templates!NotOnVHD
<1>2. /\ Templates!CSE!When("vhd" \notin c, <<"clear_mount_propagation_flags.conf">>) = <<>>
      /\ Clean(<<>>)
  BY CleanLists DEF Templates!CSE!When, Templates!NotOnVHD
<1> QED
  BY <1>1, <1>2, CleanWhen, CleanParts
     DEF Templates!CSE!containerdFiles, Templates!CSE!dockerFiles

LEMMA CleanKubelet == ASSUME NEW c PROVE Clean(Templates!CSE!kubeletFiles(c))
<1>1. /\ Clean(<<"nvidia-modprobe.service">>) /\ Clean(<<"ca.crt">>)
      /\ Clean(<<"client.crt">>) /\ Clean(<<"setup-custom-search-domains.sh">>)
      /\ Clean(<<Templates!CSE!kubeconfig(c), "default/kubelet", "kubelet.sh",
                 "999-sysctl-aks.conf">>)
  BY CleanLists DEF Templates!NotOnVHD, Templates!CSE!kubeconfig
<1> QED
  BY <1>1, CleanWhen, CleanParts DEF Templates!CSE!kubeletFiles

LEMMA CleanControlPlane == ASSUME NEW c PROVE Clean(Templates!CSE!controlPlaneFiles(c))
<1>1. Clean(<<"cloud-controller-manager.yaml", "kubeadm-config.yaml", "ca.key", "sa.key",
              "ip-masq-agent-configmap.yaml", "coredns.yaml", "kube-proxy.yaml">>)
  BY CleanLists DEF Templates!NotOnVHD
<1> QED
  BY <1>1, CleanWhen DEF Templates!CSE!controlPlaneFiles

\* All of nodecustomdata.yml.
LEMMA VHDCarriesTheRest ==
    ASSUME NEW c, "vhd" \in c
    PROVE  Templates!ToSet(Templates!CSE!Order(c)) \cap Templates!NotOnVHD = {}
<1>1. Clean(Templates!CSE!monitorFiles(c))
  BY CleanLists DEF Templates!CSE!monitorFiles, Templates!CSE!When, Templates!NotOnVHD
<1>2. Clean(IF "containerd" \in c THEN Templates!CSE!containerdFiles(c)
            ELSE Templates!CSE!dockerFiles(c))
  BY CleanRuntime
<1>3. Clean(Templates!CSE!Order(c))
  <2> DEFINE runtimeFiles == IF "containerd" \in c THEN Templates!CSE!containerdFiles(c)
                             ELSE Templates!CSE!dockerFiles(c)
  <2> HIDE DEF runtimeFiles
  <2>1. Templates!CSE!Order(c) =
            Templates!CSE!cseFiles(c) \o Templates!CSE!serviceFiles(c)
            \o Templates!CSE!monitorFiles(c) \o Templates!CSE!networkFiles(c)
            \o runtimeFiles \o Templates!CSE!kubeletFiles(c)
            \o Templates!CSE!controlPlaneFiles(c)
    BY DEF Templates!CSE!Order, runtimeFiles
  <2>2. Clean(runtimeFiles)
    BY <1>2 DEF runtimeFiles
  <2>3. Clean(Templates!CSE!cseFiles(c) \o Templates!CSE!serviceFiles(c)
              \o Templates!CSE!monitorFiles(c) \o Templates!CSE!networkFiles(c))
    BY <1>1, CleanCse, CleanService, CleanNetwork, CleanParts
  <2> QED
    BY <2>1, <2>2, <2>3, CleanKubelet, CleanControlPlane, CleanParts
<1> QED
  BY <1>3 DEF Clean, Templates!ToSet

\* What the template makes of the pool's settings.
PoolsPayload ==
    [switches |-> Templates!Switches(s2[s4]), parameters |-> Templates!getParameters(s2[s4]),
     variables |-> Templates!variables]

\* The node's data directory and the tool its script pulls images with.
RootOf(p) == IF Templates!HasDataDir(p) THEN Templates!GetDataDir(p) ELSE "default"
Tools(p) == {Templates!cliTool(p)} \cup (IF Templates!NeedsContainerd(p) THEN {"crictl"} ELSE {})

NodeRecord == [empty : {{}}, configured : SUBSET {"containerd", "docker"},
               root : {"none", "default", "pool", "tempDisk", "cluster"},
               cli : {"", "ctr", "docker", "crictl"}, hyperkube : {"none", "containerd", "docker"},
               store : SUBSET {"containerd", "docker"},
               started : {"none", "containerd", "docker"}, login : BOOLEAN]

Written == {"written", "tooled", "installed", "started"}

TemplatesInv ==
    /\ s1 \in Templates!Clusters /\ s2 \in PoolLists /\ s4 \in DOMAIN s2
    /\ s3 \in {"asked", "rendered"} \cup Written
    /\ s5 = IF s3 = "asked" THEN Templates!NoPayload ELSE PoolsPayload
    /\ s6 \in NodeRecord
    /\ s3 \in {"asked", "rendered"} => s6 = Templates!NoNode
    /\ s3 \in Written =>
           s6.configured = Templates!RuntimeBlocks(s2[s4]) /\ s6.root = RootOf(s2[s4])
    /\ s3 = "tooled" => s6.cli \in Tools(s2[s4])
    /\ s3 \in {"installed", "started"} /\ s2[s4].runtime \in {"docker", "containerd"} =>
           s6.store = {s2[s4].runtime} /\ s6.hyperkube \in {"none", s2[s4].runtime}
    /\ s3 = "started" =>
           s6.started = IF Templates!NeedsContainerd(s2[s4]) THEN "containerd" ELSE "docker"

\* The operator PoolTemplates counts with is the one the library's theorems are about.
LEMMA CardinalityOfPools == ASSUME NEW S PROVE Templates!Cardinality(S) = Cardinality(S)
  BY DEF Templates!Cardinality, Cardinality

\* The settings of the cluster and of the node's pool.
LEMMA SettingsAre ==
    ASSUME s1 \in Templates!Clusters, s2 \in PoolLists, s4 \in DOMAIN s2
    PROVE  /\ s2[s4] \in Templates!PoolSettings /\ s2[s4].runtime \in Templates!Runtimes
           /\ s2[s4].distro \in {"vhd", "raw"} /\ s2[s4].dataDir \in {"none", "pool"}
           /\ s2[s4].disk \in {"unset", "OS", "Temporary"}
           /\ s1.runtime \in Templates!Runtimes /\ s1.dataDir \in {"none", "cluster"}
           /\ s1.binaries \in BOOLEAN
           /\ s2 \in Seq(Templates!PoolSettings) /\ Len(s2) \in Nat \ {0}
           /\ DOMAIN s2 = 1 .. Len(s2)
<1>1. s2 \in Seq(Templates!PoolSettings) /\ s2 # <<>>
  BY TemplatesAssumption DEF Templates!PoolsAssumption
<1>2. s2[s4] \in Templates!PoolSettings
  BY <1>1
<1>3. s1 \in [runtime : Templates!Runtimes, dataDir : {"none", "cluster"}, binaries : BOOLEAN]
  BY DEF Templates!Clusters
<1> QED
  BY <1>1, <1>2, <1>3 DEF Templates!PoolSettings

LEMMA TemplatesInit == ASSUME Templates!Init PROVE TemplatesInv
<1>1. s2 \in Seq(Templates!PoolSettings) /\ s2 # <<>>
  BY TemplatesAssumption DEF Templates!PoolsAssumption, Templates!Init
<1>2. s4 = 1 /\ 1 \in DOMAIN s2
  BY <1>1 DEF Templates!Init
<1>3. Templates!NoNode \in NodeRecord
  BY DEF Templates!NoNode, NodeRecord
<1> QED
  BY <1>2, <1>3 DEF Templates!Init, TemplatesInv, Written

LEMMA RenderKeeps ==
    ASSUME TemplatesInv, NEW i \in DOMAIN s2, Templates!GetNodeBootstrapping(i)
    PROVE  TemplatesInv'
  BY DEF Templates!GetNodeBootstrapping, TemplatesInv, PoolsPayload, Written,
         Templates!variables, Templates!IsVHDDistroForAllNodes, Templates!GetVMType,
         Templates!GetPrimaryScaleSetName, Templates!GetPrimaryAvailabilitySetName,
         Templates!Switches, Templates!getParameters, Templates!runtimeOf,
         Templates!NeedsContainerd

\* All but the first step leaves the request and the payload alone, and what is read of them.
LEMMA RequestStays ==
    ASSUME TemplatesInv, UNCHANGED <<s1, s2, s4, s5>>, s3 # "asked", s3' # "asked",
           s3' \in {"rendered"} \cup Written
    PROVE  /\ s1' \in Templates!Clusters /\ s2' \in PoolLists /\ s4' \in DOMAIN s2'
           /\ (s5 = IF s3 = "asked" THEN Templates!NoPayload ELSE PoolsPayload)'
           /\ (Templates!RuntimeBlocks(s2[s4]))' = Templates!RuntimeBlocks(s2[s4])
           /\ RootOf(s2[s4])' = RootOf(s2[s4]) /\ Tools(s2[s4])' = Tools(s2[s4])
           /\ Templates!NeedsContainerd(s2[s4])' = Templates!NeedsContainerd(s2[s4])
<1>1. PoolsPayload' = PoolsPayload
  BY DEF PoolsPayload, Templates!variables, Templates!IsVHDDistroForAllNodes,
         Templates!GetVMType, Templates!GetPrimaryScaleSetName,
         Templates!GetPrimaryAvailabilitySetName, Templates!Switches,
         Templates!getParameters, Templates!runtimeOf, Templates!NeedsContainerd
<1>2. /\ (Templates!RuntimeBlocks(s2[s4]))' = Templates!RuntimeBlocks(s2[s4])
      /\ Templates!NeedsContainerd(s2[s4])' = Templates!NeedsContainerd(s2[s4])
      /\ Tools(s2[s4])' = Tools(s2[s4])
  BY DEF Templates!RuntimeBlocks, Templates!NeedsContainerd, Templates!NeedsDocker,
         Templates!runtimeOf, Tools
<1>3. RootOf(s2[s4])' = RootOf(s2[s4])
  BY DEF RootOf, Templates!HasDataDir, Templates!GetDataDir
<1> QED
  BY <1>1, <1>2, <1>3 DEF TemplatesInv

\* Whatever pools there are, no file is written empty.
LEMMA NothingIsEmpty ==
    ASSUME TemplatesInv, s3 # "asked"
    PROVE  (Templates!ToSet(Templates!CSE!Order(s5.switches)) \cap Templates!NotOnVHD)
               \ s5.variables.provided = {}
<1>1. s5 = PoolsPayload
  BY DEF TemplatesInv
<1>2. CASE Templates!IsVHDDistroForAllNodes
  <2>1. "vhd" \in s5.switches
    BY <1>1, <1>2
       DEF PoolsPayload, Templates!Switches, Templates!IsVHDDistroForAllNodes, TemplatesInv
  <2> QED
    BY <2>1, VHDCarriesTheRest
<1>3. CASE ~ Templates!IsVHDDistroForAllNodes
  <2>1. s5.variables.provided = Templates!NotOnVHD
    BY <1>1, <1>3 DEF PoolsPayload, Templates!variables
  <2> QED
    BY <2>1
<1> QED
  BY <1>2, <1>3

LEMMA CloudInitKeeps == ASSUME TemplatesInv, Templates!CloudInit PROVE TemplatesInv'
<1> DEFINE p == s2[s4]
           empty == (Templates!ToSet(Templates!CSE!Order(s5.switches)) \cap Templates!NotOnVHD)
                        \ s5.variables.provided
<1>1. /\ s3 = "rendered" /\ s3' = "written" /\ UNCHANGED <<s1, s2, s4, s5>>
      /\ s6' = [s6 EXCEPT !.empty = empty, !.configured = Templates!RuntimeBlocks(p),
                          !.root = RootOf(p)]
  BY DEF Templates!CloudInit, RootOf
<1>2. empty = {} /\ s6 = Templates!NoNode
  BY <1>1, NothingIsEmpty DEF TemplatesInv
<1> HIDE DEF empty
<1>3. Templates!RuntimeBlocks(p) \in SUBSET {"containerd", "docker"}
  BY DEF Templates!RuntimeBlocks
<1>4. RootOf(p) \in {"none", "default", "pool", "tempDisk", "cluster"}
  BY SettingsAre DEF TemplatesInv, RootOf, Templates!GetDataDir
<1>5. s6' \in NodeRecord /\ s6'.configured = Templates!RuntimeBlocks(p) /\ s6'.root = RootOf(p)
  BY <1>1, <1>2, <1>3, <1>4 DEF NodeRecord, Templates!NoNode
<1>6. s3' \in Written
  BY <1>1 DEF Written
<1> QED
  BY <1>1, <1>5, <1>6, RequestStays DEF TemplatesInv, Written

LEMMA CrictlKeeps == ASSUME TemplatesInv, Templates!installCrictl PROVE TemplatesInv'
<1> DEFINE p == s2[s4]
<1>1. PICK cached \in BOOLEAN :
        s6' = [s6 EXCEPT !.cli = IF "containerd" \in s5.switches /\ cached
                                 THEN "crictl" ELSE s5.parameters.cliTool]
  BY DEF Templates!installCrictl
<1>2. s3 = "written" /\ s3' = "tooled" /\ UNCHANGED <<s1, s2, s4, s5>>
  BY DEF Templates!installCrictl
<1>3. /\ "containerd" \in s5.switches <=> Templates!NeedsContainerd(p)
      /\ s5.parameters.cliTool = Templates!cliTool(p)
  BY <1>2 DEF TemplatesInv, PoolsPayload, Templates!Switches, Templates!getParameters
<1>4. s6'.cli \in Tools(p) /\ Templates!cliTool(p) \in {"", "ctr", "docker"}
  BY <1>1, <1>3 DEF TemplatesInv, NodeRecord, Tools, Templates!cliTool
<1>5. s6' \in NodeRecord /\ s6'.configured = s6.configured /\ s6'.root = s6.root
  BY <1>1, <1>3, <1>4 DEF TemplatesInv, NodeRecord
<1>6. s3' \in Written /\ s3 \in Written
  BY <1>2 DEF Written
<1> QED
  BY <1>2, <1>4, <1>5, <1>6, RequestStays DEF TemplatesInv

\* A runtime set on the pool is the one of CONTAINER_RUNTIME and of the tool.
LEMMA InstallKeeps == ASSUME TemplatesInv, Templates!InstallKubelet PROVE TemplatesInv'
<1> DEFINE p == s2[s4]
           tool == IF s5.parameters.containerRuntime = "containerd" THEN "ctr" ELSE "docker"
           cli == IF s1.binaries THEN s6.cli ELSE tool
           hyperkube == IF s1.binaries THEN "none" ELSE Templates!StoreOf(tool)
           login == Templates!IsDockerContainerRuntime(p)
<1>1. /\ s3 = "tooled" /\ s3' = "installed" /\ UNCHANGED <<s1, s2, s4, s5>>
      /\ s6' = [s6 EXCEPT !.login = login, !.hyperkube = hyperkube, !.cli = cli,
                          !.store = {Templates!StoreOf(cli)}]
  BY DEF Templates!InstallKubelet
<1>2. s6.cli \in Tools(p) /\ s6.cli \in {"", "ctr", "docker", "crictl"}
  BY <1>1 DEF TemplatesInv, NodeRecord
<1>3. s5.parameters.containerRuntime = Templates!runtimeOf(p)
  BY <1>1 DEF TemplatesInv, PoolsPayload, Templates!getParameters
<1>4. cli \in {"", "ctr", "docker", "crictl"} /\ hyperkube \in {"none", "containerd", "docker"}
      /\ Templates!StoreOf(cli) \in {"containerd", "docker"}
  BY <1>2 DEF Templates!StoreOf
<1>5. p.runtime \in {"docker", "containerd"} =>
          Templates!StoreOf(cli) = p.runtime /\ hyperkube \in {"none", p.runtime}
  <2>1. ASSUME p.runtime = "containerd" PROVE s6.cli \in {"ctr", "crictl"} /\ tool = "ctr"
    BY <1>2, <1>3, <2>1 DEF Tools, Templates!cliTool, Templates!runtimeOf
  <2>2. ASSUME p.runtime = "docker" PROVE s6.cli = "docker" /\ tool = "docker"
    BY <1>2, <1>3, <2>2
       DEF Tools, Templates!cliTool, Templates!runtimeOf, Templates!NeedsContainerd
  <2> QED
    BY <2>1, <2>2 DEF Templates!StoreOf
<1>6. login \in BOOLEAN
  BY DEF Templates!IsDockerContainerRuntime
<1> HIDE DEF cli, hyperkube, login
<1>7. /\ s6' \in NodeRecord /\ s6'.configured = s6.configured /\ s6'.root = s6.root
      /\ s6'.store = {Templates!StoreOf(cli)} /\ s6'.hyperkube = hyperkube
  BY <1>1, <1>4, <1>6 DEF TemplatesInv, NodeRecord
<1>8. s3' \in Written /\ s3 \in Written
  BY <1>1 DEF Written
<1> QED
  BY <1>1, <1>5, <1>7, <1>8, RequestStays DEF TemplatesInv

LEMMA StartKeeps == ASSUME TemplatesInv, Templates!StartNode PROVE TemplatesInv'
<1> DEFINE p == s2[s4]
<1>1. /\ s3 = "installed" /\ s3' = "started" /\ UNCHANGED <<s1, s2, s4, s5>>
      /\ s6' = [s6 EXCEPT !.started = IF "containerd" \in s5.switches
                                      THEN "containerd" ELSE "docker"]
  BY DEF Templates!StartNode
<1>2. "containerd" \in s5.switches <=> Templates!NeedsContainerd(p)
  BY <1>1 DEF TemplatesInv, PoolsPayload, Templates!Switches
<1>3. /\ s6' \in NodeRecord /\ s6'.configured = s6.configured /\ s6'.root = s6.root
      /\ s6'.store = s6.store /\ s6'.hyperkube = s6.hyperkube
      /\ s6'.started = IF Templates!NeedsContainerd(p) THEN "containerd" ELSE "docker"
  BY <1>1, <1>2 DEF TemplatesInv, NodeRecord
<1>4. s3' \in Written /\ s3 \in Written
  BY <1>1 DEF Written
<1> QED
  BY <1>1, <1>3, <1>4, RequestStays DEF TemplatesInv

LEMMA TemplatesStep ==
    ASSUME TemplatesInv, Templates!Next \/ UNCHANGED Templates!vars
    PROVE  TemplatesInv'
<1>1. CASE \E i \in DOMAIN s2 : Templates!GetNodeBootstrapping(i)
  BY <1>1, RenderKeeps
<1>2. CASE Templates!CloudInit
  BY <1>2, CloudInitKeeps
<1>3. CASE Templates!installCrictl
  BY <1>3, CrictlKeeps
<1>4. CASE Templates!InstallKubelet
  BY <1>4, InstallKeeps
<1>5. CASE Templates!StartNode
  BY <1>5, StartKeeps
<1>6. CASE UNCHANGED Templates!vars
  <2>1. CASE s3 = "asked"
    BY <1>6, <2>1 DEF Templates!vars, TemplatesInv, Written
  <2>2. CASE s3 # "asked"
    BY <1>6, <2>2, RequestStays DEF Templates!vars, TemplatesInv, Written
  <2> QED
    BY <2>1, <2>2
<1> QED
  BY <1>1, <1>2, <1>3, <1>4, <1>5, <1>6 DEF Templates!Next

LEMMA TemplatesDo == ASSUME TemplatesInv PROVE Templates!TemplatesAgree /\ Templates!TypeOK
<1> DEFINE p == s2[s4]
<1>1. Templates!EveryFileHasContent
  BY DEF TemplatesInv, NodeRecord, Templates!EveryFileHasContent
<1>2. Templates!OneRuntime
  <2> SUFFICES ASSUME s3 = "started" PROVE Templates!OneRuntime
    BY DEF Templates!OneRuntime
  <2>1. s6.configured = Templates!RuntimeBlocks(p)
        /\ s6.started = IF Templates!NeedsContainerd(p) THEN "containerd" ELSE "docker"
    BY DEF TemplatesInv, Written
  <2>2. s5.parameters.containerRuntime = Templates!runtimeOf(p)
    BY DEF TemplatesInv, PoolsPayload, Templates!getParameters
  <2> QED
    BY <2>1, <2>2 DEF Templates!OneRuntime, Templates!RuntimeBlocks,
                      Templates!NeedsContainerd, Templates!NeedsDocker
<1>3. Templates!RootIsNamed
  <2> SUFFICES ASSUME s3 \in Written PROVE s6.root # "none"
    BY DEF TemplatesInv, Templates!RootIsNamed
  <2> QED
    BY SettingsAre
       DEF TemplatesInv, RootOf, Templates!HasDataDir, Templates!GetDataDir
<1>4. Templates!PrimarySetFitsType
  <2> DEFINE kinds == {s2[i].scaleSet : i \in DOMAIN s2}
  <2> SUFFICES ASSUME s3 # "asked", Cardinality(kinds) = 1
               PROVE  /\ s5.variables.vmType = "vmss" <=> s5.variables.primaryScaleSet # 0
                      /\ s5.variables.vmType = "standard"
                             <=> s5.variables.primaryAvailabilitySet # 0
    BY CardinalityOfPools DEF Templates!PrimarySetFitsType
  <2>1. kinds \in SUBSET BOOLEAN /\ s2[1].scaleSet \in kinds
    <3>1. \A i \in DOMAIN s2 : s2[i] \in Templates!PoolSettings
      BY SettingsAre DEF TemplatesInv
    <3>2. \A i \in DOMAIN s2 : s2[i].scaleSet \in BOOLEAN
      BY <3>1 DEF Templates!PoolSettings
    <3>3. 1 \in DOMAIN s2
      BY SettingsAre DEF TemplatesInv
    <3> QED
      BY <3>2, <3>3
  <2>2. IsFiniteSet(kinds)
    <3>1. IsFiniteSet({TRUE} \cup {FALSE})
      BY FS_AddElement, FS_Singleton
    <3>2. kinds \in SUBSET ({TRUE} \cup {FALSE})
      BY <2>1
    <3> QED
      BY <3>1, <3>2, FS_Subset
  <2>3. PICK kind : kinds = {kind}
    BY <2>2, FS_Singleton
  <2>4. \A i \in DOMAIN s2 : s2[i].scaleSet = s2[1].scaleSet
    BY <2>1, <2>3
  <2>5. 1 \in DOMAIN s2
    BY SettingsAre DEF TemplatesInv
  <2> QED
    BY <2>4, <2>5
       DEF TemplatesInv, PoolsPayload, Templates!variables, Templates!GetVMType,
           Templates!GetPrimaryScaleSetName, Templates!GetPrimaryAvailabilitySetName
<1>5. Templates!PulledWhereUsed
  BY SettingsAre DEF TemplatesInv, Templates!PulledWhereUsed, Templates!NeedsContainerd,
                     Templates!runtimeOf
<1>6. Templates!TypeOK
  BY DEF TemplatesInv, Templates!TypeOK, Written, NodeRecord, PoolsPayload,
         Templates!NoPayload, Templates!Switches, Templates!getParameters,
         Templates!cliTool, Templates!CSE!Features
<1> QED
  BY <1>1, <1>2, <1>3, <1>4, <1>5, <1>6 DEF Templates!TemplatesAgree

-----------------------------------------------------------------------------
(***************************************************************************)
(* NodeImages.  What the lists say of a distro's image, for the entries of *)
(* each table.  The slots: s1 request, s2 at, s3 payload, s4 sigCloud, s5  *)
(* images, s6 node.                                                        *)
(***************************************************************************)
AsListed(distro, image) ==
    /\ "gpu" \in image <=> distro \in Images!AvailableGPUDistros
    /\ "gen2" \in image <=> distro \in Images!AvailableGen2Distros
    /\ "mariner" \in image <=> distro \in Images!AvailableCBLMarinerDistros
    /\ "windows" \notin image =>
           ("containerd" \in image <=> distro \in Images!AvailableContainerdDistros)

LEMMA MarketIsAsListed ==
    /\ \A d \in DOMAIN Images!PlainImages : AsListed(d, Images!PlainImages[d])
    /\ \A d \in DOMAIN Images!AKSImages :
           AsListed(d, Images!AKSImages[d]) /\ AsListed(d, {"1604"})
    /\ \A d \in DOMAIN Images!PublicImages : AsListed(d, Images!PublicImages[d])
  BY DEF Images!PlainImages, Images!AKSImages, Images!PublicImages, AsListed,
         Images!AvailableGPUDistros, Images!AvailableGen2Distros,
         Images!AvailableCBLMarinerDistros, Images!AvailableContainerdDistros, Images!Fips

LEMMA SigIsAsListed ==
    /\ \A d \in DOMAIN Images!getSigUbuntuImageConfigMap :
           AsListed(d, Images!getSigUbuntuImageConfigMap[d] \cup {"aks"})
    /\ \A d \in DOMAIN Images!getSigCBLMarinerImageConfigMap :
           AsListed(d, Images!getSigCBLMarinerImageConfigMap[d] \cup {"aks"})
    /\ \A d \in DOMAIN Images!getSigWindowsImageConfigMap :
           AsListed(d, Images!getSigWindowsImageConfigMap[d] \cup {"aks"})
  BY SMTT(60) DEF Images!getSigUbuntuImageConfigMap, Images!getSigCBLMarinerImageConfigMap,
         Images!getSigWindowsImageConfigMap, AsListed,
         Images!AvailableGPUDistros, Images!AvailableGen2Distros,
         Images!AvailableCBLMarinerDistros, Images!AvailableContainerdDistros, Images!Fips

\* The images the marketplace and the galleries have for a request.
Market(cloudOf, distro) ==
    {p[2] : p \in {q \in Images!AzureCloudToOSImageMap(cloudOf) : q[1] = distro}}
Prepared(distro) == {i \cup {"aks"} : i \in {p[2] : p \in {q \in Images!SigImages : q[1] = distro}}}

LEMMA ImagesAreAsListed ==
    ASSUME NEW cloudOf, NEW distro, NEW image \in Market(cloudOf, distro) \cup Prepared(distro)
    PROVE  AsListed(distro, image)
<1>1. CASE image \in Market(cloudOf, distro)
  <2>1. <<distro, image>> \in Images!AzureCloudToOSImageMap(cloudOf)
    BY <1>1 DEF Market, Images!AzureCloudToOSImageMap, Images!PairsOf
  <2>2. <<distro, image>> \in
            Images!PairsOf(Images!PlainImages) \cup Images!PairsOf(Images!AKSImages)
            \cup Images!PairsOf(Images!PublicImages)
            \cup {<<d, {"1604"}>> : d \in DOMAIN Images!AKSImages}
    BY <2>1 DEF Images!AzureCloudToOSImageMap
  <2> QED
    BY <2>2, MarketIsAsListed DEF Images!PairsOf
<1>2. CASE image \in Prepared(distro)
  <2>1. PICK i : image = i \cup {"aks"} /\ <<distro, i>> \in Images!SigImages
    BY <1>2 DEF Prepared, Images!SigImages
  <2> QED
    BY <2>1, SigIsAsListed DEF Images!SigImages
<1> QED
  BY <1>1, <1>2

\* Whatever the marketplace has for a distro of the list is prepared, but in the German cloud.
LEMMA PromiseIsKept ==
    ASSUME NEW cloudOf, cloudOf # "AzureGermanCloud",
           NEW distro \in Images!AKSDistrosAvailableOnVHD,
           NEW image \in Market(cloudOf, distro) \cup Prepared(distro)
    PROVE  "aks" \in image
<1>1. CASE image \in Market(cloudOf, distro)
  <2>1. <<distro, image>> \in Images!AzureCloudToOSImageMap(cloudOf)
    BY <1>1 DEF Market, Images!AzureCloudToOSImageMap, Images!PairsOf
  <2>2. <<distro, image>> \in
            Images!PairsOf(Images!PlainImages) \cup Images!PairsOf(Images!AKSImages)
            \cup Images!PairsOf(Images!PublicImages)
    BY <2>1 DEF Images!AzureCloudToOSImageMap
  <2>3. \A d \in DOMAIN Images!PlainImages :
            "aks" \in Images!PlainImages[d] \/ d \notin Images!AKSDistrosAvailableOnVHD
    BY DEF Images!PlainImages, Images!AKSDistrosAvailableOnVHD, Images!AvailableGen2Distros,
           Images!AvailableGPUDistros, Images!AvailableContainerdDistros, Images!Fips
  <2>4. /\ \A d \in DOMAIN Images!AKSImages : "aks" \in Images!AKSImages[d]
        /\ \A d \in DOMAIN Images!PublicImages : "aks" \in Images!PublicImages[d]
    BY DEF Images!AKSImages, Images!PublicImages
  <2> QED
    BY <2>2, <2>3, <2>4 DEF Images!PairsOf
<1>2. CASE image \in Prepared(distro)
  BY <1>2 DEF Prepared
<1> QED
  BY <1>1, <1>2

\* Every other distro has an image somewhere, in every cloud.
LEMMA DistroIsServed ==
    ASSUME NEW cloudOf, NEW distro \in Images!Distros,
           distro \notin {"CustomizedWindowsOSImage", "CoreOS"}
    PROVE  Market(cloudOf, distro) \cup Prepared(distro) # {}
<1>1. \/ distro \in DOMAIN Images!PlainImages \cup DOMAIN Images!AKSImages
      \/ distro \in DOMAIN Images!getSigUbuntuImageConfigMap
                    \cup DOMAIN Images!getSigCBLMarinerImageConfigMap
                    \cup DOMAIN Images!getSigWindowsImageConfigMap
  BY DEF Images!Distros, Images!PlainImages, Images!AKSImages,
         Images!getSigUbuntuImageConfigMap, Images!getSigCBLMarinerImageConfigMap,
         Images!getSigWindowsImageConfigMap, Images!AKSDistrosAvailableOnVHD,
         Images!AvailableGen2Distros, Images!AvailableGPUDistros,
         Images!AvailableContainerdDistros, Images!Fips, Images!AvailableWindowsSIGDistros
<1>2. CASE distro \in DOMAIN Images!PlainImages \cup DOMAIN Images!AKSImages
  <2>1. \E image : <<distro, image>> \in Images!AzureCloudToOSImageMap(cloudOf)
    BY <1>2 DEF Images!AzureCloudToOSImageMap, Images!PairsOf
  <2> QED
    BY <2>1 DEF Market
<1>3. CASE distro \in DOMAIN Images!getSigUbuntuImageConfigMap
                      \cup DOMAIN Images!getSigCBLMarinerImageConfigMap
                      \cup DOMAIN Images!getSigWindowsImageConfigMap
  <2>1. PICK image : <<distro, image>> \in Images!SigImages
    BY <1>3 DEF Images!SigImages
  <2>2. image \cup {"aks"} \in Prepared(distro)
    BY <2>1 DEF Prepared
  <2> QED
    BY <2>2
<1> QED
  BY <1>1, <1>2, <1>3

\* No table, and no two tables that are read together, have two images for a distro.
LEMMA OneImageEach ==
    ASSUME NEW cloudOf, NEW distro
    PROVE  /\ \A i, j \in Market(cloudOf, distro) : i = j
           /\ \A i, j \in Prepared(distro) : i = j
<1>1. ASSUME NEW i, NEW j, <<distro, i>> \in Images!AzureCloudToOSImageMap(cloudOf),
             <<distro, j>> \in Images!AzureCloudToOSImageMap(cloudOf)
      PROVE  i = j
  <2>1. /\ DOMAIN Images!PlainImages \cap DOMAIN Images!AKSImages = {}
        /\ DOMAIN Images!PlainImages \cap DOMAIN Images!PublicImages = {}
        /\ DOMAIN Images!AKSImages \cap DOMAIN Images!PublicImages = {}
    BY DEF Images!PlainImages, Images!AKSImages, Images!PublicImages
  <2> QED
    BY <1>1, <2>1 DEF Images!AzureCloudToOSImageMap, Images!PairsOf
<1>2. ASSUME NEW i, NEW j, <<distro, i>> \in Images!SigImages, <<distro, j>> \in Images!SigImages
      PROVE  i = j
  <2> DEFINE U == Images!getSigUbuntuImageConfigMap  M == Images!getSigCBLMarinerImageConfigMap
             W == Images!getSigWindowsImageConfigMap
  <2>1. DOMAIN U \cap DOMAIN M = {} /\ DOMAIN U \cap DOMAIN W = {} /\ DOMAIN M \cap DOMAIN W = {}
    BY DEF Images!getSigUbuntuImageConfigMap, Images!getSigCBLMarinerImageConfigMap,
           Images!getSigWindowsImageConfigMap
  <2> QED
    BY <1>2, <2>1 DEF Images!SigImages
<1>3. \A i \in Market(cloudOf, distro) : <<distro, i>> \in Images!AzureCloudToOSImageMap(cloudOf)
  BY DEF Market, Images!AzureCloudToOSImageMap, Images!PairsOf
<1>4. \A i \in Prepared(distro) : \E k : i = k \cup {"aks"} /\ <<distro, k>> \in Images!SigImages
  BY DEF Prepared, Images!SigImages
<1> QED
  BY <1>1, <1>2, <1>3, <1>4

LEMMA TwoAtMost ==
    ASSUME NEW S, NEW T, \A i, j \in S : i = j, \A i, j \in T : i = j
    PROVE  Cardinality(S \cup T) <= 2
<1> DEFINE x == CHOOSE i \in S : TRUE
           y == CHOOSE j \in T : TRUE
<1>1. S \cup T \subseteq {x} \cup {y}
  OBVIOUS
<1>2. IsFiniteSet({x} \cup {y}) /\ Cardinality({x} \cup {y}) \in {1, 2}
  <2>1. IsFiniteSet({x}) /\ Cardinality({x}) = 1
    BY FS_Singleton
  <2> HIDE DEF x, y
  <2> QED
    BY <2>1, FS_AddElement
<1>3. Cardinality(S \cup T) <= Cardinality({x} \cup {y})
  BY <1>1, <1>2, FS_Subset
<1>4. Cardinality(S \cup T) \in Nat
  BY <1>1, <1>2, FS_Subset, FS_CardinalityType
<1> QED
  BY <1>2, <1>3, <1>4

-----------------------------------------------------------------------------
ARequest == [cloud : Clouds, region : Regions, distro : Images!Distros, galleries : Galleries]

\* What is rendered before the image is looked for.
Promise == [isVHD |-> s1.distro \in Images!AKSDistrosAvailableOnVHD,
            target |-> Images!GetTargetEnvironment(s1.region)]
Answered == Market(s1.cloud, s1.distro) \cup Prepared(s1.distro)

ImagesInv ==
    /\ s1 \in ARequest
    /\ s2 \in {"called", "rendered", "marketplace", "answered", "booted", "error"}
    /\ s3 = IF s2 = "called" THEN Images!NoPayload ELSE Promise
    /\ s4 \in {"none", Images!GetCloudTargetEnv(s1.region)}
    /\ s2 \in {"called", "rendered"} => s5 = {}
    /\ s2 = "marketplace" => s5 = Market(s1.cloud, s1.distro)
    /\ s2 \in {"answered", "booted"} =>
           s5 = Answered /\ s4 = Images!GetCloudTargetEnv(s1.region)
    /\ s2 = "error" => /\ s5 = {}
                       /\ s1.cloud \in Images!KnownClouds
                              /\ s1.galleries = Images!FullConfig => Answered = {}
    /\ s6 = "exit124" => s1.cloud = "AzureGermanCloud"

LEMMA ImagesInit == ASSUME Images!Init PROVE ImagesInv
  BY DEF Images!Init, ImagesInv, ARequest

LEMMA ImagesStep ==
    ASSUME ImagesInv, Images!Next \/ UNCHANGED Images!vars
    PROVE  ImagesInv'
<1>1. CASE Images!Render
  BY <1>1 DEF Images!Render, ImagesInv, Promise, Images!GetTargetEnvironment,
              Images!GetCloudTargetEnv
<1>2. CASE Images!UnknownCloud
  BY <1>2 DEF Images!UnknownCloud, ImagesInv, Promise
<1>3. CASE Images!FindOSImage
  BY <1>3 DEF Images!FindOSImage, ImagesInv, Promise, Market
<1>4. CASE Images!BadSIGConfig
  BY <1>4 DEF Images!BadSIGConfig, ImagesInv, Promise
<1>5. CASE Images!FindSIGImage
  <2>1. s5' = Answered
    BY <1>5 DEF Images!FindSIGImage, ImagesInv, Answered, Prepared
  <2> QED
    BY <1>5, <2>1 DEF Images!FindSIGImage, ImagesInv, Promise, Answered
<1>6. CASE Images!Boot
  <2>1. PICK i \in s5 :
            s6' = IF "windows" \in i THEN "windows"
                  ELSE IF "aks" \in i THEN "golden"
                  ELSE IF s3.isVHD THEN "exit124" ELSE "installed"
    BY <1>6 DEF Images!Boot
  <2>2. s2 = "answered" /\ s2' = "booted" /\ UNCHANGED <<s1, s3, s4, s5>>
    BY <1>6 DEF Images!Boot
  <2>3. s6' = "exit124" => s1.cloud = "AzureGermanCloud"
    <3> SUFFICES ASSUME s6' = "exit124", s1.cloud # "AzureGermanCloud" PROVE FALSE
      OBVIOUS
    <3>1. "aks" \notin i /\ s3.isVHD
      BY <2>1
    <3>2. s1.distro \in Images!AKSDistrosAvailableOnVHD /\ i \in Answered
      BY <2>2, <3>1 DEF ImagesInv, Promise
    <3> QED
      BY <3>1, <3>2, PromiseIsKept DEF Answered
  <2> QED
    BY <2>2, <2>3 DEF ImagesInv, Promise, Answered
<1>7. CASE UNCHANGED Images!vars
  BY <1>7 DEF Images!vars, ImagesInv, Promise, Answered
<1> QED
  BY <1>1, <1>2, <1>3, <1>4, <1>5, <1>6, <1>7 DEF Images!Next

LEMMA ImagesDo == ASSUME ImagesInv PROVE Images!TablesAgree /\ Images!TypeOK
<1>1. Images!VHDPromiseKept
  BY DEF ImagesInv, Images!VHDPromiseKept
<1>2. Images!ListsAgree
  BY ImagesAreAsListed DEF ImagesInv, Answered, AsListed, Images!ListsAgree
<1>3. Images!KnownDistroIsServed
  BY DistroIsServed DEF ImagesInv, ARequest, Answered, Images!KnownDistroIsServed
<1>4. Images!CloudsAgree
  BY DEF ImagesInv, Promise, Images!CloudsAgree, Images!GetTargetEnvironment,
         Images!GetCloudTargetEnv
<1>5. Images!TypeOK
  <2>1. Cardinality(s5) <= 2
    <3>1. Cardinality({}) = 0
      BY FS_EmptySet
    <3>2. \A i, j \in {} : i = j
      OBVIOUS
    <3>3. Cardinality(Answered) <= 2
      BY OneImageEach, TwoAtMost DEF Answered
    <3>4. Cardinality(Market(s1.cloud, s1.distro) \cup {}) <= 2
      BY <3>2, OneImageEach, TwoAtMost
    <3>5. Market(s1.cloud, s1.distro) \cup {} = Market(s1.cloud, s1.distro)
      OBVIOUS
    <3> QED
      BY <3>1, <3>3, <3>4, <3>5 DEF ImagesInv
  <2>2. Images!Cardinality(s5) = Cardinality(s5)
    BY DEF Images!Cardinality, Cardinality
  <2>3. s4 \in {"none", "USNatCloud", "USSecCloud"} \cup Images!KnownClouds
    BY DEF ImagesInv, Images!GetCloudTargetEnv, Images!KnownClouds
  <2>4. s3.isVHD => s1.distro \notin Images!AvailableWindowsSIGDistros
    BY DEF ImagesInv, Promise, Images!NoPayload, Images!AvailableWindowsSIGDistros,
           Images!AKSDistrosAvailableOnVHD, Images!AvailableGen2Distros,
           Images!AvailableGPUDistros, Images!AvailableContainerdDistros, Images!Fips
  <2> QED
    BY <2>1, <2>2, <2>3, <2>4 DEF ImagesInv, Images!TypeOK
<1> QED
  BY <1>1, <1>2, <1>3, <1>4, <1>5 DEF Images!TablesAgree

-----------------------------------------------------------------------------
(***************************************************************************)
(* KubeletFlags.  A list of gates, in whatever order, means its map.  The  *)
(* slots: s1 os, s2 fileEnabled, s3 customKc, s4 token, s5 asked, s6       *)
(* kubeletConfig, s7 isNil, s8 gates, s9 payload, s10 calls.               *)
(***************************************************************************)
AGate == Flags!Gates \X BOOLEAN

LEMMA LastNaming ==
    ASSUME NEW list \in Seq(AGate), NEW g, \E n \in DOMAIN list : list[n][1] = g
    PROVE  \E n \in DOMAIN list :
               list[n][1] = g /\ \A m \in (n + 1) .. Len(list) : list[m][1] # g
<1> DEFINE Behind == {Len(list) - n : n \in {k \in DOMAIN list : list[k][1] = g}}
           R == {p \in Nat \X Nat : p[1] < p[2]}
<1>1. Behind \subseteq Nat /\ Behind # {}
  OBVIOUS
<1>2. IsWellFoundedOn(R, Nat)
  BY NatLessThanWellFounded DEF OpToRel
<1>3. PICK least \in Behind : \A other \in Behind : ~ (<<other, least>> \in R)
  <2> HIDE DEF Behind, R
  <2> QED
    BY <1>1, <1>2, WFMin
<1>4. PICK n \in DOMAIN list : list[n][1] = g /\ least = Len(list) - n
  BY <1>3
<1>5. ASSUME NEW m \in (n + 1) .. Len(list), list[m][1] = g PROVE FALSE
  <2>1. m \in DOMAIN list /\ Len(list) - m \in Behind /\ Len(list) - m \in Nat
    BY <1>5
  <2>2. Len(list) - m < least /\ least \in Nat
    BY <1>1, <1>3, <1>4
  <2> QED
    BY <1>3, <2>1, <2>2
<1> QED
  BY <1>4, <1>5

LEMMA MapOfGates ==
    ASSUME NEW list \in Seq(AGate)
    PROVE  /\ Flags!GateMap(list) \in [DOMAIN Flags!GateMap(list) -> BOOLEAN]
           /\ DOMAIN Flags!GateMap(list) = {list[n][1] : n \in DOMAIN list}
           /\ DOMAIN Flags!GateMap(list) \subseteq Flags!Gates
           /\ IsFiniteSet(DOMAIN Flags!GateMap(list))
<1> DEFINE named == {list[n][1] : n \in DOMAIN list}
           map == Flags!GateMap(list)
           last(g) == CHOOSE n \in DOMAIN list :
                          list[n][1] = g /\ \A m \in (n + 1) .. Len(list) : list[m][1] # g
<1>1. {p[1] : p \in Flags!ToSet(list)} = named
  BY DEF Flags!ToSet
<1>2. map = [g \in named |-> list[last(g)][2]]
  BY <1>1 DEF Flags!GateMap
<1>3. ASSUME NEW g \in named PROVE last(g) \in DOMAIN list
  <2>1. \E n \in DOMAIN list : list[n][1] = g
    OBVIOUS
  <2>2. \E n \in DOMAIN list :
            list[n][1] = g /\ \A m \in (n + 1) .. Len(list) : list[m][1] # g
    BY <2>1, LastNaming
  <2> QED
    BY <2>2
<1>4. \A n \in DOMAIN list : list[n][1] \in Flags!Gates /\ list[n][2] \in BOOLEAN
  BY DEF AGate
<1>5. IsFiniteSet(named)
  <2> DEFINE f == [n \in 1 .. Len(list) |-> list[n][1]]
  <2>1. f \in Surjection(1 .. Len(list), named)
    BY DEF Surjection
  <2>2. IsFiniteSet(1 .. Len(list))
    BY FS_Interval
  <2> HIDE DEF f
  <2> QED
    BY <2>1, <2>2, FS_Surjection
<1> HIDE DEF last, map
<1>6. map \in [named -> BOOLEAN] /\ named \subseteq Flags!Gates
  BY <1>2, <1>3, <1>4
<1> QED
  BY <1>5, <1>6 DEF map

\* addFeatureGateString: the string it makes means the map it was made of.
LEMMA StringOfGates ==
    ASSUME NEW list \in Seq(AGate), NEW gate \in Flags!Gates, NEW value \in BOOLEAN,
           NEW string \in Flags!AddFeatureGateString(list, gate, value)
    PROVE  /\ string \in Seq(AGate)
           /\ Flags!GateMap(string) = Flags!Over(Flags!Only(gate, value), Flags!GateMap(list))
<1> DEFINE map == Flags!Over(Flags!Only(gate, value), Flags!GateMap(list))
           D == DOMAIN map
<1>1. map \in [D -> BOOLEAN] /\ D = {gate} \cup DOMAIN Flags!GateMap(list)
  BY MapOfGates DEF Flags!Over, Flags!Only
<1>2. IsFiniteSet(D) /\ D \subseteq Flags!Gates /\ Cardinality(D) \in Nat
  <2>1. IsFiniteSet(DOMAIN Flags!GateMap(list) \cup {gate})
    BY MapOfGates, FS_AddElement
  <2>2. D = DOMAIN Flags!GateMap(list) \cup {gate}
    BY <1>1
  <2> HIDE DEF D
  <2> QED
    BY <2>1, <2>2, MapOfGates, FS_CardinalityType
<1> HIDE DEF map
<1>3. PICK order \in Flags!SetToSeqs(D) :
        string = [n \in DOMAIN order |-> <<order[n], map[order[n]]>>]
  BY DEF Flags!AddFeatureGateString, map
<1>4. Flags!Cardinality(D) = Cardinality(D)
  BY DEF Flags!Cardinality, Cardinality
<1>5. /\ order \in [1 .. Cardinality(D) -> D]
      /\ \A i, j \in 1 .. Cardinality(D) : i # j => order[i] # order[j]
  BY <1>3, <1>4 DEF Flags!SetToSeqs
<1>6. \A g \in D : \E n \in 1 .. Cardinality(D) : order[n] = g
  <2>1. order \in Injection(1 .. Cardinality(D), D)
    BY <1>5 DEF Injection, IsInjective
  <2>2. Cardinality(1 .. Cardinality(D)) = Cardinality(D)
    BY <1>2, FS_Interval
  <2>3. order \in Surjection(1 .. Cardinality(D), D)
    BY <1>2, <2>1, <2>2, FS_Injection
  <2> QED
    BY <2>3 DEF Surjection
<1> DEFINE N == Cardinality(D)
<1> HIDE DEF D, N
<1>7. /\ string = [n \in 1 .. N |-> <<order[n], map[order[n]]>>] /\ N \in Nat
      /\ string \in Seq(AGate) /\ Len(string) = N
  <2>1. DOMAIN order = 1 .. N /\ N \in Nat
    BY <1>2, <1>5 DEF N
  <2>2. \A n \in 1 .. N : <<order[n], map[order[n]]>> \in AGate
    BY <1>1, <1>2, <1>5 DEF N, AGate
  <2>3. string = [n \in 1 .. N |-> <<order[n], map[order[n]]>>]
    BY <1>3, <2>1, Zenon
  <2>4. string \in [1 .. N -> AGate]
    BY <2>2, <2>3, Zenon
  <2>5. string \in Seq(AGate) /\ Len(string) = N
    BY <2>1, <2>4
  <2> QED
    BY <2>1, <2>3, <2>5
<1>8. {p[1] : p \in Flags!ToSet(string)} = D
  <2>1. {string[n][1] : n \in DOMAIN string} = D
    BY <1>5, <1>6, <1>7 DEF N
  <2>2. {p[1] : p \in Flags!ToSet(string)} = {string[n][1] : n \in DOMAIN string}
    BY DEF Flags!ToSet
  <2> QED
    BY <2>1, <2>2
<1>9. ASSUME NEW g \in D
      PROVE  string[CHOOSE n \in DOMAIN string :
                 string[n][1] = g /\ \A m \in (n + 1) .. Len(string) : string[m][1] # g][2]
                 = map[g]
  <2>1. \E n \in DOMAIN string : string[n][1] = g
    BY <1>8 DEF Flags!ToSet
  <2>2. \E n \in DOMAIN string :
            string[n][1] = g /\ \A m \in (n + 1) .. Len(string) : string[m][1] # g
    BY <1>7, <2>1, LastNaming
  <2>3. \A n \in DOMAIN string : string[n][1] = g => string[n][2] = map[g]
    BY <1>7
  <2> QED
    BY <2>2, <2>3
<1>10. Flags!GateMap(string) = [g \in D |-> map[g]]
  BY <1>8, <1>9 DEF Flags!GateMap
<1> QED
  BY <1>1, <1>7, <1>10 DEF map

-----------------------------------------------------------------------------
\* What a call makes of a map; to do it again makes no difference.
EditOf(map) ==
    IF s1 = "linux"
    THEN IF s2 THEN Flags!Restrict(map, DOMAIN map \ {"--dynamic-config-dir"}) ELSE map
    ELSE IF s4
         THEN Flags!Over([f \in {"--bootstrap-kubeconfig", "--cert-dir"} |-> "windows"], map)
         ELSE map

\* isNil after a call: the backfill for Windows makes a map.
NilAfter == s7 /\ ~ (s1 = "windows" /\ s4)

AMap(map) == map = [f \in DOMAIN map |-> map[f]]

GateIsOff(list) ==
    Flags!GateMap(list)
        = Flags!Over(Flags!Only("DynamicKubeletConfig", FALSE), Flags!GateMap(list))

FlagsInv ==
    /\ s1 \in {"linux", "windows"} /\ s2 \in BOOLEAN /\ s4 \in BOOLEAN /\ s7 \in BOOLEAN
    /\ s3 \in CustomSets
    /\ AMap(s5) /\ DOMAIN s5 \subseteq Flags!Flags
    /\ \A f \in DOMAIN s5 :
           s5[f] \in IF f \in Flags!Switches THEN {"true", "false"} ELSE {"given"}
    /\ s7 => DOMAIN s5 = {}
    /\ s8 \in Seq(AGate)
    /\ s10 \in 0 .. Uses
    /\ s6 = IF s10 = 0 THEN s5 ELSE EditOf(s5)
    /\ s9 = IF s10 = 0 THEN Flags!Nothing ELSE Flags!Rendered(s6, s8, s7)
    /\ s10 > 0 /\ s1 = "linux" /\ s2 /\ ~ s7 => GateIsOff(s8)
    /\ s10 > 0 => s7 = NilAfter

LEMMA EditIsEdited == Flags!EditedMap = EditOf(s6)
  BY DEF Flags!EditedMap, EditOf

LEMMA EditTwice == ASSUME NEW map, AMap(map) PROVE EditOf(EditOf(map)) = EditOf(map)
  BY DEF AMap, EditOf, Flags!Restrict, Flags!Over

LEMMA EditMakesAMap == ASSUME NEW map, AMap(map) PROVE AMap(EditOf(map))
  BY DEF AMap, EditOf, Flags!Restrict, Flags!Over

\* A gate that was put in front already is there.
LEMMA OverTwice ==
    ASSUME NEW f, NEW g
    PROVE  Flags!Over(f, Flags!Over(f, g)) = Flags!Over(f, g)
  BY DEF Flags!Over

LEMMA FirstOfTwo ==
    ASSUME NEW key, NEW value, NEW g
    PROVE  /\ key \in DOMAIN Flags!Over(Flags!Only(key, value), g)
           /\ Flags!Over(Flags!Only(key, value), g)[key] = value
  BY DEF Flags!Over, Flags!Only

LEMMA EditedGatesAre ==
    ASSUME FlagsInv, NEW list \in Flags!EditedGates
    PROVE  /\ list \in Seq(AGate)
           /\ s1 = "linux" /\ s2 /\ ~ s7 => GateIsOff(list)
           /\ s10 > 0 /\ s1 = "linux" /\ s2 => Flags!GateMap(list) = Flags!GateMap(s8)
           /\ ~ (s1 = "linux" /\ s2) => list = s8
<1>1. CASE s1 = "linux" /\ s2 /\ ~ s7
  <2>1. list \in Flags!AddFeatureGateString(s8, "DynamicKubeletConfig", FALSE)
    BY <1>1 DEF Flags!EditedGates
  <2>2. "DynamicKubeletConfig" \in Flags!Gates /\ s8 \in Seq(AGate)
    BY DEF Flags!Gates, FlagsInv
  <2>3. /\ list \in Seq(AGate)
        /\ Flags!GateMap(list) = Flags!Over(Flags!Only("DynamicKubeletConfig", FALSE),
                                            Flags!GateMap(s8))
    BY <2>1, <2>2, StringOfGates
  <2>4. GateIsOff(list)
    BY <2>3, OverTwice DEF GateIsOff
  <2>5. s10 > 0 => Flags!GateMap(list) = Flags!GateMap(s8)
    BY <1>1, <2>3 DEF FlagsInv, GateIsOff
  <2> QED
    BY <1>1, <2>3, <2>4, <2>5
<1>2. CASE ~ (s1 = "linux" /\ s2 /\ ~ s7)
  BY <1>2 DEF Flags!EditedGates, FlagsInv
<1> QED
  BY <1>1, <1>2

LEMMA FlagsInit == ASSUME Flags!Init PROVE FlagsInv
<1>1. PICK F \in FlagSets, switch \in {"true", "false"} :
        s5 = [f \in F |-> IF f \in Flags!Switches THEN switch ELSE "given"]
  BY DEF Flags!Init
<1>2. F \subseteq Flags!Flags
  BY FlagsAssumption DEF Flags!SetsAssumption
<1>3. s8 \in Seq(AGate)
  BY FlagsAssumption DEF Flags!Init, Flags!GatesAssumption, AGate
<1>4. AMap(s5) /\ DOMAIN s5 \subseteq Flags!Flags
      /\ \A f \in DOMAIN s5 :
             s5[f] \in IF f \in Flags!Switches THEN {"true", "false"} ELSE {"given"}
  BY <1>1, <1>2 DEF AMap
<1>5. /\ s1 \in {"linux", "windows"} /\ s2 \in BOOLEAN /\ s4 \in BOOLEAN /\ s7 \in BOOLEAN
      /\ s3 \in CustomSets /\ s10 = 0 /\ s6 = s5 /\ s9 = Flags!Nothing
  BY DEF Flags!Init
<1>6. s7 => DOMAIN s5 = {}
  BY DEF Flags!Init, Flags!EmptyMap
<1>7. s10 \in 0 .. Uses
  BY <1>5, FlagsAssumption DEF Flags!BoundsAssumption
<1> QED
  BY <1>3, <1>4, <1>5, <1>6, <1>7 DEF FlagsInv

LEMMA FlagsStep ==
    ASSUME FlagsInv, Flags!Next \/ UNCHANGED Flags!vars
    PROVE  FlagsInv'
<1>1. CASE Flags!Next
  <2>1. PICK list \in Flags!EditedGates :
             s8' = list /\ s9' = Flags!Rendered(Flags!EditedMap, list, NilAfter)
    BY <1>1 DEF Flags!Next, Flags!GetNodeBootstrappingPayload, NilAfter
  <2>2. /\ UNCHANGED <<s1, s2, s3, s4, s5>> /\ s6' = EditOf(s6) /\ s7' = NilAfter
        /\ s10 < Uses /\ s10' = s10 + 1
    BY <1>1, EditIsEdited
       DEF Flags!Next, Flags!GetNodeBootstrappingPayload, Flags!configuration, NilAfter
  <2>3. s10' \in 0 .. Uses /\ s10' > 0 /\ s10 \in Nat
    BY <2>2, FlagsAssumption DEF FlagsInv, Flags!BoundsAssumption
  <2>4. s6' = EditOf(s5)
    BY <2>2, EditTwice DEF FlagsInv
  <2>5. EditOf(s5)' = EditOf(s5)
    BY <2>2 DEF EditOf
  <2>6. Flags!Rendered(s6, s8, s7)' = Flags!Rendered(EditOf(s6), list, NilAfter)
    BY <2>1, <2>2
       DEF Flags!Rendered, Flags!OnLine, Flags!GatesOnLine, Flags!Content,
           Flags!GatesInContent
  <2>7. list \in Seq(AGate) /\ (s1 = "linux" /\ s2 /\ ~ s7 => GateIsOff(list))
    BY EditedGatesAre
  <2>8. s7' \in BOOLEAN /\ (s7' => s7) /\ NilAfter' = NilAfter
        /\ (s1 = "linux" => s7' = s7)
    BY <2>2 DEF FlagsInv, NilAfter
  <2>9. (s1 = "linux" /\ s2 /\ ~ s7 => GateIsOff(s8))'
    <3>1. GateIsOff(s8)' <=> GateIsOff(list)
      BY <2>1 DEF GateIsOff, Flags!GateMap, Flags!ToSet, Flags!Over, Flags!Only
    <3> QED
      BY <2>2, <2>7, <2>8, <3>1
  <2> QED
    BY <2>1, <2>2, <2>3, <2>4, <2>5, <2>6, <2>7, <2>8, <2>9, EditIsEdited
       DEF FlagsInv, AMap
<1>2. CASE UNCHANGED Flags!vars
  <2>1. UNCHANGED <<s1, s2, s3, s4, s5, s6, s7, s8, s9, s10>>
    BY <1>2 DEF Flags!vars, Flags!configuration
  <2>2. EditOf(s5)' = EditOf(s5)
    BY <2>1 DEF EditOf
  <2>3. Flags!Rendered(s6, s8, s7)' = Flags!Rendered(s6, s8, s7)
    BY <2>1 DEF Flags!Rendered, Flags!OnLine, Flags!GatesOnLine, Flags!Content,
                Flags!GatesInContent
  <2>4. GateIsOff(s8)' <=> GateIsOff(s8)
    BY <2>1 DEF GateIsOff, Flags!GateMap, Flags!ToSet, Flags!Over, Flags!Only
  <2>5. NilAfter' = NilAfter /\ AMap(s5)' = AMap(s5)
    BY <2>1 DEF NilAfter, AMap
  <2> QED
    BY <2>1, <2>2, <2>3, <2>4, <2>5 DEF FlagsInv
<1> QED
  BY <1>1, <1>2

\* A configuration that is used again gives the same payload.
LEMMA PayloadIsTheSame == ASSUME FlagsInv, Flags!Next \/ UNCHANGED Flags!vars
                          PROVE  Flags!SamePayload
<1> SUFFICES ASSUME s10 > 0, Flags!Next PROVE s9' = s9
  BY DEF Flags!SamePayload, Flags!vars
<1>1. PICK list \in Flags!EditedGates :
           s9' = Flags!Rendered(Flags!EditedMap, list, NilAfter)
  BY DEF Flags!Next, Flags!GetNodeBootstrappingPayload, NilAfter
<1>2. Flags!EditedMap = s6 /\ NilAfter = s7 /\ s9 = Flags!Rendered(s6, s8, s7)
  BY EditIsEdited, EditTwice DEF FlagsInv
<1>3. Flags!Rendered(s6, list, s7) = Flags!Rendered(s6, s8, s7)
  BY EditedGatesAre
     DEF Flags!Rendered, Flags!GatesOnLine, Flags!GatesInContent,
         Flags!TranslatedKubeletConfigFlags
<1> QED
  BY <1>1, <1>2, <1>3

\* The kinds of flags are apart, and but for the gates they are all there are.
LEMMA KindsOfFlags ==
    /\ Flags!TextFlags \cap Flags!ListFlags = {} /\ Flags!TextFlags \cap Flags!Switches = {}
    /\ Flags!ListFlags \cap Flags!Switches = {}
    /\ Flags!PointerSwitches \cap Flags!SwitchFlags = {}
    /\ (Flags!ListFlags \cup Flags!TextFlags \cup Flags!SwitchFlags
           \cup Flags!PointerSwitches) \cap Flags!CustomFlags = {}
    /\ Flags!CommandLineFlags \cap Flags!TranslatedKubeletConfigFlags = {}
    /\ Flags!SwitchFlags \cup Flags!PointerSwitches \subseteq Flags!Switches
  BY SMTT(60)
     DEF Flags!TextFlags, Flags!ListFlags, Flags!SwitchFlags, Flags!PointerSwitches,
         Flags!CustomFlags, Flags!CommandLineFlags, Flags!TranslatedKubeletConfigFlags,
         Flags!Switches

\* With a file every flag the code writes is read from there, a false switch left out and
\* a list that is not given apart.
LEMMA WrittenIsAsked ==
    ASSUME NEW map, AMap(map), NEW f \in DOMAIN map,
           f \in Flags!TextFlags \cup Flags!ListFlags \cup Flags!SwitchFlags
                     \cup Flags!PointerSwitches,
           f \in Flags!SwitchFlags => map[f] \in {"true", "false"}
    PROVE  IF f \in Flags!SwitchFlags /\ map[f] = "false"
           THEN f \notin DOMAIN Flags!Written(map)
           ELSE f \in DOMAIN Flags!Written(map) /\ Flags!Written(map)[f] = map[f]
<1>1. CASE f \in Flags!TextFlags \cup Flags!PointerSwitches
  <2>1. f \notin Flags!SwitchFlags
    BY <1>1, KindsOfFlags
  <2> QED
    BY <1>1, <2>1 DEF Flags!Written, Flags!Over, Flags!Restrict
<1>2. CASE f \in Flags!SwitchFlags
  <2>1. f \notin Flags!TextFlags \cup Flags!PointerSwitches \cup Flags!ListFlags
    BY <1>2, KindsOfFlags
  <2> QED
    BY <1>2, <2>1 DEF Flags!Written, Flags!Over, Flags!Restrict
<1>3. CASE f \in Flags!ListFlags
  <2>1. f \notin Flags!TextFlags \cup Flags!PointerSwitches \cup Flags!SwitchFlags
    BY <1>3, KindsOfFlags
  <2> QED
    BY <1>3, <2>1 DEF Flags!Written, Flags!Over, Flags!Restrict
<1> QED
  BY <1>1, <1>2, <1>3

LEMMA AskedIsInForce == ASSUME FlagsInv PROVE Flags!AskedIsInForce
<1> SUFFICES ASSUME s10 > 0, NEW f \in DOMAIN s5, Flags!Own(f),
                    ~ (s1 = "linux" /\ s2
                       /\ (f \in Flags!CustomFlags
                           \/ (f = "--authentication-token-webhook" /\ s5[f] = "false")))
             PROVE  Flags!InForce(f) = s5[f]
  BY DEF Flags!AskedIsInForce
<1>1. s9 = Flags!Rendered(s6, s8, s7) /\ s6 = EditOf(s5) /\ AMap(s5) /\ AMap(s6) /\ ~ s7
  BY EditMakesAMap DEF FlagsInv
<1>2. f \in DOMAIN s6 /\ s6[f] = s5[f]
  BY <1>1 DEF FlagsInv, EditOf, Flags!Own, Flags!Restrict, Flags!Over, AMap
<1>3. CASE ~ (s1 = "linux" /\ s2)
  <2>1. s9.line = s6
    BY <1>1, <1>3 DEF Flags!Rendered, Flags!OnLine
  <2> QED
    BY <1>2, <2>1 DEF Flags!InForce
<1>4. CASE s1 = "linux" /\ s2
  <2>1. /\ s9.line = Flags!Restrict(s6, DOMAIN s6 \ Flags!TranslatedKubeletConfigFlags)
        /\ s9.file = Flags!Over([g \in s3 |-> "custom"], Flags!Written(s6))
    BY <1>1, <1>4 DEF Flags!Rendered, Flags!OnLine, Flags!Content
  <2>2. CASE f \notin Flags!TranslatedKubeletConfigFlags
    BY <1>2, <2>1, <2>2 DEF Flags!InForce, Flags!Restrict
  <2>3. CASE f \in Flags!TranslatedKubeletConfigFlags
    <3>1. f \in Flags!Flags /\ f \notin Flags!CommandLineFlags
      BY <2>3, KindsOfFlags DEF FlagsInv
    <3>2. f \in Flags!TextFlags \cup Flags!ListFlags \cup Flags!SwitchFlags
                    \cup Flags!PointerSwitches
      BY <1>4, <3>1 DEF Flags!Flags, Flags!TranslatedKubeletConfigFlags
    <3>3. f \in Flags!SwitchFlags => s6[f] \in {"true", "false"}
      BY <1>2, KindsOfFlags DEF FlagsInv
    <3>4. f \notin DOMAIN s9.line /\ f \notin s3
      BY <2>1, <2>3 DEF Flags!Restrict, Flags!Own
    <3>5. /\ DOMAIN s9.file = s3 \cup DOMAIN Flags!Written(s6)
          /\ f \in DOMAIN Flags!Written(s6) => s9.file[f] = Flags!Written(s6)[f]
      BY <2>1, <3>4 DEF Flags!Over
    <3>6. CASE ~ (f \in Flags!SwitchFlags /\ s6[f] = "false")
      <4>1. f \in DOMAIN Flags!Written(s6) /\ Flags!Written(s6)[f] = s6[f]
        BY <1>1, <1>2, <3>2, <3>3, <3>6, WrittenIsAsked
      <4> QED
        BY <1>2, <3>4, <3>5, <4>1 DEF Flags!InForce
    <3>7. CASE f \in Flags!SwitchFlags /\ s6[f] = "false"
      <4>1. f \notin DOMAIN Flags!Written(s6)
        BY <1>1, <1>2, <3>2, <3>3, <3>7, WrittenIsAsked
      <4>2. Flags!InForce(f) = Flags!DefaultOf(f)
        BY <3>4, <3>5, <4>1 DEF Flags!InForce
      <4>3. f # "--authentication-token-webhook"
        BY <1>2, <1>4, <3>7
      <4>4. Flags!DefaultOf(f) = "false"
        BY <3>7, <4>3 DEF Flags!DefaultOf, Flags!SwitchFlags, Flags!Switches
      <4> QED
        BY <1>2, <3>7, <4>2, <4>4
    <3> QED
      BY <3>6, <3>7
  <2> QED
    BY <2>2, <2>3
<1> QED
  BY <1>3, <1>4

LEMMA DynamicConfigIsOff == ASSUME FlagsInv PROVE Flags!DynamicConfigIsOff
<1> SUFFICES ASSUME s10 > 0, s1 = "linux", s2, ~ s7
             PROVE  /\ "DynamicKubeletConfig" \in DOMAIN Flags!GatesInForce
                    /\ Flags!GatesInForce["DynamicKubeletConfig"] = FALSE
                    /\ "--dynamic-config-dir" \notin DOMAIN s9.line
  BY DEF Flags!DynamicConfigIsOff
<1>1. s9 = Flags!Rendered(s6, s8, s7) /\ s6 = EditOf(s5) /\ GateIsOff(s8)
  BY DEF FlagsInv
<1>2. "--dynamic-config-dir" \notin DOMAIN s9.line
  BY <1>1 DEF Flags!Rendered, Flags!OnLine, EditOf, Flags!Restrict
<1>3. s9.gatesOnLine = <<>> /\ s9.gatesInFile = Flags!GatesInContent(s8)
  BY <1>1 DEF Flags!Rendered, Flags!GatesOnLine, Flags!TranslatedKubeletConfigFlags
<1>4. DOMAIN Flags!GateMap(<<>>) = {}
  BY DEF Flags!GateMap, Flags!ToSet
<1>5. /\ "DynamicKubeletConfig" \in DOMAIN Flags!GateMap(s8)
      /\ Flags!GateMap(s8)["DynamicKubeletConfig"] = FALSE
  BY <1>1, FirstOfTwo DEF GateIsOff
<1>6. /\ "DynamicKubeletConfig" \in DOMAIN Flags!GatesInContent(s8)
      /\ Flags!GatesInContent(s8)["DynamicKubeletConfig"] = FALSE
  BY <1>5 DEF Flags!GatesInContent, Flags!Over, Flags!Only, Flags!EmptyMap
<1> QED
  BY <1>2, <1>3, <1>4, <1>6 DEF Flags!GatesInForce, Flags!Over

LEMMA FlagsKeepTypes == ASSUME FlagsInv PROVE Flags!TypeOK
<1>1. s3 \subseteq Flags!CustomFlags \cup Flags!Overridden
  BY FlagsAssumption DEF FlagsInv, Flags!SetsAssumption
<1>2. \A f \in DOMAIN s5 : s5[f] \in Flags!Values
  BY DEF FlagsInv, Flags!Values
<1>3. /\ DOMAIN s6 \subseteq Flags!Flags
      /\ \A f \in DOMAIN s6 : s6[f] \in Flags!Values
  <2>1. {"--bootstrap-kubeconfig", "--cert-dir"} \subseteq Flags!Flags
    BY DEF Flags!Flags, Flags!CommandLineFlags
  <2> QED
    BY <1>2, <2>1 DEF FlagsInv, EditOf, Flags!Restrict, Flags!Over, Flags!Values
<1>4. DOMAIN s9.line \subseteq DOMAIN s6
  BY DEF FlagsInv, Flags!Nothing, Flags!EmptyMap, Flags!Rendered, Flags!OnLine,
         Flags!Restrict
<1>5. \A f \in DOMAIN s9.file : s9.file[f] \in Flags!Values
  <2>1. s9.file \in {Flags!EmptyMap, Flags!Content(s6)}
    BY DEF FlagsInv, Flags!Nothing, Flags!Rendered
  <2>2. \A f \in DOMAIN Flags!Written(s6) : Flags!Written(s6)[f] \in Flags!Values
    BY <1>3 DEF Flags!Written, Flags!Over, Flags!Restrict, Flags!Values
  <2>3. \A f \in DOMAIN Flags!Content(s6) : Flags!Content(s6)[f] \in Flags!Values
    BY <2>2 DEF Flags!Content, Flags!Over, Flags!Values
  <2> QED
    BY <2>1, <2>3 DEF Flags!EmptyMap
<1>6. Flags!Range(s6) \subseteq Flags!Values /\ Flags!Range(s9.file) \subseteq Flags!Values
  BY <1>3, <1>5 DEF Flags!Range
<1> QED
  BY <1>1, <1>3, <1>4, <1>6 DEF FlagsInv, Flags!TypeOK, AGate

-----------------------------------------------------------------------------
(***************************************************************************)
(* The whole.                                                              *)
(***************************************************************************)
RequestsInv ==
    /\ side \in Sides /\ IInv
    /\ side = "flags" => FlagsInv
    /\ side = "templates" => TemplatesInv
    /\ side = "images" => ImagesInv
    /\ side = "versions" => VersionsInv

LEMMA RequestsBegin == RequestsInit => RequestsInv
  BY InitOfSide, InitOfCloud, InitHolds, FlagsInit, TemplatesInit, ImagesInit,
     VersionsInit DEF RequestsInv

LEMMA RequestsGoOn == RequestsInv /\ [RequestsNext]_allVars => RequestsInv'
<1> SUFFICES ASSUME RequestsInv, [RequestsNext]_allVars PROVE RequestsInv'
  OBVIOUS
<1>1. side' = side /\ side \in Sides
  BY StepOfSide DEF RequestsInv
<1>2. IInv'
  BY StepOfCloud, StepKeeps DEF RequestsInv
<1>3. side = "flags" => FlagsInv'
  BY StepOfSide, FlagsStep DEF RequestsInv
<1>4. side = "templates" => TemplatesInv'
  BY StepOfSide, TemplatesStep DEF RequestsInv
<1>5. side = "images" => ImagesInv'
  BY StepOfSide, ImagesStep DEF RequestsInv
<1>6. side = "versions" => VersionsInv'
  BY StepOfSide, VersionsStep DEF RequestsInv
<1> QED
  BY <1>1, <1>2, <1>3, <1>4, <1>5, <1>6 DEF RequestsInv

LEMMA VersionsKeepTypes == ASSUME VersionsInv PROVE Supported!TypeOK
  BY TableOfVersions DEF VersionsInv, TableIsWhole, ACall, Supported!TypeOK

\* Every side keeps its types: the kubelet's map, the payloads, the images of an answer and
\* the table of versions.
THEOREM RequestsKeepTypes == RequestsSpec => []RequestsTypeOK
<1>1. RequestsInv => RequestsTypeOK
  <2>1. IInv => TypeOK
    BY DEF IInv
  <2> QED
    BY <2>1, FlagsKeepTypes, TemplatesDo, ImagesDo, VersionsKeepTypes
       DEF RequestsInv, RequestsTypeOK
<1> QED
  BY RequestsBegin, RequestsGoOn, <1>1, PTL DEF RequestsSpec

\* Whatever flags and gates a caller sets, what it asks is what the kubelet reads on its line
\* and in its file, and dynamic configuration is off (utils.go:404-513, baker.go:260-272).
THEOREM AskedFlagsAreRead == RequestsSpec => []FlagsInForce
<1>1. RequestsInv => FlagsInForce
  BY AskedIsInForce, DynamicConfigIsOff DEF RequestsInv, FlagsInForce, Flags!FlagsInForce
<1> QED
  BY RequestsBegin, RequestsGoOn, <1>1, PTL DEF RequestsSpec

\* Whatever pools a cluster mixes, what switches, parameters and variables say of a pool fits
\* together on its node (baker.go, params.go, variables.go).
THEOREM SourcesAgree == RequestsSpec => []TemplatesAgree
<1>1. RequestsInv => TemplatesAgree
  BY TemplatesDo DEF RequestsInv, TemplatesAgree
<1> QED
  BY RequestsBegin, RequestsGoOn, <1>1, PTL DEF RequestsSpec

\* Whatever cloud, region, distro and galleries are asked for, the tables an answer is put
\* together from agree (bakerapi.go, types.go, sig_config.go).
THEOREM AnswersAgree == RequestsSpec => []TablesAgree
<1>1. RequestsInv => TablesAgree
  BY ImagesDo DEF RequestsInv, TablesAgree
<1> QED
  BY RequestsBegin, RequestsGoOn, <1>1, PTL DEF RequestsSpec

\* Whatever versions a table has, a new cluster gets one that is offered, and a version
\* asked for is answered within its release, by the newest patch (versions.go).
THEOREM VersionsDoFit == RequestsSpec => []VersionsFit
<1>1. RequestsInv => VersionsFit
  BY DEF RequestsInv, VersionsInv, VersionsFit
<1> QED
  BY RequestsBegin, RequestsGoOn, <1>1, PTL DEF RequestsSpec

\* A configuration that is used again gives the same payload, in whatever order Go ranges
\* over its gates, and a cluster keeps its version whatever packages come in between.
THEOREM AnswersRepeat == RequestsSpec => SameAnswerAgain
<1>1. RequestsInv /\ [RequestsNext]_allVars =>
          [/\ side = "flags" => Flags!SamePayload
           /\ side = "versions" => Supported!UpdateKeeps]_allVars
  <2> SUFFICES ASSUME RequestsInv, [RequestsNext]_allVars
               PROVE  /\ side = "flags" => Flags!SamePayload
                      /\ side = "versions" => Supported!UpdateKeeps
    OBVIOUS
  <2>1. side = "flags" => Flags!SamePayload
    BY StepOfSide, PayloadIsTheSame DEF RequestsInv
  <2>2. side = "versions" => Supported!UpdateKeeps
    BY UpdateKeepsVersion DEF RequestsInv
  <2> QED
    BY <2>1, <2>2
<1> QED
  BY RequestsBegin, RequestsGoOn, <1>1, PTL DEF RequestsSpec, SameAnswerAgain

\* The custom cloud in the composition: its behaviours are CustomCloud's, so that what is
\* proved of Spec holds here as well.
THEOREM RequestsAreOfCloud == RequestsSpec => Spec
  BY InitOfCloud, StepOfCloud, PTL DEF RequestsSpec, Spec
=============================================================================
