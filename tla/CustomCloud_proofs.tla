------------------------- MODULE CustomCloud_proofs -------------------------
(***************************************************************************)
(* Theorems about CustomCloud, for every set of pools and number of calls, *)
(* however they overlap: a template sees another name than the cluster's   *)
(* own only beside a call that has it in its hands, and the cluster has    *)
(* its name back until two of those have met.                              *)
(***************************************************************************)
EXTENDS CustomCloud, TLAPS

\* Until two have met, one at most has the name in its hands.
HoldsAlone ==
    ~clashed => \A p \in Pools, q \in Pools : p # q => ~(Holds(p) /\ Holds(q))

\* Beside a call that has not been lent to, no other has the name in its hands.
LentBeside ==
    \A p \in Pools : pc[p] > 0 /\ p \notin lent => \A q \in Pools \ {p} : ~Holds(q)

NameKept == ~clashed /\ (\A p \in Pools : ~Holds(p)) => name = String(cloud)

\* The one that has the name in its hands has kept the old one, and the words it has
\* written are there.
Held ==
    ~clashed => \A p \in WindowsPools :
        /\ pc[p] \in 6..10 => oldName[p] = String(cloud)
        /\ pc[p] \in 7..9 => name.length = "AzureStackCloud"
        /\ pc[p] \in 8..10 => name.text = "AzureStackCloud"
        /\ pc[p] = 10 => name.length = cloud

JsonKept == ~clashed => JsonIsOfStack

IInv ==
    /\ TypeOK /\ HoldsAlone /\ LentBeside /\ NameKept /\ Held
    /\ SeesItsOwnCloud /\ JsonKept

-----------------------------------------------------------------------------
\* Where the steps of the JSON are.
LEMMA WindowsPlaces ==
    /\ Len(WindowsSteps) = 14
    /\ \A n \in 1..14 :
        /\ WindowsSteps[n] \in OwnSteps <=> n \in 5..10
        /\ WindowsSteps[n] = "JSON: old name" <=> n = 5
        /\ WindowsSteps[n] = "JSON: rename" <=> n = 6
        /\ WindowsSteps[n] = "JSON: renamed" <=> n = 7
        /\ WindowsSteps[n] = "JSON: marshal" <=> n = 8
        /\ WindowsSteps[n] = "JSON: restore" <=> n = 9
        /\ WindowsSteps[n] = "JSON: restored" <=> n = 10
  BY SMTT(60) DEF WindowsSteps, OwnSteps

LEMMA LinuxPlaces ==
    /\ Len(LinuxSteps) = 17
    /\ \A n \in 1..17 : LinuxSteps[n] \notin OwnSteps
  BY SMTT(60) DEF LinuxSteps, OwnSteps

\* What a condition skips ends behind the steps of the JSON.
LEMMA UnderIsNat == ASSUME NEW step PROVE Under(step) \in Nat
  BY DEF Under

LEMMA WindowsSkips ==
    ASSUME NEW n \in 1..14, n \notin 5..10
    PROVE  n + Under(WindowsSteps[n]) + 1 \notin 6..10
<1>1. CASE n = 1
  <2>1. WindowsSteps[1] = "setup: docker"
    BY DEF WindowsSteps
  <2>2. Under("setup: docker") = 0
    BY DEF Under
  <2>3. Under(WindowsSteps[n]) = 0
    BY <1>1, <2>1, <2>2, Zenon
  <2> QED
    BY <1>1, <2>3, SMT
<1>2. CASE n = 2
  <2>1. WindowsSteps[2] = "setup: target environment"
    BY DEF WindowsSteps
  <2>2. Under("setup: target environment") = 0
    BY DEF Under
  <2>3. Under(WindowsSteps[n]) = 0
    BY <1>2, <2>1, <2>2, Zenon
  <2> QED
    BY <1>2, <2>3, SMT
<1>3. CASE n = 3
  <2>1. WindowsSteps[3] = "setup: environment JSON"
    BY DEF WindowsSteps
  <2>2. Under("setup: environment JSON") = 7
    BY DEF Under
  <2>3. Under(WindowsSteps[n]) = 7
    BY <1>3, <2>1, <2>2, Zenon
  <2> QED
    BY <1>3, <2>3, SMT
<1>4. CASE n = 4
  <2>1. WindowsSteps[4] = "JSON: custom cloud"
    BY DEF WindowsSteps
  <2>2. Under("JSON: custom cloud") = 6
    BY DEF Under
  <2>3. Under(WindowsSteps[n]) = 6
    BY <1>4, <2>1, <2>2, Zenon
  <2> QED
    BY <1>4, <2>3, SMT
<1>5. CASE n \in 11..14
  BY <1>5, UnderIsNat
<1> QED
  BY <1>1, <1>2, <1>3, <1>4, <1>5

-----------------------------------------------------------------------------
LEMMA LengthsAreNat == \A p \in Pools : Len(StepsOf(p)) \in {14, 17}
  BY LinuxPlaces, WindowsPlaces DEF StepsOf

\* A step moves its own call and no other.
LEMMA SkipMovesItsOwn ==
    ASSUME TypeOK, NEW p \in Pools, pc[p] > 0, NEW n \in Nat, Skips(p, n)
    PROVE  /\ pc' \in [Pools -> Nat]
           /\ \A q \in Pools : pc'[q] \in 0..Len(StepsOf(q))
           /\ \A q \in Pools \ {p} : pc'[q] = pc[q]
           /\ pc'[p] \in {0, pc[p] + n + 1}
<1>1. Len(StepsOf(p)) \in Nat /\ pc \in [Pools -> Nat] /\ pc[p] \in 0..Len(StepsOf(p))
  BY LengthsAreNat DEF TypeOK
<1>2. pc' = [pc EXCEPT ![p] = IF pc[p] + n >= Len(StepsOf(p)) THEN 0 ELSE pc[p] + n + 1]
  BY DEF Skips
<1>3. pc'[p] = IF pc[p] + n >= Len(StepsOf(p)) THEN 0 ELSE pc[p] + n + 1
  BY <1>1, <1>2
<1>4. \A q \in Pools \ {p} : pc'[q] = pc[q]
  BY <1>1, <1>2
<1>5. pc'[p] \in Nat /\ pc'[p] \in 0..Len(StepsOf(p)) /\ pc'[p] \in {0, pc[p] + n + 1}
  BY <1>1, <1>3
<1>6. \A q \in Pools : pc'[q] \in 0..Len(StepsOf(q))
  BY <1>4, <1>5 DEF TypeOK
<1>7. pc' \in [Pools -> Nat]
  BY <1>1, <1>2, <1>3, <1>5
<1> QED
  BY <1>4, <1>5, <1>6, <1>7

\* A call at a step of the JSON is a Windows pool's, at the step's place, and alone.
LEMMA OwnStepsPlace ==
    ASSUME TypeOK, NEW p \in Pools, pc[p] > 0
    PROVE  /\ p \notin WindowsPools => StepsOf(p)[pc[p]] \notin OwnSteps
           /\ p \in WindowsPools =>
                /\ StepsOf(p) = WindowsSteps
                /\ pc[p] \in 1..14
                /\ StepsOf(p)[pc[p]] \in OwnSteps <=> pc[p] \in 5..10
<1>1. pc[p] \in 1..Len(StepsOf(p))
  BY LengthsAreNat DEF TypeOK
<1>2. CASE p \in WindowsPools
  BY <1>1, <1>2, WindowsPlaces DEF StepsOf
<1>3. CASE p \notin WindowsPools
  BY <1>1, <1>3, LinuxPlaces DEF StepsOf
<1> QED
  BY <1>2, <1>3

LEMMA AtPlace ==
    ASSUME TypeOK, NEW p \in Pools, pc[p] > 0
    PROVE  /\ AtStep(p, "JSON: old name") => p \in WindowsPools /\ pc[p] = 5
           /\ AtStep(p, "JSON: rename") => p \in WindowsPools /\ pc[p] = 6
           /\ AtStep(p, "JSON: renamed") => p \in WindowsPools /\ pc[p] = 7
           /\ AtStep(p, "JSON: marshal") => p \in WindowsPools /\ pc[p] = 8
           /\ AtStep(p, "JSON: restore") => p \in WindowsPools /\ pc[p] = 9
           /\ AtStep(p, "JSON: restored") => p \in WindowsPools /\ pc[p] = 10
<1>1. CASE p \in WindowsPools
  BY <1>1, OwnStepsPlace, WindowsPlaces DEF AtStep
<1>2. CASE p \notin WindowsPools
  BY <1>2, OwnStepsPlace DEF AtStep, OwnSteps
<1> QED
  BY <1>1, <1>2

-----------------------------------------------------------------------------
\* What the histories say of the state a step leads to.
LEMMA Remembered ==
    ASSUME IInv, Remember
    PROVE  /\ HoldsAlone' /\ LentBeside' /\ lent' \subseteq Pools /\ clashed' \in BOOLEAN
           /\ clashed => clashed'
<1>1. HoldsAlone'
  BY DEF Remember, HoldsAlone
<1>2. LentBeside'
  <2>1. SUFFICES ASSUME NEW p \in Pools, (pc[p] > 0)', p \notin lent', NEW q \in Pools \ {p},
                        Holds(q)'
                 PROVE  FALSE
    BY DEF LentBeside
  <2>2. pc'[p] # 0
    BY <2>1
  <2> QED
    BY <2>1, <2>2, Zenon DEF Remember
<1>3. lent' \subseteq Pools /\ clashed' \in BOOLEAN /\ (clashed => clashed')
  BY DEF Remember, IInv, TypeOK
<1> QED
  BY <1>1, <1>2, <1>3

\* A call that was lent to stays so until it begins anew.
LEMMA LentStays ==
    ASSUME Remember, NEW p \in Pools, p \in lent, pc[p] > 0 \/ pc'[p] = 0
    PROVE  p \in lent'
  BY DEF Remember

LEMMA CallKeeps == ASSUME IInv, NEW p \in Pools, Call(p) PROVE IInv'
<1>1. /\ pc[p] = 0 /\ pc' = [pc EXCEPT ![p] = 1]
      /\ pc'[p] = 1 /\ \A q \in Pools \ {p} : pc'[q] = pc[q]
  BY DEF IInv, TypeOK, Call, Begin
<1>2. Remember /\ UNCHANGED <<cloud, name>>
  BY DEF Call, Begin
<1>3. TypeOK'
  <2>1. pc' \in [Pools -> Nat] /\ \A q \in Pools : pc'[q] \in 0..Len(StepsOf(q))
    <3>1. pc \in [Pools -> Nat] /\ \A q \in Pools : pc[q] \in 0..Len(StepsOf(q))
      BY DEF IInv, TypeOK
    <3>2. \A q \in Pools : 1 \in 0..Len(StepsOf(q))
      <4>1. 1 \in 0..14 /\ 1 \in 0..17
        OBVIOUS
      <4> QED
        BY <4>1, LengthsAreNat, Zenon
    <3>3. pc' \in [Pools -> Nat]
      BY <1>1, <3>1
    <3> QED
      BY <1>1, <3>1, <3>2, <3>3
  <2>2. calls' \in 0..MaxCalls
    BY BoundsAssumption DEF IInv, TypeOK, Call, Begin
  <2>3. oldName' \in [Pools -> Strings]
    BY DEF IInv, TypeOK, Call, Begin, String, Strings
  <2>4. seen' \in [Pools -> SUBSET Strings] /\ json' \in [Pools -> SUBSET Strings]
    BY DEF IInv, TypeOK, Call, Begin
  <2> QED
    BY <1>2, <2>1, <2>2, <2>3, <2>4, Remembered DEF IInv, TypeOK, StepsOf
<1>4. \A q \in Pools : Holds(q)' <=> Holds(q)
  BY <1>1 DEF Holds
<1>5. NameKept'
  BY <1>2, <1>4, Remembered DEF IInv, NameKept
<1>6. Held'
  <2>1. SUFFICES ASSUME ~clashed', NEW q \in WindowsPools, pc'[q] \in 6..10
                 PROVE  /\ oldName'[q] = String(cloud)
                        /\ pc'[q] \in 7..9 => name.length = "AzureStackCloud"
                        /\ pc'[q] \in 8..10 => name.text = "AzureStackCloud"
                        /\ pc'[q] = 10 => name.length = cloud
    BY <1>2 DEF Held
  <2>2. q # p /\ q \in Pools /\ pc'[q] = pc[q] /\ ~clashed
    BY <1>1, <1>2, <2>1, PoolsAssumption, Remembered
  <2>3. oldName'[q] = oldName[q]
    BY <2>2 DEF IInv, TypeOK, Call, Begin
  <2> QED
    BY <2>1, <2>2, <2>3 DEF IInv, Held
<1>7. SeesItsOwnCloud'
  <2>1. SUFFICES ASSUME NEW q \in Pools, q \notin lent', ~clashed'
                 PROVE  seen'[q] \subseteq {String(cloud)}
    BY <1>2 DEF SeesItsOwnCloud
  <2>2. CASE q = p
    BY <2>2 DEF IInv, TypeOK, Call, Begin
  <2>3. CASE q # p
    <3>1. seen'[q] = seen[q]
      BY <2>3 DEF IInv, TypeOK, Call, Begin
    <3>2. pc[q] > 0 \/ pc'[q] = 0
      BY <1>1, <2>3 DEF IInv, TypeOK
    <3>3. q \notin lent /\ ~clashed
      BY <1>2, <2>1, <3>2, LentStays, Remembered
    <3> QED
      BY <3>1, <3>3 DEF IInv, SeesItsOwnCloud
  <2> QED
    BY <2>2, <2>3
<1>8. JsonKept'
  BY <1>2, Remembered DEF IInv, TypeOK, JsonKept, JsonIsOfStack, Call, Begin
<1> QED
  BY <1>2, <1>3, <1>5, <1>6, <1>7, <1>8, Remembered DEF IInv

LEMMA ReadKeeps == ASSUME IInv, NEW p \in Pools, Read(p) PROVE IInv'
<1> DEFINE n == IF IsAKSCustomCloud(name) THEN 0 ELSE Under(StepsOf(p)[pc[p]])
<1>1. /\ pc[p] > 0 /\ n \in Nat /\ Skips(p, n) /\ Remember
      /\ UNCHANGED <<cloud, name, oldName, json, calls>>
      /\ seen' = [seen EXCEPT ![p] = seen[p] \cup {name}]
  BY UnderIsNat DEF Read, Goes
<1>2. p \in WindowsPools => pc[p] \in 1..14 /\ pc[p] \notin 5..10
  BY <1>1, OwnStepsPlace DEF IInv, Read
<1>3. p \in WindowsPools => pc'[p] \notin 6..10
  <2>1. SUFFICES ASSUME p \in WindowsPools, pc'[p] # 0 PROVE pc'[p] \notin 6..10
    OBVIOUS
  <2>2. pc'[p] = pc[p] + n + 1
    BY <1>1, <2>1, SkipMovesItsOwn DEF IInv
  <2>3. CASE IsAKSCustomCloud(name)
    BY <1>2, <2>1, <2>2, <2>3
  <2>4. CASE ~IsAKSCustomCloud(name)
    <3>1. n = Under(WindowsSteps[pc[p]])
      BY <2>1, <2>4 DEF StepsOf
    <3>2. pc[p] + Under(WindowsSteps[pc[p]]) + 1 \notin 6..10
      BY <1>2, <2>1, WindowsSkips
    <3> HIDE DEF n
    <3> QED
      BY <2>2, <3>1, <3>2
  <2> QED
    BY <2>3, <2>4
<1> HIDE DEF n
<1>4. /\ pc' \in [Pools -> Nat] /\ \A q \in Pools : pc'[q] \in 0..Len(StepsOf(q))
      /\ \A q \in Pools \ {p} : pc'[q] = pc[q]
  BY <1>1, SkipMovesItsOwn DEF IInv
<1>5. ~Holds(p) /\ \A q \in Pools : Holds(q)' <=> Holds(q)
  <2>1. ~Holds(p) /\ ~Holds(p)'
    BY <1>2, <1>3 DEF Holds
  <2> QED
    BY <1>4, <2>1 DEF Holds
<1>6. TypeOK'
  <2>1. seen' \in [Pools -> SUBSET Strings]
    BY <1>1 DEF IInv, TypeOK
  <2> QED
    BY <1>1, <1>4, <2>1, Remembered DEF IInv, TypeOK, StepsOf
<1>7. NameKept'
  BY <1>1, <1>5, Remembered DEF IInv, NameKept
<1>8. Held'
  <2>1. \A q \in WindowsPools : pc'[q] \in 6..10 => pc'[q] = pc[q]
    BY <1>3, <1>4, PoolsAssumption
  <2> QED
    BY <1>1, <2>1, Remembered DEF IInv, Held
<1>9. SeesItsOwnCloud'
  <2>1. SUFFICES ASSUME NEW q \in Pools, q \notin lent', ~clashed'
                 PROVE  seen'[q] \subseteq {String(cloud)}
    BY <1>1 DEF SeesItsOwnCloud
  <2>2. pc[q] > 0 \/ pc'[q] = 0
    BY <1>1, <1>4 DEF IInv, TypeOK
  <2>3. q \notin lent /\ ~clashed
    BY <1>1, <2>1, <2>2, LentStays, Remembered
  <2>4. seen[q] \subseteq {String(cloud)}
    BY <2>3 DEF IInv, SeesItsOwnCloud
  <2>5. CASE q # p
    BY <1>1, <2>4, <2>5 DEF IInv, TypeOK
  <2>6. CASE q = p
    <3>1. \A r \in Pools : ~Holds(r)
      BY <1>1, <1>5, <2>3, <2>6 DEF IInv, LentBeside
    <3>2. name = String(cloud)
      BY <2>3, <3>1 DEF IInv, NameKept
    <3> QED
      BY <1>1, <2>4, <2>6, <3>2 DEF IInv, TypeOK
  <2> QED
    BY <2>5, <2>6
<1>10. JsonKept'
  BY <1>1, Remembered DEF IInv, JsonKept, JsonIsOfStack
<1> QED
  BY <1>1, <1>6, <1>7, <1>8, <1>9, <1>10, Remembered DEF IInv

-----------------------------------------------------------------------------
\* A call that takes a step of the JSON: until two have met, it is the only one that has
\* the name in its hands.
LEMMA OwnStepGoes ==
    ASSUME IInv, NEW p \in WindowsPools, pc[p] \in 5..10, Goes(p), Remember
    PROVE  /\ pc' \in [Pools -> Nat] /\ \A q \in Pools : pc'[q] \in 0..Len(StepsOf(q))
           /\ pc'[p] = pc[p] + 1
           /\ \A q \in Pools \ {p} : pc'[q] = pc[q]
           /\ ~clashed' => \A q \in Pools \ {p} : ~Holds(q) /\ ~Holds(q)'
<1>1. p \in Pools /\ pc[p] > 0 /\ Skips(p, 0)
  BY PoolsAssumption DEF Goes
<1>2. Len(StepsOf(p)) = 14 /\ pc \in [Pools -> Nat]
  BY WindowsPlaces DEF StepsOf, IInv, TypeOK
<1>3. pc'[p] = pc[p] + 1
  BY <1>1, <1>2 DEF Skips
<1>4. \A q \in Pools \ {p} : pc'[q] = pc[q]
  BY <1>1, SkipMovesItsOwn DEF IInv
<1>5. ASSUME ~clashed', NEW q \in Pools \ {p} PROVE ~Holds(q) /\ ~Holds(q)'
  <2>1. Holds(q)' <=> Holds(q)
    BY <1>4 DEF Holds
  <2>2. ~clashed /\ HoldsAlone /\ HoldsAlone'
    BY <1>5, Remembered DEF IInv
  <2>3. CASE pc[p] = 5
    <3>1. Holds(p)'
      BY <1>3, <2>3 DEF Holds
    <3> QED
      BY <1>1, <1>5, <2>1, <2>2, <3>1, Zenon DEF HoldsAlone
  <2>4. CASE pc[p] # 5
    <3>1. Holds(p)
      BY <2>4 DEF Holds
    <3> QED
      BY <1>1, <1>5, <2>1, <2>2, <3>1, Zenon DEF HoldsAlone
  <2> QED
    BY <2>3, <2>4
<1> QED
  BY <1>1, <1>3, <1>4, <1>5, SkipMovesItsOwn DEF IInv

\* What the templates have seen is as it was, and so are the promises about it.
LEMMA OwnStepSees ==
    ASSUME IInv, NEW p \in WindowsPools, pc[p] \in 5..10, Goes(p), Remember,
           UNCHANGED <<cloud, seen>>
    PROVE  SeesItsOwnCloud'
<1>1. \A q \in Pools : q \in lent => q \in lent'
  <2>1. \A q \in Pools : pc[q] > 0 \/ pc'[q] = 0
    BY OwnStepGoes DEF IInv, TypeOK
  <2> QED
    BY <2>1, LentStays
<1> QED
  BY <1>1, Remembered DEF IInv, SeesItsOwnCloud

LEMMA KeepOldNameKeeps == ASSUME IInv, NEW p \in Pools, KeepOldName(p) PROVE IInv'
<1>1. /\ p \in WindowsPools /\ pc[p] = 5 /\ pc[p] \in 5..10 /\ Goes(p) /\ Remember
      /\ UNCHANGED <<cloud, name, seen, json, calls>>
      /\ oldName' = [oldName EXCEPT ![p] = name]
  <2>1. pc[p] > 0 /\ (AtStep(p, "JSON: old name"))
    BY DEF KeepOldName, AtStep
  <2>2. p \in WindowsPools /\ pc[p] \in {5}
    BY <2>1, AtPlace DEF IInv
  <2>3. pc[p] = 5 /\ pc[p] \in 5..10
    BY <2>2
  <2> QED
    BY <2>2, <2>3, Zenon DEF KeepOldName
<1>2. /\ pc' \in [Pools -> Nat] /\ \A q \in Pools : pc'[q] \in 0..Len(StepsOf(q))
      /\ pc'[p] = 6
      /\ ~clashed' => \A q \in Pools \ {p} : ~Holds(q) /\ ~Holds(q)'
  BY <1>1, OwnStepGoes
<1>3. ~clashed' => name = String(cloud)
  BY <1>1, <1>2, Remembered DEF IInv, NameKept, Holds
<1>4. TypeOK'
  BY <1>1, <1>2, Remembered DEF IInv, TypeOK, StepsOf
<1>5. Held'
  <2>1. oldName'[p] = name
    BY <1>1 DEF IInv, TypeOK
  <2>2. ~clashed' => \A q \in WindowsPools : q # p => pc'[q] \notin 6..10
    BY <1>2, PoolsAssumption DEF Holds
  <2> QED
    BY <1>1, <1>2, <1>3, <2>1, <2>2 DEF Held
<1>6. NameKept'
  BY <1>1, <1>3 DEF NameKept
<1>7. SeesItsOwnCloud'
  BY <1>1, OwnStepSees
<1>8. JsonKept'
  BY <1>1, Remembered DEF IInv, JsonKept, JsonIsOfStack
<1> QED
  BY <1>1, <1>4, <1>5, <1>6, <1>7, <1>8, Remembered DEF IInv

LEMMA RenameKeeps == ASSUME IInv, NEW p \in Pools, Rename(p) PROVE IInv'
<1>1. /\ p \in WindowsPools /\ pc[p] \in 5..10 /\ Goes(p) /\ Remember
      /\ UNCHANGED <<cloud, oldName, seen, json, calls>>
  <2>1. pc[p] > 0 /\ (AtStep(p, "JSON: rename") \/ AtStep(p, "JSON: renamed"))
    BY DEF Rename, AtStep
  <2>2. p \in WindowsPools /\ pc[p] \in {6, 7}
    BY <2>1, AtPlace DEF IInv
  <2>3. pc[p] \in 5..10
    BY <2>2
  <2> QED
    BY <2>2, <2>3, Zenon DEF Rename
<1>2. \/ pc[p] = 6 /\ name' = [name EXCEPT !.length = "AzureStackCloud"]
      \/ pc[p] = 7 /\ name' = [name EXCEPT !.text = "AzureStackCloud"]
  <2>1. AtStep(p, "JSON: rename") => pc[p] = 6
    BY AtPlace, Zenon DEF IInv, AtStep
  <2>2. AtStep(p, "JSON: renamed") => pc[p] = 7
    BY AtPlace, Zenon DEF IInv, AtStep
  <2> QED
    BY <2>1, <2>2 DEF Rename
<1>3. /\ pc' \in [Pools -> Nat] /\ \A q \in Pools : pc'[q] \in 0..Len(StepsOf(q))
      /\ pc'[p] = pc[p] + 1
      /\ ~clashed' => \A q \in Pools \ {p} : ~Holds(q) /\ ~Holds(q)'
  BY <1>1, OwnStepGoes
<1>4. name' \in Strings
  BY <1>2 DEF IInv, TypeOK, Strings, CustomNames
<1>5. TypeOK'
  BY <1>1, <1>3, <1>4, Remembered DEF IInv, TypeOK, StepsOf
<1>6. Held'
  <2>1. SUFFICES ASSUME ~clashed', NEW q \in WindowsPools, pc'[q] \in 6..10
                 PROVE  /\ oldName[q] = String(cloud)
                        /\ pc'[q] \in 7..9 => name'.length = "AzureStackCloud"
                        /\ pc'[q] \in 8..10 => name'.text = "AzureStackCloud"
                        /\ pc'[q] = 10 => name'.length = cloud
    BY <1>1 DEF Held
  <2>2. q = p /\ ~clashed
    BY <1>1, <1>3, <2>1, PoolsAssumption, Remembered DEF Holds
  <2>3. oldName[p] = String(cloud)
    BY <1>1, <1>2, <2>2 DEF IInv, Held
  <2>4. pc[p] = 7 => name.length = "AzureStackCloud"
    BY <1>1, <2>2 DEF IInv, Held
  <2>5. name \in Strings
    BY DEF IInv, TypeOK
  <2> QED
    BY <1>2, <1>3, <2>2, <2>3, <2>4, <2>5 DEF Strings
<1>7. NameKept'
  <2>1. Holds(p)'
    BY <1>1, <1>2, <1>3 DEF Holds
  <2> QED
    BY <1>1, <2>1, PoolsAssumption DEF NameKept
<1>8. SeesItsOwnCloud'
  BY <1>1, OwnStepSees
<1>9. JsonKept'
  BY <1>1, Remembered DEF IInv, JsonKept, JsonIsOfStack
<1> QED
  BY <1>1, <1>5, <1>6, <1>7, <1>8, <1>9, Remembered DEF IInv

LEMMA MarshalKeeps == ASSUME IInv, NEW p \in Pools, Marshal(p) PROVE IInv'
<1>1. /\ p \in WindowsPools /\ pc[p] = 8 /\ pc[p] \in 5..10 /\ Goes(p) /\ Remember
      /\ UNCHANGED <<cloud, name, oldName, seen, calls>>
      /\ json' = [json EXCEPT ![p] = {name}]
  <2>1. pc[p] > 0 /\ (AtStep(p, "JSON: marshal"))
    BY DEF Marshal, AtStep
  <2>2. p \in WindowsPools /\ pc[p] \in {8}
    BY <2>1, AtPlace DEF IInv
  <2>3. pc[p] = 8 /\ pc[p] \in 5..10
    BY <2>2
  <2> QED
    BY <2>2, <2>3, Zenon DEF Marshal
<1>2. /\ pc' \in [Pools -> Nat] /\ \A q \in Pools : pc'[q] \in 0..Len(StepsOf(q))
      /\ pc'[p] = 9
      /\ ~clashed' => \A q \in Pools \ {p} : ~Holds(q) /\ ~Holds(q)'
  BY <1>1, OwnStepGoes
<1>3. TypeOK'
  BY <1>1, <1>2, Remembered DEF IInv, TypeOK, StepsOf
<1>4. ~clashed' => /\ oldName[p] = String(cloud)
                   /\ name.length = "AzureStackCloud" /\ name.text = "AzureStackCloud"
  BY <1>1, Remembered DEF IInv, Held
<1>5. Held'
  <2>1. ~clashed' => \A q \in WindowsPools : q # p => pc'[q] \notin 6..10
    BY <1>2, PoolsAssumption DEF Holds
  <2> QED
    BY <1>1, <1>2, <1>4, <2>1 DEF Held
<1>6. NameKept'
  <2>1. Holds(p)'
    BY <1>1, <1>2 DEF Holds
  <2> QED
    BY <1>1, <2>1, PoolsAssumption DEF NameKept
<1>7. SeesItsOwnCloud'
  BY <1>1, OwnStepSees
<1>8. JsonKept'
  <2>1. ~clashed' => name = String("AzureStackCloud")
    BY <1>4 DEF IInv, TypeOK, Strings, String
  <2> QED
    BY <1>1, <2>1, Remembered DEF IInv, TypeOK, JsonKept, JsonIsOfStack
<1> QED
  BY <1>1, <1>3, <1>5, <1>6, <1>7, <1>8, Remembered DEF IInv

LEMMA RestoreKeeps == ASSUME IInv, NEW p \in Pools, Restore(p) PROVE IInv'
<1>1. /\ p \in WindowsPools /\ pc[p] \in 5..10 /\ Goes(p) /\ Remember
      /\ UNCHANGED <<cloud, oldName, seen, json, calls>>
  <2>1. pc[p] > 0 /\ (AtStep(p, "JSON: restore") \/ AtStep(p, "JSON: restored"))
    BY DEF Restore, AtStep
  <2>2. p \in WindowsPools /\ pc[p] \in {9, 10}
    BY <2>1, AtPlace DEF IInv
  <2>3. pc[p] \in 5..10
    BY <2>2
  <2> QED
    BY <2>2, <2>3, Zenon DEF Restore
<1>2. \/ pc[p] = 9 /\ name' = [name EXCEPT !.length = oldName[p].length]
      \/ pc[p] = 10 /\ name' = [name EXCEPT !.text = oldName[p].text]
  <2>1. AtStep(p, "JSON: restore") => pc[p] = 9
    BY AtPlace, Zenon DEF IInv, AtStep
  <2>2. AtStep(p, "JSON: restored") => pc[p] = 10
    BY AtPlace, Zenon DEF IInv, AtStep
  <2> QED
    BY <2>1, <2>2 DEF Restore
<1>3. /\ pc' \in [Pools -> Nat] /\ \A q \in Pools : pc'[q] \in 0..Len(StepsOf(q))
      /\ pc'[p] = pc[p] + 1
      /\ ~clashed' => \A q \in Pools \ {p} : ~Holds(q) /\ ~Holds(q)'
  BY <1>1, OwnStepGoes
<1>4. name \in Strings /\ oldName[p] \in Strings
  BY DEF IInv, TypeOK
<1>5. name' \in Strings
  BY <1>2, <1>4 DEF Strings
<1>6. TypeOK'
  BY <1>1, <1>3, <1>5, Remembered DEF IInv, TypeOK, StepsOf
<1>7. ~clashed' => /\ oldName[p] = String(cloud)
                   /\ pc[p] = 9 => name.text = "AzureStackCloud"
                   /\ pc[p] = 10 => name.length = cloud
  BY <1>1, <1>2, Remembered DEF IInv, Held
<1>8. Held'
  <2>1. SUFFICES ASSUME ~clashed', NEW q \in WindowsPools, pc'[q] \in 6..10
                 PROVE  /\ oldName[q] = String(cloud)
                        /\ pc'[q] \in 7..9 => name'.length = "AzureStackCloud"
                        /\ pc'[q] \in 8..10 => name'.text = "AzureStackCloud"
                        /\ pc'[q] = 10 => name'.length = cloud
    BY <1>1 DEF Held
  <2>2. q = p /\ pc[p] = 9
    BY <1>1, <1>2, <1>3, <2>1, PoolsAssumption DEF Holds
  <2> QED
    BY <1>2, <1>3, <1>4, <1>7, <2>1, <2>2 DEF Strings, String
<1>9. NameKept'
  <2>1. CASE pc[p] = 9
    <3>1. Holds(p)'
      BY <1>1, <1>3, <2>1 DEF Holds
    <3> QED
      BY <1>1, <3>1, PoolsAssumption DEF NameKept
  <2>2. CASE pc[p] = 10
    BY <1>1, <1>2, <1>4, <1>7, <2>2 DEF NameKept, Strings, String
  <2> QED
    BY <1>2, <2>1, <2>2
<1>10. SeesItsOwnCloud'
  BY <1>1, OwnStepSees
<1>11. JsonKept'
  BY <1>1, Remembered DEF IInv, JsonKept, JsonIsOfStack
<1> QED
  BY <1>1, <1>6, <1>8, <1>9, <1>10, <1>11, Remembered DEF IInv

-----------------------------------------------------------------------------
LEMMA InitHolds == Init => IInv
<1> SUFFICES ASSUME Init PROVE IInv
  OBVIOUS
<1>1. /\ cloud \in CustomNames /\ name = String(cloud) /\ pc = [p \in Pools |-> 0]
      /\ oldName = [p \in Pools |-> String(cloud)] /\ seen = [p \in Pools |-> {}]
      /\ json = [p \in Pools |-> {}] /\ calls = 0 /\ lent = {}
  BY Zenon DEF Init
<1>2. clashed \in BOOLEAN
  BY Zenon DEF Init
<1>3. TypeOK
  <2>1. \A p \in Pools : pc[p] = 0 /\ 0 \in 0..Len(StepsOf(p))
    <3>1. 0 \in 0..14 /\ 0 \in 0..17
      OBVIOUS
    <3>2. \A p \in Pools : 0 \in 0..Len(StepsOf(p))
      BY <3>1, LengthsAreNat, Zenon
    <3> QED
      BY <1>1, <3>2
  <2>2. String(cloud) \in Strings
    BY <1>1 DEF Strings, String
  <2>3. /\ pc \in [Pools -> Nat] /\ \A p \in Pools : pc[p] \in 0..Len(StepsOf(p))
        /\ name \in Strings /\ oldName \in [Pools -> Strings]
        /\ seen \in [Pools -> SUBSET Strings] /\ json \in [Pools -> SUBSET Strings]
    BY <1>1, <2>1, <2>2
  <2>4. calls \in 0..MaxCalls /\ lent \subseteq Pools
    BY <1>1, BoundsAssumption
  <2> QED
    BY <1>1, <1>2, <2>3, <2>4, Zenon DEF TypeOK
<1>4. \A p \in Pools : pc[p] = 0 /\ ~Holds(p) /\ seen[p] = {} /\ json[p] = {}
  <2>1. 0 \notin 6..10
    OBVIOUS
  <2>2. \A p \in Pools : pc[p] = 0 /\ seen[p] = {} /\ json[p] = {}
    BY <1>1
  <2> QED
    BY <2>1, <2>2, Zenon DEF Holds
<1>5. HoldsAlone /\ LentBeside /\ NameKept
  BY <1>1, <1>4 DEF HoldsAlone, LentBeside, NameKept
<1>6. \A p \in WindowsPools : pc[p] \notin 6..10 /\ pc[p] \notin 7..9 /\ pc[p] \notin 8..10
                              /\ pc[p] # 10
  <2>1. \A p \in WindowsPools : pc[p] = 0
    BY <1>4, PoolsAssumption, Zenon
  <2>2. 0 \notin 6..10 /\ 0 \notin 7..9 /\ 0 \notin 8..10 /\ 0 # 10
    OBVIOUS
  <2> QED
    BY <2>1, <2>2, Zenon
<1>7. Held
  BY <1>6, Zenon DEF Held
<1>8. SeesItsOwnCloud /\ JsonKept
  BY <1>4 DEF SeesItsOwnCloud, JsonKept, JsonIsOfStack
<1> QED
  BY <1>3, <1>5, <1>7, <1>8 DEF IInv

LEMMA StepKeeps == ASSUME IInv, [Next]_vars PROVE IInv'
<1>1. ASSUME NEW p \in Pools, Call(p) PROVE IInv'
  BY <1>1, CallKeeps
<1>2. ASSUME NEW p \in Pools, Read(p) PROVE IInv'
  BY <1>2, ReadKeeps
<1>3. ASSUME NEW p \in Pools, KeepOldName(p) PROVE IInv'
  BY <1>3, KeepOldNameKeeps
<1>4. ASSUME NEW p \in Pools, Rename(p) PROVE IInv'
  BY <1>4, RenameKeeps
<1>5. ASSUME NEW p \in Pools, Marshal(p) PROVE IInv'
  BY <1>5, MarshalKeeps
<1>6. ASSUME NEW p \in Pools, Restore(p) PROVE IInv'
  BY <1>6, RestoreKeeps
<1>7. CASE UNCHANGED vars
  BY <1>7 DEF vars, IInv, TypeOK, HoldsAlone, LentBeside, NameKept, Holds, Held,
              SeesItsOwnCloud, JsonKept, JsonIsOfStack, StepsOf
<1> QED
  BY <1>1, <1>2, <1>3, <1>4, <1>5, <1>6, <1>7 DEF Next

\* However many pools and calls there are, and however they overlap: every template of a
\* payload reads the cluster's own cloud unless another call has had the name in its hands
\* beside it, or two have met (types.go:773-785).
THEOREM OwnCloudIsSeen == Spec => []SeesItsOwnCloud
<1>1. IInv /\ [Next]_vars => IInv'
  BY StepKeeps
<1>2. IInv => SeesItsOwnCloud
  BY DEF IInv
<1> QED
  BY InitHolds, <1>1, <1>2, PTL DEF Spec

\* And until two have met, the new name is what is marshalled, and the cluster has its own
\* back as soon as no call has the name in its hands: whatever Linux calls do meanwhile.
THEOREM NameIsLent == Spec => []NameIsTheJsonsOnly
<1>1. IInv /\ [Next]_vars => IInv'
  BY StepKeeps
<1>2. IInv => NameIsTheJsonsOnly
  BY DEF IInv, NameKept, JsonKept, NameIsTheJsonsOnly
<1> QED
  BY InitHolds, <1>1, <1>2, PTL DEF Spec
=============================================================================
