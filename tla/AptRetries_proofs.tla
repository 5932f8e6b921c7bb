------------------------- MODULE AptRetries_proofs -------------------------
(***************************************************************************)
(* Theorems about AptRetries, for every set of calls and number of tries.  *)
(***************************************************************************)
EXTENDS AptRetries, TLAPS

\* The first try starts with the numbers of the call.
LEMMA InitEstablishes == Init => IInv
<1> SUFFICES ASSUME Init PROVE IInv
  OBVIOUS
<1>1. call.asked \in Nat /\ call.asked >= 1
  BY CallsAssumption DEF Init
<1>2. UpdateTries \in Nat /\ Others \in Nat
  BY BoundsAssumption
<1>3. good \in BOOLEAN /\ held \in BOOLEAN
  BY Zenon DEF Init
<1>4. TypeOK
  BY <1>1, <1>2, <1>3 DEF Init, TypeOK
<1>5. SharedVariables
  BY DEF Init, SharedVariables
<1>6. TriesCounted /\ TriesAreTrue
  BY <1>1 DEF Init, TriesCounted, TriesAreTrue, ReportedTries, GivesUpAtLast
<1> QED
  BY <1>4, <1>5, <1>6 DEF IInv

\* Every step keeps the two loops within their words and the shared variables in step
\* with them, if installs ask for enough tries.
LEMMA VariablesKept ==
  ASSUME InstallsAskEnough, TypeOK, SharedVariables, [Next]_vars
  PROVE  TypeOK' /\ SharedVariables'
<1> USE CallsAssumption, BoundsAssumption DEF TypeOK
<1> DEFINE Asked == call.asked
<1>0. /\ Asked \in Nat \ {0}
      /\ call.fn = "apt_get_install" => Asked >= UpdateTries /\ UpdateTries >= 2
  BY DEF InstallsAskEnough
<1>u. UpdateTries \in Nat /\ UpdateTries >= 1
  OBVIOUS
<1>g. ASSUME TryFailed PROVE good' \in BOOLEAN /\ tries' \in Nat
  <2>1. good' \in BOOLEAN
    BY <1>g, Zenon DEF TryFailed
  <2>2. tries' \in Nat
    BY <1>g DEF TryFailed
  <2> QED
    BY <2>1, <2>2
<1> HIDE DEF Asked
<1>1. CASE TakeLocks
  BY <1>1 DEF TakeLocks, SharedVariables
<1>2. CASE ReleaseLocks
  BY <1>2 DEF ReleaseLocks, SharedVariables
<1>3. CASE WaitForAptLocks
  BY <1>3 DEF WaitForAptLocks, apt, observed, SharedVariables
<1>4. CASE TrySucceeds
  BY <1>4 DEF TrySucceeds, apt, SharedVariables
<1>5. CASE LastTryFails
  <2>1. TypeOK'
    BY <1>5, <1>g DEF LastTryFails, apt
  <2>2. SharedVariables'
    BY <1>5 DEF LastTryFails, TryFailed, apt, SharedVariables
  <2> QED
    BY <2>1, <2>2
<1>6. CASE TryFailsUpdate
  <2>1. k < UpdateTries
    BY <1>0, <1>6 DEF TryFailsUpdate, TryFailed, SharedVariables, Asked
  <2>2. TypeOK'
    BY <1>u, <1>6, <1>g DEF TryFailsUpdate, apt
  <2>3. SharedVariables'
    BY <1>6, <2>1 DEF TryFailsUpdate, TryFailed, apt, SharedVariables
  <2> QED
    BY <2>2, <2>3
<1>7. CASE TryFailsSleep
  <2>1. k # call.asked /\ k' = k + 1 /\ i' = k + 1 /\ at' = "wait" /\ said' = said /\ k < call.asked
    BY <1>7 DEF TryFailsSleep, TryFailed, NextTry, SharedVariables
  <2>2. TypeOK'
    BY <1>0, <1>7, <1>g, <2>1 DEF TryFailsSleep, apt, Asked
  <2>3. SharedVariables'
    BY <1>7, <2>1 DEF TryFailsSleep, TryFailed, apt, SharedVariables
  <2> QED
    BY <2>2, <2>3
<1>8. CASE UpdateSucceeds
  BY <1>8 DEF UpdateSucceeds, apt, observed, SharedVariables
<1>9. CASE UpdateFails
  <2>1. TypeOK'
    BY <1>9 DEF UpdateFails, apt, observed
  <2>2. SharedVariables'
    BY <1>9 DEF UpdateFails, apt, observed, SharedVariables
  <2> QED
    BY <2>1, <2>2
<1>10. CASE UpdateReturns
  <2>1. k < UpdateTries /\ k < call.asked /\ call.fn = "apt_get_install" /\ retries = UpdateTries
    BY <1>0, <1>10 DEF UpdateReturns, SharedVariables, Asked
  <2>2. k' = k + 1 /\ i' = k + 1 /\ at' = "wait" /\ said' = said
    BY <1>10, <2>1 DEF UpdateReturns, NextTry
  <2>3. TypeOK'
    BY <1>0, <1>10, <2>1, <2>2 DEF UpdateReturns, apt, Asked
  <2>4. SharedVariables'
    BY <1>10, <2>1, <2>2 DEF UpdateReturns, apt, SharedVariables
  <2> QED
    BY <2>3, <2>4
<1>11. CASE Returns
  BY <1>11 DEF Returns, apt, observed, SharedVariables
<1>12. CASE UNCHANGED vars
  BY <1>12 DEF vars, SharedVariables
<1> QED
  BY <1>1, <1>2, <1>3, <1>4, <1>5, <1>6, <1>7, <1>8, <1>9, <1>10, <1>11, <1>12
     DEF Next, ShellStep

\* Every step counts its try: as many are made as the loops have gone through words.
LEMMA TriesKept ==
  ASSUME InstallsAskEnough, IInv, [Next]_vars
  PROVE  TriesCounted' /\ TriesAreTrue'
<1> USE DEF IInv, TriesCounted, TriesAreTrue, ReportedTries, GivesUpAtLast
<1>1. /\ k \in Nat \ {0} /\ tries \in Nat /\ call.asked \in Nat \ {0} /\ UpdateTries \in Nat
      /\ k <= call.asked /\ inner \in Nat
      /\ call.fn = "apt_get_install" => call.asked >= UpdateTries
  BY CallsAssumption, BoundsAssumption DEF TypeOK, InstallsAskEnough
<1>2. CASE TakeLocks \/ ReleaseLocks \/ WaitForAptLocks
  BY <1>2 DEF TakeLocks, ReleaseLocks, WaitForAptLocks, observed
<1>3. CASE TrySucceeds
  BY <1>1, <1>3 DEF TrySucceeds, SharedVariables
<1>4. CASE LastTryFails
  BY <1>1, <1>4 DEF LastTryFails, TryFailed, SharedVariables
<1>5. CASE TryFailsUpdate
  BY <1>1, <1>5 DEF TryFailsUpdate, TryFailed, SharedVariables
<1>6. CASE TryFailsSleep
  BY <1>1, <1>6 DEF TryFailsSleep, TryFailed, NextTry, SharedVariables
<1>7. CASE UpdateSucceeds \/ UpdateFails
  BY <1>1, <1>7 DEF UpdateSucceeds, UpdateFails, observed, SharedVariables
<1>8. CASE UpdateReturns
  BY <1>1, <1>8 DEF UpdateReturns, NextTry, SharedVariables
<1>9. CASE Returns
  BY <1>9 DEF Returns, observed, SharedVariables
<1>10. CASE UNCHANGED vars
  BY <1>10 DEF vars
<1> QED
  BY <1>2, <1>3, <1>4, <1>5, <1>6, <1>7, <1>8, <1>9, <1>10 DEF Next, ShellStep

LEMMA StepKeeps ==
  ASSUME InstallsAskEnough, IInv, [Next]_vars
  PROVE  IInv'
  BY VariablesKept, TriesKept DEF IInv

\* A call that returns 0 has succeeded at its last try, with the variables shared as they
\* are, for every number of tries not below that of the nested update (and two or more).
THEOREM StatusIsTrue ==
  ASSUME InstallsAskEnough
  PROVE  Spec => []SuccessMeansDone
<1>1. IInv /\ [Next]_vars => IInv'
  BY StepKeeps
<1>2. IInv => SuccessMeansDone
  BY DEF IInv, SharedVariables, SuccessMeansDone
<1> QED
  BY InitEstablishes, <1>1, <1>2, PTL DEF Spec

\* What a call prints about its tries counts its own, and it gives up only after all the
\* tries it was asked for, or, as an install, after those of the nested update where that
\* is fewer: the variables the two share cost it tries, and never its truth.
THEOREM TriesAreTold ==
  ASSUME InstallsAskEnough
  PROVE  Spec => []TriesAreTrue
<1>1. IInv /\ [Next]_vars => IInv'
  BY StepKeeps
<1>2. IInv => TriesAreTrue
  BY DEF IInv
<1> QED
  BY InitEstablishes, <1>1, <1>2, PTL DEF Spec
=============================================================================
