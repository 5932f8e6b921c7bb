----------------------------- MODULE AptRetries -----------------------------
(***************************************************************************)
(* The retry loops around apt (cse_helpers_ubuntu.sh), with the shell's    *)
(* scoping: apt_get_install calls apt_get_update between two tries, and    *)
(* both assign the same global variables retries and i.  The words of a    *)
(* for loop are expanded once, when it starts; the test for the last try   *)
(* reads the globals.  Another apt (the daily jobs, a background purge)    *)
(* takes and releases the locks at any time.                               *)
(***************************************************************************)
EXTENDS Naturals

CONSTANTS
    Calls,        \* the calls checked: a function and the tries it is asked for
    UpdateTries,  \* apt_get_update's own number of tries, 10
    Others        \* bound: how often another apt takes the locks

Functions == {"apt_get_install", "apt_get_purge", "apt_get_update", "apt_get_dist_upgrade"}

ASSUME CallsAssumption == Calls \subseteq [fn : Functions, asked : Nat \ {0}]
ASSUME BoundsAssumption == UpdateTries \in Nat \ {0} /\ Others \in Nat

VARIABLES
    call,     \* the call being made
    k,        \* position of its loop in the words of seq 1 $retries
    inner,    \* position of the loop of the nested apt_get_update, 0 outside
    i,        \* the global i
    retries,  \* the global retries
    at,       \* where the shell is
    held,     \* another apt holds the locks
    others,   \* how often it has taken them
    tries,    \* how often the call's own command has been tried
    good,     \* the call's own command succeeded when last tried
    said,     \* i as printed by "Executed ... $i times", 0 before
    result    \* the function's status, 2 before it returns

vars == <<call, k, inner, i, retries, at, held, others, tries, good, said, result>>

apt == <<held, others>>
observed == <<tries, good, said>>

\* Every variable keeps its type.
TypeOK ==
    /\ call \in Calls
    /\ k \in 1..call.asked
    /\ inner \in 0..UpdateTries
    /\ i \in Nat /\ retries \in Nat
    /\ at \in {"wait", "work", "after", "done"}
    /\ held \in BOOLEAN /\ others \in 0..Others
    /\ tries \in Nat /\ good \in BOOLEAN /\ said \in Nat
    /\ result \in 0..2

Init ==
    /\ call \in Calls
    /\ k = 1 /\ i = 1 /\ retries = call.asked /\ inner = 0
    /\ at = "wait"
    /\ held = FALSE /\ others = 0
    /\ tries = 0 /\ good = FALSE /\ said = 0 /\ result = 2

-----------------------------------------------------------------------------
\* Another apt: its locks are fuser's three files.
TakeLocks ==
    /\ ~held /\ others < Others
    /\ held' = TRUE /\ others' = others + 1
    /\ UNCHANGED <<call, k, inner, i, retries, at, tries, good, said, result>>

ReleaseLocks ==
    /\ held
    /\ held' = FALSE
    /\ UNCHANGED <<call, k, inner, i, retries, at, others, tries, good, said, result>>

\* wait_for_apt_locks: the locks are free now, not necessarily at the next command.
WaitForAptLocks ==
    /\ at = "wait" /\ ~held
    /\ at' = "work"
    /\ UNCHANGED <<call, k, inner, i, retries, apt, observed, result>>

-----------------------------------------------------------------------------
\* The call's loop takes its next word or, if there is none, falls off its end and
\* prints how many times it executed the command.
NextTry ==
    \/ /\ k < call.asked
       /\ k' = k + 1 /\ i' = k + 1
       /\ at' = "wait"
       /\ UNCHANGED said
    \/ /\ k = call.asked
       /\ at' = "after" /\ said' = i
       /\ UNCHANGED <<k, i>>

\* Its own command succeeds: break.
TrySucceeds ==
    /\ at = "work" /\ inner = 0 /\ ~held
    /\ at' = "after" /\ said' = i
    /\ tries' = tries + 1 /\ good' = TRUE
    /\ UNCHANGED <<call, k, inner, i, retries, apt, result>>

TryFailed ==
    /\ at = "work" /\ inner = 0
    /\ tries' = tries + 1 /\ good' = FALSE

\* Slip: break instead of return 1.
LastTryBreaks ==
    /\ TryFailed /\ i = retries
    /\ at' = "after" /\ said' = i
    /\ UNCHANGED <<call, k, inner, i, retries, apt, result>>

\* Slip: the last try is taken for reached one too early.
LastTryEarly ==
    /\ TryFailed /\ i + 1 >= retries
    /\ at' = "done" /\ result' = 1
    /\ UNCHANGED <<call, k, inner, i, retries, apt, said>>

\* The last try, by the globals, has failed: return 1.
LastTryFails ==
    /\ TryFailed /\ i = retries
    /\ at' = "done" /\ result' = 1
    /\ UNCHANGED <<call, k, inner, i, retries, apt, said>>

\* apt_get_install refreshes the package lists before it tries again.
TryFailsUpdate ==
    /\ TryFailed /\ i # retries
    /\ call.fn = "apt_get_install"
    /\ retries' = UpdateTries /\ i' = 1 /\ inner' = 1
    /\ at' = "wait"
    /\ UNCHANGED <<call, k, apt, said, result>>

\* The other functions only sleep.
TryFailsSleep ==
    /\ TryFailed /\ i # retries
    /\ call.fn # "apt_get_install"
    /\ NextTry
    /\ UNCHANGED <<call, inner, retries, apt, result>>

-----------------------------------------------------------------------------
\* The nested apt_get_update: it succeeds, and waits for the locks once more.
UpdateSucceeds ==
    /\ at = "work" /\ inner # 0 /\ ~held
    /\ at' = "after"
    /\ UNCHANGED <<call, k, inner, i, retries, apt, observed, result>>

\* Slip: the nested update goes on until it succeeds.
UpdateFailsUncounted ==
    /\ at = "work" /\ inner # 0
    /\ at' = "wait"
    /\ UNCHANGED <<call, k, inner, i, retries, apt, observed, result>>

\* Slip: the nested update does not look for its last try.
UpdateFailsPastLast ==
    /\ at = "work" /\ inner # 0
    /\ inner' = inner + 1 /\ i' = inner + 1
    /\ at' = "wait"
    /\ UNCHANGED <<call, k, retries, apt, observed, result>>

\* The nested update fails and sleeps; its last failure is UpdateReturns.
UpdateFails ==
    /\ at = "work" /\ inner # 0 /\ i # retries
    /\ inner < UpdateTries
    /\ inner' = inner + 1 /\ i' = inner + 1
    /\ at' = "wait"
    /\ UNCHANGED <<call, k, retries, apt, observed, result>>

\* Slip: the loop counts for itself and prints the i of the nested update.
UpdateReturnsStale ==
    /\ inner # 0
    /\ \/ at = "after" /\ ~held
       \/ at = "work" /\ i = retries
    /\ inner' = 0
    /\ IF k < call.asked
       THEN k' = k + 1 /\ at' = "wait" /\ UNCHANGED <<i, said>>
       ELSE at' = "after" /\ said' = i /\ UNCHANGED <<k, i>>
    /\ UNCHANGED <<call, retries, apt, tries, good, result>>

\* Whatever it returns, the loop of apt_get_install goes on.
UpdateReturns ==
    /\ inner # 0
    /\ \/ at = "after" /\ ~held
       \/ at = "work" /\ i = retries
    /\ inner' = 0
    /\ NextTry
    /\ UNCHANGED <<call, retries, apt, tries, good, result>>

\* The call's final wait for the locks, and return 0.
Returns ==
    /\ at = "after" /\ inner = 0 /\ ~held
    /\ at' = "done" /\ result' = 0
    /\ UNCHANGED <<call, k, inner, i, retries, apt, observed>>

ShellStep ==
    \/ WaitForAptLocks \/ TrySucceeds \/ LastTryFails \/ TryFailsUpdate \/ TryFailsSleep
    \/ UpdateSucceeds \/ UpdateFails \/ UpdateReturns \/ Returns

Next == ShellStep \/ TakeLocks \/ ReleaseLocks

Spec == Init /\ [][Next]_vars

\* The shell goes on, and another apt that has the locks ends some time.
FairSpec == Spec /\ WF_vars(ShellStep) /\ WF_vars(ReleaseLocks)

-----------------------------------------------------------------------------
\* Every install asks for at least as many tries as the nested update makes.
InstallsAskEnough ==
    UpdateTries >= 2 /\ \A c \in Calls : c.fn = "apt_get_install" => c.asked >= UpdateTries

\* The call's status is to be believed: it returns 0 only if the command it was
\* asked to try succeeded, at the last try.  All its callers rely on it.
SuccessMeansDone == result = 0 => good

\* "Executed ... $i times" counts the tries of the call, not those of the nested update.
ReportedTries == said # 0 => said = tries

\* A call gives up only after all the tries it was asked for.
TriesAsAsked == result = 1 => tries = call.asked

\* What holds of giving up with the shared variables: the nested update leaves its own
\* number of tries behind, so that an install that asks for more gets that many.
GivesUpAtLast ==
    result = 1 =>
        \/ tries = call.asked
        \/ call.fn = "apt_get_install" /\ tries = UpdateTries /\ UpdateTries < call.asked

\* The tries that are made are as many as were asked for and as are reported.
TriesAreTrue == ReportedTries /\ GivesUpAtLast

\* Why: outside the nested update the global i is the loop's own position, and retries what
\* the call was asked for, or what a nested update left, a number the loop has not passed;
\* inside it both are the nested update's.
SharedVariables ==
    /\ inner = 0 /\ at \in {"wait", "work"} =>
         /\ i = k
         /\ \/ retries = call.asked /\ (call.fn = "apt_get_install" => k = 1)
            \/ retries = UpdateTries /\ k <= UpdateTries /\ call.fn = "apt_get_install"
    /\ inner # 0 => /\ i = inner /\ retries = UpdateTries
                    /\ k < UpdateTries /\ call.fn = "apt_get_install"
    /\ inner = 0 /\ at = "after" => good
    /\ result = 0 => good
    /\ result = 2 <=> at # "done"

\* A try is counted before the loop goes on, and printed only at its end.
TriesCounted ==
    /\ at \in {"wait", "work"} \/ inner # 0 => said = 0
    /\ at \in {"wait", "work"} /\ inner = 0 => tries = k - 1
    /\ inner # 0 => tries = k

IInv == TypeOK /\ SharedVariables /\ TriesCounted /\ TriesAreTrue

\* Every call returns, although the waits for the locks have no bound.
Returned == at = "done"
CallReturns == <>Returned
=============================================================================
