---------------------------- MODULE WindowsSetup ----------------------------
(***************************************************************************)
(* A run of kuberneteswindowssetup.ps1 under csecmd.ps1, with failures of  *)
(* its commands, and the restarts of the machine: the one the end of the   *)
(* run schedules and others nobody asked for.  Kubelet's service is        *)
(* started by nothing but the startup task, so a node joins by a restart.  *)
(***************************************************************************)
EXTENDS WindowsScript, FiniteSets

CONSTANTS
    Nodes,          \* the sets of switches nodes come with
    MaxTries,       \* what every counted loop is scaled to (6, 60, 120, 360)
    MaxLogged,      \* bound on failures of their own that only the log shows
    MaxRestarts,    \* bound on restarts nobody asked for
    None            \* no result: a model value

ASSUME NodesAssumption == Nodes \subseteq Configurations
ASSUME NoneAssumption == None \notin Codes
ASSUME BoundsAssumption == MaxTries \in Nat \ {0} /\ MaxLogged \in Nat /\ MaxRestarts \in Nat

VARIABLES
    node,       \* the switches of this node
    at,         \* the command the script is at
    tries,      \* tries of that command so far
    things,     \* what is there
    logged,     \* commands that failed of their own and only the log shows it
    exitCode,   \* $global:ExitCode
    result,     \* the content of CSEResult.log, None if there is none
    wrote,      \* it is this run's
    reported,   \* what csecmd.ps1 exits with, None before
    run,        \* "csecmd", "script", "finally", "report", "over" or, by a restart, "cut"
    restarts,   \* restarts nobody asked for
    kubelet     \* kubelet runs

answer == <<result, wrote, reported>>
vars == <<node, at, tries, things, logged, exitCode, answer, run, restarts, kubelet>>

\* Every variable keeps its type; failures that only the log shows are counted.
TypeOK ==
    /\ node \in Nodes
    /\ at \in 1..(Len(Script(node)) + 1)
    /\ tries \in 0..(MaxTries - 1)
    /\ logged \subseteq 1..Len(Script(node)) /\ Cardinality(logged) <= MaxLogged
    /\ exitCode \in Codes
    /\ result \in Codes \cup {None} /\ wrote \in BOOLEAN /\ reported \in Codes \cup {None}
    /\ run \in {"csecmd", "script", "finally", "report", "over", "cut"}
    /\ restarts \in 0..MaxRestarts
    /\ kubelet \in BOOLEAN

\* What an earlier run on this machine has left of its result: it could not extract its
\* functions, or stopped as soon as it had them.
Earlier(left) ==
    \/ result = None /\ left = {}
    \/ result = 0 /\ left = {}
    \/ result = Thrown /\ left = {"scripts.zip", "function files"}

\* An image made for docker has it, perhaps, and no image a runtime of containerd.
Init ==
    /\ node \in Nodes
    /\ at = 1 /\ tries = 0
    /\ \E image \in (IF "containerd" \in Effective(node) THEN {{}} ELSE {{}, {"runtime service"}}),
          left \in {{}, {"scripts.zip", "function files"}} :
            Earlier(left) /\ things = image \cup left
    /\ logged = {} /\ exitCode = 0 /\ wrote = FALSE /\ reported = None
    /\ run = "csecmd" /\ restarts = 0 /\ kubelet = FALSE

-----------------------------------------------------------------------------
\* csecmd.ps1 copies the custom data to a script and invokes it.
Begins ==
    /\ run = "csecmd" /\ run' = "script"
    /\ UNCHANGED <<node, at, tries, things, logged, exitCode, answer, restarts, kubelet>>

\* The copy fails, or the script's parameters are refused: it does not run at all.
BeginsNot ==
    /\ run = "csecmd" /\ run' = "report"
    /\ UNCHANGED <<node, at, tries, things, logged, exitCode, answer, restarts, kubelet>>

Running == run = "script" /\ at <= Len(Script(node))
Current == Script(node)[at]

\* A command that finds all it needs may succeed.
Succeeds ==
    /\ Running /\ Current.needs \subseteq things
    /\ things' = (things \cup Current.makes) \ Current.drops
    /\ at' = at + 1 /\ tries' = 0
    /\ UNCHANGED <<node, logged, exitCode, answer, run, restarts, kubelet>>

\* Slip: a try in a loop is not counted.
TriesAgainUncounted ==
    /\ Running /\ Current.loop
    /\ UNCHANGED vars

\* Slip: the bound of a loop is one too high.
TriesAgainPastLast ==
    /\ Running /\ Current.loop
    /\ tries < MaxTries
    /\ tries' = tries + 1
    /\ UNCHANGED <<node, at, things, logged, exitCode, answer, run, restarts, kubelet>>

\* One more turn of a counted loop.
TriesAgain ==
    /\ Running /\ Current.loop
    /\ tries + 1 < MaxTries
    /\ tries' = tries + 1
    /\ UNCHANGED <<node, at, things, logged, exitCode, answer, run, restarts, kubelet>>

LastTry == Running /\ (Current.loop => tries + 1 = MaxTries)

\* windowscsehelper.ps1 was sourced.
HelperSourced == "windowscsehelper.ps1" \in things

\* Set-ExitCode, called by a function or, with 1, by the catch block.  Where it is not
\* known either call throws, and the finally block comes with the code as it was.
Exit(c) ==
    /\ exitCode' = IF HelperSourced THEN c ELSE exitCode
    /\ run' = "finally" /\ tries' = 0

\* The try block with a file of functions missing: whatever uses one throws.
Unsourced == Running /\ at > Len(SourceFunctions) /\ "functions" \notin things

Stops ==
    /\ \/ LastTry /\ \E c \in Current.codes \ {Logged} : Exit(c)
       \/ Unsourced /\ Exit(Thrown)
    /\ UNCHANGED <<node, at, things, logged, answer, restarts, kubelet>>

\* A failure nobody looks at, for want of something or of its own.
Shrugs ==
    /\ LastTry
    /\ Logged \in Current.codes
    /\ \/ ~(Current.needs \subseteq things) /\ UNCHANGED logged
       \/ Cardinality(logged) < MaxLogged /\ logged' = logged \cup {at}
    /\ at' = at + 1 /\ tries' = 0
    /\ UNCHANGED <<node, things, exitCode, answer, run, restarts, kubelet>>

\* The end of the try block.
Completes ==
    /\ run = "script" /\ at > Len(Script(node))
    /\ run' = "finally"
    /\ UNCHANGED <<node, at, tries, things, logged, exitCode, answer, restarts, kubelet>>

\* The finally block writes CSEResult.log.
WritesResult ==
    /\ run = "finally"
    /\ result' = exitCode /\ wrote' = TRUE /\ run' = "report"
    /\ UNCHANGED <<node, at, tries, things, logged, exitCode, reported, restarts, kubelet>>

\* Out-File fails, and nobody looks.
LosesResult ==
    /\ run = "finally" /\ run' = "report"
    /\ UNCHANGED <<node, at, tries, things, logged, exitCode, answer, restarts, kubelet>>

\* csecmd.ps1 exits with what it reads there: with 0 where there is no such file.
Reports ==
    /\ run = "report" /\ run' = "over"
    /\ reported' = IF result = None THEN 0 ELSE result
    /\ UNCHANGED <<node, at, tries, things, logged, exitCode, result, wrote, restarts, kubelet>>

\* windowsnodereset.ps1, by the startup task, starts kubelet after what it depends on.
Joins == {"reset task", "scripts", "Kubelet"} \cup KubeletDependOnServices(Effective(node))
             \subseteq things

\* The one-time task, 15 seconds after the end: the run is taken to be over by then.
PostponedRestart ==
    /\ run = "over" /\ "restart task" \in things
    /\ things' = things \ {"restart task"}
    /\ kubelet' = Joins
    /\ UNCHANGED <<node, at, tries, logged, exitCode, answer, run, restarts>>

\* The host restarts the machine, in the middle of a run or after it.
HostRestart ==
    /\ restarts < MaxRestarts
    /\ restarts' = restarts + 1
    /\ run' = IF run = "over" THEN "over" ELSE "cut"
    /\ kubelet' = Joins
    /\ UNCHANGED <<node, at, tries, things, logged, exitCode, answer>>

Step ==
    \/ Begins \/ BeginsNot
    \/ Succeeds \/ TriesAgain \/ Stops \/ Shrugs \/ Completes
    \/ WritesResult \/ LosesResult \/ Reports
Next == Step \/ PostponedRestart \/ HostRestart

Spec == Init /\ [][Next]_vars

(***************************************************************************)
(* The script goes on while the machine is up, and Windows runs a task     *)
(* that is due.  Nothing is assumed of the commands but that they end.     *)
(***************************************************************************)
FairSpec == Spec /\ WF_vars(Step) /\ WF_vars(PostponedRestart)

-----------------------------------------------------------------------------
\* Neither a command nor kubelet ever misses what it needs unless a command failed in
\* silence: the order of the script is right for every node, and so is that of its end,
\* where a restart nobody asked for may come at any moment after the startup task is
\* registered (kuberneteswindowssetup.ps1, try block).
FindsWhatItNeeds ==
    logged = {} =>
        /\ Running /\ "scaleSet" \in node => Current.needs \subseteq things
        /\ kubelet => KubeletParts(node) \subseteq things

\* Whatever failed in silence before: a run that schedules the restart which joins the
\* node has seen its runtime run, its pause image, the API server and calico's account,
\* and so has one that reports 0 of its own (CSEResult.log, the exits 5, 6, 12, 14).  A 0
\* is not its own where it could not write CSEResult.log, or not source Set-ExitCode.
LooksFirst ==
    \/ "restart task" \in things
    \/ reported = 0 /\ wrote /\ HelperSourced
    => Looked(Effective(node)) \subseteq things

\* A run that reports 0 with no silent failure ends with kubelet running.
SuccessJoins == (run = "over" /\ reported = 0 /\ wrote /\ logged = {}) ~> kubelet

\* Every run ends: its loops count.
RunEnds == <>(run \in {"over", "cut"})

\* kuberneteswindowssetup.ps1:406-407: "we need kubeconfig to setup calico even if TLS
\* bootstrapping is enabled. This kubeconfig will deleted after calico installation."
TemporaryConfigGoes ==
    (run = "over" /\ "tls" \in node /\ logged = {}) => "config" \notin things

-----------------------------------------------------------------------------
(***************************************************************************)
(* Why the safety properties hold, given that every script is in order: as *)
(* long as nothing failed in silence what was made is there, and in any    *)
(* case what ends the run when it fails.                                   *)
(***************************************************************************)
Makes(s) == UNION {s[n].makes : n \in DOMAIN s}

\* What was made, or seen, before the command the script is at.
MadeIsThere ==
    logged = {} =>
        \A x \in Makes(Script(node)) \ {"restart task"} : Made(Script(node), at, x) => x \in things
SeenIsThere ==
    \A x \in Makes(Script(node)) \ {"restart task"} : Seen(Script(node), at, x) => x \in things

\* A task that is there, or was when kubelet started, was registered by a command.
Registered(t) == \E n \in 1 .. at - 1 : t \in Script(node)[n].makes
TasksWereMade ==
    /\ kubelet \/ "reset task" \in things => Registered("reset task")
    /\ "restart task" \in things => Registered("restart task")

\* With Set-ExitCode nothing but the end of the script makes a 0 that is the run's own.
ZeroIsTheEnd ==
    /\ run = "csecmd" => ~HelperSourced
    /\ run \in {"csecmd", "script"} => exitCode = 0 /\ ~wrote
    /\ run = "finally" => ~wrote
    /\ run \in {"finally", "report", "over"} /\ exitCode = 0 /\ HelperSourced =>
          at = Len(Script(node)) + 1
    /\ wrote => result # None /\ (result = 0 /\ HelperSourced => at = Len(Script(node)) + 1)
    /\ reported = 0 /\ wrote => result = 0
    /\ reported # None => run = "over"

IInv == TypeOK /\ MadeIsThere /\ SeenIsThere /\ TasksWereMade /\ ZeroIsTheEnd
=============================================================================
