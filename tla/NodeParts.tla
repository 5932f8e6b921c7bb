----------------------------- MODULE NodeParts -----------------------------
(***************************************************************************)
(* The parts of a Linux node beside the CSE's own sequence, in one model.  *)
(* No two of them share a variable, so a behaviour exercises one part,     *)
(* chosen at first, and the others stay idle: their interleavings would    *)
(* only multiply states that say nothing new.  AptRetries is extended; the *)
(* variables of the other parts are put into the slots s1 to s11.          *)
(***************************************************************************)
EXTENDS AptRetries, Sequences

\* The constants of the parts.  One that bears the name it has there is a number of the
\* source or a set of names; the others are bounds, told apart by the part they belong to.
CONSTANTS
    Placed, Written, Starts, Boots,                                     \* BindMount
    Moves, HostKills,                                                   \* ReconcileHosts
    RuleKills, RuleFailures, RuleReboots,                               \* EnsureNoDup
    DownloadTries,                                                      \* Downloads
    MarkTries,                                                          \* AgentHold
    BootDelay, Attempts, Pause, StartMinutes, Hangs, Restarts, Horizon, \* HealthMonitor
    Keys, Wanted, Other, LabelFailures, LabelWrites,                    \* NodeLabels
    Own, OtherVersions, ProxyVersion, ImageTries                        \* ContainerImages

VARIABLES
    part,                                       \* the part that is exercised
    s1, s2, s3, s4, s5, s6, s7, s8, s9, s10, s11  \* its variables

slots == <<s1, s2, s3, s4, s5, s6, s7, s8, s9, s10, s11>>
allVars == <<part, vars, slots>>

Parts == {"apt", "mount", "hosts", "dedup", "downloads", "hold", "monitor", "labels", "images"}

Mount == INSTANCE BindMount WITH
    dir <- s1, disk <- s2, sentinel <- s3, mount <- s4, script <- s5, starts <- s6,
    kubelet <- s7, boot <- s8

Hosts == INSTANCE ReconcileHosts WITH
    Kills <- HostKills,
    private <- s1, tag <- s2, lines <- s3, at <- s4, clusterIP <- s5, kills <- s6

Dedup == INSTANCE EnsureNoDup WITH
    Kills <- RuleKills, Failures <- RuleFailures, Reboots <- RuleReboots,
    promisc <- s1, network <- s2, chain <- s3, exists <- s4, jumps <- s5, at <- s6, spent <- s7

Fetch == INSTANCE Downloads WITH
    Tries <- DownloadTries,
    image <- s1, step <- s2, try <- s3, file <- s4, bin <- s5, kubectl <- s6, cliTool <- s7,
    wanted <- s8, code <- s9

Hold == INSTANCE AgentHold WITH
    Tries <- MarkTries,
    full <- s1, reboot <- s2, mark <- s3, tries <- s4, job <- s5, held <- s6, agent <- s7,
    run <- s8, code <- s9

Monitor == INSTANCE HealthMonitor WITH
    clock <- s1, runtime <- s2, age <- s3, starter <- s4, timer <- s5, monitor <- s6,
    attempt <- s7, due <- s8, hangs <- s9, restarts <- s10, takes <- s11

Labels == INSTANCE NodeLabels WITH
    Failures <- LabelFailures, Writes <- LabelWrites,
    registered <- s1, labels <- s2, script <- s3, missing <- s4, touched <- s5, failures <- s6,
    writes <- s7

Images == INSTANCE ContainerImages WITH
    Others <- OtherVersions, Tries <- ImageTries,
    store <- s1, up <- s2, clean <- s3, left <- s4, delete <- s5, unread <- s6, run <- s7,
    pulls <- s8, proxy <- s9, kubelet <- s10, code <- s11

\* The assumptions of the parts, whose reasons are there.
ASSUME MountAssumption == Mount!FilesAssumption /\ Mount!BoundsAssumption
ASSUME HostsAssumption == Hosts!BoundsAssumption
ASSUME DedupAssumption == Dedup!BoundsAssumption
ASSUME FetchAssumption == Fetch!TriesAssumption
ASSUME HoldAssumption == Hold!TriesAssumption
ASSUME MonitorAssumption == Monitor!ConstantsAssumption
ASSUME LabelsAssumption == Labels!WantedAssumption
ASSUME ImagesAssumption == Images!ConstantsAssumption

-----------------------------------------------------------------------------
\* The slots a part leaves empty.
Empty == 0
Empty10 == s10 = Empty /\ s11 = Empty
Empty9 == s9 = Empty /\ Empty10
Empty8 == s8 = Empty /\ Empty9
Empty7 == s7 = Empty /\ Empty8
EmptySlots ==
    /\ s1 = Empty /\ s2 = Empty /\ s3 = Empty /\ s4 = Empty /\ s5 = Empty /\ s6 = Empty
    /\ Empty7

\* An idle apt stays where one of its calls begins.
NoAptCall == Init /\ call = CHOOSE c \in Calls : TRUE

PartInit(p) ==
    \/ p = "mount" /\ Mount!Init /\ Empty9
    \/ p = "hosts" /\ Hosts!Init /\ Empty7
    \/ p = "dedup" /\ Dedup!Init /\ Empty8
    \/ p = "downloads" /\ Fetch!Init /\ Empty10
    \/ p = "hold" /\ Hold!Init /\ Empty10
    \/ p = "monitor" /\ Monitor!Init
    \/ p = "labels" /\ Labels!Init /\ Empty8
    \/ p = "images" /\ Images!Init

PartsInit ==
    \/ part = "apt" /\ Init /\ EmptySlots
    \/ NoAptCall /\ part \in Parts \ {"apt"} /\ PartInit(part)

PartNext ==
    \/ part = "mount" /\ Mount!Next /\ UNCHANGED <<s9, s10, s11>>
    \/ part = "hosts" /\ Hosts!Next /\ UNCHANGED <<s7, s8, s9, s10, s11>>
    \/ part = "dedup" /\ Dedup!Next /\ UNCHANGED <<s8, s9, s10, s11>>
    \/ part = "downloads" /\ Fetch!Next /\ UNCHANGED <<s10, s11>>
    \/ part = "hold" /\ Hold!Next /\ UNCHANGED <<s10, s11>>
    \/ part = "monitor" /\ Monitor!Next
    \/ part = "labels" /\ Labels!Next /\ UNCHANGED <<s8, s9, s10, s11>>
    \/ part = "images" /\ Images!Next

PartsNext ==
    \/ part = "apt" /\ Next /\ UNCHANGED <<part, slots>>
    \/ PartNext /\ UNCHANGED <<part, vars>>

(***************************************************************************)
(* Every part has the fairness of its own FairSpec.  Each action below     *)
(* takes one fair action of every part that has one: as part never         *)
(* changes, its weak fairness is that of all of them.                      *)
(***************************************************************************)
TheScript ==
    \/ part = "apt" /\ ShellStep
    \/ part = "hosts" /\ Hosts!ScriptStep
    \/ part = "dedup" /\ Dedup!ScriptStep
    \/ part = "downloads" /\ Fetch!Next
    \/ part = "hold" /\ Hold!RunSteps
    \/ part = "monitor" /\ (Monitor!CheckSucceeds \/ Monitor!AttemptFails \/ Monitor!Kill)
    \/ part = "labels" /\ Labels!List
    \/ part = "images" /\ Images!RunSteps

Systemd ==
    \/ part = "hosts" /\ Hosts!Restart
    \/ part = "dedup" /\ Dedup!Restart
    \/ part = "monitor" /\ Monitor!Elapse
    \/ part = "labels" /\ Labels!Restart

TheOutside ==
    \/ part = "apt" /\ ReleaseLocks
    \/ part = "hosts" /\ Hosts!Answered
    \/ part = "dedup" /\ Dedup!NetworkComes
    \/ part = "monitor" /\ Monitor!Tick
    \/ part = "labels" /\ Labels!Register
    \/ part = "images" /\ Images!PullProxy

Kubectl == part = "labels" /\ Labels!Write
TheCse == part = "monitor" /\ Monitor!StartRuntime
Enabling == part = "monitor" /\ Monitor!ensureMonitorService
TheRuntime == part = "monitor" /\ Monitor!ComesUp
Marking(m) == part = "hold" /\ Hold!MarkSteps(m)
Job(j) == part = "hold" /\ Hold!JobSteps(j)
CleanUp(n) == part = "images" /\ (Images!List(n) \/ Images!Remove(n))

PartsSafety == PartsInit /\ [][PartsNext]_allVars

PartsSpec ==
    /\ PartsSafety
    /\ WF_allVars(TheScript /\ PartsNext) /\ WF_allVars(Systemd /\ PartsNext)
    /\ WF_allVars(TheOutside /\ PartsNext)
    /\ WF_allVars(Kubectl /\ PartsNext) /\ WF_allVars(TheCse /\ PartsNext)
    /\ WF_allVars(Enabling /\ PartsNext) /\ WF_allVars(TheRuntime /\ PartsNext)
    /\ \A m \in Hold!Marks : WF_allVars(Marking(m) /\ PartsNext)
    /\ \A j \in Hold!Jobs : WF_allVars(Job(j) /\ PartsNext)
    /\ \A n \in Images!Names : WF_allVars(CleanUp(n) /\ PartsNext)

-----------------------------------------------------------------------------
\* Every variable of every part keeps its type.
PartsTypeOK ==
    /\ part \in Parts /\ TypeOK
    /\ part = "mount" => Mount!TypeOK
    /\ part = "hosts" => Hosts!TypeOK
    /\ part = "dedup" => Dedup!TypeOK
    /\ part = "downloads" => Fetch!TypeOK
    /\ part = "hold" => Hold!TypeOK
    /\ part = "monitor" => Monitor!TypeOK
    /\ part = "labels" => Labels!TypeOK
    /\ part = "images" => Images!TypeOK

\* The properties below are those of the parts, with the comments they have there: first
\* the invariants (SuccessMeansDone and TriesAreTrue are AptRetries' own), then what a step
\* may not do, then what happens in the end.
\* While /var/lib/kubelet is moved no file the CSE has placed is lost, and the sentinel and
\* the end of the script stand for a complete move (bind-mount.sh).
MoveKeepsFiles == part = "mount" => Mount!MoveKeepsFiles
\* Never two addresses for the API server in /etc/hosts (reconcile-private-hosts.sh).
OneAddress == part = "hosts" => Hosts!OneAddress
\* No packet goes through an incomplete chain unless a command other than the listing
\* failed, and a rule is there twice only where a listing failed (ensure-no-dup.sh).
RulesAreWhole == part = "dedup" => Dedup!RulesAreWhole
\* An installation that goes through has whole files (cse_install.sh).
WholeAtTheEnd == part = "downloads" => Fetch!WholeAtTheEnd
\* The run's own upgrade never touches walinuxagent (cse_main.sh, cse_helpers_ubuntu.sh).
AgentOutlivesRun == part = "hold" => Hold!AgentOutlivesRun
\* The label service ends with its labels there (update-node-labels.sh).
DoneMeansLabelled == part = "labels" => Labels!DoneMeansLabelled
\* Kubelet comes out of an image that is there (extractHyperkube).
SuccessHasKubelet == part = "images" => Images!SuccessHasKubelet

\* A download times out only for a file that has not come (cse_helpers.sh).
TimedOutMeansMissing == [][part = "downloads" => Fetch!TimesOutForMissing]_allVars
\* Only runcmd's late hold undoes the release (cse_main.sh, nodecustomdata.yml).
OnlyRuncmdHoldsAgain == [][part = "hold" => Hold!RuncmdHoldsAgain]_allVars
\* The monitor kills no runtime before its timer's time, nor one that it has killed
\* before the pause is over (health-monitor.sh, the timers).
KillsWhenDue == [][part = "monitor" => Monitor!KillIsDue]_allVars
\* What others may change leaves the rest alone: the label service removes no label, the
\* clean-ups no image of this version (update-node-labels.sh, cleanUpContainerImages).
LeavesTheRest ==
    [][/\ part = "labels" => Labels!OnlySetsWanted
       /\ part = "images" => Images!KeepsOwnImages]_allVars

\* Every part that is to end does: apt's calls and the wait for its locks, the download
\* loops, the label service, the clean-ups (cse_helpers.sh, cse_helpers_ubuntu.sh,
\* update-node-labels.sh, cse_install.sh).
EveryPartEnds ==
    <>(/\ part = "apt" => Returned
       /\ part = "downloads" => Fetch!Ended
       /\ part = "hold" => Hold!Quiet
       /\ part = "labels" => Labels!Succeeded
       /\ part = "images" => Images!AllClean)

\* Every part that is to keep something right comes to it: the API server's last address
\* is in /etc/hosts, the undisturbed rules are there, a runtime whose start does not
\* outlast the monitor's pause serves again (reconcile-private-hosts.sh, ensure-no-dup.sh,
\* health-monitor.sh).
EveryPartSettles ==
    <>[](/\ part = "hosts" => Hosts!LineIsLast
         /\ part = "dedup" => Dedup!CompleteIfQuiet
         /\ part = "monitor" => Monitor!Serves)
=============================================================================
