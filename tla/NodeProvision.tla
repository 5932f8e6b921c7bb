--------------------------- MODULE NodeProvision ---------------------------
(***************************************************************************)
(* The provisioning of one Linux node: cloud-init writing its files while  *)
(* the custom script extension (CSE) runs, waits for those files, installs *)
(* and starts things, and may be killed and run again.                     *)
(*                                                                         *)
(* The steps of a run are data (CseScript gives those of this repository); *)
(* this module says what each kind of step does to the node: the loops of  *)
(* cse_helpers.sh, the exits of cse_main.sh, and the environment's moves.  *)
(***************************************************************************)
EXTENDS Integers, Sequences, FiniteSets

CONSTANTS
    Configs,        \* the template configurations considered
    Steps(_),       \* Steps(c): the steps of a CSE run under configuration c
    Files(_),       \* Files(c): the files cloud-init writes, in order
    OnImage(_),     \* OnImage(c): the files the image carries already
    Brings(_),      \* Brings(cmd): the units that the package cmd installs starts by itself
    Racing,         \* files that are read though nothing makes sure that they are there
    NoMarker,       \* files without the marker line that wait_for_file looks for
    BootUnits,      \* units that systemctl enable makes start at boot
    ActiveAtBoot,   \* the sets of units that may be running when the node boots
    Verdicts,       \* exit codes the agent is told of a node that has been provisioned
    Early,          \* exit codes of a run that could not begin its work
    Polls,          \* bound: looks at a file before a wait gives up (1200 or 3600)
    MaxRuns         \* bound: runs of the CSE

Ops == {"check", "poll", "strip", "wait", "do", "run", "start", "disable",
        "until", "lock", "settle", "edit", "probe", "finish"}

Step == [op : Ops, on : STRING, err : Nat, uses : SUBSET STRING]

\* A run ends at its last step and nowhere before it by falling through.
ASSUME ScriptAssumption ==
    \A c \in Configs :
        /\ Steps(c) \in Seq(Step)
        /\ Steps(c) # <<>>
        /\ \A i \in DOMAIN Steps(c) :
              Steps(c)[i].op = "finish" <=> i = Len(Steps(c))

\* cloud-init writes no file twice.
ASSUME FilesAssumption ==
    \A c \in Configs :
        /\ Files(c) \in Seq(STRING)
        /\ OnImage(c) \subseteq STRING
        /\ \A i, j \in DOMAIN Files(c) : Files(c)[i] = Files(c)[j] => i = j

ASSUME PackagesAssumption ==
    \A c \in Configs : \A i \in DOMAIN Steps(c) : Brings(Steps(c)[i].on) \subseteq STRING

ASSUME BoundsAssumption ==
    /\ Polls \in Nat \ {0}
    /\ MaxRuns \in Nat
    /\ ActiveAtBoot \subseteq SUBSET STRING

Running == -1                          \* no exit code yet
Killed == -2                           \* the run was killed and reports nothing
AzureDnsErr == 53                      \* nslookup failed at Azure's own resolver

VARIABLES
    conf,        \* the configuration the templates were expanded with
    written,     \* how many files of Files(conf) cloud-init has finished
    stripped,    \* files whose marker line the CSE has deleted
    paved,       \* cloud-init-files.paved: files some wait has seen
    pc,          \* the step the current run is at, 0 when no run is going on
    second,      \* TRUE: between the two effects of a wait or of a start
    tries,       \* looks the current waiting loop has taken
    running,     \* units that are running
    enabled,     \* units that are enabled
    done,        \* exit-checked commands and starts that have succeeded
    edits,       \* changes that the set-up of a custom cloud has made to the node
    overlay,     \* the CNI daemon set has written its configuration
    complete,    \* provision.complete exists
    verr,        \* VALIDATION_ERR
    reboot,      \* a reboot is scheduled
    result,      \* what the latest run reported
    runs         \* runs begun

node == <<stripped, paved, running, enabled, done, edits>>
control == <<pc, second, tries, verr, result, runs>>
vars == <<conf, written, node, overlay, complete, reboot, control>>

-----------------------------------------------------------------------------
Here == Steps(conf)[pc]
At(op) == pc # 0 /\ Here.op = op

\* Files cloud-init delivers; the other ones it never touches.
Delivered == {Files(conf)[i] : i \in DOMAIN Files(conf)}

\* Files with their final content.
Whole == {Files(conf)[i] : i \in 1..written} \cup (OnImage(conf) \ Delivered)

\* Files in which grep -F '#EOF' finds something.
Marked == ((Whole \cup OnImage(conf)) \ stripped) \ NoMarker

(***************************************************************************)
(* Moves of the run: on to the next step, or out with an exit code.        *)
(***************************************************************************)
Advance ==
    /\ pc' = pc + 1
    /\ second' = FALSE
    /\ tries' = 0
    /\ UNCHANGED <<result, runs>>

Exit(code) ==
    /\ pc' = 0
    /\ second' = FALSE
    /\ tries' = 0
    /\ result' = code
    /\ UNCHANGED runs

Init ==
    /\ conf \in Configs
    /\ written = 0
    /\ stripped = {}
    /\ paved = {}
    /\ pc = 0
    /\ second = FALSE
    /\ tries = 0
    /\ running \in ActiveAtBoot
    /\ enabled = running
    /\ done = {}
    /\ edits = 0
    /\ overlay = FALSE
    /\ complete = FALSE
    /\ verr = 0
    /\ reboot = FALSE
    /\ result = Running
    /\ runs = 0

-----------------------------------------------------------------------------
(***************************************************************************)
(* cloud-init and the guest agent                                          *)
(***************************************************************************)
\* The next file of nodecustomdata.yml gets its final content, marker and all.
CloudInitWrites ==
    /\ written < Len(Files(conf))
    /\ written' = written + 1
    /\ stripped' = stripped \ {Files(conf)[written + 1]}
    /\ UNCHANGED <<conf, paved, running, enabled, done, edits, overlay, complete, reboot, control>>

\* The agent runs the extension: cse_cmd.sh from its first line.
BeginRun ==
    /\ pc = 0
    /\ runs < MaxRuns
    /\ runs' = runs + 1
    /\ pc' = 1
    /\ second' = FALSE
    /\ tries' = 0
    /\ verr' = 0
    /\ result' = Running
    /\ UNCHANGED <<conf, written, node, overlay, complete, reboot>>

\* The agent's time limit ends the run where it is.
Kill ==
    /\ pc # 0
    /\ Exit(Killed)
    /\ UNCHANGED <<conf, written, node, overlay, complete, reboot, verr>>

\* shutdown -r 1: only what is enabled and installable comes back.
Reboot ==
    /\ reboot
    /\ pc = 0
    /\ reboot' = FALSE
    /\ running' = enabled \cap BootUnits
    /\ UNCHANGED <<conf, written, stripped, paved, enabled, done, edits, overlay, complete, control>>

\* The CNI daemon set, a pod kubelet starts, writes its configuration file.
OverlayReady ==
    /\ "kubelet" \in running
    /\ ~overlay
    /\ overlay' = TRUE
    /\ UNCHANGED <<conf, written, node, complete, reboot, control>>

-----------------------------------------------------------------------------
(***************************************************************************)
(* if [ -f provision.complete ]; then ... exit 0                           *)
(***************************************************************************)
AlreadyRan ==
    /\ At("check")
    /\ complete
    /\ Exit(0)
    /\ UNCHANGED <<conf, written, node, overlay, complete, reboot, verr>>

NotYetRan ==
    /\ At("check")
    /\ ~complete
    /\ Advance
    /\ UNCHANGED <<conf, written, node, overlay, complete, reboot, verr>>

(***************************************************************************)
(* The loops that look for a file once a second and give up.               *)
(***************************************************************************)
\* What the loop at the current step looks for.
Found ==
    CASE Here.op = "poll" -> Here.on \in Whole
      [] Here.op = "strip" -> Here.on \in Marked
      [] Here.op = "wait" -> Here.on \in Marked
      [] OTHER -> FALSE

\* The step is a loop that has not seen its file yet.
Looking ==
    /\ pc # 0
    /\ Here.op \in {"poll", "strip", "wait"}
    /\ ~second
    /\ Here.op = "wait" => Here.on \notin paved

PollSees ==
    /\ At("poll")
    /\ Found
    /\ Advance
    /\ UNCHANGED <<conf, written, node, overlay, complete, reboot, verr>>

\* cse_main.sh deletes the marker of the helpers and records nothing.
StripSees ==
    /\ At("strip")
    /\ Found
    /\ stripped' = stripped \cup {Here.on}
    /\ Advance
    /\ UNCHANGED <<conf, written, paved, running, enabled, done, edits, overlay, complete, reboot, verr>>

\* wait_for_file returns at once for a file some wait has seen before.
WaitPaved ==
    /\ At("wait")
    /\ ~second
    /\ Here.on \in paved
    /\ Advance
    /\ UNCHANGED <<conf, written, node, overlay, complete, reboot, verr>>

\* The marker is there: delete it ...
WaitSees ==
    /\ At("wait")
    /\ Looking
    /\ Found
    /\ stripped' = stripped \cup {Here.on}
    /\ second' = TRUE
    /\ UNCHANGED <<conf, written, paved, running, enabled, done, edits, overlay, complete, reboot,
                   pc, tries, verr, result, runs>>

\* Slip: the file is not remembered, so a second wait looks for the marker again.
WaitForgets ==
    /\ At("wait")
    /\ second
    /\ Advance
    /\ UNCHANGED <<conf, written, node, overlay, complete, reboot, verr>>

\* ... and then remember the file.
WaitPaves ==
    /\ At("wait")
    /\ second
    /\ paved' = paved \cup {Here.on}
    /\ Advance
    /\ UNCHANGED <<conf, written, stripped, running, enabled, done, edits, overlay, complete, reboot, verr>>

\* Slip: a loop that goes on past its last look.
LookAgainPastLast ==
    /\ Looking
    /\ ~Found
    /\ tries' = tries + 1
    /\ UNCHANGED <<conf, written, node, overlay, complete, reboot,
                   pc, second, verr, result, runs>>

\* Slip: a loop that does not count.
LookAgainUncounted ==
    /\ Looking
    /\ ~Found
    /\ UNCHANGED vars

LookAgain ==
    /\ Looking
    /\ ~Found
    /\ tries + 1 < Polls
    /\ tries' = tries + 1
    /\ UNCHANGED <<conf, written, node, overlay, complete, reboot,
                   pc, second, verr, result, runs>>

\* Slip: the loop ends and its caller takes that for success of the run.
GiveUpWithZero ==
    /\ Looking
    /\ ~Found
    /\ tries + 1 = Polls
    /\ Exit(0)
    /\ UNCHANGED <<conf, written, node, overlay, complete, reboot, verr>>

\* The last look, with i equal to the number of retries, gives up.
GiveUp ==
    /\ Looking
    /\ ~Found
    /\ tries + 1 = Polls
    /\ Exit(Here.err)
    /\ UNCHANGED <<conf, written, node, overlay, complete, reboot, verr>>

-----------------------------------------------------------------------------
(***************************************************************************)
(* Commands                                                                *)
(***************************************************************************)
\* A command whose status nobody looks at.
DoStep ==
    /\ At("do")
    /\ Advance
    /\ UNCHANGED <<conf, written, node, overlay, complete, reboot, verr>>

\* cmd || exit err
RunSucceeds ==
    /\ At("run")
    /\ done' = done \cup {Here.on}
    /\ Advance
    /\ UNCHANGED <<conf, written, stripped, paved, running, enabled, edits, overlay, complete, reboot, verr>>

\* While its command runs, a package that is being installed starts and enables its units;
\* one that is there already does not.
PackageStarts ==
    /\ At("run")
    /\ running' = running \cup Brings(Here.on)
    /\ enabled' = enabled \cup Brings(Here.on)
    /\ UNCHANGED <<conf, written, stripped, paved, done, edits, overlay, complete, reboot, control>>

RunFails ==
    /\ At("run")
    /\ Exit(Here.err)
    /\ UNCHANGED <<conf, written, node, overlay, complete, reboot, verr>>

\* A command that changes the node however often it has run before.
Edits ==
    /\ At("edit")
    /\ edits' = edits + 1
    /\ Advance
    /\ UNCHANGED <<conf, written, stripped, paved, running, enabled, done, overlay, complete,
                   reboot, verr>>

\* systemctlEnableAndStart: systemctl_restart first ...
Restarts ==
    /\ At("start")
    /\ ~second
    /\ running' = running \cup {Here.on}
    /\ second' = TRUE
    /\ UNCHANGED <<conf, written, stripped, paved, enabled, done, edits, overlay, complete, reboot,
                   pc, tries, verr, result, runs>>

\* Slip: systemctlEnableAndStart without its first return 1.
RestartFailsUnnoticed ==
    /\ At("start")
    /\ ~second
    /\ second' = TRUE
    /\ UNCHANGED <<conf, written, node, overlay, complete, reboot, pc, tries, verr, result, runs>>

\* ... which leaves the unit as it was or stopped when every try fails.
RestartFails ==
    /\ At("start")
    /\ ~second
    /\ running' \in {running, running \ {Here.on}}
    /\ Exit(Here.err)
    /\ UNCHANGED <<conf, written, stripped, paved, enabled, done, edits, overlay, complete, reboot, verr>>

\* Slip: the unit is started and not enabled.
StartsOnly ==
    /\ At("start")
    /\ second
    /\ done' = done \cup {Here.on}
    /\ Advance
    /\ UNCHANGED <<conf, written, stripped, paved, running, enabled, edits, overlay, complete, reboot,
                   verr>>

\* ... then systemctl enable.
Enables ==
    /\ At("start")
    /\ second
    /\ enabled' = enabled \cup {Here.on}
    /\ done' = done \cup {Here.on}
    /\ Advance
    /\ UNCHANGED <<conf, written, stripped, paved, running, edits, overlay, complete, reboot, verr>>

EnableFails ==
    /\ At("start")
    /\ second
    /\ Exit(Here.err)
    /\ UNCHANGED <<conf, written, node, overlay, complete, reboot, verr>>

\* systemctl is-active --quiet other && ( systemctl_disable other || exit err )
OtherInactive ==
    /\ At("disable")
    /\ Here.on \notin running
    /\ Advance
    /\ UNCHANGED <<conf, written, node, overlay, complete, reboot, verr>>

DisablesOther ==
    /\ At("disable")
    /\ Here.on \in running
    /\ enabled' = enabled \ {Here.on}
    /\ Advance
    /\ UNCHANGED <<conf, written, stripped, paved, running, done, edits, overlay, complete, reboot, verr>>

\* The exit leaves the parentheses, which are a subshell, and not the script.
DisableFails ==
    /\ At("disable")
    /\ Here.on \in running
    /\ Advance
    /\ UNCHANGED <<conf, written, node, overlay, complete, reboot, verr>>

\* while [ ! -f 10-antrea.conf ]; do sleep 3; done
OverlaySeen ==
    /\ At("until")
    /\ overlay
    /\ Advance
    /\ UNCHANGED <<conf, written, node, overlay, complete, reboot, verr>>

\* while fuser (the locks of apt); do sleep 3; done
LocksFree ==
    /\ At("lock")
    /\ Advance
    /\ UNCHANGED <<conf, written, node, overlay, complete, reboot, verr>>

\* cloud-init status --wait returns when cloud-init is through.
Settles ==
    /\ At("settle")
    /\ written = Len(Files(conf))
    /\ Advance
    /\ UNCHANGED <<conf, written, node, overlay, complete, reboot, verr>>

-----------------------------------------------------------------------------
(***************************************************************************)
(* The end of cse_main.sh                                                  *)
(***************************************************************************)
\* Slip: provision.complete is touched before the MIG partitions are made.
ProbeCompletes ==
    /\ At("probe")
    /\ complete' = TRUE
    /\ Advance
    /\ UNCHANGED <<conf, written, node, overlay, reboot, verr>>

\* The name or the port of the API server answers, or an earlier probe failed.
ProbeSucceeds ==
    /\ At("probe")
    /\ Advance
    /\ UNCHANGED <<conf, written, node, overlay, complete, reboot, verr>>

ProbeFails ==
    /\ At("probe")
    /\ verr = 0
    /\ verr' \in {Here.err} \cup {e \in {AzureDnsErr} : Here.on = "nslookup apiserver"}
    /\ Advance
    /\ UNCHANGED <<conf, written, node, overlay, complete, reboot>>

\* shutdown -r 1 if wanted; touch provision.complete; exit $VALIDATION_ERR
Finishes ==
    /\ At("finish")
    /\ complete' = TRUE
    /\ reboot' = (reboot \/ Here.on = "reboot")
    /\ Exit(verr)
    /\ UNCHANGED <<conf, written, node, overlay, verr>>

CseStep ==
    \/ AlreadyRan \/ NotYetRan
    \/ PollSees \/ StripSees \/ WaitPaved \/ WaitSees \/ WaitPaves \/ LookAgain \/ GiveUp
    \/ DoStep \/ RunSucceeds \/ PackageStarts \/ RunFails \/ Edits
    \/ Restarts \/ RestartFails \/ Enables \/ EnableFails
    \/ OtherInactive \/ DisablesOther \/ DisableFails
    \/ OverlaySeen \/ ProbeSucceeds \/ ProbeFails \/ Finishes

\* The waits that end when another process lets them: the loop over apt's locks, and the
\* one for the end of cloud-init.
LetGo == LocksFree \/ Settles

Environment == CloudInitWrites \/ BeginRun \/ Kill \/ Reboot \/ OverlayReady \/ LetGo

Next == CseStep \/ Environment

Spec == Init /\ [][Next]_vars

\* The shell keeps going.  Nobody promises that cloud-init finishes, that other processes
\* release the locks of apt, that the CNI daemon set comes up, or that the agent runs the
\* extension again.
FairSpec == Spec /\ WF_vars(CseStep)

-----------------------------------------------------------------------------
(***************************************************************************)
(* Properties                                                              *)
(***************************************************************************)
\* Every variable stays in its type; a run never falls off the script's end.
TypeOK ==
    /\ conf \in Configs
    /\ written \in 0..Len(Files(conf))
    /\ stripped \subseteq STRING
    /\ paved \subseteq STRING
    /\ pc \in 0..Len(Steps(conf))
    /\ second \in BOOLEAN
    /\ tries \in 0..(Polls - 1)
    /\ running \subseteq STRING
    /\ enabled \subseteq STRING
    /\ done \subseteq STRING
    /\ edits \in Nat
    /\ overlay \in BOOLEAN
    /\ complete \in BOOLEAN
    /\ verr \in Nat
    /\ reboot \in BOOLEAN
    /\ result \in Nat \cup {Running, Killed}
    /\ runs \in 0..MaxRuns

\* No command of the CSE runs, and no unit is started, before cloud-init has
\* finished every file it reads, the five Racing ones apart.  Most of these files
\* are never waited for: that they are there rests on the order of
\* nodecustomdata.yml and on the waits of other functions.
CommandsFindTheirFiles == (UNION {Steps(conf)[i].uses : i \in 1..pc}) \ Racing \subseteq Whole

\* The discipline behind it, a condition on the scripts alone: each file a step
\* reads, but for those left out, is on the image for good, or cloud-init writes it
\* no later than some file that an earlier step looks for and the image does not
\* carry, or an earlier step waits for the end of cloud-init.
Covered(script, order, baked, left) ==
    LET looks == {i \in DOMAIN script : script[i].op \in {"poll", "strip", "wait"}}
        delivered == {order[k] : k \in DOMAIN order}
    IN \A i \in DOMAIN script : \A f \in script[i].uses \ left :
          \/ f \in baked \ delivered
          \/ f \in delivered /\ \E j \in 1..(i - 1) : script[j].op = "settle"
          \/ \E j \in looks :
                /\ j < i
                /\ script[j].on \notin baked
                /\ \E m \in DOMAIN order :
                      order[m] = script[j].on /\ \E k \in 1..m : order[k] = f

\* What the waits establish, in a form each step preserves.  A marker seen may be
\* one the image brought; only a file that is not on the image is then Whole.
SeenFiles == Whole \cup OnImage(conf)

LooksSawTheirFiles ==
    /\ paved \subseteq SeenFiles
    /\ \A j \in 1..(pc - 1) :
          Steps(conf)[j].op \in {"poll", "strip", "wait"} => Steps(conf)[j].on \in SeenFiles
    /\ At("wait") /\ second => Here.on \in SeenFiles
    /\ \A j \in 1..(pc - 1) : Steps(conf)[j].op = "settle" => written = Len(Files(conf))

\* provision.complete is only there when some run got every command that is
\* checked with || exit, and every unit it starts and enables, to succeed.
CompleteMeansDone ==
    complete => \A i \in DOMAIN Steps(conf) :
                    Steps(conf)[i].op \in {"run", "start"} => Steps(conf)[i].on \in done

\* The same of the part of the script a run has been through: a run that is at a
\* step has got everything before it done.
DoneSoFar ==
    /\ CompleteMeansDone
    /\ \A i \in 1..(pc - 1) :
          Steps(conf)[i].op \in {"run", "start"} => Steps(conf)[i].on \in done

\* A completed node runs every unit the CSE starts, kubelet and the container runtime
\* among them, also after the reboot the CSE schedules: what is started is enabled, and
\* only a unit that systemctl enable cannot make start at boot is gone then.
CompleteNodeServes ==
    complete => \A i \in DOMAIN Steps(conf) :
                    Steps(conf)[i].op = "start" /\ Steps(conf)[i].on \in BootUnits
                        => Steps(conf)[i].on \in running

\* The same of the part of the script a run has been through, with what makes it last.
ServesSoFar ==
    /\ \A i \in DOMAIN Steps(conf) :
          Steps(conf)[i].op = "start" /\ (complete \/ i < pc) =>
             /\ Steps(conf)[i].on \in enabled
             /\ Steps(conf)[i].on \in BootUnits => Steps(conf)[i].on \in running
    /\ At("start") /\ second => Here.on \in running

\* A condition on the scripts alone: what is started is not disabled.
NothingUndone(script) ==
    \A i, j \in DOMAIN script :
        script[i].op = "start" /\ script[j].op = "disable" => script[i].on # script[j].on

\* Conditions on the scripts alone: every start of a unit comes after a checked command,
\* and after every start of another unit, of which there is one.
Starts(script, unit) == {i \in DOMAIN script : script[i].op = "start" /\ script[i].on = unit}
CommandFirst(script, cmd, unit) ==
    \A i \in Starts(script, unit) :
        \E j \in 1..(i - 1) : script[j].op = "run" /\ script[j].on = cmd
UnitFirst(script, first, unit) ==
    /\ Starts(script, first) # {}
    /\ \A i \in Starts(script, unit), j \in Starts(script, first) : j < i

RuntimeOf(c) == IF "containerd" \in c THEN "containerd" ELSE "docker"

\* "containerd should not be configured until cni has been configured first"
\* (cse_main.sh): kubelet, which puts pods on the bridge, never runs on a node where the
\* bridge netfilter module was not loaded and the runtime then restarted with its
\* configuration, though the runtime's package runs it long before, and whenever earlier
\* runs were killed.  On a GPU node nvidia-modprobe.service restarts kubelet by itself.
KubeletAfterCni ==
    "kubelet" \in running /\ "gpu" \notin conf =>
        {"modprobe br_netfilter", RuntimeOf(conf)} \subseteq done

\* The same of what the next boot starts.
CniSoFar ==
    "kubelet" \in running \cup enabled =>
        {"modprobe br_netfilter", RuntimeOf(conf)} \subseteq done

\* Kubelet never runs without its container runtime, whatever failed in the first run and
\* whenever the node boots again after it (cse_main.sh; cse_config.sh, ensureKubelet).
KubeletAfterRuntime == "kubelet" \in running => RuntimeOf(conf) \in running

\* What makes it so in a first run, which starts the runtime before and once.
KubeletSoFar ==
    /\ pc # 0 => runs > 0
    /\ "kubelet" \in running \cup enabled =>
          /\ runs > 0 /\ RuntimeOf(conf) \in running \cap enabled
          /\ pc = 0 \/ \A j \in Starts(Steps(conf), RuntimeOf(conf)) : j < pc

\* The agent is told 0 only about a node that has been provisioned to the end.
ZeroMeansComplete == result = 0 => complete

\* A run that reports a timeout of a file has not seen a file that was there.
TimeoutMeansMissing == [][GiveUp => Here.on \notin Whole]_vars

\* What makes it so in a first run: no marker is gone but by a look the run has been through,
\* which no later look repeats, or, if both are waits, remembers.
Markers == {"strip", "wait"}
MarkersSoFar ==
    /\ pc # 0 => runs > 0
    /\ pc = 0 /\ runs = 0 => stripped = {}
    /\ pc # 0 => \A f \in stripped :
          \E i \in 1..pc :
             Steps(conf)[i].op \in Markers /\ Steps(conf)[i].on = f /\ (i < pc \/ second)
    /\ \A i \in 1..(pc - 1) : Steps(conf)[i].op = "wait" => Steps(conf)[i].on \in paved

\* A condition on the scripts alone.
MarkersOnce(script) ==
    \A i \in DOMAIN script :
        script[i].op \in Markers =>
            /\ script[i].on \notin NoMarker
            /\ \A j \in 1..(i - 1) :
                  script[j].op \in Markers /\ script[j].on = script[i].on =>
                      script[i].op = "wait" /\ script[j].op = "wait"

\* Once provision.complete exists, no run of the CSE touches the node again, unless it is
\* a node of a custom cloud: there init-aks-custom-cloud.sh changes it once more on every
\* run, for cse_cmd.sh runs it before anything looks at provision.complete.
CompleteIsFinal ==
    [][complete /\ ~Reboot /\ ~CloudInitWrites
          => UNCHANGED node \/ ("customCloud" \in conf /\ Edits)]_vars

\* What makes it so: nothing but looks, waits, commands that change no unit and no file,
\* and edits comes before the test of provision.complete ...
BeforeCheck == {"poll", "lock", "settle", "do", "run", "edit", "check"}
ChecksFirst(script) ==
    \E k \in DOMAIN script :
        /\ script[k].op = "check"
        /\ \A j \in 1..(k - 1) :
              script[j].op \in BeforeCheck \ {"check"} /\ Brings(script[j].on) = {}

\* ... and edits are made nowhere else and in custom clouds alone.
EditsOfCustomClouds(c, script) ==
    (\E i \in DOMAIN script : script[i].op = "edit") => "customCloud" \in c

\* A run never gets past that test on a completed node.
CompleteStopsRuns ==
    complete => \A j \in 1..(pc - 1) : Steps(conf)[j].op # "check"

\* "Already ran to success exiting...": the run that completed reported 0.
CompletedWithSuccess == [][Finishes => result' = 0]_vars

\* A run of the CSE stays nowhere for good, however late its files are, but in the three
\* waits without a bound: for the locks of apt, for the end of cloud-init on a node of a
\* custom cloud, and for the network configuration that another pod is to write.
RunsEnd ==
    (pc # 0) ~> (pc = 0 \/ At("lock") \/ At("settle") \/ (At("until") /\ ~overlay))

-----------------------------------------------------------------------------
\* The guest agent's view of the CSE: a node and its runs keep ProvisionContract.
Contract == INSTANCE ProvisionContract
    WITH busy <- pc # 0, provisioned <- complete, report <- result

ImplementsContract == Contract!CSpec

\* What the contract rests on, a condition on the scripts alone: what fails exits with
\* a code, the validation with one of its own, and the commands before the test of
\* provision.complete, which fail on a completed node too, with an early one.
ReportsAsAgreed(script) ==
    \A i \in DOMAIN script :
        /\ script[i].op \in {"poll", "strip", "wait", "run", "start"} => script[i].err # 0
        /\ script[i].op = "probe" => script[i].err \in Verdicts
        /\ script[i].op = "run" /\ (\A j \in 1..(i - 1) : script[j].op # "check")
              => script[i].err \in Early

\* A file that a run has seen at its place stays there: a poll that succeeded once
\* never gives up again.
PollsSaw ==
    \A i \in DOMAIN Steps(conf) :
        Steps(conf)[i].op = "poll" /\ (complete \/ i < pc) => Steps(conf)[i].on \in Whole
=============================================================================
