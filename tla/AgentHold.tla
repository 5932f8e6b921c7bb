----------------------------- MODULE AgentHold ------------------------------
(***************************************************************************)
(* The hold on the package of the guest agent, walinuxagent, which would   *)
(* restart in the middle of the run if it were upgraded.  Three set or     *)
(* release it: cloud-init's runcmd (nodecustomdata.yml), installDeps of a  *)
(* node without a prepared image, and the end of cse_main.sh, whose        *)
(* release runs in the background, beside a purge and apt's daily job, and *)
(* within a minute of the reboot where one is due.                         *)
(*                                                                         *)
(* aptmarkWALinuxAgent looks at apt's locks and then tries apt-mark, which *)
(* fails while somebody has them.                                          *)
(***************************************************************************)
EXTENDS Naturals

CONSTANTS Tries  \* bound: the tries of apt-mark (120 in the code)

TriesAssumption == Tries \in Nat \ {0}

Marks == {"runcmd", "deps", "unhold"}     \* calls of aptmarkWALinuxAgent
Jobs == {"upgrade", "purge", "daily"}     \* what works under apt's locks
ErrHold == 7                              \* ERR_HOLD_WALINUXAGENT

VARIABLES
    full,     \* FULL_INSTALL_REQUIRED
    reboot,   \* REBOOTREQUIRED
    mark,     \* each call: "no", "wait", "try", "done", "failed" or "cut" by the reboot
    tries,    \* the tries each call has left
    job,      \* each job: "no", "wait", "work", "done" or "cut"
    held,     \* the hold on the package
    agent,    \* "old", "upgradedInRun" or "upgraded"
    run,      \* where cse_main.sh is
    code      \* its exit code, 99 while it runs

vars == <<full, reboot, mark, tries, job, held, agent, run, code>>

Init ==
    /\ full \in BOOLEAN /\ reboot \in BOOLEAN
    /\ mark = [m \in Marks |-> IF m = "runcmd" THEN "wait" ELSE "no"]
    /\ tries = [m \in Marks |-> Tries]
    /\ job = [j \in Jobs |-> "no"]
    /\ held = FALSE /\ agent = "old" /\ run = "begun" /\ code = 99

Locked == \E j \in Jobs : job[j] = "work"
Trying(m) == mark[m] = "try"

-----------------------------------------------------------------------------
(***************************************************************************)
(* aptmarkWALinuxAgent hold | unhold.                                      *)
(***************************************************************************)
\* wait_for_apt_locks, which has no bound.
LocksFree(m) ==
    /\ mark[m] = "wait" /\ ~ Locked
    /\ mark' = [mark EXCEPT ![m] = "try"]
    /\ UNCHANGED <<full, reboot, tries, job, held, agent, run, code>>

Marked(m) ==
    /\ Trying(m) /\ ~ Locked
    /\ held' = (m # "unhold")
    /\ mark' = [mark EXCEPT ![m] = "done"]
    /\ UNCHANGED <<full, reboot, tries, job, agent, run, code>>

\* Slip: a try that fails is made again for ever.
MarkFailsUncounted(m) ==
    /\ Trying(m)
    /\ tries' = [tries EXCEPT ![m] = IF tries[m] = 1 THEN Tries ELSE tries[m] - 1]
    /\ UNCHANGED <<full, reboot, mark, job, held, agent, run, code>>

\* For the locks or for another reason; the exit of the last try ends runcmd's script,
\* cse_main.sh, or no more than the background job it is in.
MarkFails(m) ==
    /\ Trying(m)
    /\ tries' = [tries EXCEPT ![m] = tries[m] - 1]
    /\ mark' = [mark EXCEPT ![m] = IF tries[m] = 1 THEN "failed" ELSE "try"]
    /\ UNCHANGED <<full, reboot, job, held, agent, run, code>>

(***************************************************************************)
(* The jobs.  An upgrade of everything leaves out what is on hold.         *)
(***************************************************************************)
TakeLocks(j) ==
    /\ job[j] = "wait" /\ ~ Locked
    /\ job' = [job EXCEPT ![j] = "work"]
    /\ UNCHANGED <<full, reboot, mark, tries, held, agent, run, code>>

Work(j) ==
    /\ job[j] = "work"
    /\ job' = [job EXCEPT ![j] = "done"]
    /\ agent' = IF j = "purge" \/ held THEN agent
                ELSE IF j = "upgrade" THEN "upgradedInRun" ELSE "upgraded"
    /\ UNCHANGED <<full, reboot, mark, tries, held, run, code>>

-----------------------------------------------------------------------------
(***************************************************************************)
(* cse_main.sh, as far as apt goes.                                        *)
(***************************************************************************)
InstallDeps ==
    /\ run = "begun" /\ full
    /\ run' = "holding" /\ mark' = [mark EXCEPT !["deps"] = "wait"]
    /\ UNCHANGED <<full, reboot, tries, job, held, agent, code>>

\* Slip: the hold is set in the background.
UpgradeMeanwhile ==
    /\ run = "holding" /\ run' = "upgrading" /\ job' = [job EXCEPT !["upgrade"] = "wait"]
    /\ UNCHANGED <<full, reboot, mark, tries, held, agent, code>>

\* Slip: a hold that failed is not looked at.
HoldOver ==
    /\ run = "holding" /\ mark["deps"] \in {"done", "failed"}
    /\ run' = "upgrading" /\ job' = [job EXCEPT !["upgrade"] = "wait"]
    /\ UNCHANGED <<full, reboot, mark, tries, held, agent, code>>

DistUpgrade ==
    /\ run = "holding" /\ mark["deps"] = "done"
    /\ run' = "upgrading" /\ job' = [job EXCEPT !["upgrade"] = "wait"]
    /\ UNCHANGED <<full, reboot, mark, tries, held, agent, code>>

HoldFailed ==
    /\ run = "holding" /\ mark["deps"] = "failed"
    /\ run' = "over" /\ code' = ErrHold
    /\ UNCHANGED <<full, reboot, mark, tries, job, held, agent>>

\* The end: the purge, apt's daily job unless a reboot is due, the release, the exit.
Finish ==
    /\ \/ run = "begun" /\ ~ full
       \/ run = "upgrading" /\ job["upgrade"] = "done"
    /\ run' = "over" /\ code' = 0
    /\ job' = [job EXCEPT !["purge"] = "wait", !["daily"] = IF reboot THEN "no" ELSE "wait"]
    /\ mark' = [mark EXCEPT !["unhold"] = "wait"]
    /\ UNCHANGED <<full, reboot, tries, held, agent>>

\* One minute later everything that still runs is cut; none of it starts again, and
\* runcmd, which cloud-init runs once, does not either.
Reboot ==
    /\ run = "over" /\ code = 0 /\ reboot /\ reboot' = FALSE
    /\ mark' = [m \in Marks |-> IF mark[m] = "wait" \/ Trying(m) THEN "cut" ELSE mark[m]]
    /\ job' = [j \in Jobs |-> IF job[j] \in {"wait", "work"} THEN "cut" ELSE job[j]]
    /\ UNCHANGED <<full, tries, held, agent, run, code>>

MarkSteps(m) == LocksFree(m) \/ Marked(m) \/ MarkFails(m)
JobSteps(j) == TakeLocks(j) \/ Work(j)
RunSteps == InstallDeps \/ DistUpgrade \/ HoldFailed \/ Finish
Next ==
    \/ \E m \in Marks : MarkSteps(m)
    \/ \E j \in Jobs : JobSteps(j)
    \/ RunSteps \/ Reboot

Spec == Init /\ [][Next]_vars

\* Processes that the system schedules: each goes on as long as it can.
FairSpec ==
    /\ Spec /\ WF_vars(RunSteps)
    /\ \A m \in Marks : WF_vars(MarkSteps(m))
    /\ \A j \in Jobs : WF_vars(JobSteps(j))

-----------------------------------------------------------------------------
\* Every variable keeps its type.
TypeOK ==
    /\ full \in BOOLEAN /\ reboot \in BOOLEAN /\ held \in BOOLEAN
    /\ mark \in [Marks -> {"no", "wait", "try", "done", "failed", "cut"}]
    /\ tries \in [Marks -> 0 .. Tries]
    /\ job \in [Jobs -> {"no", "wait", "work", "done", "cut"}]
    /\ agent \in {"old", "upgradedInRun", "upgraded"}
    /\ run \in {"begun", "holding", "upgrading", "over"} /\ code \in {0, ErrHold, 99}

\* The upgrade that is part of the run does not touch the agent that waits for the run.
AgentOutlivesRun == agent # "upgradedInRun"

\* Why: installDeps holds before it upgrades, and nothing is released before the upgrade is
\* over.  A call that still tries has tries left.
IInv ==
    /\ TypeOK /\ AgentOutlivesRun
    /\ \A m \in Marks : mark[m] \in {"no", "wait", "try"} => tries[m] > 0
    /\ run = "begun" => mark["deps"] = "no"
    /\ run \in {"begun", "holding"} => mark["unhold"] = "no" /\ job["upgrade"] = "no"
    /\ run = "upgrading" => mark["unhold"] = "no" /\ mark["deps"] = "done"
    /\ run = "over" => job["upgrade"] \notin {"wait", "work"}
    /\ mark["unhold"] = "no" /\ mark["deps"] = "done" => held
    /\ mark["unhold"] # "no" => run = "over" /\ mark["deps"] \in {"no", "done"}

Quiet ==
    /\ run = "over" /\ \A m \in Marks : mark[m] # "wait" /\ ~ Trying(m)
    /\ \A j \in Jobs : job[j] \notin {"wait", "work"}

\* Everything ends, the waits without a bound included: whoever has the locks returns them.
EverybodyEnds == <>Quiet

\* Whatever is late, only runcmd's hold can undo the release.
RuncmdHoldsAgain ==
    mark["unhold"] = "done" /\ ~ held /\ held' => mark["runcmd"] # mark'["runcmd"]
OnlyRuncmdHoldsAgain == [][RuncmdHoldsAgain]_vars

\* A run that ends with success leaves no hold behind: cse_helpers.sh has a code for
\* the release that failed.
HoldIsReleased == Quiet /\ code = 0 => ~ held
=============================================================================
