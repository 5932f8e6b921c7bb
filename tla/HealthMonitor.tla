--------------------------- MODULE HealthMonitor ----------------------------
(***************************************************************************)
(* The monitor of the container runtime (health-monitor.sh), which a timer *)
(* starts some time after boot (containerd-monitor.timer, docker-          *)
(* monitor.timer).  It gives the runtime five attempts to answer, then     *)
(* kills it whenever it does not, and leaves it alone for two minutes;     *)
(* systemd starts it again.  Nothing bounds how long a start takes.        *)
(*                                                                         *)
(* Time goes by in minutes.  A check of a runtime that is not running      *)
(* fails at once, that of one that hangs takes its whole minute; the pause *)
(* between attempts (2 to 16 s) and between checks (10 s) is within one.   *)
(***************************************************************************)
EXTENDS Naturals

CONSTANTS
    BootDelay,     \* OnBootSec of the timers: 10
    Attempts,      \* max_attempts: 5
    Pause,         \* the pause after a kill: 2
    StartMinutes,  \* bound: how long a start of the runtime takes
    Hangs,         \* bound: how often it hangs
    Restarts,      \* bound: how often somebody else restarts it
    Horizon        \* bound: the clock stops there, not the time

ConstantsAssumption ==
    /\ BootDelay \in Nat /\ Attempts \in Nat \ {0} /\ Hangs \in Nat /\ Restarts \in Nat
    /\ Pause \in Nat \ {0} /\ StartMinutes \in Nat
    /\ Horizon \in Nat /\ BootDelay < Horizon

VARIABLES
    clock,     \* minutes since boot
    runtime,   \* "off", "starting", "up" or "hung"
    age,       \* minutes it has been starting
    starter,   \* who started it last
    timer,     \* "off", "armed" or "elapsed"
    monitor,   \* "off", "attempts" or "watching"
    attempt,   \* the attempts made
    due,       \* minutes until the next check
    hangs, restarts,
    takes      \* minutes from its latest start until it answers

vars == <<clock, runtime, age, starter, timer, monitor, attempt, due, hangs, restarts, takes>>
runtimeVars == <<runtime, age, starter, takes>>
monitorVars == <<timer, monitor, attempt, due>>

Init ==
    /\ clock = 0 /\ runtime = "off" /\ age = 0 /\ starter = "nobody" /\ takes = 0
    /\ timer = "off" /\ monitor = "off" /\ attempt = 1 /\ due = 0
    /\ hangs = 0 /\ restarts = 0

-----------------------------------------------------------------------------
\* Each start takes a time of its own.
StartedBy(who) ==
    runtime' = "starting" /\ age' = 0 /\ starter' = who /\ takes' \in 0 .. StartMinutes

\* ensureContainerd or ensureDocker, and ensureMonitorService after it.
StartRuntime ==
    /\ runtime = "off" /\ StartedBy("cse")
    /\ UNCHANGED <<clock, monitorVars, hangs, restarts>>

ensureMonitorService ==
    /\ runtime # "off" /\ timer = "off" /\ timer' = "armed"
    /\ UNCHANGED <<clock, runtimeVars, monitor, attempt, due, hangs, restarts>>

ComesUp ==
    /\ runtime = "starting" /\ age = takes /\ runtime' = "up"
    /\ UNCHANGED <<clock, age, starter, takes, monitorVars, hangs, restarts>>

Hang ==
    /\ runtime = "up" /\ hangs < Hangs
    /\ runtime' = "hung" /\ hangs' = hangs + 1
    /\ UNCHANGED <<clock, age, starter, takes, monitorVars, restarts>>

\* A package or a configuration is changed under the runtime.
OtherRestarts ==
    /\ runtime = "up" /\ restarts < Restarts
    /\ StartedBy("others") /\ restarts' = restarts + 1
    /\ UNCHANGED <<clock, monitorVars, hangs>>

-----------------------------------------------------------------------------
\* Slip: the timer counts from its own start.
ElapseAtOnce ==
    /\ timer = "armed"
    /\ timer' = "elapsed" /\ monitor' = "attempts" /\ due' = 0
    /\ UNCHANGED <<clock, runtimeVars, attempt, hangs, restarts>>

\* OnBootSec: at once where the time is past already.
Elapse ==
    /\ timer = "armed" /\ clock >= BootDelay
    /\ timer' = "elapsed" /\ monitor' = "attempts" /\ due' = 0
    /\ UNCHANGED <<clock, runtimeVars, attempt, hangs, restarts>>

CheckSucceeds ==
    /\ monitor # "off" /\ due = 0 /\ runtime = "up"
    /\ monitor' = "watching" /\ due' = 1
    /\ UNCHANGED <<clock, runtimeVars, timer, attempt, hangs, restarts>>

\* The last attempt that fails ends the attempts, not the monitor.
AttemptFails ==
    /\ monitor = "attempts" /\ due = 0 /\ runtime # "up"
    /\ IF attempt = Attempts THEN monitor' = "watching" /\ UNCHANGED attempt
       ELSE attempt' = attempt + 1 /\ UNCHANGED monitor
    /\ due' = IF runtime = "hung" THEN 1 ELSE 0
    /\ UNCHANGED <<clock, runtimeVars, timer, hangs, restarts>>

\* Slip: the runtime is asked for a dump of its stacks and not killed.
DumpOnly ==
    /\ monitor = "watching" /\ due = 0 /\ runtime # "up"
    /\ due' = Pause
    /\ UNCHANGED <<clock, runtimeVars, timer, monitor, attempt, hangs, restarts>>

\* Slip: the pause after a kill is that after a check.
KillAgainSoon ==
    /\ monitor = "watching" /\ due = 0 /\ runtime # "up"
    /\ StartedBy("monitor") /\ due' = 1
    /\ UNCHANGED <<clock, timer, monitor, attempt, hangs, restarts>>

Kill ==
    /\ monitor = "watching" /\ due = 0 /\ runtime # "up"
    /\ StartedBy("monitor") /\ due' = Pause
    /\ UNCHANGED <<clock, timer, monitor, attempt, hangs, restarts>>

\* A minute goes by: nothing that is due within it is left over.
Tick ==
    /\ monitor # "off" => due > 0
    /\ ~ (timer = "armed" /\ clock >= BootDelay)
    /\ runtime = "starting" => age < takes
    /\ clock' = IF clock < Horizon THEN clock + 1 ELSE clock
    /\ age' = IF runtime = "starting" THEN age + 1 ELSE age
    /\ due' = IF monitor # "off" THEN due - 1 ELSE due
    /\ UNCHANGED <<runtime, starter, takes, timer, monitor, attempt, hangs, restarts>>

Progress ==
    \/ StartRuntime \/ ensureMonitorService \/ ComesUp \/ Elapse
    \/ CheckSucceeds \/ AttemptFails \/ Kill
Next == Progress \/ Tick \/ Hang \/ OtherRestarts

Spec == Init /\ [][Next]_vars

\* Time goes by, the CSE goes on, a runtime answers when its time to start has passed,
\* the monitor checks.
FairSpec ==
    /\ Spec /\ WF_vars(Tick) /\ WF_vars(StartRuntime) /\ WF_vars(ensureMonitorService)
    /\ WF_vars(ComesUp) /\ WF_vars(Elapse)
    /\ WF_vars(CheckSucceeds \/ AttemptFails \/ Kill)

-----------------------------------------------------------------------------
\* Every variable keeps its type.
TypeOK ==
    /\ clock \in 0 .. Horizon /\ takes \in 0 .. StartMinutes /\ age \in 0 .. takes
    /\ runtime \in {"off", "starting", "up", "hung"}
    /\ starter \in {"nobody", "cse", "others", "monitor"}
    /\ timer \in {"off", "armed", "elapsed"} /\ monitor \in {"off", "attempts", "watching"}
    /\ attempt \in 1 .. Attempts /\ due \in 0 .. Pause
    /\ hangs \in 0 .. Hangs /\ restarts \in 0 .. Restarts

\* Nobody is killed before the timer's time is up, however early the CSE is done; and a
\* runtime that the monitor has killed has the whole pause to start in: it is killed
\* again before it has answered only if this takes as long.  (One that others restarted
\* may be at any time.)
KillIsDue ==
    Kill => clock >= BootDelay /\ (runtime = "starting" /\ starter = "monitor" => age >= Pause)
KillsWhenDue == [][KillIsDue]_vars

\* Why: what the pause has left and what the start has taken of it add up to the pause.
IInv ==
    /\ TypeOK
    /\ monitor = "off" <=> timer # "elapsed"
    /\ monitor # "off" => clock >= BootDelay
    /\ runtime = "starting" /\ starter = "monitor" => monitor = "watching" /\ due + age = Pause

\* A runtime that hangs serves again in the end, unless it takes the pause or longer to
\* start: then the monitor may kill it every time before it has come up, for ever.
Serves == runtime = "up" \/ takes >= Pause
ServesAtLast == <>[]Serves

\* cse_config.sh: the start of the monitor is delayed for 30 minutes after booting.
DelayedAsSaid == monitor # "off" => clock >= 30
=============================================================================
