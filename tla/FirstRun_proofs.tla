-------------------------- MODULE FirstRun_proofs --------------------------
(***************************************************************************)
(* Theorems about the order in which NodeProvision brings a node up: what  *)
(* runs before what, in any number of runs or, where a rerun breaks it, in *)
(* the first; and what a timeout of the first run tells.                   *)
(***************************************************************************)
EXTENDS NodeProvision_proofs

\* Where a unit is started, what the script has before is done: a checked command, the
\* start of another unit.
LEMMA CommandIsDone ==
    ASSUME TypeOK, DoneSoFar, NEW cmd, NEW unit, CommandFirst(Steps(conf), cmd, unit),
           At("start"), Here.on = unit
    PROVE  cmd \in done
<1>1. pc \in DOMAIN Steps(conf) /\ pc # 0
  BY HereIsAStep DEF At
<1>2. pc \in Starts(Steps(conf), unit)
  BY <1>1 DEF Starts, At, Here
<1>3. PICK j \in 1..(pc - 1) : Steps(conf)[j].op = "run" /\ Steps(conf)[j].on = cmd
  BY <1>2 DEF CommandFirst
<1> QED
  BY <1>3 DEF DoneSoFar

LEMMA UnitIsDone ==
    ASSUME TypeOK, DoneSoFar, NEW first, NEW unit, UnitFirst(Steps(conf), first, unit),
           At("start"), Here.on = unit
    PROVE  first \in done
<1>1. pc \in DOMAIN Steps(conf) /\ pc # 0 /\ pc \in Nat
  BY HereIsAStep DEF At, TypeOK
<1>2. pc \in Starts(Steps(conf), unit)
  BY <1>1 DEF Starts, At, Here
<1>3. PICK j \in Starts(Steps(conf), first) : j < pc
  BY <1>2 DEF UnitFirst
<1>4. j \in 1..(pc - 1) /\ Steps(conf)[j].op = "start" /\ Steps(conf)[j].on = first
  BY <1>1, <1>3, ScriptAssumption DEF Starts, TypeOK
<1> QED
  BY <1>4 DEF DoneSoFar

\* Packages bring no kubelet: the CSE downloads it, and its unit is cloud-init's.
PackagesBringNoKubelet ==
    \A c \in Configs : \A i \in DOMAIN Steps(c) : "kubelet" \notin Brings(Steps(c)[i].on)

\* What is done stays done; kubelet runs or is enabled as before but at its own start.
LEMMA KubeletOfAStep ==
    ASSUME PackagesBringNoKubelet, TypeOK, [Next]_vars
    PROVE  /\ conf' = conf /\ done \subseteq done'
           /\ "kubelet" \in running' \cup enabled' =>
                 \/ "kubelet" \in running \cup enabled
                 \/ At("start") /\ Here.on = "kubelet"
<1>1. CASE Restarts
  BY <1>1 DEF Restarts
<1>2. CASE Enables
  BY <1>2 DEF Enables
<1>3. CASE RestartFails \/ DisablesOther \/ Reboot
  BY <1>3 DEF RestartFails, DisablesOther, Reboot, control
<1>4. CASE PackageStarts
  <2>1. "kubelet" \notin Brings(Here.on)
    BY <1>4, HereIsAStep DEF PackageStarts, At, Here, PackagesBringNoKubelet, TypeOK
  <2> QED
    BY <1>4, <2>1 DEF PackageStarts
<1>5. CASE CloudInitWrites \/ BeginRun \/ Kill \/ OverlayReady \/ AlreadyRan \/ NotYetRan
           \/ PollSees \/ StripSees \/ WaitPaved \/ WaitSees \/ WaitPaves \/ LookAgain \/ GiveUp
           \/ DoStep \/ RunSucceeds \/ RunFails \/ EnableFails \/ OtherInactive \/ DisableFails
           \/ OverlaySeen \/ LetGo \/ Edits \/ ProbeSucceeds \/ ProbeFails \/ Finishes
  <2>1. conf' = conf /\ done \subseteq done' /\ running' = running /\ enabled' = enabled
    BY <1>5 DEF CloudInitWrites, BeginRun, Kill, OverlayReady, AlreadyRan, NotYetRan, PollSees,
       StripSees, WaitPaved, WaitSees, WaitPaves, LookAgain, GiveUp, DoStep, RunSucceeds,
       RunFails, EnableFails, OtherInactive, DisableFails, OverlaySeen, LetGo, LocksFree,
       Settles, Edits, ProbeSucceeds, ProbeFails, Finishes, node
  <2> QED
    BY <2>1
<1>6. CASE UNCHANGED vars
  BY <1>6 DEF vars, node
<1> QED
  BY <1>1, <1>2, <1>3, <1>4, <1>5, <1>6 DEF Next, CseStep, Environment

\* For every script that loads the module and then restarts the runtime before it starts
\* kubelet, and every image and package that does not start kubelet: it never runs without,
\* whatever runs the runtime before, and however often the script is killed and run again
\* and the node boots.
THEOREM CniIsFirst ==
    ASSUME \A c \in Configs : /\ CommandFirst(Steps(c), "modprobe br_netfilter", "kubelet")
                              /\ UnitFirst(Steps(c), RuntimeOf(c), "kubelet"),
           \A units \in ActiveAtBoot : "kubelet" \notin units,
           PackagesBringNoKubelet
    PROVE  Spec => []KubeletAfterCni
<1>1. Init => CniSoFar
  BY DEF Init, CniSoFar
<1>2. TypeOK /\ DoneSoFar /\ CniSoFar /\ [Next]_vars => CniSoFar'
  <2> SUFFICES ASSUME TypeOK, DoneSoFar, CniSoFar, [Next]_vars,
                      "kubelet" \in running' \cup enabled'
               PROVE  {"modprobe br_netfilter", RuntimeOf(conf)} \subseteq done
    BY KubeletOfAStep DEF CniSoFar
  <2>1. CASE "kubelet" \in running \cup enabled
    BY <2>1 DEF CniSoFar
  <2>2. CASE "kubelet" \notin running \cup enabled
    <3>1. At("start") /\ Here.on = "kubelet"
      BY <2>2, KubeletOfAStep
    <3>2. /\ CommandFirst(Steps(conf), "modprobe br_netfilter", "kubelet")
          /\ UnitFirst(Steps(conf), RuntimeOf(conf), "kubelet")
      BY DEF TypeOK
    <3>3. "modprobe br_netfilter" \in done
      BY <3>1, <3>2, CommandIsDone
    <3>4. RuntimeOf(conf) \in done
      BY <3>1, <3>2, UnitIsDone
    <3> QED
      BY <3>3, <3>4
  <2> QED
    BY <2>1, <2>2
<1>3. CniSoFar => KubeletAfterCni
  BY DEF CniSoFar, KubeletAfterCni
<1> QED
  BY <1>1, <1>2, <1>3, TypeCorrect, InitDone, NextDone, PTL DEF Spec

-----------------------------------------------------------------------------
(***************************************************************************)
(* The runtime under kubelet, in a first run                               *)
(***************************************************************************)
\* What the script, the packages and the images must be.
RuntimesFirst ==
    /\ PackagesBringNoKubelet
    /\ \A c \in Configs :
          /\ ChecksFirst(Steps(c)) /\ NothingUndone(Steps(c))
          /\ UnitFirst(Steps(c), RuntimeOf(c), "kubelet") /\ RuntimeOf(c) \in BootUnits

\* Where kubelet is started the runtime is running and enabled.
LEMMA RuntimeIsUp ==
    ASSUME TypeOK, ServesSoFar, RuntimesFirst, At("start"), Here.on = "kubelet"
    PROVE  /\ RuntimeOf(conf) \in running \cap enabled
           /\ \A j \in Starts(Steps(conf), RuntimeOf(conf)) : j < pc
<1>1. pc \in DOMAIN Steps(conf) /\ pc # 0
  BY HereIsAStep DEF At
<1>2. pc \in Starts(Steps(conf), "kubelet")
  BY <1>1 DEF Starts, At, Here
<1>3. UnitFirst(Steps(conf), RuntimeOf(conf), "kubelet") /\ RuntimeOf(conf) \in BootUnits
  BY DEF RuntimesFirst, TypeOK
<1>4. PICK j \in Starts(Steps(conf), RuntimeOf(conf)) : j < pc
  BY <1>2, <1>3 DEF UnitFirst
<1>5. RuntimeOf(conf) \in running \cap enabled
  BY <1>3, <1>4 DEF ServesSoFar, Starts
<1> QED
  BY <1>2, <1>3, <1>5 DEF UnitFirst

LEMMA NextKubelet ==
    ASSUME RuntimesFirst, MaxRuns = 1
    PROVE  TypeOK /\ ServesSoFar /\ KubeletSoFar /\ [Next]_vars => KubeletSoFar'
<1> SUFFICES ASSUME TypeOK, ServesSoFar, KubeletSoFar, [Next]_vars PROVE KubeletSoFar'
  OBVIOUS
<1> DEFINE R == RuntimeOf(conf)
           Kubelet == "kubelet" \in running \cup enabled
           Last(p) == \A j \in Starts(Steps(conf), R) : j < p
<1>c. conf' = conf
  BY KubeletOfAStep DEF RuntimesFirst
<1>t. pc \in Nat /\ runs \in {0, 1} /\ Starts(Steps(conf), R) \subseteq Nat
  BY ScriptAssumption DEF TypeOK, Starts
<1>old. /\ pc # 0 => runs > 0
        /\ Kubelet => runs > 0 /\ R \in running /\ R \in enabled /\ (pc = 0 \/ Last(pc))
  BY DEF KubeletSoFar
<1>goal. ASSUME pc' # 0 => runs' > 0,
                Kubelet' => runs' > 0 /\ R \in running' /\ R \in enabled' /\ (pc' = 0 \/ Last(pc'))
         PROVE  KubeletSoFar'
  BY <1>goal, <1>c DEF KubeletSoFar
\* A step that starts kubelet no more than it was and takes nothing from the runtime.
<1>keep. ASSUME runs' = runs, pc' = pc \/ pc' = 0 \/ (pc # 0 /\ pc' = pc + 1),
                Kubelet' => Kubelet,
                Kubelet => (R \in running => R \in running') /\ (R \in enabled => R \in enabled')
         PROVE  KubeletSoFar'
  <2>1. pc' # 0 => runs' > 0
    BY <1>keep, <1>old, <1>t
  <2>2. ASSUME Last(pc), pc' = pc \/ pc' = pc + 1 PROVE Last(pc')
    BY <2>2, <1>t
  <2>3. Kubelet' => runs' > 0 /\ R \in running' /\ R \in enabled' /\ (pc' = 0 \/ Last(pc'))
    BY <2>2, <1>keep, <1>old, <1>t
  <2> QED
    BY <2>1, <2>3, <1>goal
<1>here. pc # 0 /\ Here.op = "start" /\ Here.on = R => pc \in Starts(Steps(conf), R)
  BY HereIsAStep DEF Starts, Here
<1>1. CASE BeginRun
  <2>1. runs = 0 /\ runs' = 1 /\ running' = running /\ enabled' = enabled
    BY <1>1, <1>t DEF BeginRun, node
  <2> QED
    BY <2>1, <1>old, <1>goal
<1>2. CASE Reboot
  <2>1. R \in BootUnits
    BY DEF RuntimesFirst, TypeOK
  <2>2. runs' = runs /\ pc' = pc /\ enabled' = enabled /\ running' = enabled \cap BootUnits
    BY <1>2 DEF Reboot, control
  <2>3. (Kubelet' => Kubelet) /\ (R \in enabled => R \in running' /\ R \in enabled')
    BY <2>1, <2>2
  <2> QED
    BY <2>2, <2>3, <1>old, <1>keep
<1>3. CASE Restarts
  <2>1. /\ At("start") /\ runs' = runs /\ pc' = pc /\ pc # 0
        /\ running' = running \cup {Here.on} /\ enabled' = enabled
    BY <1>3 DEF Restarts, At
  <2>2. CASE Here.on = "kubelet"
    <3>1. R \in running' /\ R \in enabled' /\ Last(pc')
      BY <2>1, <2>2, RuntimeIsUp
    <3> QED
      BY <2>1, <3>1, <1>old, <1>goal
  <2>3. CASE Here.on # "kubelet"
    BY <2>1, <2>3, <1>keep
  <2> QED
    BY <2>2, <2>3
<1>4. CASE RestartFails
  <2>1. /\ pc # 0 /\ Here.op = "start" /\ runs' = runs /\ pc' = 0 /\ enabled' = enabled
        /\ running \ {Here.on} \subseteq running' /\ running' \subseteq running
    BY <1>4 DEF RestartFails, At, Exit
  <2>2. Kubelet => Here.on # R
    BY <2>1, <1>here, <1>old, <1>t
  <2> QED
    BY <2>1, <2>2, <1>keep
<1>5. CASE Enables
  <2>1. /\ At("start") /\ second /\ runs' = runs /\ pc # 0 /\ pc' = pc + 1
        /\ running' = running /\ enabled' = enabled \cup {Here.on}
    BY <1>5 DEF Enables, At, Advance
  <2>2. Here.on \in running
    BY <2>1 DEF ServesSoFar
  <2> QED
    BY <2>1, <2>2, <1>keep
<1>6. CASE DisablesOther
  <2>1. /\ pc # 0 /\ Here.op = "disable" /\ runs' = runs /\ pc' = pc + 1
        /\ running' = running /\ enabled' = enabled \ {Here.on}
    BY <1>6 DEF DisablesOther, At, Advance
  <2>2. NothingUndone(Steps(conf)) /\ Starts(Steps(conf), R) # {} /\ pc \in DOMAIN Steps(conf)
    BY <2>1, HereIsAStep DEF RuntimesFirst, UnitFirst, TypeOK
  <2>3. Here.on # R
    BY <2>1, <2>2 DEF NothingUndone, Starts, Here
  <2> QED
    BY <2>1, <2>3, <1>keep
<1>7. CASE CloudInitWrites \/ OverlayReady \/ LookAgain \/ WaitSees \/ UNCHANGED vars
  <2>1. runs' = runs /\ pc' = pc /\ running' = running /\ enabled' = enabled
    BY <1>7 DEF CloudInitWrites, OverlayReady, LookAgain, WaitSees, vars, node, control
  <2> QED
    BY <2>1, <1>keep
<1>8. CASE Kill \/ AlreadyRan \/ GiveUp \/ RunFails \/ EnableFails \/ Finishes
  <2>1. runs' = runs /\ pc' = 0 /\ running' = running /\ enabled' = enabled
    BY <1>8 DEF Kill, AlreadyRan, GiveUp, RunFails, EnableFails, Finishes, node, Exit
  <2> QED
    BY <2>1, <1>keep
<1>9. CASE NotYetRan \/ PollSees \/ StripSees \/ WaitPaved \/ WaitPaves \/ DoStep \/ RunSucceeds
           \/ OtherInactive \/ DisableFails \/ OverlaySeen \/ LocksFree \/ Settles \/ Edits
           \/ ProbeSucceeds \/ ProbeFails
  <2>1. runs' = runs /\ pc # 0 /\ pc' = pc + 1 /\ running' = running /\ enabled' = enabled
    BY <1>9 DEF NotYetRan, PollSees, StripSees, WaitPaved, WaitPaves, DoStep, RunSucceeds,
       OtherInactive, DisableFails, OverlaySeen, LocksFree, Settles, Edits, ProbeSucceeds,
       ProbeFails, node, Advance, At
  <2> QED
    BY <2>1, <1>keep
<1>10. CASE PackageStarts
  <2>1. /\ runs' = runs /\ pc' = pc
        /\ running' = running \cup Brings(Here.on) /\ enabled' = enabled \cup Brings(Here.on)
    BY <1>10 DEF PackageStarts, control
  <2>2. "kubelet" \notin Brings(Here.on)
    BY <1>10, HereIsAStep
    DEF PackageStarts, At, Here, RuntimesFirst, PackagesBringNoKubelet, TypeOK
  <2>3. Kubelet' => Kubelet
    BY <2>1, <2>2
  <2> QED
    BY <2>1, <2>3, <1>keep
<1> QED
  BY <1>1, <1>2, <1>3, <1>4, <1>5, <1>6, <1>7, <1>8, <1>9, <1>10
  DEF Next, CseStep, Environment, LetGo

\* For every script that starts the runtime once and before kubelet and disables neither:
\* after a first run, however it ends, and after the boot it schedules, kubelet does not run
\* without it.  A second run restarts the runtime under kubelet, and may fail to.
THEOREM RuntimeUnderKubelet ==
    ASSUME RuntimesFirst, MaxRuns = 1, \A units \in ActiveAtBoot : "kubelet" \notin units
    PROVE  Spec => []KubeletAfterRuntime
<1>1. Init => KubeletSoFar
  BY DEF Init, KubeletSoFar
<1>2. TypeOK /\ CompleteStopsRuns /\ [Next]_vars => CompleteStopsRuns'
  BY NextStops DEF RuntimesFirst
<1>3. TypeOK /\ CompleteStopsRuns /\ ServesSoFar /\ [Next]_vars => ServesSoFar'
  BY NextServes DEF RuntimesFirst
<1>4. TypeOK /\ ServesSoFar /\ KubeletSoFar /\ [Next]_vars => KubeletSoFar'
  BY NextKubelet
<1>5. KubeletSoFar => KubeletAfterRuntime
  BY DEF KubeletSoFar, KubeletAfterRuntime
<1> QED
  BY <1>1, <1>2, <1>3, <1>4, <1>5, TypeCorrect, InitStops, InitServes, PTL DEF Spec

-----------------------------------------------------------------------------
(***************************************************************************)
(* Timeouts of a first run                                                 *)
(***************************************************************************)
LEMMA InitMarkers == Init => MarkersSoFar
<1> SUFFICES ASSUME Init PROVE MarkersSoFar
  OBVIOUS
<1>1. \A i \in 1..(0 - 1) : FALSE
  OBVIOUS
<1> QED
  BY <1>1 DEF Init, MarkersSoFar

LEMMA ConfKept == [Next]_vars => conf' = conf
  BY DEF Next, CseStep, Environment, LetGo, CloudInitWrites, BeginRun, Kill, OverlayReady,
     AlreadyRan, NotYetRan, PollSees, StripSees, WaitPaved, WaitSees, WaitPaves, LookAgain,
     GiveUp, DoStep, RunSucceeds, RunFails, EnableFails, OtherInactive, DisableFails,
     OverlaySeen, LocksFree, Settles, Edits, ProbeSucceeds, ProbeFails, Finishes, Restarts,
     Enables, RestartFails, DisablesOther, Reboot, PackageStarts, vars

LEMMA NextMarkers ==
    ASSUME MaxRuns = 1
    PROVE  TypeOK /\ MarkersSoFar /\ [Next]_vars => MarkersSoFar'
<1> SUFFICES ASSUME TypeOK, MarkersSoFar, [Next]_vars PROVE MarkersSoFar'
  OBVIOUS
<1> DEFINE Mark(i, f) == Steps(conf)[i].op \in Markers /\ Steps(conf)[i].on = f
           Paved(i, seen) == Steps(conf)[i].op = "wait" => Steps(conf)[i].on \in seen
<1>c. conf' = conf
  BY ConfKept
<1>t. pc \in Nat /\ runs \in {0, 1} /\ second \in BOOLEAN /\ DOMAIN Steps(conf) \subseteq Nat
  BY ScriptAssumption DEF TypeOK
<1>old. /\ pc # 0 => runs > 0
        /\ pc = 0 /\ runs = 0 => stripped = {}
        /\ pc # 0 => \A f \in stripped : \E i \in 1..pc : Mark(i, f) /\ (i < pc \/ second)
        /\ \A i \in 1..(pc - 1) : Paved(i, paved)
  BY DEF MarkersSoFar
<1>goal. ASSUME pc' # 0 => runs' > 0,
                pc' = 0 /\ runs' = 0 => stripped' = {},
                pc' # 0 => \A f \in stripped' : \E i \in 1..pc' : Mark(i, f) /\ (i < pc' \/ second'),
                \A i \in 1..(pc' - 1) : Paved(i, paved')
         PROVE  MarkersSoFar'
  BY <1>goal, <1>c DEF MarkersSoFar
\* A run that ends leaves no run to come.
<1>ends. ASSUME pc # 0, pc' = 0, runs' = runs PROVE MarkersSoFar'
  <2>1. runs' > 0 /\ \A i \in 1..(pc' - 1) : FALSE
    BY <1>ends, <1>old, <1>t
  <2> QED
    BY <2>1, <1>ends, <1>goal
\* A step that leaves the run where it is, and deletes no marker but the one it is at.
<1>same. ASSUME pc' = pc, runs' = runs, paved' = paved,
                \/ stripped' \subseteq stripped /\ (second => second')
                \/ /\ second' /\ pc # 0 /\ Here.op \in Markers
                   /\ stripped' = stripped \cup {Here.on}
         PROVE  MarkersSoFar'
  <2>1. pc' = 0 /\ runs' = 0 => stripped' = {}
    BY <1>same, <1>old
  <2>2. ASSUME pc' # 0, NEW f \in stripped'
        PROVE  \E i \in 1..pc' : Mark(i, f) /\ (i < pc' \/ second')
    <3>1. CASE f \in stripped
      BY <3>1, <2>2, <1>same, <1>old
    <3>2. CASE f \notin stripped
      <4>1. Mark(pc, f) /\ second' /\ pc \in 1..pc'
        BY <3>2, <2>2, <1>same, <1>t DEF Here
      <4> QED
        BY <4>1
    <3> QED
      BY <3>1, <3>2
  <2> QED
    BY <2>1, <2>2, <1>same, <1>old, <1>goal
\* A step the run leaves behind has deleted the marker of its own file, if any, and if it
\* was a wait remembers it.
<1>adv. ASSUME pc # 0, pc' = pc + 1, runs' = runs, paved \subseteq paved',
               stripped' = stripped
               \/ (Here.op \in Markers /\ stripped' = stripped \cup {Here.on}),
               Here.op = "wait" => Here.on \in paved'
        PROVE  MarkersSoFar'
  <2>1. ASSUME NEW f \in stripped' PROVE \E i \in 1..pc' : Mark(i, f) /\ (i < pc' \/ second')
    <3>1. CASE f \in stripped
      <4>1. PICK i \in 1..pc : Mark(i, f)
        BY <3>1, <1>adv, <1>old
      <4>2. i \in 1..pc' /\ i < pc'
        BY <4>1, <1>adv, <1>t
      <4> QED
        BY <4>1, <4>2
    <3>2. CASE f \notin stripped
      <4>1. Mark(pc, f) /\ pc \in 1..pc' /\ pc < pc'
        BY <3>2, <2>1, <1>adv, <1>t DEF Here
      <4> QED
        BY <4>1
    <3> QED
      BY <3>1, <3>2
  <2>2. ASSUME NEW i \in 1..(pc' - 1) PROVE Paved(i, paved')
    <3>1. CASE i = pc
      BY <3>1, <1>adv DEF Here
    <3>2. CASE i # pc
      <4>1. i \in 1..(pc - 1)
        BY <3>2, <2>2, <1>adv, <1>t
      <4> QED
        BY <4>1, <1>adv, <1>old
    <3> QED
      BY <3>1, <3>2
  <2> QED
    BY <2>1, <2>2, <1>adv, <1>old, <1>t, <1>goal
<1>1. CASE BeginRun
  <2>1. runs = 0 /\ runs' = 1 /\ pc = 0 /\ pc' = 1 /\ stripped' = stripped
    BY <1>1, <1>t DEF BeginRun, node
  <2>2. \A i \in 1..(1 - 1) : FALSE
    OBVIOUS
  <2> QED
    BY <2>1, <2>2, <1>old, <1>goal
<1>2. CASE CloudInitWrites \/ OverlayReady \/ PackageStarts \/ LookAgain \/ Reboot \/ UNCHANGED vars
  <2>1. pc' = pc /\ runs' = runs /\ paved' = paved /\ stripped' \subseteq stripped
        /\ second' = second
    BY <1>2 DEF CloudInitWrites, OverlayReady, PackageStarts, LookAgain, Reboot, vars, node, control
  <2> QED
    BY <2>1, <1>same
<1>3. CASE Restarts
  <2>1. pc' = pc /\ runs' = runs /\ paved' = paved /\ stripped' = stripped /\ second'
    BY <1>3 DEF Restarts
  <2> QED
    BY <2>1, <1>same
<1>4. CASE WaitSees
  <2>1. /\ pc' = pc /\ runs' = runs /\ paved' = paved /\ second' /\ pc # 0
        /\ Here.op \in Markers /\ stripped' = stripped \cup {Here.on}
    BY <1>4 DEF WaitSees, At, Markers
  <2> QED
    BY <2>1, <1>same
<1>5. CASE Kill \/ AlreadyRan \/ GiveUp \/ RunFails \/ EnableFails \/ RestartFails \/ Finishes
  <2>1. pc # 0 /\ pc' = 0 /\ runs' = runs
    BY <1>5 DEF Kill, AlreadyRan, GiveUp, RunFails, EnableFails, RestartFails, Finishes, Exit,
       At, Looking
  <2> QED
    BY <2>1, <1>ends
<1>6. CASE StripSees
  <2>1. /\ pc # 0 /\ pc' = pc + 1 /\ runs' = runs /\ paved' = paved /\ Here.op = "strip"
        /\ stripped' = stripped \cup {Here.on}
    BY <1>6 DEF StripSees, At, Advance
  <2> QED
    BY <2>1, <1>adv DEF Markers
<1>7. CASE WaitPaved \/ WaitPaves
  <2>1. /\ pc # 0 /\ pc' = pc + 1 /\ runs' = runs /\ stripped' = stripped
        /\ paved \subseteq paved' /\ Here.on \in paved'
    BY <1>7 DEF WaitPaved, WaitPaves, At, Advance, node
  <2> QED
    BY <2>1, <1>adv
<1>8. CASE NotYetRan \/ PollSees \/ DoStep \/ RunSucceeds \/ Enables \/ DisablesOther
           \/ OtherInactive \/ DisableFails \/ OverlaySeen \/ LocksFree \/ Settles \/ Edits
           \/ ProbeSucceeds \/ ProbeFails
  <2>1. /\ pc # 0 /\ pc' = pc + 1 /\ runs' = runs /\ stripped' = stripped /\ paved' = paved
        /\ Here.op # "wait"
    BY <1>8 DEF NotYetRan, PollSees, DoStep, RunSucceeds, Enables, DisablesOther, OtherInactive,
       DisableFails, OverlaySeen, LocksFree, Settles, Edits, ProbeSucceeds, ProbeFails, node,
       Advance, At
  <2> QED
    BY <2>1, <1>adv
<1> QED
  BY <1>1, <1>2, <1>3, <1>4, <1>5, <1>6, <1>7, <1>8 DEF Next, CseStep, Environment, LetGo

\* For every script that looks for no marker twice, or waits for it both times: a loop of a
\* first run that gives up does so for a file that is not there.  On a rerun it may give up
\* on a file whose marker an earlier run deleted.
THEOREM FirstTimeoutsAreTrue ==
    ASSUME \A c \in Configs : MarkersOnce(Steps(c)), MaxRuns = 1
    PROVE  Spec => TimeoutMeansMissing
<1>1. ASSUME TypeOK, MarkersSoFar, GiveUp, Here.on \in Whole PROVE FALSE
  <2>1. pc # 0 /\ ~second /\ ~Found /\ (Here.op = "wait" => Here.on \notin paved)
        /\ Here.op \in {"poll", "strip", "wait"}
    BY <1>1 DEF GiveUp, Looking
  <2>2. Here.op \in Markers
    BY <2>1, <1>1 DEF Found, Markers
  <2>3. pc \in DOMAIN Steps(conf) /\ MarkersOnce(Steps(conf))
    BY <1>1, <2>1, HereIsAStep DEF TypeOK
  <2>4. Here.on \notin NoMarker
    BY <2>2, <2>3 DEF MarkersOnce, Here
  <2>5. Here.on \notin Marked
    BY <2>1, <2>2 DEF Found, Markers
  <2>6. Here.on \in stripped
    BY <1>1, <2>4, <2>5 DEF Marked
  <2>7. PICK i \in 1..pc : /\ Steps(conf)[i].op \in Markers /\ Steps(conf)[i].on = Here.on
                           /\ i < pc
    BY <1>1, <2>1, <2>6 DEF MarkersSoFar
  <2>8. i \in 1..(pc - 1) /\ pc \in Nat
    BY <2>3, <2>7, <1>1, ScriptAssumption DEF TypeOK
  <2>9. Here.op = "wait" /\ Steps(conf)[i].op = "wait"
    BY <2>2, <2>3, <2>7, <2>8 DEF MarkersOnce, Here
  <2> QED
    BY <1>1, <2>1, <2>7, <2>8, <2>9 DEF MarkersSoFar
<1>2. TypeOK /\ MarkersSoFar => [GiveUp => Here.on \notin Whole]_vars
  BY <1>1
<1>3. TypeOK /\ MarkersSoFar /\ [Next]_vars => MarkersSoFar'
  BY NextMarkers
<1> QED
  BY <1>2, <1>3, TypeCorrect, InitMarkers, PTL DEF Spec, TimeoutMeansMissing
=============================================================================
