-------------------------- MODULE NodeParts_proofs --------------------------
(***************************************************************************)
(* Theorems about what is installed on a node: the downloads, the hold on  *)
(* the guest agent and the container images, as NodeParts puts them        *)
(* together with apt's calls and the services, for all values of its       *)
(* constants.                                                              *)
(***************************************************************************)
EXTENDS NodeServices_proofs, AptRetries_proofs

-----------------------------------------------------------------------------
(***************************************************************************)
(* Downloads: the loops and what is made of the files.                     *)
(***************************************************************************)
LEMMA FetchSteps ==
    /\ Fetch!Steps[1] = "getCrictl" /\ Fetch!Steps[2] = "getCni" /\ Fetch!Steps[3] = "getKube"
    /\ Fetch!Steps[4] = "extractKube" /\ Fetch!Steps[5] = "boot" /\ Fetch!Steps[6] = "installCrictl"
    /\ Fetch!Steps[7] = "findDeb" /\ Fetch!Steps[8] = "getDeb" /\ Fetch!Steps[9] = "installDeb"
    /\ Fetch!Steps[10] = "findTeleportd" /\ Fetch!Steps[11] = "getTeleportd" /\ Fetch!Steps[12] = "moveTeleportd"
    /\ Fetch!Steps[13] = "findCni" /\ Fetch!Steps[14] = "getCni" /\ Fetch!Steps[15] = "untarCni"
    /\ Fetch!Steps[16] = "findKube" /\ Fetch!Steps[17] = "getKube" /\ Fetch!Steps[18] = "extractKube"
    /\ Fetch!Steps[19] = "moveKube"
    /\ Fetch!Last = 19 /\ DOMAIN Fetch!Steps = 1..19
  BY DEF Fetch!Steps, Fetch!Last

LEMMA FetchGets ==
    /\ DOMAIN Fetch!Gets = {"getCrictl", "getDeb", "getTeleportd", "getCni", "getKube"}
    /\ Fetch!Gets["getCrictl"] = "crictl" /\ Fetch!Gets["getCni"] = "cni"
    /\ Fetch!Gets["getKube"] = "kube" /\ Fetch!Gets["getDeb"] = "deb"
    /\ Fetch!Gets["getTeleportd"] = "teleportd"
  BY DEF Fetch!Gets

LEMMA FetchStepNumbers ==
    ASSUME NEW n \in 1..19
    PROVE  /\ Fetch!Steps[n] = "boot" <=> n = 5
           /\ Fetch!Steps[n] = "installCrictl" <=> n = 6
           /\ Fetch!Steps[n] = "findDeb" <=> n = 7
           /\ Fetch!Steps[n] = "installDeb" <=> n = 9
           /\ Fetch!Steps[n] = "findTeleportd" <=> n = 10
           /\ Fetch!Steps[n] = "moveTeleportd" <=> n = 12
           /\ Fetch!Steps[n] = "findCni" <=> n = 13
           /\ Fetch!Steps[n] = "getCni" <=> n \in {2, 14}
           /\ Fetch!Steps[n] = "untarCni" <=> n = 15
           /\ Fetch!Steps[n] = "findKube" <=> n = 16
           /\ Fetch!Steps[n] = "extractKube" <=> n \in {4, 18}
           /\ Fetch!Steps[n] = "moveKube" <=> n = 19
           /\ Fetch!Steps[n] \in DOMAIN Fetch!Gets <=> n \in {1, 2, 3, 8, 11, 14, 17}

<1>1. Fetch!Steps[n] = "boot" => n = 5
  BY FetchSteps
<1>2. Fetch!Steps[n] = "installCrictl" => n = 6
  BY FetchSteps
<1>3. Fetch!Steps[n] = "findDeb" => n = 7
  BY FetchSteps
<1>4. Fetch!Steps[n] = "installDeb" => n = 9
  BY FetchSteps
<1>5. Fetch!Steps[n] = "findTeleportd" => n = 10
  BY FetchSteps
<1>6. Fetch!Steps[n] = "moveTeleportd" => n = 12
  BY FetchSteps
<1>7. Fetch!Steps[n] = "findCni" => n = 13
  BY FetchSteps
<1>8. Fetch!Steps[n] = "getCni" => n \in {2, 14}
  BY FetchSteps
<1>9. Fetch!Steps[n] = "untarCni" => n = 15
  BY FetchSteps
<1>10. Fetch!Steps[n] = "findKube" => n = 16
  BY FetchSteps
<1>11. Fetch!Steps[n] = "extractKube" => n \in {4, 18}
  BY FetchSteps
<1>12. Fetch!Steps[n] = "moveKube" => n = 19
  BY FetchSteps
<1>13. Fetch!Steps[n] \in DOMAIN Fetch!Gets => n \in {1, 2, 3, 8, 11, 14, 17}
  BY FetchGets, FetchSteps
<1> QED
  BY <1>1, <1>2, <1>3, <1>4, <1>5, <1>6, <1>7, <1>8, <1>9, <1>10, <1>11, <1>12, <1>13, FetchGets, FetchSteps

\* What the step numbers mean for the step that is at hand.
LEMMA FetchAt ==
    ASSUME Fetch!TypeOK
    PROVE  /\ s2 \in 1..20
           /\ Fetch!AtStep("boot") => s2 = 5
           /\ Fetch!AtStep("installCrictl") => s2 = 6
           /\ Fetch!AtStep("findDeb") => s2 = 7
           /\ Fetch!AtStep("installDeb") => s2 = 9
           /\ Fetch!AtStep("findTeleportd") => s2 = 10
           /\ Fetch!AtStep("moveTeleportd") => s2 = 12
           /\ Fetch!AtStep("findCni") => s2 = 13
           /\ Fetch!AtStep("untarCni") => s2 = 15
           /\ Fetch!AtStep("findKube") => s2 = 16
           /\ Fetch!AtStep("extractKube") => s2 \in {4, 18}
           /\ Fetch!AtStep("moveKube") => s2 = 19
           /\ Fetch!Getter =>
                \/ s2 = 1 /\ Fetch!It = "crictl"
                \/ s2 \in {2, 14} /\ Fetch!It = "cni"
                \/ s2 \in {3, 17} /\ Fetch!It = "kube"
                \/ s2 = 8 /\ Fetch!It = "deb"
                \/ s2 = 11 /\ Fetch!It = "teleportd"
<1>1. s2 \in 1..20 /\ (s2 <= Fetch!Last => s2 \in 1..19)
  BY FetchSteps DEF Fetch!TypeOK
<1>2. ASSUME s2 <= Fetch!Last, Fetch!Steps[s2] \in DOMAIN Fetch!Gets
      PROVE  \/ s2 = 1 /\ Fetch!It = "crictl"
             \/ s2 \in {2, 14} /\ Fetch!It = "cni"
             \/ s2 \in {3, 17} /\ Fetch!It = "kube"
             \/ s2 = 8 /\ Fetch!It = "deb"
             \/ s2 = 11 /\ Fetch!It = "teleportd"
  <2>1. s2 \in {1, 2, 3, 8, 11, 14, 17}
    BY <1>1, <1>2, FetchStepNumbers
  <2> QED
    BY <2>1, FetchSteps, FetchGets DEF Fetch!It
<1> QED
  BY <1>1, <1>2, FetchStepNumbers DEF Fetch!AtStep, Fetch!Getter

LEMMA FetchInit == ASSUME Fetch!Init PROVE Fetch!IInv
  BY FetchAssumption, FetchSteps
  DEF Fetch!TriesAssumption, Fetch!Init, Fetch!IInv, Fetch!TypeOK, Fetch!WholeAtTheEnd,
      Fetch!FirstOfNode, Fetch!Artifacts, Fetch!Tarballs, Fetch!Files, Fetch!Contents

\* The loops leave what is installed alone.
LEMMA FetchLoops ==
    ASSUME Fetch!IInv, Fetch!Begin \/ Fetch!Found \/ Fetch!Download \/ Fetch!GiveUp
    PROVE  Fetch!IInv'
<1> DEFINE step == s2  try == s3  file == s4
<1> USE FetchAssumption, FetchAt, FetchSteps
    DEF Fetch!TriesAssumption, Fetch!IInv, Fetch!TypeOK, Fetch!WholeAtTheEnd,
        Fetch!Artifacts, Fetch!Tarballs, Fetch!Files, Fetch!Contents
<1>1. CASE Fetch!Begin
  BY <1>1 DEF Fetch!Begin
<1>2. CASE Fetch!Found
  BY <1>2 DEF Fetch!Found, Fetch!LooksGood, Fetch!Advance
<1>3. CASE Fetch!Download
  BY <1>3 DEF Fetch!Download
<1>4. CASE Fetch!GiveUp
  BY <1>4 DEF Fetch!GiveUp, Fetch!Advance, Fetch!Exit, Fetch!LooksGood
<1> QED
  BY <1>1, <1>2, <1>3, <1>4

LEMMA FetchStep ==
    ASSUME Fetch!IInv, Fetch!Next \/ UNCHANGED Fetch!vars
    PROVE  Fetch!IInv'
<1> DEFINE step == s2  file == s4  bin == s5  kubectl == s6
<1> USE FetchAssumption, FetchAt, FetchSteps
    DEF Fetch!TriesAssumption, Fetch!IInv, Fetch!TypeOK, Fetch!WholeAtTheEnd,
        Fetch!Artifacts, Fetch!Tarballs, Fetch!Files, Fetch!Contents, Fetch!Advance,
        Fetch!Skip, Fetch!Exit
<1>1. CASE Fetch!Begin \/ Fetch!Found \/ Fetch!Download \/ Fetch!GiveUp
  BY <1>1, FetchLoops
<1>2. CASE Fetch!Boot
  BY <1>2 DEF Fetch!Boot
<1>3. CASE Fetch!installCrictl
  BY <1>3 DEF Fetch!installCrictl
<1>4. CASE Fetch!FindDeb
  BY <1>4 DEF Fetch!FindDeb
<1>5. CASE Fetch!InstallDeb
  BY <1>5 DEF Fetch!InstallDeb
<1>6. CASE Fetch!FindTeleportd
  BY <1>6 DEF Fetch!FindTeleportd
<1>7. CASE Fetch!MoveTeleportd
  BY <1>7 DEF Fetch!MoveTeleportd
<1>8. CASE Fetch!FindCni
  BY <1>8 DEF Fetch!FindCni
<1>9. CASE Fetch!UntarCni
  BY <1>9 DEF Fetch!UntarCni
<1>10. CASE Fetch!FindKube
  BY <1>10 DEF Fetch!FindKube
<1>11. CASE Fetch!ExtractKube
  BY <1>11 DEF Fetch!ExtractKube
<1>12. CASE Fetch!MoveKube
  BY <1>12 DEF Fetch!MoveKube
<1>13. CASE UNCHANGED Fetch!vars
  BY <1>13 DEF Fetch!vars
<1> QED
  BY <1>1, <1>2, <1>3, <1>4, <1>5, <1>6, <1>7, <1>8, <1>9, <1>10, <1>11, <1>12, <1>13 DEF Fetch!Next

\* Both loops look before they give up.
LEMMA FetchTimesOut ==
    ASSUME Fetch!IInv, Fetch!Next \/ UNCHANGED Fetch!vars
    PROVE  Fetch!TimesOutForMissing
  BY DEF Fetch!TimesOutForMissing, Fetch!Next, Fetch!Begin, Fetch!Found, Fetch!Download,
         Fetch!GiveUp, Fetch!Boot, Fetch!installCrictl, Fetch!FindDeb, Fetch!InstallDeb,
         Fetch!FindTeleportd, Fetch!MoveTeleportd, Fetch!FindCni, Fetch!UntarCni,
         Fetch!FindKube, Fetch!ExtractKube, Fetch!MoveKube, Fetch!vars

-----------------------------------------------------------------------------
(***************************************************************************)
(* AgentHold: the hold on the guest agent's package.                       *)
(***************************************************************************)
\* The names are members: said once, where no proof has to unfold the sets.
LEMMA HoldNames ==
    /\ "runcmd" \in Hold!Marks /\ "deps" \in Hold!Marks /\ "unhold" \in Hold!Marks
    /\ "upgrade" \in Hold!Jobs /\ "purge" \in Hold!Jobs /\ "daily" \in Hold!Jobs
  BY DEF Hold!Marks, Hold!Jobs

LEMMA HoldInit == ASSUME Hold!Init PROVE Hold!IInv
<1>1. s1 \in BOOLEAN /\ s2 \in BOOLEAN /\ s6 \in BOOLEAN
  BY Zenon DEF Hold!Init
<1>2. Hold!TypeOK
  BY <1>1, HoldAssumption DEF Hold!Init, Hold!TypeOK, Hold!TriesAssumption
<1> QED
  BY <1>2, HoldNames, HoldAssumption
  DEF Hold!Init, Hold!IInv, Hold!AgentOutlivesRun, Hold!TriesAssumption

\* A call changes its own mark, and from the try on.
LEMMA HoldMarkSteps ==
    ASSUME Hold!IInv, NEW m \in Hold!Marks, Hold!MarkSteps(m)
    PROVE  Hold!IInv'
<1> DEFINE mark == s3  left == s4  job == s5  onHold == s6  agent == s7  run == s8
<1> USE HoldNames DEF Hold!TypeOK
<1>1. /\ mark[m] \in {"wait", "try"} /\ mark' \in [Hold!Marks -> {"no", "wait", "try", "done", "failed", "cut"}]
      /\ \A n \in Hold!Marks \ {m} : mark'[n] = mark[n]
      /\ mark'[m] \in {"try", "done", "failed"}
  BY DEF Hold!MarkSteps, Hold!LocksFree, Hold!Marked, Hold!MarkFails, Hold!Trying, Hold!IInv
<1>2. UNCHANGED <<s1, s2, job, agent, run, s9>>
  BY DEF Hold!MarkSteps, Hold!LocksFree, Hold!Marked, Hold!MarkFails
<1>3. /\ left' \in [Hold!Marks -> 0..MarkTries]
      /\ \A n \in Hold!Marks : mark'[n] \in {"no", "wait", "try"} => left'[n] > 0
  <2>1. left[m] \in 1..MarkTries /\ MarkTries \in Nat
    BY <1>1, HoldAssumption DEF Hold!IInv, Hold!TriesAssumption
  <2>2. CASE Hold!LocksFree(m)
    BY <1>1, <2>1, <2>2 DEF Hold!LocksFree, Hold!IInv
  <2>3. CASE Hold!Marked(m)
    BY <1>1, <2>1, <2>3 DEF Hold!Marked, Hold!IInv
  <2>4. CASE Hold!MarkFails(m)
    BY <1>1, <2>1, <2>4 DEF Hold!MarkFails, Hold!IInv
  <2> QED
    BY <2>2, <2>3, <2>4 DEF Hold!MarkSteps
<1>4. onHold' \in BOOLEAN /\ (m # "unhold" => onHold' \/ onHold' = onHold)
  BY Zenon DEF Hold!MarkSteps, Hold!LocksFree, Hold!Marked, Hold!MarkFails, Hold!IInv
<1>5. m = "deps" /\ mark'["deps"] = "done" => onHold'
  BY <1>1 DEF Hold!MarkSteps, Hold!LocksFree, Hold!Marked, Hold!MarkFails, Hold!IInv
<1>6. Hold!TypeOK'
  BY <1>1, <1>2, <1>3, <1>4 DEF Hold!IInv
<1>7. CASE m = "unhold"
  BY <1>1, <1>2, <1>3, <1>6, <1>7 DEF Hold!IInv, Hold!AgentOutlivesRun
<1>8. CASE m = "deps"
  <2>1. run = "holding" \/ (run = "over" /\ mark["unhold"] = "no")
    BY <1>1, <1>8 DEF Hold!IInv
  <2> QED
    BY <1>1, <1>2, <1>3, <1>5, <1>6, <1>8, <2>1 DEF Hold!IInv, Hold!AgentOutlivesRun
<1>9. CASE m = "runcmd"
  BY <1>1, <1>2, <1>3, <1>4, <1>6, <1>9 DEF Hold!IInv, Hold!AgentOutlivesRun
<1> QED
  BY <1>7, <1>8, <1>9 DEF Hold!Marks

\* The run's own upgrade works only while the hold is set.
LEMMA HoldJobSteps ==
    ASSUME Hold!IInv, NEW j \in Hold!Jobs, Hold!JobSteps(j)
    PROVE  Hold!IInv'
<1> DEFINE mark == s3  job == s5  onHold == s6  agent == s7  run == s8
<1> USE HoldNames DEF Hold!TypeOK
<1>1. /\ job[j] \in {"wait", "work"} /\ job' \in [Hold!Jobs -> {"no", "wait", "work", "done", "cut"}]
      /\ \A n \in Hold!Jobs \ {j} : job'[n] = job[n]
      /\ job'[j] \in {"work", "done"}
  BY DEF Hold!JobSteps, Hold!TakeLocks, Hold!Work, Hold!IInv
<1>2. UNCHANGED <<s1, s2, mark, s4, onHold, run, s9>>
  BY DEF Hold!JobSteps, Hold!TakeLocks, Hold!Work
<1>3. j = "upgrade" => run = "upgrading" /\ onHold
  BY <1>1 DEF Hold!IInv
<1>4. agent' \in {"old", "upgraded"}
  BY <1>3 DEF Hold!JobSteps, Hold!TakeLocks, Hold!Work, Hold!IInv, Hold!AgentOutlivesRun
<1>5. Hold!TypeOK'
  BY <1>1, <1>2, <1>4 DEF Hold!IInv
<1> QED
  BY <1>1, <1>2, <1>3, <1>4, <1>5 DEF Hold!IInv, Hold!AgentOutlivesRun

LEMMA HoldRunSteps == ASSUME Hold!IInv, Hold!RunSteps PROVE Hold!IInv'
<1> USE HoldNames, HoldAssumption DEF Hold!TypeOK, Hold!IInv, Hold!AgentOutlivesRun, Hold!TriesAssumption
<1>1. CASE Hold!InstallDeps
  BY <1>1 DEF Hold!InstallDeps
<1>2. CASE Hold!DistUpgrade
  BY <1>2 DEF Hold!DistUpgrade
<1>3. CASE Hold!HoldFailed
  BY <1>3 DEF Hold!HoldFailed
<1>4. CASE Hold!Finish
  BY <1>4 DEF Hold!Finish
<1> QED
  BY <1>1, <1>2, <1>3, <1>4 DEF Hold!RunSteps

LEMMA HoldReboot == ASSUME Hold!IInv, Hold!Reboot PROVE Hold!IInv'
<1> DEFINE mark == s3  job == s5
<1>1. /\ \A m \in Hold!Marks : mark'[m] = mark[m] \/ (mark[m] \in {"wait", "try"} /\ mark'[m] = "cut")
      /\ \A j \in Hold!Jobs : job'[j] = job[j] \/ job'[j] = "cut"
  BY DEF Hold!Reboot, Hold!Trying
<1>2. Hold!TypeOK'
  BY DEF Hold!Reboot, Hold!Trying, Hold!IInv, Hold!TypeOK
<1> QED
  BY <1>1, <1>2, HoldNames DEF Hold!Reboot, Hold!IInv, Hold!AgentOutlivesRun

LEMMA HoldStep ==
    ASSUME Hold!IInv, Hold!Next \/ UNCHANGED Hold!vars
    PROVE  Hold!IInv'
<1>1. CASE UNCHANGED Hold!vars
  BY <1>1 DEF Hold!vars, Hold!IInv, Hold!TypeOK, Hold!AgentOutlivesRun
<1> QED
  BY <1>1, HoldMarkSteps, HoldJobSteps, HoldRunSteps, HoldReboot DEF Hold!Next

\* installDeps has had its hold before the release was begun: only runcmd's can be late.
LEMMA HoldOnlyRuncmds ==
    ASSUME Hold!IInv, Hold!Next PROVE Hold!RuncmdHoldsAgain
<1> DEFINE mark == s3  onHold == s6
<1>1. SUFFICES ASSUME mark["unhold"] = "done", ~onHold, onHold'
               PROVE  mark["runcmd"] # mark'["runcmd"]
  BY DEF Hold!RuncmdHoldsAgain
<1>2. PICK m \in Hold!Marks : Hold!Marked(m) /\ m # "unhold"
  BY <1>1 DEF Hold!Next, Hold!MarkSteps, Hold!LocksFree, Hold!Marked, Hold!MarkFails,
     Hold!JobSteps, Hold!TakeLocks, Hold!Work, Hold!RunSteps, Hold!InstallDeps,
     Hold!DistUpgrade, Hold!HoldFailed, Hold!Finish, Hold!Reboot
<1>3. mark[m] = "try" /\ mark'[m] = "done"
  BY <1>2 DEF Hold!Marked, Hold!Trying, Hold!IInv, Hold!TypeOK
<1>4. m # "deps"
  BY <1>1, <1>3 DEF Hold!IInv
<1> QED
  BY <1>2, <1>3, <1>4 DEF Hold!Marks

-----------------------------------------------------------------------------
(***************************************************************************)
(* ContainerImages: the clean-ups beside the run.                          *)
(***************************************************************************)
LEMMA ImagesInit == ASSUME Images!Init PROVE Images!IInv
<1> USE ImagesAssumption DEF Images!ConstantsAssumption
<1>1. s1 \subseteq Images!Names \X (OtherVersions \cup {Own})
  BY DEF Images!Init
<1>2. s2 \in BOOLEAN /\ s6 \in [Images!Names -> BOOLEAN] /\ s10 \in BOOLEAN /\ ~s10
  BY Zenon DEF Images!Init
<1> QED
  BY <1>1, <1>2 DEF Images!Init, Images!IInv, Images!TypeOK

\* What a clean-up deletes it has listed: images of its name and of other versions.
LEMMA ImagesCleanUp ==
    ASSUME Images!IInv, NEW n \in Images!Names, Images!List(n) \/ Images!Remove(n)
    PROVE  /\ Images!IInv'
           /\ \A m \in Images!Names : <<m, Own>> \in s1 => <<m, Own>> \in s1'
<1> DEFINE store == s1  up == s2  clean == s3  left == s4  delete == s5  unread == s6
<1> USE ImagesAssumption DEF Images!ConstantsAssumption, Images!TypeOK, Images!IInv
<1>1. CASE Images!List(n)
  <2>1. unread' \in [Images!Names -> BOOLEAN]
    BY Zenon, <1>1 DEF Images!List
  <2>2. DOMAIN delete' = Images!Names /\ \A m \in Images!Names : delete'[m] \subseteq {m} \X OtherVersions
    BY <1>1 DEF Images!List
  <2> QED
    BY <1>1, <2>1, <2>2 DEF Images!List
<1>2. CASE Images!Remove(n)
  <2>1. PICK gone \in SUBSET delete[n] :
            /\ store' = store \ gone
            /\ \/ clean' = [clean EXCEPT ![n] = "over"] /\ UNCHANGED left
               \/ Images!TryAgain(n)
    BY <1>2 DEF Images!Remove
  <2>2. gone \subseteq {n} \X OtherVersions
    BY <2>1
  <2>3. \A m \in Images!Names : <<m, Own>> \notin gone
    BY <2>2
  <2>4. \A m \in Images!Names : <<m, Own>> \in store => <<m, Own>> \in store'
    BY <2>1, <2>3
  <2>5. store' \subseteq store
    BY <2>1
  <2>6. left[n] \in 1..ImageTries /\ ImageTries \in Nat
    BY <1>2 DEF Images!Remove
  <2>7. /\ clean' \in [Images!Names -> {"list", "remove", "over"}]
        /\ left' \in [Images!Names -> 0..ImageTries]
        /\ \A m \in Images!Names : clean'[m] # "over" => left'[m] > 0
    BY <2>1, <2>6 DEF Images!TryAgain
  <2>8. DOMAIN delete' = Images!Names /\ \A m \in Images!Names : delete'[m] \subseteq {m} \X OtherVersions
    BY <1>2 DEF Images!Remove
  <2>9. UNCHANGED <<up, unread, s7, s8, s9, s10, s11>>
    BY <1>2 DEF Images!Remove
  <2>10. "hyperkube" \in Images!Names
    BY DEF Images!Names
  <2> QED
    BY <2>4, <2>5, <2>7, <2>8, <2>9, <2>10
<1> QED
  BY <1>1, <1>2

LEMMA ImagesRunSteps ==
    ASSUME Images!IInv, Images!RunSteps \/ Images!PullProxy
    PROVE  Images!IInv' /\ s1 \subseteq s1'
<1> DEFINE store == s1
<1> USE ImagesAssumption
    DEF Images!ConstantsAssumption, Images!TypeOK, Images!IInv, Images!cleanVars
<1>1. CASE Images!InstallRuntime
  <2>1. s2' \in BOOLEAN
    BY Zenon, <1>1 DEF Images!InstallRuntime
  <2>2. /\ s7 = "installRuntime" /\ s7' \in {"runtimeStarts", "pull"}
        /\ UNCHANGED <<store, s3, s4, s5, s6, s8, s9, s10, s11>>
    BY <1>1 DEF Images!InstallRuntime
  <2> QED
    BY <2>1, <2>2
<1>2. CASE Images!RuntimeStarts
  <2>1. s2' \in BOOLEAN
    BY Zenon, <1>2 DEF Images!RuntimeStarts
  <2>2. UNCHANGED <<store, s3, s4, s5, s6, s8, s9, s10>>
    BY <1>2 DEF Images!RuntimeStarts
  <2>3. s7' \in {"pull", "over"} /\ s11' \in {"none", "success", "kubeletStart"}
    BY <1>2 DEF Images!RuntimeStarts
  <2>4. s7' = "pull" => s8' > 0
    BY <1>2 DEF Images!RuntimeStarts
  <2>5. s11' = "success" => s10'
    BY <1>2 DEF Images!RuntimeStarts
  <2> QED
    BY <2>1, <2>2, <2>3, <2>4, <2>5
<1>3. CASE Images!PullSucceeds
  <2>1. <<"hyperkube", Own>> \in Images!Names \X (OtherVersions \cup {Own})
    BY DEF Images!Names
  <2> QED
    BY <1>3, <2>1 DEF Images!PullSucceeds
<1>4. CASE Images!PullFails
  BY <1>4 DEF Images!PullFails
<1>5. CASE Images!Extract
  BY <1>5 DEF Images!Extract
<1>6. CASE Images!RestartRuntime
  BY <1>6 DEF Images!RestartRuntime
<1>7. CASE Images!PullProxy
  <2>1. <<"kube-proxy", ProxyVersion>> \in Images!Names \X (OtherVersions \cup {Own})
    BY DEF Images!Names
  <2>2. store \subseteq store' /\ store' \subseteq Images!Names \X (OtherVersions \cup {Own})
    BY <1>7, <2>1 DEF Images!PullProxy
  <2> QED
    BY <1>7, <2>2 DEF Images!PullProxy
<1> QED
  BY <1>1, <1>2, <1>3, <1>4, <1>5, <1>6, <1>7 DEF Images!RunSteps

LEMMA ImagesStep ==
    ASSUME Images!IInv, Images!Next \/ UNCHANGED Images!vars
    PROVE  Images!IInv' /\ Images!KeepsOwnImages
<1>1. CASE UNCHANGED Images!vars
  BY <1>1 DEF Images!vars, Images!IInv, Images!TypeOK, Images!KeepsOwnImages
<1> QED
  BY <1>1, ImagesCleanUp, ImagesRunSteps DEF Images!Next, Images!KeepsOwnImages

-----------------------------------------------------------------------------
(***************************************************************************)
(* The theorems.                                                           *)
(***************************************************************************)
InstallsInv ==
    /\ part = "downloads" => Fetch!IInv
    /\ part = "hold" => Hold!IInv
    /\ part = "images" => Images!IInv

LEMMA InstallsKept == PartsSpec => []InstallsInv
<1>1. PartsInit => InstallsInv
  BY InitOfPart, FetchInit, HoldInit, ImagesInit DEF InstallsInv
<1>2. InstallsInv /\ [PartsNext]_allVars => InstallsInv'
  BY StepOfPart, FetchStep, HoldStep, ImagesStep DEF InstallsInv
<1> QED
  BY <1>1, <1>2, PTL DEF PartsSpec, PartsSafety

\* Every variable of every part keeps its type, if retrycmd_if_failure is asked for a try
\* at all: without one, AptRetries' own counters have no try to count.
THEOREM PartsKeepTypes == ASSUME InstallsAskEnough PROVE PartsSpec => []PartsTypeOK
<1>1. PartsInit => IInv
  BY InitOfPart, InitEstablishes
<1>2. IInv /\ [PartsNext]_allVars => IInv'
  BY StepOfPart, StepKeeps
<1>3. PartsInit => part \in Parts
  BY InitOfPart
<1>4. part \in Parts /\ [PartsNext]_allVars => (part \in Parts)'
  BY StepOfPart DEF Parts
<1>5. IInv /\ part \in Parts /\ ServicesInv /\ InstallsInv => PartsTypeOK
  BY DEF PartsTypeOK, IInv, ServicesInv, InstallsInv, Mount!IInv, Hosts!IInv, Dedup!IInv,
         Fetch!IInv, Hold!IInv, Monitor!IInv, Labels!IInv, Images!IInv
<1> QED
  BY <1>1, <1>2, <1>3, <1>4, <1>5, ServicesKept, InstallsKept, PTL DEF PartsSpec, PartsSafety

\* An installation that goes through has left the whole of the network plugin, of kubelet
\* and of the containerd that was wanted, however downloads break off: what a try has left
\* half is only taken for good where nothing is made of it (cse_install.sh, the loops).
THEOREM InstalledIsWhole == PartsSpec => []WholeAtTheEnd
<1>1. InstallsInv => WholeAtTheEnd
  BY DEF InstallsInv, WholeAtTheEnd, Fetch!IInv
<1> QED
  BY <1>1, InstallsKept, PTL

\* A download that is reported as timed out has not come, in its last try either.
THEOREM TimeoutsAreTrue == PartsSpec => TimedOutMeansMissing
<1>1. ASSUME InstallsInv, [PartsNext]_allVars
      PROVE  [part = "downloads" => Fetch!TimesOutForMissing]_allVars
  BY <1>1, StepOfPart, FetchTimesOut DEF InstallsInv
<1> QED
  BY <1>1, InstallsKept, PTL DEF PartsSpec, PartsSafety, TimedOutMeansMissing

\* The upgrade of everything that installDeps makes leaves the agent that runs the CSE
\* alone, whatever runcmd's hold, the purge and apt's daily job do meanwhile
\* (cse_install_ubuntu.sh: the hold is set, or the run ends, before the upgrade).
THEOREM UpgradeSparesAgent == PartsSpec => []AgentOutlivesRun
<1>1. InstallsInv => AgentOutlivesRun
  BY DEF InstallsInv, AgentOutlivesRun, Hold!IInv
<1> QED
  BY <1>1, InstallsKept, PTL

\* Once the release has worked, only runcmd's hold, if it is that late, sets it again:
\* installDeps has had its own before the release was begun.
THEOREM LateHoldIsRuncmds == PartsSpec => OnlyRuncmdHoldsAgain
<1>1. ASSUME InstallsInv, [PartsNext]_allVars
      PROVE  [part = "hold" => Hold!RuncmdHoldsAgain]_allVars
  <2>1. CASE UNCHANGED allVars
    BY <2>1
  <2>2. CASE PartsNext /\ part = "hold"
    <3>1. Hold!Next
      BY <2>2 DEF PartsNext, PartNext
    <3> QED
      BY <1>1, <2>2, <3>1, HoldOnlyRuncmds DEF InstallsInv
  <2> QED
    BY <1>1, <2>1, <2>2
<1> QED
  BY <1>1, InstallsKept, PTL DEF PartsSpec, PartsSafety, OnlyRuncmdHoldsAgain

\* A run without separate binaries that succeeds has its kubelet, taken out of an image
\* of its version that is still there (extractHyperkube, the clean-ups beside it).
THEOREM KubeletHasItsImage == PartsSpec => []SuccessHasKubelet
<1>1. InstallsInv => SuccessHasKubelet
  BY DEF InstallsInv, SuccessHasKubelet, Images!SuccessHasKubelet, Images!IInv
<1> QED
  BY <1>1, InstallsKept, PTL

\* The label service sets labels that were wanted and missing, and removes none; the
\* clean-ups delete no image of this version of Kubernetes, whatever is pulled meanwhile.
THEOREM OthersAreLeftAlone == PartsSpec => LeavesTheRest
<1>1. ASSUME InstallsInv, ServicesInv, [PartsNext]_allVars
      PROVE  [/\ part = "labels" => Labels!OnlySetsWanted
              /\ part = "images" => Images!KeepsOwnImages]_allVars
  <2>1. CASE UNCHANGED allVars
    BY <2>1
  <2>2. CASE PartsNext
    <3>1. part = "labels" => Labels!Next
      BY <2>2 DEF PartsNext, PartNext
    <3>2. part = "images" => Images!KeepsOwnImages
      BY <1>1, StepOfPart, ImagesStep DEF InstallsInv
    <3> QED
      BY <1>1, <3>1, <3>2, LabelsOnlySetsWanted DEF ServicesInv
  <2> QED
    BY <1>1, <2>1, <2>2
<1> QED
  BY <1>1, InstallsKept, ServicesKept, PTL DEF PartsSpec, PartsSafety, LeavesTheRest
=============================================================================
