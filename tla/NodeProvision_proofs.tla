------------------------ MODULE NodeProvision_proofs ------------------------
(***************************************************************************)
(* Theorems about NodeProvision, for all scripts, write orders, images and *)
(* bounds that its assumptions allow.                                      *)
(***************************************************************************)
EXTENDS NodeProvision, TLAPS

-----------------------------------------------------------------------------
(***************************************************************************)
(* Type correctness                                                        *)
(***************************************************************************)
\* The step a run is at is one of the script's, and is the last one only if
\* it is a "finish".
LEMMA HereIsAStep ==
    ASSUME TypeOK, pc # 0
    PROVE  /\ pc \in DOMAIN Steps(conf)
           /\ Here \in Step
           /\ Here.op # "finish" => pc + 1 \in 0..Len(Steps(conf))
<1>1. Steps(conf) \in Seq(Step) /\ pc \in 1..Len(Steps(conf))
  BY ScriptAssumption DEF TypeOK
<1>2. pc \in DOMAIN Steps(conf) /\ Steps(conf)[pc] \in Step
  BY <1>1
<1>3. Here.op # "finish" => pc # Len(Steps(conf))
  BY <1>2, ScriptAssumption DEF Here, TypeOK
<1> QED
  BY <1>1, <1>2, <1>3 DEF Here

\* Step fields have their types.
LEMMA HereFields ==
    ASSUME TypeOK, pc # 0
    PROVE  Here.on \in STRING /\ Here.err \in Nat
  BY HereIsAStep DEF Step

LEMMA InitTypeOK == Init => TypeOK
<1> SUFFICES ASSUME Init PROVE TypeOK
  OBVIOUS
<1>1. Files(conf) \in Seq(STRING) /\ Steps(conf) \in Seq(Step)
  BY FilesAssumption, ScriptAssumption DEF Init
<1>2. Len(Files(conf)) \in Nat /\ Len(Steps(conf)) \in Nat
  BY <1>1
<1> QED
  <2>1. 0 \in 0..(Polls - 1) /\ 0 \in 0..MaxRuns /\ 0 \in 0..Len(Files(conf))
        /\ 0 \in 0..Len(Steps(conf))
    BY <1>2, BoundsAssumption
  <2>2. running \subseteq STRING /\ enabled \subseteq STRING
    BY BoundsAssumption DEF Init
  <2> QED
    BY <2>1, <2>2 DEF Init, TypeOK, Running

LEMMA NextTypeOK == TypeOK /\ [Next]_vars => TypeOK'
<1> SUFFICES ASSUME TypeOK, [Next]_vars PROVE TypeOK'
  OBVIOUS
<1>b. Polls \in Nat \ {0} /\ MaxRuns \in Nat
  BY BoundsAssumption
<1>z. 0 \in 0..(Polls - 1)
  BY <1>b
<1>l. Len(Steps(conf)) \in Nat /\ Len(Steps(conf)) # 0 /\ Len(Files(conf)) \in Nat
  BY ScriptAssumption, FilesAssumption DEF TypeOK
\* A run that goes on or ends keeps the types of the control variables.
<1>adv. ASSUME Advance, pc # 0, Here.op # "finish"
        PROVE  /\ pc' \in 0..Len(Steps(conf)) /\ second' \in BOOLEAN
               /\ tries' \in 0..(Polls - 1) /\ result' = result /\ runs' = runs
  <2>1. pc + 1 \in 0..Len(Steps(conf))
    BY <1>adv, HereIsAStep
  <2> QED
    BY <1>adv, <2>1, <1>z DEF Advance
<1>exit. ASSUME NEW code, Exit(code)
         PROVE  /\ pc' \in 0..Len(Steps(conf)) /\ second' \in BOOLEAN
                /\ tries' \in 0..(Polls - 1) /\ result' = code /\ runs' = runs
  <2>1. 0 \in 0..Len(Steps(conf))
    BY <1>l
  <2> QED
    BY <1>exit, <1>z, <2>1 DEF Exit
<1>on. pc # 0 => Here.on \in STRING /\ Here.err \in Nat
  BY HereFields
<1> USE DEF TypeOK
<1>1. CASE CloudInitWrites
  <2>1. written' \in 0..Len(Files(conf))
    BY <1>1, <1>l DEF CloudInitWrites
  <2> QED
    BY <1>1, <2>1 DEF CloudInitWrites, control
<1>2. CASE BeginRun
  <2>1. pc' \in 0..Len(Steps(conf)) /\ runs' \in 0..MaxRuns
    BY <1>2, <1>l, <1>b DEF BeginRun
  <2> QED
    BY <1>2, <2>1, <1>z DEF BeginRun, node, Running
<1>3. CASE Kill
  BY <1>3, <1>exit DEF Kill, node, Killed
<1>4. CASE Reboot
  BY <1>4 DEF Reboot, control
<1>5. CASE OverlayReady
  BY <1>5 DEF OverlayReady, node, control
<1>6. CASE AlreadyRan
  BY <1>6, <1>exit DEF AlreadyRan, node
<1>7. CASE NotYetRan \/ PollSees \/ DoStep \/ WaitPaved \/ OtherInactive \/ DisableFails
           \/ OverlaySeen \/ LocksFree \/ Settles \/ ProbeSucceeds
  BY <1>7, <1>adv DEF NotYetRan, PollSees, DoStep, WaitPaved, OtherInactive, DisableFails,
     OverlaySeen, LocksFree, Settles, ProbeSucceeds, At, node
<1>8. CASE StripSees
  BY <1>8, <1>adv, <1>on DEF StripSees, At
<1>9. CASE WaitSees
  BY <1>9, <1>on DEF WaitSees, At
<1>10. CASE WaitPaves
  BY <1>10, <1>adv, <1>on DEF WaitPaves, At
<1>11. CASE LookAgain
  <2>1. tries' \in 0..(Polls - 1)
    BY <1>11, <1>b DEF LookAgain
  <2> QED
    BY <1>11, <2>1 DEF LookAgain, node
<1>12. CASE GiveUp
  BY <1>12, <1>exit, <1>on DEF GiveUp, Looking, node
<1>13. CASE RunSucceeds
  BY <1>13, <1>adv, <1>on DEF RunSucceeds, At
<1>14. CASE RunFails \/ EnableFails
  <2>1. CASE RunFails
    BY <2>1, <1>exit, <1>on DEF RunFails, At, node
  <2>2. CASE EnableFails
    BY <2>2, <1>exit, <1>on DEF EnableFails, At, node
  <2> QED
    BY <1>14, <2>1, <2>2
<1>15. CASE Restarts
  BY <1>15, <1>on DEF Restarts, At
<1>16. CASE RestartFails
  BY <1>16, <1>exit, <1>on DEF RestartFails, At
<1>17. CASE Enables
  BY <1>17, <1>adv, <1>on DEF Enables, At
<1>18. CASE DisablesOther
  BY <1>18, <1>adv DEF DisablesOther, At
<1>19. CASE ProbeFails
  <2>1. verr' \in Nat
    <3>1. Here.err \in Nat
      BY <1>19, <1>on DEF ProbeFails, At
    <3>2. verr' = Here.err \/ verr' = 53
      BY <1>19 DEF ProbeFails, AzureDnsErr
    <3> QED
      BY <3>1, <3>2
  <2> QED
    BY <1>19, <2>1, <1>adv DEF ProbeFails, At, node
<1>20. CASE Finishes
  BY <1>20, <1>exit DEF Finishes, node
<1>21. CASE PackageStarts
  <2>1. Brings(Here.on) \subseteq STRING
    BY <1>21, HereIsAStep, PackagesAssumption DEF PackageStarts, At, Here
  <2> QED
    BY <1>21, <2>1 DEF PackageStarts, control
<1>22. CASE Edits
  <2>1. edits' \in Nat
    BY <1>22 DEF Edits
  <2> QED
    BY <1>22, <2>1, <1>adv DEF Edits, At
<1>23. CASE UNCHANGED vars
  BY <1>23 DEF vars, node, control
<1> QED
  BY <1>1, <1>2, <1>3, <1>4, <1>5, <1>6, <1>7, <1>8, <1>9, <1>10, <1>11, <1>12, <1>13, <1>14,
     <1>15, <1>16, <1>17, <1>18, <1>19, <1>20, <1>21, <1>22, <1>23 DEF Next, CseStep, Environment, LetGo

\* Every variable keeps its type, whatever the scripts and the files are.
THEOREM TypeCorrect == Spec => []TypeOK
<1> QED
  BY InitTypeOK, NextTypeOK, PTL DEF Spec

-----------------------------------------------------------------------------
(***************************************************************************)
(* Files are there when they are read                                      *)
(***************************************************************************)
\* cloud-init only ever adds to what is whole.
LEMMA WholeGrows ==
    ASSUME TypeOK, [Next]_vars
    PROVE  /\ conf' = conf /\ Whole \subseteq Whole' /\ SeenFiles \subseteq SeenFiles'
           /\ written = Len(Files(conf)) => written' = written
<1>1. conf' = conf /\ (written' = written \/ written' = written + 1)
  BY DEF Next, vars, CseStep, Environment, LetGo, CloudInitWrites, BeginRun, Kill, Reboot,
     OverlayReady, AlreadyRan, NotYetRan, PollSees, StripSees, WaitPaved, WaitSees, WaitPaves,
     LookAgain, GiveUp, DoStep, RunSucceeds, PackageStarts, RunFails, Restarts, RestartFails,
     Enables,
     EnableFails, OtherInactive, DisablesOther, DisableFails, OverlaySeen, LocksFree, Settles,
     Edits, ProbeSucceeds,
     ProbeFails, Finishes
<1>2. written \in Nat
  BY FilesAssumption DEF TypeOK
<1>3. 1..written \subseteq 1..written'
  BY <1>1, <1>2
<1>4. Whole \subseteq Whole'
  BY <1>1, <1>3 DEF Whole, Delivered
<1>5. written = Len(Files(conf)) => written' = written
  <2>1. ~(written < Len(Files(conf))) => written' = written
    BY DEF Next, vars, CseStep, Environment, LetGo, CloudInitWrites, BeginRun, Kill, Reboot,
       OverlayReady, AlreadyRan, NotYetRan, PollSees, StripSees, WaitPaved, WaitSees, WaitPaves,
       LookAgain, GiveUp, DoStep, RunSucceeds, PackageStarts, RunFails, Restarts, RestartFails,
       Enables, EnableFails, OtherInactive, DisablesOther, DisableFails, OverlaySeen, LocksFree,
       Settles, Edits, ProbeSucceeds, ProbeFails, Finishes
  <2> QED
    BY <2>1, <1>2
<1> QED
  BY <1>1, <1>4, <1>5 DEF SeenFiles

LEMMA InitLooks == Init => LooksSawTheirFiles
  BY DEF Init, LooksSawTheirFiles, At

LEMMA NextLooks == TypeOK /\ LooksSawTheirFiles /\ [Next]_vars => LooksSawTheirFiles'
<1> SUFFICES ASSUME TypeOK, LooksSawTheirFiles, [Next]_vars PROVE LooksSawTheirFiles'
  OBVIOUS
<1> DEFINE Looked(p) == \A j \in 1..(p - 1) :
             Steps(conf)[j].op \in {"poll", "strip", "wait"} =>
                Steps(conf)[j].on \in SeenFiles'
           Through == written' = Len(Files(conf))
           Settled(p) == \A j \in 1..(p - 1) : Steps(conf)[j].op = "settle" => Through
<1>g. /\ conf' = conf /\ SeenFiles \subseteq SeenFiles'
      /\ written = Len(Files(conf)) => Through
  BY WholeGrows
<1>p. pc \in Nat /\ (pc # 0 => pc \in DOMAIN Steps(conf))
  BY ScriptAssumption, HereIsAStep DEF TypeOK
<1>old. paved \subseteq SeenFiles' /\ Looked(pc) /\ Settled(pc)
        /\ (At("wait") /\ second => Here.on \in SeenFiles')
  BY <1>g DEF LooksSawTheirFiles
\* A run that ends, or that begins, has no step behind it.
<1>reset. ASSUME paved' = paved, pc' \in {0, 1}, second' = FALSE
          PROVE  LooksSawTheirFiles'
  <2>1. \A p \in {0, 1} : \A j \in 1..(p - 1) : FALSE
    OBVIOUS
  <2>2. conf' = conf /\ paved' \subseteq SeenFiles' /\ ~(At("wait")' /\ second')
    BY <1>reset, <1>g, <1>old
  <2>3. \A j \in 1..(pc' - 1) : FALSE
    BY <1>reset, <2>1
  <2> QED
    BY <2>2, <2>3 DEF LooksSawTheirFiles
\* A run that goes on has one more, which if it was a look has seen its file.
<1>adv. ASSUME pc # 0, pc' = pc + 1, second' = FALSE, paved' \subseteq SeenFiles',
               Here.op \in {"poll", "strip", "wait"} => Here.on \in SeenFiles',
               Here.op = "settle" => Through
        PROVE  LooksSawTheirFiles'
  <2>1. ASSUME NEW j \in 1..((pc + 1) - 1), Steps(conf)[j].op \in {"poll", "strip", "wait"}
        PROVE  Steps(conf)[j].on \in SeenFiles'
    <3>1. CASE j = pc
      BY <3>1, <2>1, <1>adv DEF Here
    <3>2. CASE j # pc
      BY <3>2, <2>1, <1>old, <1>p
    <3> QED
      BY <3>1, <3>2
  <2>2. ASSUME NEW j \in 1..((pc + 1) - 1), Steps(conf)[j].op = "settle"
        PROVE  Through
    <3>1. CASE j = pc
      BY <3>1, <2>2, <1>adv DEF Here
    <3>2. CASE j # pc
      BY <3>2, <2>2, <1>old, <1>p
    <3> QED
      BY <3>1, <3>2
  <2> QED
    BY <2>1, <2>2, <1>adv, <1>g DEF LooksSawTheirFiles
\* A step that leaves the run where it is.
<1>same. ASSUME pc' = pc, second' = second, paved' = paved
         PROVE  LooksSawTheirFiles'
  <2>1. Here' = Here /\ At("wait")' = At("wait")
    BY <1>same, <1>g DEF Here, At
  <2> QED
    BY <2>1, <1>same, <1>g, <1>old DEF LooksSawTheirFiles
<1>1. CASE Kill \/ AlreadyRan \/ GiveUp \/ RunFails \/ RestartFails \/ EnableFails \/ Finishes
  BY <1>1, <1>reset DEF Kill, AlreadyRan, GiveUp, RunFails, RestartFails, EnableFails, Finishes,
     Exit, node
<1>2. CASE BeginRun
  BY <1>2, <1>reset DEF BeginRun, node
<1>3. CASE CloudInitWrites \/ Reboot \/ OverlayReady \/ PackageStarts \/ LookAgain
  BY <1>3, <1>same DEF CloudInitWrites, Reboot, OverlayReady, PackageStarts, LookAgain, control,
     node
<1>4. CASE NotYetRan \/ DoStep \/ RunSucceeds \/ Enables \/ OtherInactive \/ DisablesOther
           \/ DisableFails \/ OverlaySeen \/ LocksFree \/ Edits \/ ProbeSucceeds \/ ProbeFails
  BY <1>4, <1>adv, <1>old DEF NotYetRan, DoStep, RunSucceeds, Enables, OtherInactive,
     DisablesOther, DisableFails, OverlaySeen, LocksFree, Edits, ProbeSucceeds, ProbeFails, At,
     Advance, node
<1>5. CASE PollSees
  <2>1. Here.on \in Whole
    BY <1>5 DEF PollSees, At, Found
  <2> QED
    BY <1>5, <2>1, <1>adv, <1>old, WholeGrows DEF PollSees, At, Advance, node, SeenFiles
<1>6. CASE StripSees
  <2>1. Here.on \in Marked
    BY <1>6 DEF StripSees, At, Found
  <2>2. Here.on \in SeenFiles'
    BY <2>1, <1>g DEF Marked, SeenFiles
  <2> QED
    BY <1>6, <2>2, <1>adv, <1>old DEF StripSees, At, Advance
<1>7. CASE WaitPaved
  BY <1>7, <1>adv, <1>old DEF WaitPaved, At, Advance, node
<1>8. CASE WaitSees
  <2>1. Here.on \in Marked
    BY <1>8 DEF WaitSees, At, Found
  <2>2. Here.on \in SeenFiles' /\ Here' = Here
    BY <2>1, <1>8, <1>g DEF Marked, SeenFiles, Here, WaitSees
  <2> QED
    BY <1>8, <2>2, <1>g, <1>old DEF WaitSees, LooksSawTheirFiles
<1>9. CASE WaitPaves
  <2>1. Here.on \in SeenFiles'
    BY <1>9, <1>old DEF WaitPaves
  <2> QED
    BY <1>9, <2>1, <1>adv, <1>old DEF WaitPaves, At, Advance
<1>10. CASE Restarts
  <2>1. Here' = Here /\ ~At("wait")'
    BY <1>10, <1>g DEF Restarts, Here, At
  <2> QED
    BY <1>10, <2>1, <1>g, <1>old DEF Restarts, LooksSawTheirFiles
<1>11. CASE Settles
  BY <1>11, <1>adv, <1>old, <1>g DEF Settles, At, Advance, node
<1>12. CASE UNCHANGED vars
  BY <1>12, <1>same DEF vars, node, control
<1> QED
  BY <1>1, <1>2, <1>3, <1>4, <1>5, <1>6, <1>7, <1>8, <1>9, <1>10, <1>11, <1>12
  DEF Next, CseStep, Environment, LetGo

\* The state a file is read in: every look behind the run saw its file, and by
\* Covered every file the step reads was written no later than one of those.
LEMMA LooksFindFiles ==
    ASSUME TypeOK, LooksSawTheirFiles,
           Covered(Steps(conf), Files(conf), OnImage(conf), Racing)
    PROVE  CommandsFindTheirFiles
<1> SUFFICES ASSUME NEW i \in 1..pc, NEW f \in Steps(conf)[i].uses \ Racing
             PROVE  f \in Whole
  BY DEF CommandsFindTheirFiles
<1>1. Steps(conf) \in Seq(Step) /\ pc \in 0..Len(Steps(conf)) /\ Files(conf) \in Seq(STRING)
      /\ written \in 0..Len(Files(conf))
  BY ScriptAssumption, FilesAssumption DEF TypeOK
<1>2. i \in DOMAIN Steps(conf)
  BY <1>1
<1>3. CASE f \in OnImage(conf) \ Delivered
  BY <1>3 DEF Whole
<1>4. ASSUME NEW j \in DOMAIN Steps(conf), Steps(conf)[j].op \in {"poll", "strip", "wait"},
             j < i, Steps(conf)[j].on \notin OnImage(conf),
             NEW m \in DOMAIN Files(conf), Files(conf)[m] = Steps(conf)[j].on,
             NEW k \in 1..m, Files(conf)[k] = f
      PROVE  f \in Whole
  <2>1. Steps(conf)[j].on \in Whole
    BY <1>4, <1>1 DEF LooksSawTheirFiles, SeenFiles
  <2>2. PICK n \in 1..written : Files(conf)[n] = Steps(conf)[j].on
    BY <2>1, <1>4 DEF Whole
  <2>3. n = m
    BY <2>2, <1>4, <1>1, FilesAssumption DEF TypeOK
  <2> QED
    BY <2>2, <2>3, <1>4, <1>1 DEF Whole
\* Behind the wait for the end of cloud-init everything is whole.
<1>5. ASSUME f \in Delivered, NEW j \in 1..(i - 1), Steps(conf)[j].op = "settle"
      PROVE  f \in Whole
  <2>1. j \in 1..(pc - 1)
    BY <1>1
  <2>2. written = Len(Files(conf))
    BY <2>1, <1>5 DEF LooksSawTheirFiles
  <2> QED
    BY <2>2, <1>5, <1>1 DEF Whole, Delivered
<1>6. \/ f \in OnImage(conf) \ Delivered
      \/ f \in Delivered /\ \E j \in 1..(i - 1) : Steps(conf)[j].op = "settle"
      \/ \E j \in {l \in DOMAIN Steps(conf) : Steps(conf)[l].op \in {"poll", "strip", "wait"}} :
            /\ j < i
            /\ Steps(conf)[j].on \notin OnImage(conf)
            /\ \E m \in DOMAIN Files(conf) :
                  /\ Files(conf)[m] = Steps(conf)[j].on
                  /\ \E k \in 1..m : Files(conf)[k] = f
  BY <1>2 DEF Covered, Delivered
<1> QED
  BY <1>3, <1>4, <1>5, <1>6

\* For every script and write order that keep the discipline Covered, no command
\* ever runs before the files it reads, the Racing ones apart, have their final
\* content: whenever the run was killed, however often it is run again, however slow
\* cloud-init is.
THEOREM FilesThereWhenRead ==
    ASSUME \A c \in Configs : Covered(Steps(c), Files(c), OnImage(c), Racing)
    PROVE  Spec => []CommandsFindTheirFiles
<1>1. TypeOK /\ LooksSawTheirFiles => CommandsFindTheirFiles
  BY LooksFindFiles DEF TypeOK
<1> QED
  BY <1>1, TypeCorrect, InitLooks, NextLooks, PTL DEF Spec

-----------------------------------------------------------------------------
(***************************************************************************)
(* A completed node is done                                                *)
(***************************************************************************)
LEMMA InitDone == Init => DoneSoFar
<1> SUFFICES ASSUME Init PROVE DoneSoFar
  OBVIOUS
<1>1. \A i \in 1..(0 - 1) : FALSE
  OBVIOUS
<1> QED
  BY <1>1 DEF Init, DoneSoFar, CompleteMeansDone

LEMMA NextDone == TypeOK /\ DoneSoFar /\ [Next]_vars => DoneSoFar'
<1> SUFFICES ASSUME TypeOK, DoneSoFar, [Next]_vars PROVE DoneSoFar'
  OBVIOUS
<1> DEFINE Checked(i) == Steps(conf)[i].op \in {"run", "start"}
<1>g. conf' = conf
  BY WholeGrows
<1>p. pc \in Nat /\ (pc # 0 => pc \in DOMAIN Steps(conf))
  BY ScriptAssumption, HereIsAStep DEF TypeOK
<1>s. Steps(conf) \in Seq(Step) /\ DOMAIN Steps(conf) = 1..Len(Steps(conf))
  BY ScriptAssumption DEF TypeOK
<1>old. \A i \in 1..(pc - 1) : Checked(i) => Steps(conf)[i].on \in done
  BY DEF DoneSoFar
\* Nothing is ever taken out of done, so a completed node stays completed.
<1>keep. ASSUME done \subseteq done', complete' = complete
         PROVE  CompleteMeansDone'
  BY <1>keep, <1>g DEF DoneSoFar, CompleteMeansDone
\* A run that ends, or that begins, has no step behind it.
<1>reset. ASSUME done' = done, complete' = complete, pc' \in {0, 1}
          PROVE  DoneSoFar'
  <2>1. \A p \in {0, 1} : \A i \in 1..(p - 1) : FALSE
    OBVIOUS
  <2>2. \A i \in 1..(pc' - 1) : FALSE
    BY <1>reset, <2>1
  <2> QED
    BY <2>2, <1>reset, <1>keep DEF DoneSoFar
\* A run goes past a command that is checked, or past a start, only once it is done.
<1>adv. ASSUME pc # 0, pc' = pc + 1, done \subseteq done', complete' = complete,
               Here.op \in {"run", "start"} => Here.on \in done'
        PROVE  DoneSoFar'
  <2>1. ASSUME NEW i \in 1..((pc + 1) - 1), Checked(i)
        PROVE  Steps(conf)[i].on \in done'
    <3>1. CASE i = pc
      BY <3>1, <2>1, <1>adv DEF Here
    <3>2. CASE i # pc
      BY <3>2, <2>1, <1>adv, <1>old, <1>p
    <3> QED
      BY <3>1, <3>2
  <2> QED
    BY <2>1, <1>adv, <1>keep, <1>g DEF DoneSoFar
\* A step that leaves the run where it is.
<1>same. ASSUME pc' = pc, done' = done, complete' = complete
         PROVE  DoneSoFar'
  BY <1>same, <1>keep, <1>g, <1>old DEF DoneSoFar
<1>1. CASE Kill \/ AlreadyRan \/ GiveUp \/ RunFails \/ RestartFails \/ EnableFails
  BY <1>1, <1>reset DEF Kill, AlreadyRan, GiveUp, RunFails, RestartFails, EnableFails,
     Exit, node
<1>2. CASE BeginRun
  BY <1>2, <1>reset DEF BeginRun, node
<1>3. CASE CloudInitWrites \/ Reboot \/ OverlayReady \/ PackageStarts \/ LookAgain \/ WaitSees
        \/ Restarts
  BY <1>3, <1>same DEF CloudInitWrites, Reboot, OverlayReady, PackageStarts, LookAgain, WaitSees,
     Restarts,
     control, node
<1>4. CASE NotYetRan \/ PollSees \/ StripSees \/ WaitPaved \/ WaitPaves \/ DoStep
           \/ OtherInactive \/ DisablesOther \/ DisableFails \/ OverlaySeen \/ LocksFree
           \/ Settles \/ Edits \/ ProbeSucceeds
           \/ ProbeFails
  BY <1>4, <1>adv DEF NotYetRan, PollSees, StripSees, WaitPaved, WaitPaves, DoStep,
     OtherInactive, DisablesOther, DisableFails, OverlaySeen, LocksFree, Settles, Edits,
     ProbeSucceeds, ProbeFails, At,
     Advance, node
<1>5. CASE RunSucceeds \/ Enables
  BY <1>5, <1>adv DEF RunSucceeds, Enables, At, Advance
\* The last step: everything before it is done, and it is no command itself.
<1>6. CASE Finishes
  <2>1. pc \in DOMAIN Steps(conf) /\ Here.op = "finish" /\ done' = done
    BY <1>6, <1>p DEF Finishes, At, node
  <2>2. pc = Len(Steps(conf))
    BY <2>1, ScriptAssumption DEF TypeOK, Here
  <2>3. ASSUME NEW i \in DOMAIN Steps(conf), Checked(i)
        PROVE  Steps(conf)[i].on \in done'
    <3>1. i # pc
      BY <2>1, <2>3 DEF Here
    <3>2. i \in 1..(pc - 1)
      BY <3>1, <2>2, <1>s, <1>p
    <3> QED
      BY <3>2, <2>3, <2>1, <1>old
  <2>4. CompleteMeansDone'
    BY <2>3, <1>g DEF CompleteMeansDone
  <2>5. \A i \in 1..(0 - 1) : FALSE
    OBVIOUS
  <2> QED
    BY <2>4, <2>5, <1>6 DEF DoneSoFar, Finishes, Exit
<1>7. CASE UNCHANGED vars
  BY <1>7, <1>same DEF vars, node, control
<1> QED
  BY <1>1, <1>2, <1>3, <1>4, <1>5, <1>6, <1>7 DEF Next, CseStep, Environment, LetGo

\* For every script: provision.complete never exists on a node where some command
\* of the script that is checked, or some start of a unit, has not succeeded.
THEOREM CompletedNodesAreDone == Spec => []CompleteMeansDone
<1>1. DoneSoFar => CompleteMeansDone
  BY DEF DoneSoFar
<1> QED
  BY <1>1, TypeCorrect, InitDone, NextDone, PTL DEF Spec

-----------------------------------------------------------------------------
(***************************************************************************)
(* A completed node is left alone                                          *)
(***************************************************************************)
LEMMA InitStops == Init => CompleteStopsRuns
  BY DEF Init, CompleteStopsRuns

\* A run on a completed node is at a look, a wait, a command, an edit or the test.
LEMMA StoppedBefore ==
    ASSUME TypeOK, CompleteStopsRuns, complete, pc # 0, ChecksFirst(Steps(conf))
    PROVE  Here.op \in BeforeCheck /\ (Here.op # "check" => Brings(Here.on) = {})
<1>1. PICK k \in DOMAIN Steps(conf) :
        /\ Steps(conf)[k].op = "check"
        /\ \A j \in 1..(k - 1) : Steps(conf)[j].op \in BeforeCheck \ {"check"}
                                /\ Brings(Steps(conf)[j].on) = {}
  BY DEF ChecksFirst
<1>2. pc \in DOMAIN Steps(conf) /\ DOMAIN Steps(conf) = 1..Len(Steps(conf))
      /\ Len(Steps(conf)) \in Nat
  BY HereIsAStep, ScriptAssumption DEF TypeOK
<1>3. k \notin 1..(pc - 1)
  BY <1>1 DEF CompleteStopsRuns
<1>4. pc = k \/ pc \in 1..(k - 1)
  BY <1>1, <1>2, <1>3
<1> QED
  BY <1>1, <1>4 DEF Here, BeforeCheck

LEMMA NextStops ==
    ASSUME \A c \in Configs : ChecksFirst(Steps(c))
    PROVE  TypeOK /\ CompleteStopsRuns /\ [Next]_vars => CompleteStopsRuns'
<1> SUFFICES ASSUME TypeOK, CompleteStopsRuns, [Next]_vars, complete'
             PROVE  \A j \in 1..(pc' - 1) : Steps(conf)[j].op # "check"
  BY WholeGrows DEF CompleteStopsRuns
<1>p. pc \in Nat
  BY ScriptAssumption DEF TypeOK
<1>old. complete => \A j \in 1..(pc - 1) : Steps(conf)[j].op # "check"
  BY DEF CompleteStopsRuns
<1>reset. ASSUME pc' \in {0, 1}
          PROVE  \A j \in 1..(pc' - 1) : Steps(conf)[j].op # "check"
  <2>1. \A p \in {0, 1} : \A j \in 1..(p - 1) : FALSE
    OBVIOUS
  <2> QED
    BY <2>1, <1>reset
\* A run that goes on on a completed node goes on from a step that is not the test.
<1>adv. ASSUME complete' = complete, pc' = pc + 1, pc # 0, Here.op # "check"
        PROVE  \A j \in 1..(pc' - 1) : Steps(conf)[j].op # "check"
  <2>1. ASSUME NEW j \in 1..((pc + 1) - 1)
        PROVE  Steps(conf)[j].op # "check"
    <3>1. CASE j = pc
      BY <3>1, <1>adv DEF Here
    <3>2. CASE j # pc
      BY <3>2, <1>p, <1>old, <1>adv
    <3> QED
      BY <3>1, <3>2
  <2> QED
    BY <2>1, <1>adv
<1>1. CASE Kill \/ AlreadyRan \/ GiveUp \/ RunFails \/ RestartFails \/ EnableFails \/ Finishes
           \/ BeginRun
  BY <1>1, <1>reset DEF Kill, AlreadyRan, GiveUp, RunFails, RestartFails, EnableFails, Finishes,
     BeginRun, Exit
<1>2. CASE CloudInitWrites \/ Reboot \/ OverlayReady \/ PackageStarts \/ LookAgain \/ WaitSees
        \/ Restarts
  BY <1>2, <1>old DEF CloudInitWrites, Reboot, OverlayReady, PackageStarts, LookAgain, WaitSees,
     Restarts,
     control
<1>3. CASE PollSees \/ StripSees \/ WaitPaved \/ WaitPaves \/ DoStep \/ RunSucceeds \/ Enables
           \/ OtherInactive \/ DisablesOther \/ DisableFails \/ OverlaySeen \/ LocksFree
           \/ Settles \/ Edits \/ ProbeSucceeds
           \/ ProbeFails
  BY <1>3, <1>adv DEF PollSees, StripSees, WaitPaved, WaitPaves, DoStep, RunSucceeds, Enables,
     OtherInactive, DisablesOther, DisableFails, OverlaySeen, LocksFree, Settles, Edits,
     ProbeSucceeds, ProbeFails, At,
     Advance
<1>4. CASE NotYetRan
  BY <1>4 DEF NotYetRan
<1>5. CASE UNCHANGED vars
  BY <1>5, <1>old DEF vars, control
<1> QED
  BY <1>1, <1>2, <1>3, <1>4, <1>5 DEF Next, CseStep, Environment, LetGo

\* For every script that comes to the test of provision.complete with no unit started and
\* no marker deleted, and edits nothing but in custom clouds: once the file exists, no run
\* of the CSE changes the node again, at whatever point earlier runs were killed, unless
\* the set-up of a custom cloud does.
THEOREM CompletedNodesAreLeftAlone ==
    ASSUME \A c \in Configs : ChecksFirst(Steps(c)) /\ EditsOfCustomClouds(c, Steps(c))
    PROVE  Spec => CompleteIsFinal
<1>1. ASSUME TypeOK, CompleteStopsRuns, DoneSoFar, [Next]_vars, complete, ~Reboot,
             ~CloudInitWrites
      PROVE  UNCHANGED node \/ ("customCloud" \in conf /\ Edits)
  <2>1. pc # 0 => Here.op \in BeforeCheck /\ (Here.op # "check" => Brings(Here.on) = {})
    BY <1>1, StoppedBefore DEF TypeOK
  <2>2. CASE BeginRun \/ Kill \/ OverlayReady \/ AlreadyRan \/ NotYetRan \/ PollSees
             \/ WaitPaved \/ LookAgain \/ GiveUp \/ DoStep \/ RunFails \/ EnableFails
             \/ OtherInactive \/ DisableFails \/ OverlaySeen \/ LocksFree \/ Settles
             \/ ProbeSucceeds \/ ProbeFails \/ Finishes
    BY <2>2 DEF BeginRun, Kill, OverlayReady, AlreadyRan, NotYetRan, PollSees, WaitPaved,
       LookAgain, GiveUp, DoStep, RunFails, EnableFails, OtherInactive, DisableFails,
       OverlaySeen, LocksFree, Settles, ProbeSucceeds, ProbeFails, Finishes
  <2>3. CASE StripSees \/ WaitSees \/ WaitPaves \/ Restarts \/ RestartFails \/ Enables
             \/ DisablesOther
    BY <2>1, <2>3 DEF StripSees, WaitSees, WaitPaves, Restarts, RestartFails, Enables,
       DisablesOther, At, BeforeCheck
  \* A command that is repeated had been done when the node was completed.
  <2>4. CASE RunSucceeds
    <3>1. pc \in DOMAIN Steps(conf) /\ Here.op = "run"
      BY <2>4, <1>1, HereIsAStep DEF RunSucceeds, At
    <3>2. Here.on \in done
      BY <3>1, <1>1 DEF DoneSoFar, CompleteMeansDone, Here
    <3> QED
      BY <2>4, <3>2 DEF RunSucceeds, node
  <2>5. CASE PackageStarts
    <3>1. Brings(Here.on) = {}
      BY <2>1, <2>5 DEF PackageStarts, At
    <3> QED
      BY <2>5, <3>1 DEF PackageStarts, node
  <2>6. CASE Edits
    <3>1. pc \in DOMAIN Steps(conf) /\ Steps(conf)[pc].op = "edit"
      BY <2>6, <1>1, HereIsAStep DEF Edits, At, Here
    <3>2. EditsOfCustomClouds(conf, Steps(conf))
      BY <1>1 DEF TypeOK
    <3> QED
      BY <2>6, <3>1, <3>2 DEF EditsOfCustomClouds
  <2>7. CASE UNCHANGED vars
    BY <2>7 DEF vars
  <2> QED
    BY <1>1, <2>2, <2>3, <2>4, <2>5, <2>6, <2>7 DEF Next, CseStep, Environment, LetGo
<1>2. TypeOK /\ CompleteStopsRuns /\ DoneSoFar /\ [Next]_vars
        => [complete /\ ~Reboot /\ ~CloudInitWrites
              => UNCHANGED node \/ ("customCloud" \in conf /\ Edits)]_vars
  BY <1>1
<1>3. TypeOK /\ CompleteStopsRuns /\ [Next]_vars => CompleteStopsRuns'
  BY NextStops
<1> QED
  BY <1>2, <1>3, TypeCorrect, InitStops, InitDone, NextDone, PTL
  DEF Spec, CompleteIsFinal

-----------------------------------------------------------------------------
(***************************************************************************)
(* The agent is told the truth                                             *)
(***************************************************************************)
\* Zero is reported by the test of provision.complete and by the run that creates it:
\* for every script whose failures exit with a code, the agent hears of success only
\* about a node that is provisioned, however its runs were killed.
THEOREM ZeroIsTrue ==
    ASSUME \A c \in Configs : ReportsAsAgreed(Steps(c))
    PROVE  Spec => []ZeroMeansComplete
<1>1. Init => ZeroMeansComplete
  BY DEF Init, ZeroMeansComplete, Running
<1>2. TypeOK /\ ZeroMeansComplete /\ [Next]_vars => ZeroMeansComplete'
  <2> SUFFICES ASSUME TypeOK, ZeroMeansComplete, [Next]_vars PROVE ZeroMeansComplete'
    OBVIOUS
  <2>fail. pc # 0 /\ Here.op \in {"poll", "strip", "wait", "run", "start"} => Here.err # 0
    BY HereIsAStep DEF TypeOK, ReportsAsAgreed, Here
  <2>1. CASE GiveUp \/ RunFails \/ RestartFails \/ EnableFails
    BY <2>1, <2>fail DEF GiveUp, RunFails, RestartFails, EnableFails, Looking, At, Exit,
       ZeroMeansComplete
  <2>2. CASE AlreadyRan
    BY <2>2 DEF AlreadyRan, ZeroMeansComplete
  <2>3. CASE Finishes
    BY <2>3 DEF Finishes, ZeroMeansComplete
  <2>4. CASE Kill \/ BeginRun
    BY <2>4 DEF Kill, BeginRun, Exit, Killed, Running, ZeroMeansComplete
  <2>5. CASE CloudInitWrites \/ Reboot \/ OverlayReady \/ PackageStarts \/ LookAgain \/ WaitSees
          \/ Restarts
    BY <2>5 DEF CloudInitWrites, Reboot, OverlayReady, PackageStarts, LookAgain, WaitSees,
       Restarts, control,
       ZeroMeansComplete
  <2>6. CASE NotYetRan \/ PollSees \/ StripSees \/ WaitPaved \/ WaitPaves \/ DoStep
             \/ RunSucceeds \/ Enables \/ OtherInactive \/ DisablesOther \/ DisableFails
             \/ OverlaySeen \/ LocksFree \/ Settles \/ Edits \/ ProbeSucceeds \/ ProbeFails
    BY <2>6 DEF NotYetRan, PollSees, StripSees, WaitPaved, WaitPaves, DoStep, RunSucceeds,
       Enables, OtherInactive, DisablesOther, DisableFails, OverlaySeen, LocksFree, Settles,
       Edits, ProbeSucceeds,
       ProbeFails, Advance, ZeroMeansComplete
  <2>7. CASE UNCHANGED vars
    BY <2>7 DEF vars, control, ZeroMeansComplete
  <2> QED
    BY <2>1, <2>2, <2>3, <2>4, <2>5, <2>6, <2>7 DEF Next, CseStep, Environment, LetGo
<1> QED
  BY <1>1, <1>2, TypeCorrect, PTL DEF Spec

-----------------------------------------------------------------------------
(***************************************************************************)
(* The CSE keeps its contract with the agent                               *)
(***************************************************************************)
\* The validation ends with one of its own codes.
VerdictKept == verr \in Verdicts

LEMMA NextVerdict ==
    ASSUME {0, AzureDnsErr} \subseteq Verdicts,
           \A c \in Configs : ReportsAsAgreed(Steps(c))
    PROVE  TypeOK /\ VerdictKept /\ [Next]_vars => VerdictKept'
<1> SUFFICES ASSUME TypeOK, VerdictKept, [Next]_vars PROVE VerdictKept'
  OBVIOUS
<1>1. CASE ProbeFails
  <2>1. Here.err \in Verdicts
    BY <1>1, HereIsAStep DEF ProbeFails, At, TypeOK, ReportsAsAgreed, Here
  <2> QED
    BY <1>1, <2>1 DEF ProbeFails, VerdictKept
<1>2. CASE BeginRun
  BY <1>2 DEF BeginRun, VerdictKept
<1>3. verr' = verr \/ ProbeFails \/ BeginRun
  BY DEF Next, vars, CseStep, Environment, LetGo, CloudInitWrites, BeginRun, Kill, Reboot,
     OverlayReady, AlreadyRan, NotYetRan, PollSees, StripSees, WaitPaved, WaitSees, WaitPaves,
     LookAgain, GiveUp, DoStep, RunSucceeds, PackageStarts, RunFails, Restarts, RestartFails,
     Enables,
     EnableFails, OtherInactive, DisablesOther, DisableFails, OverlaySeen, LocksFree, Settles,
     Edits, ProbeSucceeds,
     ProbeFails, Finishes, control
<1> QED
  BY <1>1, <1>2, <1>3 DEF VerdictKept

LEMMA InitPolls == Init => PollsSaw
<1> SUFFICES ASSUME Init PROVE PollsSaw
  OBVIOUS
<1>1. \A i \in DOMAIN Steps(conf) : ~(i < 0)
  BY ScriptAssumption DEF Init
<1> QED
  BY <1>1 DEF Init, PollsSaw

LEMMA NextPolls == TypeOK /\ PollsSaw /\ [Next]_vars => PollsSaw'
<1> SUFFICES ASSUME TypeOK, PollsSaw, [Next]_vars PROVE PollsSaw'
  OBVIOUS
<1>g. conf' = conf /\ Whole \subseteq Whole'
  BY WholeGrows
<1>p. pc \in Nat /\ DOMAIN Steps(conf) = 1..Len(Steps(conf)) /\ Len(Steps(conf)) \in Nat
  BY ScriptAssumption DEF TypeOK
\* A run that goes no further sees no further file.
<1>back. ASSUME complete' = complete, pc' \in {0, 1} \/ pc' = pc PROVE PollsSaw'
  <2>1. ASSUME NEW i \in DOMAIN Steps(conf), complete' \/ i < pc' PROVE complete \/ i < pc
    BY <2>1, <1>back, <1>p
  <2> QED
    BY <2>1, <1>g DEF PollsSaw
<1>adv. ASSUME complete' = complete, pc # 0, pc' = pc + 1,
               Here.op = "poll" => Here.on \in Whole
        PROVE  PollsSaw'
  <2>1. ASSUME NEW i \in DOMAIN Steps(conf), complete' \/ i < pc'
        PROVE  complete \/ i < pc \/ i = pc
    BY <2>1, <1>adv, <1>p
  <2> QED
    BY <2>1, <1>adv, <1>g DEF PollsSaw, Here
<1>1. CASE Kill \/ AlreadyRan \/ GiveUp \/ RunFails \/ RestartFails \/ EnableFails \/ BeginRun
  BY <1>1, <1>back DEF Kill, AlreadyRan, GiveUp, RunFails, RestartFails, EnableFails, BeginRun,
     Exit
<1>2. CASE CloudInitWrites \/ Reboot \/ OverlayReady \/ PackageStarts \/ LookAgain \/ WaitSees
        \/ Restarts
  BY <1>2, <1>back DEF CloudInitWrites, Reboot, OverlayReady, PackageStarts, LookAgain, WaitSees,
     Restarts,
     control
<1>3. CASE PollSees
  BY <1>3, <1>adv DEF PollSees, At, Found, Advance
<1>4. CASE NotYetRan \/ StripSees \/ WaitPaved \/ WaitPaves \/ DoStep \/ RunSucceeds
           \/ Enables \/ OtherInactive \/ DisablesOther \/ DisableFails \/ OverlaySeen
           \/ LocksFree \/ Settles \/ Edits
           \/ ProbeSucceeds \/ ProbeFails
  BY <1>4, <1>adv DEF NotYetRan, StripSees, WaitPaved, WaitPaves, DoStep, RunSucceeds, Enables,
     OtherInactive, DisablesOther, DisableFails, OverlaySeen, LocksFree, Settles, Edits,
     ProbeSucceeds, ProbeFails, At,
     Advance
<1>5. CASE Finishes
  <2>1. pc \in DOMAIN Steps(conf) /\ Here.op = "finish"
    BY <1>5, HereIsAStep DEF Finishes, At
  <2>2. pc = Len(Steps(conf))
    BY <2>1, ScriptAssumption DEF TypeOK, Here
  <2>3. ASSUME NEW i \in DOMAIN Steps(conf), Steps(conf)[i].op = "poll" PROVE i < pc
    <3>1. i # pc
      BY <2>1, <2>3 DEF Here
    <3> QED
      BY <3>1, <2>2, <1>p
  <2> QED
    BY <2>3, <1>g DEF PollsSaw
<1>6. CASE UNCHANGED vars
  BY <1>6, <1>back DEF vars, control
<1> QED
  BY <1>1, <1>2, <1>3, <1>4, <1>5, <1>6 DEF Next, CseStep, Environment, LetGo

\* On a completed node no run gives up on a file or a unit, and only an early command fails.
LEMMA CompletedFailsEarly ==
    ASSUME \A c \in Configs : ChecksFirst(Steps(c)) /\ ReportsAsAgreed(Steps(c)),
           TypeOK, CompleteStopsRuns, PollsSaw, complete, pc # 0
    PROVE  /\ Here.op \in BeforeCheck
           /\ ~GiveUp
           /\ Here.op = "run" => Here.err \in Early
<1>1. Here.op \in BeforeCheck
  BY StoppedBefore DEF TypeOK
<1>2. ~GiveUp
  <2>1. Here.op = "poll" => Here.on \in Whole
    BY HereIsAStep DEF PollsSaw, Here
  <2> QED
    BY <1>1, <2>1 DEF GiveUp, Looking, Found, BeforeCheck
<1>3. Here.op = "run" => Here.err \in Early
  <2>1. \A j \in 1..(pc - 1) : Steps(conf)[j].op # "check"
    BY DEF CompleteStopsRuns
  <2> QED
    BY <2>1, HereIsAStep DEF ReportsAsAgreed, TypeOK, Here
<1> QED
  BY <1>1, <1>2, <1>3

\* A step of the node is a step of the contract, or none.
LEMMA StepsKeepContract ==
    ASSUME {0, AzureDnsErr} \subseteq Verdicts,
           \A c \in Configs : ChecksFirst(Steps(c)) /\ ReportsAsAgreed(Steps(c)),
           TypeOK, CompleteStopsRuns, PollsSaw, VerdictKept, [Next]_vars
    PROVE  [Contract!CNext]_(Contract!cvars)
<1>c. complete \in BOOLEAN /\ pc \in Nat
  BY ScriptAssumption DEF TypeOK
<1>fail. pc # 0 /\ Here.op \in {"poll", "strip", "wait", "run", "start"}
           => Here.err \in Nat \ {0}
  BY HereIsAStep, HereFields DEF TypeOK, ReportsAsAgreed, Here
<1>early. complete /\ pc # 0 =>
            Here.op \in BeforeCheck /\ ~GiveUp
            /\ (Here.op = "run" => Here.err \in Early)
  BY CompletedFailsEarly
<1>1. CASE BeginRun
  BY <1>1 DEF BeginRun, Running, Contract!CNext, Contract!CBegin
<1>2. CASE Kill
  BY <1>2 DEF Kill, Exit, Killed, Contract!CNext, Contract!CKill
<1>3. CASE AlreadyRan
  BY <1>3 DEF AlreadyRan, At, Exit, Contract!CNext, Contract!CSkip
<1>4. CASE GiveUp
  <2>1. ~complete /\ pc # 0 /\ Here.err \in Nat \ {0}
    BY <1>4, <1>early, <1>fail DEF GiveUp, Looking, BeforeCheck
  <2> QED
    BY <1>4, <2>1 DEF GiveUp, Exit, Contract!CNext, Contract!CGiveUp
<1>5. CASE RestartFails \/ EnableFails
  <2>1. ~complete /\ pc # 0 /\ Here.err \in Nat \ {0}
    BY <1>5, <1>early, <1>fail DEF RestartFails, EnableFails, At, BeforeCheck
  <2> QED
    BY <1>5, <2>1 DEF RestartFails, EnableFails, Exit, Contract!CNext, Contract!CGiveUp
<1>6. CASE RunFails
  <2>1. pc # 0 /\ Here.err \in Nat \ {0} /\ (complete => Here.err \in Early)
    BY <1>6, <1>early, <1>fail DEF RunFails, At
  <2>2. pc' = 0 /\ result' = Here.err /\ complete' = complete
    BY <1>6 DEF RunFails, Exit
  <2>3. CASE complete
    BY <2>1, <2>2, <2>3 DEF Contract!CNext, Contract!CCannotStart
  <2>4. CASE ~complete
    BY <2>1, <2>2, <2>4 DEF Contract!CNext, Contract!CGiveUp
  <2> QED
    BY <2>3, <2>4
<1>7. CASE Finishes
  <2>1. pc # 0 /\ ~complete
    BY <1>7, <1>early DEF Finishes, At, BeforeCheck
  <2> QED
    BY <1>7, <2>1 DEF Finishes, Exit, VerdictKept, Contract!CNext, Contract!CProvision
<1>8. CASE CloudInitWrites \/ Reboot \/ OverlayReady \/ PackageStarts \/ LookAgain \/ WaitSees
        \/ Restarts
           \/ UNCHANGED vars
  BY <1>8 DEF CloudInitWrites, Reboot, OverlayReady, PackageStarts, LookAgain, WaitSees,
     Restarts, control,
     vars, Contract!cvars
<1>9. CASE NotYetRan \/ PollSees \/ StripSees \/ WaitPaved \/ WaitPaves \/ DoStep
           \/ RunSucceeds \/ Enables \/ OtherInactive \/ DisablesOther \/ DisableFails
           \/ OverlaySeen \/ LocksFree \/ Settles \/ Edits \/ ProbeSucceeds \/ ProbeFails
  <2>1. pc # 0 /\ pc' = pc + 1 /\ complete' = complete /\ result' = result
    BY <1>9 DEF NotYetRan, PollSees, StripSees, WaitPaved, WaitPaves, DoStep, RunSucceeds,
       Enables, OtherInactive, DisablesOther, DisableFails, OverlaySeen, LocksFree, Settles,
       Edits, ProbeSucceeds,
       ProbeFails, At, Advance
  <2>2. pc' # 0
    BY <2>1, <1>c
  <2> QED
    BY <2>1, <2>2 DEF Contract!cvars
<1> QED
  BY <1>1, <1>2, <1>3, <1>4, <1>5, <1>6, <1>7, <1>8, <1>9 DEF Next, CseStep, Environment, LetGo

\* For every script that tests provision.complete first and whose failures exit with
\* the agreed codes, the node implements ProvisionContract: a run on a provisioned node
\* reports 0 or cannot start, any other one provisions it or says that it did not,
\* and nothing takes the provisioning back.
THEOREM NodeKeepsContract ==
    ASSUME {0, AzureDnsErr} \subseteq Verdicts,
           \A c \in Configs : ChecksFirst(Steps(c)) /\ ReportsAsAgreed(Steps(c))
    PROVE  Spec => ImplementsContract
<1>1. Init => Contract!CInit
  BY DEF Init, Running, Contract!CInit
<1>2. Init => VerdictKept
  BY DEF Init, VerdictKept
<1>3. TypeOK /\ CompleteStopsRuns /\ [Next]_vars => CompleteStopsRuns'
  BY NextStops
<1>4. TypeOK /\ VerdictKept /\ [Next]_vars => VerdictKept'
  BY NextVerdict
<1>5. TypeOK /\ CompleteStopsRuns /\ PollsSaw /\ VerdictKept /\ [Next]_vars
        => [Contract!CNext]_(Contract!cvars)
  BY StepsKeepContract
<1> QED
  BY <1>1, <1>2, <1>3, <1>4, <1>5, TypeCorrect, InitStops, InitPolls, NextPolls, PTL
  DEF Spec, ImplementsContract, Contract!CSpec

-----------------------------------------------------------------------------
(***************************************************************************)
(* A completed node serves                                                 *)
(***************************************************************************)
LEMMA InitServes == Init => ServesSoFar
<1> SUFFICES ASSUME Init PROVE ServesSoFar
  OBVIOUS
<1>1. \A i \in DOMAIN Steps(conf) : ~(i < 0)
  BY ScriptAssumption DEF Init
<1> QED
  BY <1>1 DEF Init, ServesSoFar, At

LEMMA NextServes ==
    ASSUME \A c \in Configs : ChecksFirst(Steps(c)) /\ NothingUndone(Steps(c))
    PROVE  TypeOK /\ CompleteStopsRuns /\ ServesSoFar /\ [Next]_vars => ServesSoFar'
<1> SUFFICES ASSUME TypeOK, CompleteStopsRuns, ServesSoFar, [Next]_vars PROVE ServesSoFar'
  OBVIOUS
<1> DEFINE Started(i) == Steps(conf)[i].op = "start"
           Serves(i) == /\ Steps(conf)[i].on \in enabled
                        /\ Steps(conf)[i].on \in BootUnits => Steps(conf)[i].on \in running
           ServesNext(i) == /\ Steps(conf)[i].on \in enabled'
                            /\ Steps(conf)[i].on \in BootUnits => Steps(conf)[i].on \in running'
<1>g. conf' = conf
  BY WholeGrows
<1>p. pc \in Nat /\ DOMAIN Steps(conf) = 1..Len(Steps(conf)) /\ Len(Steps(conf)) \in Nat
  BY ScriptAssumption DEF TypeOK
<1>old. \A i \in DOMAIN Steps(conf) : Started(i) /\ (complete \/ i < pc) => Serves(i)
  BY DEF ServesSoFar
<1>stop. complete /\ pc # 0 => Here.op \in BeforeCheck
  BY StoppedBefore DEF TypeOK
\* What is to be shown of a step, in one piece.
<1>goal. ASSUME \A i \in DOMAIN Steps(conf) :
                   Started(i) /\ (complete' \/ i < pc') => ServesNext(i),
                second' = FALSE \/ (At("start")' /\ second' => Here.on \in running /\ Here' = Here
                                                       /\ running \subseteq running')
         PROVE  ServesSoFar'
  BY <1>goal, <1>g DEF ServesSoFar
\* A run that ends, begins or stays loses no unit.
<1>back. ASSUME complete' = complete, enabled \subseteq enabled', running \subseteq running',
                pc' \in {0, 1}, second' = FALSE
         PROVE  ServesSoFar'
  <2>1. ASSUME NEW i \in DOMAIN Steps(conf), Started(i), complete' \/ i < pc'
        PROVE  ServesNext(i)
    <3>1. complete
      BY <2>1, <1>back, <1>p
    <3> QED
      BY <3>1, <2>1, <1>old, <1>back
  <2> QED
    BY <2>1, <1>goal, <1>back
<1>same. ASSUME complete' = complete, enabled \subseteq enabled', running \subseteq running', pc' = pc,
                second' = second
         PROVE  ServesSoFar'
  <2>1. ASSUME NEW i \in DOMAIN Steps(conf), Started(i), complete' \/ i < pc'
        PROVE  ServesNext(i)
    BY <2>1, <1>old, <1>same
  <2>2. Here' = Here /\ (At("start")' /\ second' => Here.on \in running)
    BY <1>same, <1>g DEF Here, At, ServesSoFar
  <2> QED
    BY <2>1, <2>2, <1>goal, <1>same
<1>adv. ASSUME pc # 0, complete' = complete, enabled \subseteq enabled', running' = running,
               pc' = pc + 1, second' = FALSE,
               Here.op = "start" => Here.on \in enabled' /\ Here.on \in running
        PROVE  ServesSoFar'
  <2>1. ASSUME NEW i \in DOMAIN Steps(conf), Started(i), complete' \/ i < pc'
        PROVE  ServesNext(i)
    <3>1. CASE i = pc
      BY <3>1, <2>1, <1>adv DEF Here
    <3>2. CASE i # pc
      <4>1. complete \/ i < pc
        BY <3>2, <2>1, <1>adv, <1>p
      <4> QED
        BY <4>1, <2>1, <1>old, <1>adv
    <3> QED
      BY <3>1, <3>2
  <2> QED
    BY <2>1, <1>goal, <1>adv
<1>1. CASE Kill \/ AlreadyRan \/ GiveUp \/ RunFails \/ EnableFails \/ BeginRun
  BY <1>1, <1>back DEF Kill, AlreadyRan, GiveUp, RunFails, EnableFails, BeginRun, Exit, node
\* A unit that cannot be restarted may stop, but not on a completed node.
<1>2. CASE RestartFails
  <2>1. ~complete /\ complete' = complete /\ pc' = 0 /\ second' = FALSE
    BY <1>2, <1>stop DEF RestartFails, At, Exit, BeforeCheck
  <2>2. \A i \in DOMAIN Steps(conf) : ~(i < 0)
    BY <1>p
  <2> QED
    BY <2>1, <2>2, <1>goal
<1>3. CASE CloudInitWrites \/ OverlayReady \/ PackageStarts \/ LookAgain
  BY <1>3, <1>same DEF CloudInitWrites, OverlayReady, PackageStarts, LookAgain, control, node
<1>4. CASE WaitSees
  <2>1. Here' = Here /\ ~At("start")'
    BY <1>4, <1>g DEF WaitSees, Here, At
  <2>2. /\ complete' = complete /\ enabled' = enabled /\ running' = running /\ pc' = pc
    BY <1>4 DEF WaitSees
  <2> QED
    BY <2>1, <2>2, <1>goal, <1>old
<1>5. CASE Restarts
  <2>1. Here' = Here /\ Here.on \in running' /\ running \subseteq running'
    BY <1>5, <1>g DEF Restarts, Here
  <2>2. complete' = complete /\ enabled' = enabled /\ pc' = pc
    BY <1>5 DEF Restarts
  <2> QED
    BY <2>1, <2>2, <1>old, <1>g DEF ServesSoFar
\* After the reboot what is enabled and can be started at boot is running.
<1>6. CASE Reboot
  <2>1. /\ pc = 0 /\ pc' = 0 /\ complete' = complete /\ enabled' = enabled
        /\ running' = enabled \cap BootUnits
    BY <1>6 DEF Reboot, control
  <2>2. ~At("start")'
    BY <2>1 DEF At
  <2>3. ASSUME NEW i \in DOMAIN Steps(conf), Started(i), complete' \/ i < pc'
        PROVE  ServesNext(i)
    <3>1. Serves(i)
      BY <2>1, <2>3, <1>old
    <3> QED
      BY <3>1, <2>1
  <2> QED
    BY <2>2, <2>3, <1>g DEF ServesSoFar
<1>7. CASE NotYetRan \/ PollSees \/ StripSees \/ WaitPaved \/ WaitPaves \/ DoStep \/ RunSucceeds
           \/ OtherInactive \/ DisableFails \/ OverlaySeen \/ LocksFree \/ Settles \/ Edits
           \/ ProbeSucceeds \/ ProbeFails
  BY <1>7, <1>adv DEF NotYetRan, PollSees, StripSees, WaitPaved, WaitPaves, DoStep, RunSucceeds,
     OtherInactive, DisableFails, OverlaySeen, LocksFree, Settles, Edits, ProbeSucceeds,
     ProbeFails, At, Advance, node
<1>8. CASE Enables
  <2>1. Here.on \in running
    BY <1>8 DEF Enables, ServesSoFar
  <2> QED
    BY <1>8, <2>1, <1>adv DEF Enables, At, Advance
\* The unit that is disabled is none of those the script starts.
<1>9. CASE DisablesOther
  <2>1. pc \in DOMAIN Steps(conf) /\ Here.op = "disable"
    BY <1>9, HereIsAStep DEF DisablesOther, At
  <2>2. \A i \in DOMAIN Steps(conf) : Started(i) => Steps(conf)[i].on # Here.on
    BY <2>1 DEF NothingUndone, TypeOK, Here
  <2>3. /\ ~complete /\ complete' = complete /\ running' = running
        /\ enabled' = enabled \ {Here.on} /\ pc' = pc + 1 /\ second' = FALSE
    BY <1>9, <2>1, <1>stop DEF DisablesOther, Advance, At, BeforeCheck
  <2>4. ASSUME NEW i \in DOMAIN Steps(conf), Started(i), complete' \/ i < pc'
        PROVE  ServesNext(i)
    <3>1. i # pc
      BY <2>1, <2>4 DEF Here
    <3>2. Serves(i)
      BY <3>1, <2>3, <2>4, <1>p, <1>old
    <3> QED
      BY <3>2, <2>2, <2>3, <2>4
  <2> QED
    BY <2>3, <2>4, <1>goal
<1>10. CASE Finishes
  <2>1. pc \in DOMAIN Steps(conf) /\ Here.op = "finish"
    BY <1>10, HereIsAStep DEF Finishes, At
  <2>2. pc = Len(Steps(conf))
    BY <2>1, ScriptAssumption DEF TypeOK, Here
  <2>3. running' = running /\ enabled' = enabled /\ second' = FALSE
    BY <1>10 DEF Finishes, node, Exit
  <2>4. ASSUME NEW i \in DOMAIN Steps(conf), Started(i) PROVE ServesNext(i)
    <3>1. i # pc
      BY <2>1, <2>4 DEF Here
    <3>2. i < pc
      BY <3>1, <2>2, <1>p
    <3> QED
      BY <3>2, <2>3, <2>4, <1>old
  <2> QED
    BY <2>3, <2>4, <1>goal
<1>11. CASE UNCHANGED vars
  BY <1>11, <1>same DEF vars, node, control
<1> QED
  BY <1>1, <1>2, <1>3, <1>4, <1>5, <1>6, <1>7, <1>8, <1>9, <1>10, <1>11
  DEF Next, CseStep, Environment, LetGo

\* For every script that tests provision.complete first and disables nothing it starts:
\* a completed node runs every unit of it that can start at boot, for as long as it is
\* run again, killed and rebooted.
THEOREM CompletedNodesServe ==
    ASSUME \A c \in Configs : ChecksFirst(Steps(c)) /\ NothingUndone(Steps(c))
    PROVE  Spec => []CompleteNodeServes
<1>1. ServesSoFar => CompleteNodeServes
  BY DEF ServesSoFar, CompleteNodeServes
<1>2. TypeOK /\ CompleteStopsRuns /\ [Next]_vars => CompleteStopsRuns'
  BY NextStops
<1>3. TypeOK /\ CompleteStopsRuns /\ ServesSoFar /\ [Next]_vars => ServesSoFar'
  BY NextServes
<1> QED
  BY <1>1, <1>2, <1>3, TypeCorrect, InitStops, InitServes, PTL DEF Spec
=============================================================================
