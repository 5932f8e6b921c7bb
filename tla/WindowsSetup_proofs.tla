------------------------ MODULE WindowsSetup_proofs ------------------------
(***************************************************************************)
(* Theorems about WindowsSetup, for every set of nodes, every bound and    *)
(* every failure: they rest on ScriptsInOrder, the one thing that must be  *)
(* known of the script.                                                    *)
(***************************************************************************)
EXTENDS WindowsSetup, FiniteSetTheorems, TLAPS

LEMMA NothingMadeAtFirst ==
    ASSUME NEW s, NEW x
    PROVE  ~Made(s, 1, x) /\ ~Seen(s, 1, x)
  BY DEF Made, Seen, MadeUntil, SeenUntil

\* What is made before the next command is made by this one or before, and not dropped.
LEMMA MadeSoFar ==
    ASSUME NEW s, NEW n \in Nat \ {0}, NEW x, Made(s, n + 1, x)
    PROVE  /\ x \notin s[n].drops
           /\ Made(s, n, x) \/ x \in s[n].makes
<1>1. PICK m \in 1 .. n : x \in s[m].makes /\ \A k \in m .. n : x \notin s[k].drops
  BY DEF Made, MadeUntil
<1>2. x \notin s[n].drops
  BY <1>1
<1>3. CASE m = n
  BY <1>1, <1>2, <1>3
<1>4. CASE m # n
  <2>1. m \in 1 .. n - 1 /\ \A k \in m .. n - 1 : x \notin s[k].drops
    BY <1>1, <1>4
  <2> QED
    BY <1>1, <1>2, <2>1 DEF Made, MadeUntil
<1> QED
  BY <1>3, <1>4

LEMMA SeenSoFar ==
    ASSUME NEW s, NEW n \in Nat \ {0}, NEW x, Seen(s, n + 1, x)
    PROVE  /\ x \notin s[n].drops
           /\ Seen(s, n, x) \/ (x \in s[n].makes /\ Logged \notin s[n].codes)
<1>1. PICK m \in 1 .. n : /\ x \in s[m].makes /\ Logged \notin s[m].codes
                          /\ \A k \in m .. n : x \notin s[k].drops
  BY DEF Seen, SeenUntil
<1>2. x \notin s[n].drops
  BY <1>1
<1>3. CASE m = n
  BY <1>1, <1>2, <1>3
<1>4. CASE m # n
  <2>1. m \in 1 .. n - 1 /\ \A k \in m .. n - 1 : x \notin s[k].drops
    BY <1>1, <1>4
  <2> QED
    BY <1>1, <1>2, <2>1 DEF Seen, SeenUntil
<1> QED
  BY <1>3, <1>4

\* What is made to stay until the end is made wherever the script may be from there on.
LEMMA MadeToStay ==
    ASSUME NEW s, NEW n \in Nat, NEW end \in Nat, NEW k \in n .. end, NEW x,
           MadeUntil(s, n, end, x)
    PROVE  Made(s, k, x)
<1>1. PICK m \in 1 .. n - 1 : x \in s[m].makes /\ \A i \in m .. end - 1 : x \notin s[i].drops
  BY DEF MadeUntil
<1>2. m \in 1 .. k - 1 /\ \A i \in m .. k - 1 : x \notin s[i].drops
  BY <1>1
<1> QED
  BY <1>1, <1>2 DEF Made, MadeUntil

LEMMA SeenToStay ==
    ASSUME NEW s, NEW n \in Nat, NEW end \in Nat, NEW k \in n .. end, NEW x,
           SeenUntil(s, n, end, x)
    PROVE  Seen(s, k, x)
<1>1. PICK m \in 1 .. n - 1 : /\ x \in s[m].makes /\ Logged \notin s[m].codes
                              /\ \A i \in m .. end - 1 : x \notin s[i].drops
  BY DEF SeenUntil
<1>2. m \in 1 .. k - 1 /\ \A i \in m .. k - 1 : x \notin s[i].drops
  BY <1>1
<1> QED
  BY <1>1, <1>2 DEF Seen, SeenUntil

LEMMA MadeIsOfMakes ==
    ASSUME NEW s \in Seq(Commands), NEW n \in 1 .. Len(s) + 1, NEW x,
           Made(s, n, x) \/ Seen(s, n, x)
    PROVE  x \in Makes(s)
<1>1. PICK m \in 1 .. n - 1 : x \in s[m].makes
  BY DEF Made, Seen, MadeUntil, SeenUntil
<1>2. m \in DOMAIN s
  BY <1>1
<1> QED
  BY <1>1, <1>2 DEF Makes

\* A command that is past.
LEMMA PastCommand ==
    ASSUME NEW s \in Seq(Commands), NEW k \in 1 .. Len(s) + 1, NEW n \in 1 .. k - 1
    PROVE  n \in DOMAIN s /\ n \in Nat /\ Len(s) + 1 \in Nat /\ k \in n .. Len(s) + 1
<1>1. Len(s) \in Nat /\ DOMAIN s = 1 .. Len(s)
  OBVIOUS
<1> QED
  BY <1>1

\* None of what a kubelet runs with or a run looks at is the restart.
LEMMA PartsAreNoRestart ==
    ASSUME NEW f
    PROVE  "restart task" \notin KubeletParts(f) /\ "restart task" \notin Looked(f)
<1>1. "restart task" \notin KubeletParts(f)
  BY Zenon DEF KubeletParts
<1>2. "restart task" \notin Looked(f)
  BY Zenon DEF Looked
<1> QED
  BY <1>1, <1>2

-----------------------------------------------------------------------------
LEMMA ScriptIsInOrder ==
    ASSUME ScriptsInOrder, node \in Nodes
    PROVE  /\ InOrder(node, Script(node))
           /\ Script(node) \in Seq(Commands) /\ Len(Script(node)) \in Nat
<1>1. InOrder(node, Script(node))
  BY NodesAssumption DEF ScriptsInOrder
<1>2. Script(node) \in Seq(Commands)
  BY <1>1 DEF InOrder
<1> QED
  BY <1>1, <1>2

\* The command the script is at, and a code of it.
LEMMA CurrentCommand ==
    ASSUME ScriptsInOrder, TypeOK, Running
    PROVE  /\ at \in DOMAIN Script(node) /\ at \in 1 .. Len(Script(node)) /\ at \in Nat \ {0}
           /\ Current \in Commands /\ Current = Script(node)[at]
<1>1. Script(node) \in Seq(Commands) /\ Len(Script(node)) \in Nat
  BY ScriptIsInOrder DEF TypeOK
<1>2. at \in 1 .. Len(Script(node)) /\ at \in Nat \ {0}
  BY <1>1 DEF TypeOK, Running
<1> QED
  BY <1>1, <1>2 DEF Current

LEMMA CodesOfCommands == \A c \in Commands : c.codes \subseteq Codes
  BY DEF Commands

LEMMA InitIsTyped == Init /\ ScriptsInOrder => TypeOK
<1> SUFFICES ASSUME Init, ScriptsInOrder PROVE TypeOK
  OBVIOUS
<1>1. node \in Nodes /\ at = 1 /\ tries = 0 /\ logged = {} /\ exitCode = 0 /\ wrote = FALSE
      /\ reported = None /\ run = "csecmd" /\ restarts = 0
  BY Zenon DEF Init
<1>2. at \in 1 .. Len(Script(node)) + 1
  BY <1>1, ScriptIsInOrder
<1>3. Cardinality(logged) <= MaxLogged /\ logged \subseteq 1 .. Len(Script(node))
  BY <1>1, FS_EmptySet, BoundsAssumption
<1>4. exitCode \in Codes
  BY <1>1 DEF Codes, Logged
<1>5. kubelet \in BOOLEAN /\ wrote \in BOOLEAN
  BY Zenon DEF Init
<1>6. result \in Codes \cup {None}
  <2>1. result \in {None, 0, Thrown}
    BY DEF Init, Earlier
  <2> QED
    BY <2>1 DEF Codes, Logged
<1> QED
  BY <1>1, <1>2, <1>3, <1>4, <1>5, <1>6, BoundsAssumption DEF TypeOK

LEMMA LoggedIsFinite ==
    ASSUME ScriptsInOrder, TypeOK PROVE IsFiniteSet(logged) /\ Cardinality(logged) \in Nat
<1>1. IsFiniteSet(1 .. Len(Script(node)))
  BY ScriptIsInOrder, FS_Interval DEF TypeOK
<1>2. IsFiniteSet(logged)
  BY <1>1, FS_Subset DEF TypeOK
<1> QED
  BY <1>2, FS_CardinalityType

\* Every step keeps the types.
LEMMA TypesAreKept == ScriptsInOrder /\ TypeOK /\ [Next]_vars => TypeOK'
<1> SUFFICES ASSUME ScriptsInOrder, TypeOK, [Next]_vars PROVE TypeOK'
  OBVIOUS
<1>L. Len(Script(node)) \in Nat /\ at \in 1 .. Len(Script(node)) + 1
  BY ScriptIsInOrder DEF TypeOK
<1>1. CASE Succeeds
  <2>1. at' \in 1 .. Len(Script(node)) + 1 /\ node' = node
    BY <1>1, <1>L DEF Succeeds, Running
  <2> QED
    BY <1>1, <2>1, BoundsAssumption DEF TypeOK, Succeeds, answer
<1>2. CASE TriesAgain
  BY <1>2, BoundsAssumption DEF TypeOK, TriesAgain, answer
<1>3. CASE Stops
  <2>1. PICK c \in Codes : Exit(c)
    BY <1>3, CurrentCommand, CodesOfCommands DEF Stops, LastTry, Unsourced, Codes
  <2>2. exitCode' \in Codes /\ run' = "finally" /\ tries' = 0
    BY <2>1 DEF Exit, TypeOK
  <2> QED
    BY <1>3, <2>2, BoundsAssumption DEF TypeOK, Stops, answer
<1>4. CASE Shrugs
  <2>1. at' \in 1 .. Len(Script(node)) + 1 /\ at \in 1 .. Len(Script(node)) /\ node' = node
    BY <1>4, <1>L DEF Shrugs, LastTry, Running
  <2>2. logged' \subseteq 1 .. Len(Script(node)) /\ Cardinality(logged') <= MaxLogged
    <3>1. CASE logged' = logged
      BY <3>1 DEF TypeOK
    <3>2. CASE Cardinality(logged) < MaxLogged /\ logged' = logged \cup {at}
      <4>1. Cardinality(logged') \in {Cardinality(logged), Cardinality(logged) + 1}
        BY <3>2, LoggedIsFinite, FS_AddElement
      <4> QED
        BY <3>2, <4>1, <2>1, LoggedIsFinite, BoundsAssumption DEF TypeOK
    <3> QED
      BY <1>4, <3>1, <3>2 DEF Shrugs
  <2> QED
    BY <1>4, <2>1, <2>2, BoundsAssumption DEF TypeOK, Shrugs, answer
<1>5. CASE Begins \/ BeginsNot \/ Completes \/ LosesResult
  BY <1>5 DEF TypeOK, Begins, BeginsNot, Completes, LosesResult, answer
<1>6. CASE WritesResult
  <2>1. wrote' \in BOOLEAN
    BY <1>6, Zenon DEF WritesResult
  <2> QED
    BY <1>6, <2>1 DEF TypeOK, WritesResult
<1>7. CASE Reports
  <2>1. reported' \in Codes \cup {None}
    BY <1>7 DEF TypeOK, Reports, Codes, Logged
  <2> QED
    BY <1>7, <2>1 DEF TypeOK, Reports
<1>8. CASE PostponedRestart
  <2>1. kubelet' \in BOOLEAN
    BY <1>8, Zenon DEF PostponedRestart, Joins
  <2> QED
    BY <1>8, <2>1 DEF TypeOK, PostponedRestart, answer
<1>9. CASE HostRestart
  <2>1. kubelet' \in BOOLEAN
    BY <1>9, Zenon DEF HostRestart, Joins
  <2> QED
    BY <1>9, <2>1, BoundsAssumption DEF TypeOK, HostRestart, answer
<1>10. CASE UNCHANGED vars
  BY <1>10 DEF TypeOK, vars, answer
<1> QED
  BY <1>1, <1>2, <1>3, <1>4, <1>5, <1>6, <1>7, <1>8, <1>9, <1>10 DEF Next, Step

\* The node is the same throughout; but for a command that succeeds or is shrugged off,
\* and for the postponed restart, so are the place in the script and what is there.
LEMMA WhatMoves ==
    ASSUME [Next]_vars
    PROVE  /\ node' = node
           /\ \/ Succeeds
              \/ Shrugs
              \/ at' = at /\ logged' = logged /\ things' = things
              \/ /\ at' = at /\ logged' = logged
                 /\ things' = things \ {"restart task"} /\ PostponedRestart
<1>1. CASE Succeeds
  BY <1>1 DEF Succeeds
<1>2. CASE Shrugs
  BY <1>2 DEF Shrugs
<1>3. CASE PostponedRestart
  BY <1>3 DEF PostponedRestart
<1>4. CASE \/ Begins \/ BeginsNot \/ TriesAgain \/ Stops \/ Completes
           \/ WritesResult \/ LosesResult \/ Reports \/ HostRestart
  BY <1>4
  DEF Begins, BeginsNot, TriesAgain, Stops, Completes, WritesResult, LosesResult, Reports,
      HostRestart
<1>5. CASE UNCHANGED vars
  BY <1>5 DEF vars
<1> QED
  BY <1>1, <1>2, <1>3, <1>4, <1>5 DEF Next, Step

-----------------------------------------------------------------------------
LEMMA InitIsInOrder ==
    Init /\ ScriptsInOrder => MadeIsThere /\ SeenIsThere /\ TasksWereMade /\ ZeroIsTheEnd
<1> SUFFICES ASSUME Init, ScriptsInOrder
             PROVE  MadeIsThere /\ SeenIsThere /\ TasksWereMade /\ ZeroIsTheEnd
  OBVIOUS
<1>1. at = 1 /\ run = "csecmd" /\ exitCode = 0
  BY Zenon DEF Init
<1>2. kubelet = FALSE /\ wrote = FALSE /\ reported = None
  BY Zenon DEF Init
<1>3. "reset task" \notin things /\ "restart task" \notin things
      /\ "windowscsehelper.ps1" \notin things
  <2>1. PICK image \in {{}, {"runtime service"}},
             left \in {{}, {"scripts.zip", "function files"}} : things = image \cup left
    BY Zenon DEF Init
  <2> QED
    BY <2>1
<1>4. MadeIsThere /\ SeenIsThere
  BY <1>1, NothingMadeAtFirst DEF MadeIsThere, SeenIsThere
<1>5. TasksWereMade
  BY <1>2, <1>3 DEF TasksWereMade
<1>6. ZeroIsTheEnd
  BY <1>1, <1>2, <1>3 DEF ZeroIsTheEnd, HelperSourced
<1> QED
  BY <1>4, <1>5, <1>6

\* A command misses nothing while nothing failed in silence.
LEMMA NeedsAreMet ==
    ASSUME ScriptsInOrder, TypeOK, MadeIsThere, Running, logged = {},
           "scaleSet" \in node \/ Logged \in Current.codes
    PROVE  Current.needs \subseteq things
<1>1. at \in DOMAIN Script(node) /\ Current = Script(node)[at]
      /\ at \in 1 .. Len(Script(node)) + 1 /\ Script(node) \in Seq(Commands)
  BY CurrentCommand, ScriptIsInOrder DEF TypeOK
<1>2. InOrder(node, Script(node))
  BY ScriptIsInOrder DEF TypeOK
<1> SUFFICES ASSUME NEW x \in Current.needs PROVE x \in things
  OBVIOUS
<1>3. Made(Script(node), at, x) /\ x # "restart task"
  BY <1>1, <1>2 DEF InOrder
<1>4. x \in Makes(Script(node))
  BY <1>1, <1>3, MadeIsOfMakes
<1> QED
  BY <1>3, <1>4 DEF MadeIsThere

LEMMA MadeStaysThere ==
    ScriptsInOrder /\ TypeOK /\ MadeIsThere /\ [Next]_vars => MadeIsThere'
<1> SUFFICES ASSUME ScriptsInOrder, TypeOK, MadeIsThere, [Next]_vars, logged' = {},
                    NEW x \in Makes(Script(node)) \ {"restart task"},
                    Made(Script(node), at', x)
             PROVE  x \in things'
  BY WhatMoves DEF MadeIsThere, Makes, Made
<1>1. CASE Succeeds
  <2>1. at \in Nat \ {0} /\ at' = at + 1 /\ logged = {} /\ Current = Script(node)[at]
        /\ things' = (things \cup Current.makes) \ Current.drops
    BY <1>1, CurrentCommand DEF Succeeds
  <2>2. x \notin Current.drops /\ (Made(Script(node), at, x) \/ x \in Current.makes)
    BY <2>1, MadeSoFar
  <2> QED
    BY <2>1, <2>2 DEF MadeIsThere
<1>2. CASE Shrugs
  <2>2. logged = {} /\ ~(Current.needs \subseteq things)
    BY <1>2 DEF Shrugs
  <2>3. Running /\ Logged \in Current.codes
    BY <1>2 DEF Shrugs, LastTry
  <2> QED
    BY <2>2, <2>3, NeedsAreMet
<1>3. CASE at' = at /\ logged' = logged /\ (things' = things \/ things' = things \ {"restart task"})
  BY <1>3 DEF MadeIsThere
<1> QED
  BY <1>1, <1>2, <1>3, WhatMoves

LEMMA SeenStaysThere ==
    ScriptsInOrder /\ TypeOK /\ SeenIsThere /\ [Next]_vars => SeenIsThere'
<1> SUFFICES ASSUME ScriptsInOrder, TypeOK, SeenIsThere, [Next]_vars,
                    NEW x \in Makes(Script(node)) \ {"restart task"},
                    Seen(Script(node), at', x)
             PROVE  x \in things'
  BY WhatMoves DEF SeenIsThere, Makes, Seen
<1>1. CASE Running /\ at' = at + 1
           /\ \/ things' = (things \cup Current.makes) \ Current.drops
              \/ things' = things /\ Logged \in Current.codes
  <2>1. at \in Nat \ {0} /\ at' = at + 1 /\ Current = Script(node)[at]
    BY <1>1, CurrentCommand
  <2>2. /\ x \notin Current.drops
        /\ Seen(Script(node), at, x) \/ (x \in Current.makes /\ Logged \notin Current.codes)
    BY <2>1, SeenSoFar
  <2> QED
    BY <1>1, <2>1, <2>2 DEF SeenIsThere
<1>2. CASE at' = at /\ (things' = things \/ things' = things \ {"restart task"})
  BY <1>2 DEF SeenIsThere
<1>3. Succeeds \/ Shrugs => <1>1!1
  BY DEF Succeeds, Shrugs, LastTry
<1> QED
  BY <1>1, <1>2, <1>3, WhatMoves

\* What is registered stays so as the script goes on.
LEMMA RegisteredOnce ==
    ASSUME at \in Nat \ {0}, at' = at \/ at' = at + 1, node' = node, NEW t, Registered(t)
    PROVE  Registered(t)'
<1>1. PICK n \in 1 .. at - 1 : t \in Script(node)[n].makes
  BY DEF Registered
<1>2. n \in 1 .. at' - 1
  BY <1>1
<1>3. Script(node)' = Script(node)
  OBVIOUS
<1> QED
  BY <1>1, <1>2, <1>3 DEF Registered

\* A task is there by a command the script is past.
LEMMA TasksStayMade ==
    ScriptsInOrder /\ TypeOK /\ TasksWereMade /\ [Next]_vars => TasksWereMade'
<1> SUFFICES ASSUME ScriptsInOrder, TypeOK, TasksWereMade, [Next]_vars PROVE TasksWereMade'
  OBVIOUS
<1>L. at \in Nat \ {0}
  BY ScriptIsInOrder DEF TypeOK
<1>1. CASE Succeeds
  <2>1. at' = at + 1 /\ node' = node /\ kubelet' = kubelet /\ Current = Script(node)[at]
        /\ things' \subseteq things \cup Script(node)[at].makes
    BY <1>1 DEF Succeeds, Current
  <2>2. \A t : Registered(t) => Registered(t)'
    BY <1>L, <2>1, RegisteredOnce
  <2>3. \A t : t \in Script(node)[at].makes => Registered(t)'
    <3>1. at \in 1 .. at' - 1
      BY <1>L, <2>1
    <3> QED
      BY <2>1, <3>1 DEF Registered
  <2> QED
    BY <2>1, <2>2, <2>3 DEF TasksWereMade
<1>2. CASE Shrugs
  <2>1. at' = at + 1 /\ node' = node /\ kubelet' = kubelet /\ things' = things
    BY <1>2 DEF Shrugs
  <2>2. \A t : Registered(t) => Registered(t)'
    BY <1>L, <2>1, RegisteredOnce
  <2> QED
    BY <2>1, <2>2 DEF TasksWereMade
<1>3. CASE PostponedRestart \/ HostRestart
  <2>1. at' = at /\ node' = node /\ things' \subseteq things
        /\ (kubelet' => "reset task" \in things)
    BY <1>3 DEF PostponedRestart, HostRestart, Joins
  <2> QED
    BY <2>1 DEF TasksWereMade, Registered
<1>4. CASE \/ Begins \/ BeginsNot \/ TriesAgain \/ Stops \/ Completes
           \/ WritesResult \/ LosesResult \/ Reports
  <2>1. at' = at /\ node' = node /\ things' = things /\ kubelet' = kubelet
    BY <1>4
    DEF Begins, BeginsNot, TriesAgain, Stops, Completes, WritesResult, LosesResult, Reports
  <2> QED
    BY <2>1 DEF TasksWereMade, Registered
<1>5. CASE UNCHANGED vars
  BY <1>5 DEF vars, TasksWereMade, Registered
<1> QED
  BY <1>1, <1>2, <1>3, <1>4, <1>5 DEF Next, Step

LEMMA ZeroStaysTheEnd ==
    ScriptsInOrder /\ TypeOK /\ ZeroIsTheEnd /\ [Next]_vars => ZeroIsTheEnd'
<1> SUFFICES ASSUME ScriptsInOrder, TypeOK, ZeroIsTheEnd, [Next]_vars PROVE ZeroIsTheEnd'
  OBVIOUS
<1>L. Len(Script(node)) \in Nat /\ at \in 1 .. Len(Script(node)) + 1
  BY ScriptIsInOrder DEF TypeOK
<1>N. None # 0 /\ (result' = exitCode => result' # None)
  BY NoneAssumption DEF TypeOK, Codes, Logged
<1>1. CASE Succeeds \/ Shrugs
  <2>1. run' = "script" /\ exitCode' = exitCode /\ run = "script"
        /\ wrote' = wrote /\ reported' = reported
    BY <1>1 DEF Succeeds, Shrugs, LastTry, Running, answer
  <2> QED
    BY <2>1 DEF ZeroIsTheEnd
<1>2. CASE Stops
  <2>1. run = "script" /\ at' = at /\ node' = node /\ things' = things /\ run' = "finally"
        /\ wrote' = wrote /\ reported' = reported
    BY <1>2 DEF Stops, Exit, LastTry, Unsourced, Running, answer
  <2>2. HelperSourced => exitCode' # 0
    BY <1>2 DEF Stops, Exit, Logged, Thrown
  <2> QED
    BY <2>1, <2>2 DEF ZeroIsTheEnd, HelperSourced
<1>3. CASE Completes
  <2>1. run = "script" /\ at' = at /\ node' = node /\ run' = "finally" /\ at = Len(Script(node)) + 1
        /\ wrote' = wrote /\ reported' = reported
    BY <1>L, <1>3 DEF Completes, answer
  <2> QED
    BY <2>1 DEF ZeroIsTheEnd
<1>4. CASE Begins \/ BeginsNot
  <2>1. run = "csecmd" /\ things' = things /\ exitCode' = exitCode /\ run' \in {"script", "report"}
        /\ wrote' = wrote /\ reported' = reported
    BY <1>4 DEF Begins, BeginsNot, answer
  <2> QED
    BY <2>1 DEF ZeroIsTheEnd, HelperSourced
<1>5. CASE WritesResult
  <2>1. run = "finally" /\ run' = "report" /\ at' = at /\ node' = node /\ things' = things
        /\ exitCode' = exitCode /\ result' = exitCode /\ reported' = reported
    BY <1>5 DEF WritesResult
  <2> QED
    BY <1>N, <2>1 DEF ZeroIsTheEnd, HelperSourced
<1>6. CASE LosesResult
  <2>1. run = "finally" /\ run' = "report" /\ at' = at /\ node' = node /\ things' = things
        /\ exitCode' = exitCode /\ wrote' = wrote /\ reported' = reported
    BY <1>6 DEF LosesResult, answer
  <2> QED
    BY <2>1 DEF ZeroIsTheEnd, HelperSourced
<1>7. CASE Reports
  <2>1. run = "report" /\ run' = "over" /\ at' = at /\ node' = node /\ things' = things
        /\ exitCode' = exitCode /\ wrote' = wrote /\ result' = result
        /\ reported' = IF result = None THEN 0 ELSE result
    BY <1>7 DEF Reports
  <2> QED
    BY <2>1 DEF ZeroIsTheEnd, HelperSourced
<1>8. CASE TriesAgain \/ PostponedRestart \/ HostRestart \/ UNCHANGED vars
  <2>1. /\ at' = at /\ node' = node /\ exitCode' = exitCode
        /\ result' = result /\ wrote' = wrote /\ reported' = reported
        /\ run' = run \/ (run # "over" /\ run' = "cut")
        /\ things' = things \/ things' = things \ {"restart task"}
    BY <1>8 DEF TriesAgain, PostponedRestart, HostRestart, vars, answer
  <2>2. HelperSourced' <=> HelperSourced
    BY <2>1, Zenon DEF HelperSourced
  <2> QED
    BY <2>1, <2>2 DEF ZeroIsTheEnd
<1> QED
  BY <1>1, <1>2, <1>3, <1>4, <1>5, <1>6, <1>7, <1>8 DEF Next, Step

LEMMA InvariantHolds == ScriptsInOrder => (Spec => []IInv)
<1> SUFFICES ASSUME ScriptsInOrder PROVE Spec => []IInv
  OBVIOUS
<1>1. Init => IInv
  BY InitIsTyped, InitIsInOrder DEF IInv
<1>2. IInv /\ [Next]_vars => IInv'
  BY TypesAreKept, MadeStaysThere, SeenStaysThere, TasksStayMade, ZeroStaysTheEnd DEF IInv
<1> QED
  BY <1>1, <1>2, PTL DEF Spec

-----------------------------------------------------------------------------
\* The types of kuberneteswindowssetup.ps1's state; the failures the log alone shows are
\* counted.
THEOREM TypesHold == ASSUME ScriptsInOrder PROVE Spec => []TypeOK
<1>1. IInv => TypeOK
  BY DEF IInv
<1> QED
  BY <1>1, InvariantHolds, PTL

\* Neither a command nor kubelet ever misses what it needs unless a command failed in
\* silence, whatever the node and wherever the machine restarts.
THEOREM NeedsAreFound == ASSUME ScriptsInOrder PROVE Spec => []FindsWhatItNeeds
<1>1. IInv => FindsWhatItNeeds
  <2> SUFFICES ASSUME IInv, logged = {}
               PROVE  /\ Running /\ "scaleSet" \in node => Current.needs \subseteq things
                      /\ kubelet => KubeletParts(node) \subseteq things
    BY DEF FindsWhatItNeeds
  <2>1. Running /\ "scaleSet" \in node => Current.needs \subseteq things
    BY NeedsAreMet DEF IInv
  <2>2. ASSUME kubelet, NEW x \in KubeletParts(node) PROVE x \in things
    <3>1. PICK n \in 1 .. at - 1 : "reset task" \in Script(node)[n].makes
      BY <2>2 DEF IInv, TasksWereMade, Registered
    <3>2. /\ InOrder(node, Script(node)) /\ Script(node) \in Seq(Commands)
          /\ Len(Script(node)) \in Nat /\ at \in 1 .. Len(Script(node)) + 1
      BY ScriptIsInOrder DEF IInv, TypeOK
    <3>3. /\ n \in DOMAIN Script(node) /\ n \in Nat
          /\ Len(Script(node)) + 1 \in Nat /\ at \in n .. Len(Script(node)) + 1
      BY <3>1, <3>2, PastCommand
    <3>4. MadeUntil(Script(node), n, Len(Script(node)) + 1, x)
      BY <2>2, <3>1, <3>2, <3>3 DEF InOrder
    <3>5. Made(Script(node), at, x)
      BY <3>2, <3>3, <3>4, MadeToStay
    <3>6. x \in Makes(Script(node)) /\ x # "restart task"
      BY <2>2, <3>2, <3>5, MadeIsOfMakes, PartsAreNoRestart
    <3> QED
      BY <3>5, <3>6 DEF IInv, MadeIsThere
  <2> QED
    BY <2>1, <2>2
<1> QED
  BY <1>1, InvariantHolds, PTL

\* A run that schedules the restart which joins the node has seen the runtime, the pause
\* image, the API server and calico's account, whatever failed, csecmd.ps1's copy and the
\* sourcing of the functions included; and so has one that reports a 0 of its own, unless
\* it has no Set-ExitCode to report anything else.
THEOREM LooksAreFirst == ASSUME ScriptsInOrder PROVE Spec => []LooksFirst
<1>1. IInv => LooksFirst
  <2> SUFFICES ASSUME IInv, \/ "restart task" \in things
                            \/ reported = 0 /\ wrote /\ HelperSourced,
                      NEW x \in Looked(Effective(node))
               PROVE  x \in things
    BY DEF LooksFirst
  <2>1. /\ InOrder(node, Script(node)) /\ Script(node) \in Seq(Commands)
        /\ Len(Script(node)) \in Nat /\ at \in 1 .. Len(Script(node)) + 1
    BY ScriptIsInOrder DEF IInv, TypeOK
  <2>2. CASE reported = 0 /\ wrote /\ HelperSourced
    <3>1. at = Len(Script(node)) + 1
      BY <2>2 DEF IInv, ZeroIsTheEnd
    <3>2. Seen(Script(node), at, x)
      BY <2>1, <3>1 DEF InOrder
    <3> QED
      BY <2>1, <3>2, MadeIsOfMakes, PartsAreNoRestart DEF IInv, SeenIsThere
  <2>3. CASE "restart task" \in things
    <3>1. PICK n \in 1 .. at - 1 : "restart task" \in Script(node)[n].makes
      BY <2>3 DEF IInv, TasksWereMade, Registered
    <3>2. /\ n \in DOMAIN Script(node) /\ n \in Nat
          /\ Len(Script(node)) + 1 \in Nat /\ at \in n .. Len(Script(node)) + 1
      BY <2>1, <3>1, PastCommand
    <3>3. SeenUntil(Script(node), n, Len(Script(node)) + 1, x)
      BY <2>1, <3>1, <3>2 DEF InOrder
    <3>4. Seen(Script(node), at, x)
      BY <2>1, <3>2, <3>3, SeenToStay
    <3> QED
      BY <2>1, <3>4, MadeIsOfMakes, PartsAreNoRestart DEF IInv, SeenIsThere
  <2> QED
    BY <2>2, <2>3
<1> QED
  BY <1>1, InvariantHolds, PTL
=============================================================================
