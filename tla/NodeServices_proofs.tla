------------------------ MODULE NodeServices_proofs ------------------------
(***************************************************************************)
(* Theorems about the services of a node: the bind mount, the hosts        *)
(* reconciler, the de-duplication rules, the health monitor and the label  *)
(* updater, as NodeParts puts them together, for all values of its         *)
(* constants.                                                              *)
(***************************************************************************)
EXTENDS NodeParts, FiniteSets, FiniteSetTheorems, SequenceTheorems, TLAPS

-----------------------------------------------------------------------------
(***************************************************************************)
(* A step of the whole is one of its part.                                 *)
(***************************************************************************)
LEMMA InitOfPart ==
    ASSUME PartsInit
    PROVE  /\ part \in Parts /\ Init
           /\ part = "mount" => Mount!Init
           /\ part = "hosts" => Hosts!Init
           /\ part = "dedup" => Dedup!Init
           /\ part = "downloads" => Fetch!Init
           /\ part = "hold" => Hold!Init
           /\ part = "monitor" => Monitor!Init
           /\ part = "labels" => Labels!Init
           /\ part = "images" => Images!Init
  BY DEF PartsInit, PartInit, NoAptCall, Parts

LEMMA StepOfPart ==
    ASSUME [PartsNext]_allVars
    PROVE  /\ part' = part
           /\ [Next]_vars
           /\ part = "mount" => Mount!Next \/ UNCHANGED Mount!vars
           /\ part = "hosts" => Hosts!Next \/ UNCHANGED Hosts!vars
           /\ part = "dedup" => Dedup!Next \/ UNCHANGED Dedup!vars
           /\ part = "downloads" => Fetch!Next \/ UNCHANGED Fetch!vars
           /\ part = "hold" => Hold!Next \/ UNCHANGED Hold!vars
           /\ part = "monitor" => Monitor!Next \/ UNCHANGED Monitor!vars
           /\ part = "labels" => Labels!Next \/ UNCHANGED Labels!vars
           /\ part = "images" => Images!Next \/ UNCHANGED Images!vars
<1>1. CASE part = "apt" /\ PartsNext
  BY <1>1 DEF PartsNext, PartNext
<1>2. CASE part # "apt" /\ PartsNext
  <2>1. PartNext /\ UNCHANGED <<part, vars>>
    BY <1>2 DEF PartsNext
  <2> QED
    BY <2>1 DEF PartNext
<1>3. CASE UNCHANGED allVars
  BY <1>3 DEF allVars, slots, Mount!vars, Hosts!vars, Dedup!vars, Fetch!vars, Hold!vars,
              Monitor!vars, Labels!vars, Images!vars
<1> QED
  BY <1>1, <1>2, <1>3

-----------------------------------------------------------------------------
(***************************************************************************)
(* BindMount: bind-mount.sh moves /var/lib/kubelet.                        *)
(***************************************************************************)
LEMMA MountInit == ASSUME Mount!Init PROVE Mount!IInv
<1>1. s1 \in Mount!Contents /\ s2 \in Mount!Contents
  BY DEF Mount!Init, Mount!Contents
<1>2. Starts \in Nat /\ Boots \in Nat \ {0}
  BY MountAssumption DEF Mount!BoundsAssumption
<1>3. s3 \in BOOLEAN /\ ~s3
  BY Zenon DEF Mount!Init
<1>4. Mount!TypeOK
  BY <1>1, <1>2, <1>3 DEF Mount!Init, Mount!TypeOK, Mount!Lines
<1> QED
  BY <1>3, <1>4 DEF Mount!Init, Mount!IInv, Mount!NothingLost

\* mv keeps what it moves: it replaces a directory that is empty, and deletes what it
\* has copied.
LEMMA MountMoves ==
    ASSUME Mount!IInv, Mount!MoveBegins \/ Mount!MoveCopies \/ Mount!MoveDeletes
    PROVE  Mount!IInv'
<1> DEFINE dir == s1  disk == s2
<1> USE DEF Mount!IInv, Mount!TypeOK, Mount!Lines, Mount!Contents, Mount!NothingLost,
            Mount!Copied
<1>1. CASE Mount!MoveBegins
  <2>1. PICK some \in SUBSET Mount!Files(dir) : disk' = {Mount!Self} \cup some
    BY <1>1 DEF Mount!MoveBegins
  <2>2. Mount!Files(dir) \subseteq dir /\ dir' = dir /\ Mount!Files(disk) = {}
    BY <1>1 DEF Mount!MoveBegins, Mount!Files
  <2>3. disk' \in Mount!Contents /\ disk' # {}
    BY <2>1, <2>2
  <2>4. Mount!NothingLost'
    BY <2>1, <2>2 DEF Mount!Files
  <2> QED
    BY <1>1, <2>2, <2>3, <2>4 DEF Mount!MoveBegins
<1>2. CASE Mount!MoveCopies
  <2>1. PICK new \in SUBSET (dir \cap Written) :
             disk' = disk \cup (dir \cap Placed) \cup new
    BY <1>2 DEF Mount!MoveCopies
  <2>2. dir' = dir /\ disk # {}
    BY <1>2 DEF Mount!MoveCopies
  <2>3. disk' \in Mount!Contents /\ disk' # {} /\ Placed \subseteq disk'
    BY <2>1, <2>2
  <2> QED
    BY <1>2, <2>2, <2>3 DEF Mount!MoveCopies
<1>3. CASE Mount!MoveDeletes
  BY <1>3 DEF Mount!MoveDeletes
<1> QED
  BY <1>1, <1>2, <1>3

LEMMA MountStep ==
    ASSUME Mount!IInv, Mount!Next \/ UNCHANGED Mount!vars
    PROVE  Mount!IInv'
<1> DEFINE dir == s1  disk == s2  mount == s4
<1> USE MountAssumption
    DEF Mount!BoundsAssumption, Mount!IInv, Mount!TypeOK, Mount!Lines, Mount!Contents,
        Mount!NothingLost, Mount!Copied
<1>1. CASE Mount!StartUnits
  BY <1>1 DEF Mount!StartUnits
<1>2. CASE Mount!RestartUnit
  BY <1>2 DEF Mount!RestartUnit
<1>3. CASE Mount!TestSentinel
  BY <1>3 DEF Mount!TestSentinel
<1>4. CASE Mount!MoveRefused
  BY <1>4 DEF Mount!MoveRefused, Mount!Fails
<1>5. CASE Mount!MoveBegins \/ Mount!MoveCopies \/ Mount!MoveDeletes
  BY <1>5, MountMoves
<1>6. CASE Mount!TouchSentinel
  BY <1>6 DEF Mount!TouchSentinel
<1>7. CASE Mount!MakeDirectory
  BY <1>7 DEF Mount!MakeDirectory
<1>8. CASE Mount!BindDisk
  BY <1>8 DEF Mount!BindDisk
<1>9. CASE Mount!KubeletPre
  BY <1>9 DEF Mount!KubeletPre
<1>10. CASE Mount!KubeletWrites
  <2>1. PICK f \in Written \ Mount!Seen :
             IF mount = "disk"
             THEN disk' = disk \cup {f} /\ UNCHANGED dir
             ELSE dir' = dir \cup {f} /\ UNCHANGED disk
    BY <1>10 DEF Mount!KubeletWrites
  <2> QED
    BY <1>10, <2>1 DEF Mount!KubeletWrites
<1>11. CASE Mount!Reboot
  BY <1>11 DEF Mount!Reboot
<1>12. CASE UNCHANGED Mount!vars
  BY <1>12 DEF Mount!vars
<1> QED
  BY <1>1, <1>2, <1>3, <1>4, <1>5, <1>6, <1>7, <1>8, <1>9, <1>10, <1>11, <1>12
  DEF Mount!Next, Mount!ScriptStep, Mount!SystemdStep

-----------------------------------------------------------------------------
(***************************************************************************)
(* ReconcileHosts: the API server's line in /etc/hosts.                    *)
(***************************************************************************)
LEMMA HostsInit == ASSUME Hosts!Init PROVE Hosts!IInv
  BY HostsAssumption
  DEF Hosts!BoundsAssumption, Hosts!Init, Hosts!IInv, Hosts!TypeOK, Hosts!OneAddress,
      Hosts!Addresses, Hosts!NoAnswer

LEMMA HostsStep ==
    ASSUME Hosts!IInv, Hosts!Next \/ UNCHANGED Hosts!vars
    PROVE  Hosts!IInv'
<1> DEFINE tag == s2  lines == s3  clusterIP == s5
<1> USE HostsAssumption
    DEF Hosts!BoundsAssumption, Hosts!IInv, Hosts!TypeOK, Hosts!OneAddress, Hosts!Addresses,
        Hosts!NoAnswer
<1>1. CASE Hosts!ServerMoves
  <2>1. tag' = tag + 1 /\ tag' \in Hosts!Addresses /\ UNCHANGED <<s1, lines, s4, clusterIP, s6>>
    BY <1>1 DEF Hosts!ServerMoves
  <2>2. 1..tag \subseteq 1..tag'
    BY <2>1
  <2> QED
    BY <2>1, <2>2
<1>2. CASE Hosts!SkipOrGoOn
  BY <1>2 DEF Hosts!SkipOrGoOn
<1>3. CASE Hosts!Answered
  BY <1>3 DEF Hosts!Answered
<1>4. CASE Hosts!NotAnswered
  BY <1>4 DEF Hosts!NotAnswered
<1>5. CASE Hosts!UpToDate
  BY <1>5 DEF Hosts!UpToDate
<1>6. CASE Hosts!OutOfDate
  BY <1>6 DEF Hosts!OutOfDate
<1>7. CASE Hosts!DeleteLines
  BY <1>7 DEF Hosts!DeleteLines
<1>8. CASE Hosts!AppendLine
  <2>1. lines = <<>> /\ clusterIP \in 1..tag /\ lines' = <<clusterIP>>
    BY <1>8 DEF Hosts!AppendLine
  <2> QED
    BY <1>8, <2>1 DEF Hosts!AppendLine
<1>9. CASE Hosts!Kill
  BY <1>9 DEF Hosts!Kill
<1>10. CASE Hosts!Restart
  BY <1>10 DEF Hosts!Restart
<1>11. CASE UNCHANGED Hosts!vars
  BY <1>11 DEF Hosts!vars
<1> QED
  BY <1>1, <1>2, <1>3, <1>4, <1>5, <1>6, <1>7, <1>8, <1>9, <1>10, <1>11
  DEF Hosts!Next, Hosts!ScriptStep

-----------------------------------------------------------------------------
(***************************************************************************)
(* EnsureNoDup: the rules of the bridge.                                   *)
(***************************************************************************)
Rules == {"ACCEPT", "DROP"}
HasDrop(row) == \E n \in DOMAIN row : row[n] = "DROP"
Count(row, rule) == Cardinality({n \in DOMAIN row : row[n] = rule})

LEMMA CopiesAreCounted ==
    ASSUME NEW rule
    PROVE  Dedup!Copies(rule) = Count(s3, rule) /\ Dedup!Copies(rule)' = Count(s3', rule)
  BY DEF Dedup!Copies, Count, Dedup!Cardinality, Cardinality

\* What the append of a rule does to a row: its first rule, its DROP, the copies.
LEMMA RowGrows ==
    ASSUME NEW row \in Seq(Rules), NEW new \in Rules
    PROVE  LET longer == Append(row, new) IN
           /\ longer \in Seq(Rules) /\ longer # <<>>
           /\ longer[1] = IF row = <<>> THEN new ELSE row[1]
           /\ HasDrop(row) \/ new = "DROP" => HasDrop(longer)
           /\ \A rule \in Rules :
                 /\ Count(row, rule) \in Nat
                 /\ Count(longer, rule) = Count(row, rule) + (IF rule = new THEN 1 ELSE 0)
<1> DEFINE longer == Append(row, new)
           last == Len(row) + 1
<1>0. longer \in Seq(Rules) /\ Len(row) \in Nat /\ Len(longer) = last
  OBVIOUS
<1>1. /\ longer \in Seq(Rules) /\ Len(row) \in Nat
      /\ DOMAIN row = 1..Len(row) /\ DOMAIN longer = 1..last
      /\ \A n \in 1..Len(row) : longer[n] = row[n]
      /\ longer[last] = new
  BY <1>0
<1>2. longer # <<>>
  BY <1>0
<1>3. longer[1] = IF row = <<>> THEN new ELSE row[1]
  <2>1. CASE row = <<>>
    BY <2>1, <1>1
  <2>2. CASE row # <<>>
    BY <2>2, <1>1
  <2> QED
    BY <2>1, <2>2
<1>4. HasDrop(row) \/ new = "DROP" => HasDrop(longer)
  BY <1>1 DEF HasDrop
<1>5. ASSUME NEW rule \in Rules
      PROVE  /\ Count(row, rule) \in Nat
             /\ Count(longer, rule) = Count(row, rule) + (IF rule = new THEN 1 ELSE 0)
  <2> DEFINE I == {n \in DOMAIN row : row[n] = rule}
             J == {n \in DOMAIN longer : longer[n] = rule}
  <2>1. IsFiniteSet(I) /\ Cardinality(I) \in Nat
    <3>1. I \in SUBSET (1..Len(row)) /\ 1 \in Int /\ Len(row) \in Int
      BY <1>1
    <3>2. IsFiniteSet(1..Len(row))
      BY <3>1, FS_Interval
    <3> QED
      BY <3>1, <3>2, FS_Subset, FS_CardinalityType
  <2>2. J = IF rule = new THEN I \cup {last} ELSE I
    BY <1>1
  <2>3. last \notin I
    BY <1>1
  <2>4. Cardinality(I \cup {last}) = Cardinality(I) + 1
    BY <2>1, <2>3, FS_AddElement
  <2> HIDE DEF I, J
  <2>5. Cardinality(J) = Cardinality(I) + (IF rule = new THEN 1 ELSE 0)
    BY <2>1, <2>2, <2>4
  <2> QED
    BY <2>1, <2>5 DEF Count, I, J
<1> QED
  BY <1>1, <1>2, <1>3, <1>4, <1>5

LEMMA NoRules == \A rule : Count(<<>>, rule) = 0
<1>1. ASSUME NEW rule PROVE Count(<<>>, rule) = 0
  <2>1. {n \in DOMAIN <<>> : <<>>[n] = rule} = {}
    OBVIOUS
  <2> QED
    BY <2>1, FS_EmptySet DEF Count
<1> QED
  BY <1>1

\* OneRuleAtATime with its parts named and the copies counted.
LEMMA RulesInParts ==
    /\ Dedup!OneRuleAtATime <=>
          /\ s5 <= 1 + s7.lists
          /\ Count(s3, "ACCEPT") <= 1 + s7.lists /\ Count(s3, "DROP") <= 1 + s7.lists
          /\ ~s4 => s3 = <<>> /\ s5 = 0
          /\ s6 \in {"look", "new", "accept"} => Count(s3, "ACCEPT") <= s7.lists
          /\ s6 \in {"look", "new", "accept", "drop"} => Count(s3, "DROP") <= s7.lists
          /\ s6 \in {"look", "new", "accept", "drop", "jump"} => s5 <= s7.lists
          /\ s7.failures = 0 =>
                /\ s6 \in {"accept", "drop", "jump"} => s4
                /\ s6 \in {"drop", "jump"} => s3 # <<>>
                /\ s3 # <<>> => s3[1] = "ACCEPT"
                /\ s6 = "jump" \/ s5 > 0 => s3 # <<>> /\ s3[1] = "ACCEPT" /\ HasDrop(s3)
    /\ Dedup!OneRuleAtATime' <=>
          /\ s5' <= 1 + s7'.lists
          /\ Count(s3', "ACCEPT") <= 1 + s7'.lists /\ Count(s3', "DROP") <= 1 + s7'.lists
          /\ ~s4' => s3' = <<>> /\ s5' = 0
          /\ s6' \in {"look", "new", "accept"} => Count(s3', "ACCEPT") <= s7'.lists
          /\ s6' \in {"look", "new", "accept", "drop"} => Count(s3', "DROP") <= s7'.lists
          /\ s6' \in {"look", "new", "accept", "drop", "jump"} => s5' <= s7'.lists
          /\ s7'.failures = 0 =>
                /\ s6' \in {"accept", "drop", "jump"} => s4'
                /\ s6' \in {"drop", "jump"} => s3' # <<>>
                /\ s3' # <<>> => s3'[1] = "ACCEPT"
                /\ s6' = "jump" \/ s5' > 0 => s3' # <<>> /\ s3'[1] = "ACCEPT" /\ HasDrop(s3')
  BY CopiesAreCounted
  DEF Dedup!OneRuleAtATime, Dedup!NoneTooOften, Dedup!Before, Dedup!Filters, HasDrop

LEMMA DedupInit == ASSUME Dedup!Init PROVE Dedup!IInv
<1>1. \E n \in DOMAIN Dedup!Stages : s2 = Dedup!Stages[n]
  BY DEF Dedup!Init, Dedup!Stages
<1>2. s4 \in BOOLEAN /\ ~s4 /\ s1 \in BOOLEAN
  BY Zenon DEF Dedup!Init
<1>3. s7 \in Dedup!Counts /\ s7.lists = 0
  BY DedupAssumption DEF Dedup!BoundsAssumption, Dedup!Init, Dedup!Counts, Dedup!Nothing
<1>4. s3 = <<>> /\ s5 = 0 /\ s6 = "list"
  BY DEF Dedup!Init
<1>5. Dedup!TypeOK
  BY <1>1, <1>2, <1>3, <1>4 DEF Dedup!TypeOK
<1>6. Dedup!OneRuleAtATime
  BY <1>3, <1>4, NoRules, RulesInParts
<1> QED
  BY <1>5, <1>6 DEF Dedup!IInv

\* A failure that is counted stays counted.
LEMMA DedupCounts ==
    ASSUME Dedup!TypeOK, Dedup!Next \/ UNCHANGED Dedup!vars
    PROVE  /\ s7' \in Dedup!Counts /\ s7.lists \in Nat /\ s7'.lists \in Nat
           /\ s7.lists <= s7'.lists
           /\ s7'.failures = 0 => s7.failures = 0
           /\ Dedup!ListFails => s7'.lists = s7.lists + 1
           /\ Dedup!Fails => s7'.failures # 0
<1> DEFINE spent == s7
<1>1. RuleKills \in Nat /\ RuleFailures \in Nat /\ RuleReboots \in Nat
  BY DedupAssumption DEF Dedup!BoundsAssumption
<1>2. spent \in Dedup!Counts
  BY DEF Dedup!TypeOK
<1>3. \/ UNCHANGED spent
      \/ Dedup!Fails
      \/ spent.lists < RuleFailures /\ spent' = [spent EXCEPT !.lists = @ + 1]
      \/ spent.kills < RuleKills /\ spent' = [spent EXCEPT !.kills = @ + 1] /\ ~Dedup!ListFails
      \/ spent.reboots < RuleReboots /\ spent' = [spent EXCEPT !.reboots = @ + 1]
         /\ ~Dedup!ListFails
  BY DEF Dedup!Next, Dedup!ScriptStep, Dedup!List, Dedup!ListFails, Dedup!Look, Dedup!NewChain,
         Dedup!AppendAccept, Dedup!AppendDrop, Dedup!AppendJump, Dedup!Restart, Dedup!Kill,
         Dedup!NetworkComes, Dedup!Reboot, Dedup!Appends, Dedup!vars, Dedup!Goes
<1>4. Dedup!ListFails => spent' = [spent EXCEPT !.lists = @ + 1]
  BY DEF Dedup!ListFails
<1> QED
  BY <1>1, <1>2, <1>3, <1>4 DEF Dedup!Fails, Dedup!Counts

\* A command that leaves the tables alone keeps the rules whole.
LEMMA DedupTablesStay ==
    ASSUME Dedup!OneRuleAtATime, UNCHANGED <<s3, s4, s5>>, s3 \in Seq(Rules), s5 \in Nat,
           s7.lists \in Nat, s7'.lists \in Nat, s7.lists <= s7'.lists,
           s7'.failures = 0 => s7.failures = 0,
           \/ s6' = s6
           \/ s6' \notin {"look", "new", "accept", "drop", "jump"}
           \/ s6' = "look" /\ (~s4 \/ s7'.lists = s7.lists + 1)
           \/ (s6' = "new" /\ s6 = "look")
    PROVE  Dedup!OneRuleAtATime'
<1>1. s3' = s3 /\ s4' = s4 /\ s5' = s5
  OBVIOUS
<1>2. Count(s3, "ACCEPT") \in Nat /\ Count(s3, "DROP") \in Nat
  BY RowGrows DEF Rules
<1> QED
  BY <1>1, <1>2, NoRules, RulesInParts

LEMMA DedupRulesKept ==
    ASSUME Dedup!IInv, Dedup!Next \/ UNCHANGED Dedup!vars
    PROVE  Dedup!OneRuleAtATime'
<1> DEFINE chain == s3  exists == s4  jumps == s5  spent == s7
           A(row) == Count(row, "ACCEPT")
           D(row) == Count(row, "DROP")
<1>1. /\ spent'.failures = 0 => spent.failures = 0
      /\ spent.lists \in Nat /\ spent'.lists \in Nat /\ spent.lists <= spent'.lists
      /\ Dedup!ListFails => spent'.lists = spent.lists + 1
      /\ Dedup!Fails => spent'.failures # 0
  BY DedupCounts DEF Dedup!IInv
<1>2. exists \in BOOLEAN /\ chain \in Seq(Rules) /\ jumps \in Nat
  BY DEF Dedup!IInv, Dedup!TypeOK, Rules
<1>t. Dedup!OneRuleAtATime
  BY DEF Dedup!IInv
<1>n. A(chain) \in Nat /\ D(chain) \in Nat
  BY <1>2, RowGrows DEF Rules
<1> USE DEF Dedup!tables, Dedup!Goes
<1>3. CASE Dedup!List \/ Dedup!ListFails
  <2>1. /\ UNCHANGED <<s3, s4, s5>>
        /\ s6' = "set already" \/ (s6' = "look" /\ (~s4 \/ Dedup!ListFails))
    BY <1>3 DEF Dedup!List, Dedup!ListFails
  <2> QED
    BY <1>1, <1>2, <1>t, <2>1, DedupTablesStay
<1>4. CASE Dedup!Look
  <2>1. /\ UNCHANGED <<s3, s4, s5>>
        /\ s6 = "look" /\ s6' \in {"exit 1", "not promiscuous", "new"}
    BY <1>4 DEF Dedup!Look
  <2> QED
    BY <1>1, <1>2, <1>t, <2>1, DedupTablesStay
<1>5. CASE Dedup!NewChain
  <2>1. /\ s6 = "new" /\ s6' = "accept" /\ chain' = chain /\ jumps' = jumps
        /\ (exists' = TRUE \/ (exists' = exists /\ spent'.failures # 0))
    BY <1>5, <1>1 DEF Dedup!NewChain, Dedup!Fails
  <2> QED
    BY <1>1, <1>2, <1>n, <1>t, <2>1, RulesInParts
<1>6. CASE Dedup!AppendAccept
  <2>1. /\ s6 = "accept" /\ s6' = "drop" /\ exists' = exists /\ jumps' = jumps
        /\ \/ exists /\ chain' = Append(chain, "ACCEPT")
           \/ ~exists /\ chain' = chain
           \/ chain' = chain /\ spent'.failures # 0
    BY <1>6, <1>1 DEF Dedup!AppendAccept, Dedup!Fails, Dedup!Appends
  <2>2. CASE chain' = Append(chain, "ACCEPT") /\ exists
    <3> DEFINE longer == Append(chain, "ACCEPT")
    <3>1. "ACCEPT" \in Rules /\ "DROP" \in Rules
      BY DEF Rules
    <3>2. /\ longer # <<>> /\ longer[1] = IF chain = <<>> THEN "ACCEPT" ELSE chain[1]
          /\ HasDrop(chain) => HasDrop(longer)
          /\ A(longer) = A(chain) + 1 /\ D(longer) = D(chain)
      BY <1>2, <3>1, RowGrows
    <3>3. chain' = longer
      BY <2>2
    <3> HIDE DEF longer
    <3>4. /\ jumps' <= 1 + spent'.lists /\ jumps <= spent'.lists
          /\ A(chain') <= 1 + spent'.lists /\ D(chain') <= 1 + spent'.lists
          /\ D(chain') <= spent'.lists
      BY <1>1, <1>2, <1>n, <1>t, <2>1, <3>2, <3>3, RulesInParts
    <3>5. spent'.failures = 0 =>
            /\ chain' # <<>> /\ chain'[1] = "ACCEPT" /\ (jumps > 0 => HasDrop(chain'))
      BY <1>1, <1>t, <2>1, <3>2, <3>3, RulesInParts
    <3>6. s4' /\ jumps' = jumps
      BY <2>1, <2>2
    <3> QED
      BY <2>1, <3>4, <3>5, <3>6, RulesInParts
  <2>3. CASE chain' = chain /\ (~exists \/ spent'.failures # 0)
    BY <1>1, <1>2, <1>n, <1>t, <2>1, <2>3, RulesInParts
  <2> QED
    BY <2>1, <2>2, <2>3
<1>7. CASE Dedup!AppendDrop
  <2>1. /\ s6 = "drop" /\ s6' = "jump" /\ exists' = exists /\ jumps' = jumps
        /\ \/ exists /\ chain' = Append(chain, "DROP")
           \/ ~exists /\ chain' = chain
           \/ chain' = chain /\ spent'.failures # 0
    BY <1>7, <1>1 DEF Dedup!AppendDrop, Dedup!Fails, Dedup!Appends
  <2>2. CASE chain' = Append(chain, "DROP") /\ exists
    <3> DEFINE longer == Append(chain, "DROP")
    <3>1. "ACCEPT" \in Rules /\ "DROP" \in Rules
      BY DEF Rules
    <3>2. /\ longer # <<>> /\ longer[1] = IF chain = <<>> THEN "DROP" ELSE chain[1]
          /\ HasDrop(longer)
          /\ A(longer) = A(chain) /\ D(longer) = D(chain) + 1
      BY <1>2, <3>1, RowGrows
    <3>3. chain' = longer
      BY <2>2
    <3> HIDE DEF longer
    <3>4. /\ jumps' <= 1 + spent'.lists /\ jumps <= spent'.lists
          /\ A(chain') <= 1 + spent'.lists /\ D(chain') <= 1 + spent'.lists
      BY <1>1, <1>2, <1>n, <1>t, <2>1, <3>2, <3>3, RulesInParts
    <3>5. spent'.failures = 0 =>
            /\ chain' # <<>> /\ chain'[1] = "ACCEPT" /\ HasDrop(chain')
      BY <1>1, <1>t, <2>1, <3>2, <3>3, RulesInParts
    <3>6. s4' /\ jumps' = jumps
      BY <2>1, <2>2
    <3> QED
      BY <2>1, <3>4, <3>5, <3>6, RulesInParts
  <2>3. CASE chain' = chain /\ (~exists \/ spent'.failures # 0)
    BY <1>1, <1>2, <1>n, <1>t, <2>1, <2>3, RulesInParts
  <2> QED
    BY <2>1, <2>2, <2>3
<1>8. CASE Dedup!AppendJump
  <2>1. /\ s6 = "jump" /\ s6' = "added" /\ chain' = chain /\ exists' = exists
        /\ \/ exists /\ jumps' = jumps + 1
           \/ jumps' = jumps
    BY <1>8, <1>1 DEF Dedup!AppendJump, Dedup!Fails
  <2> QED
    BY <1>1, <1>2, <1>n, <1>t, <2>1, RulesInParts
<1>9. CASE Dedup!Restart \/ Dedup!Kill \/ Dedup!NetworkComes \/ UNCHANGED Dedup!vars
  <2>1. UNCHANGED <<s3, s4, s5>> /\ (s6' \in {"list", "killed"} \/ s6' = s6)
    BY <1>9 DEF Dedup!Restart, Dedup!Kill, Dedup!NetworkComes, Dedup!vars
  <2> QED
    BY <1>1, <1>2, <1>t, <2>1, DedupTablesStay
<1>10. CASE Dedup!Reboot
  <2>1. s3' = <<>> /\ s5' = 0 /\ s6' = "off"
    BY <1>10 DEF Dedup!Reboot
  <2> QED
    BY <1>1, <2>1, NoRules, RulesInParts
<1> QED
  BY <1>3, <1>4, <1>5, <1>6, <1>7, <1>8, <1>9, <1>10 DEF Dedup!Next, Dedup!ScriptStep

LEMMA DedupStep ==
    ASSUME Dedup!IInv, Dedup!Next \/ UNCHANGED Dedup!vars
    PROVE  Dedup!IInv'
<1> DEFINE promisc == s1  network == s2  chain == s3  exists == s4  jumps == s5  command == s6
<1>t. chain \in Seq(Rules) /\ jumps \in Nat
  BY DEF Dedup!IInv, Dedup!TypeOK, Rules
<1>1. Dedup!OneRuleAtATime'
  BY DedupRulesKept
<1>2. chain' \in Seq({"ACCEPT", "DROP"}) /\ jumps' \in Nat
  <2>1. \/ chain' \in {chain, Append(chain, "ACCEPT"), Append(chain, "DROP")}
        \/ chain' = <<>>
    BY DEF Dedup!Next, Dedup!ScriptStep, Dedup!List, Dedup!ListFails, Dedup!Look,
           Dedup!NewChain, Dedup!AppendAccept, Dedup!AppendDrop, Dedup!AppendJump,
           Dedup!Appends, Dedup!Fails, Dedup!tables, Dedup!Restart, Dedup!Kill,
           Dedup!NetworkComes, Dedup!Reboot, Dedup!vars
  <2>2. jumps' \in {jumps, jumps + 1, 0}
    BY DEF Dedup!Next, Dedup!ScriptStep, Dedup!List, Dedup!ListFails, Dedup!Look,
           Dedup!NewChain, Dedup!AppendAccept, Dedup!AppendDrop, Dedup!AppendJump,
           Dedup!Appends, Dedup!Fails, Dedup!tables, Dedup!Restart, Dedup!Kill,
           Dedup!NetworkComes, Dedup!Reboot, Dedup!vars
  <2>3. chain' \in Seq(Rules)
    <3>1. Append(chain, "ACCEPT") \in Seq(Rules) /\ Append(chain, "DROP") \in Seq(Rules)
          /\ <<>> \in Seq(Rules)
      BY <1>t, RowGrows DEF Rules
    <3> QED
      BY <2>1, <3>1, <1>t
  <2> QED
    BY <2>2, <2>3, <1>t DEF Rules
<1>3. s7' \in Dedup!Counts
  BY DedupCounts DEF Dedup!IInv
<1>4. promisc' \in BOOLEAN
  <2>1. promisc' = promisc
    BY DEF Dedup!Next, Dedup!ScriptStep, Dedup!List, Dedup!ListFails, Dedup!Look, Dedup!NewChain,
           Dedup!AppendAccept, Dedup!AppendDrop, Dedup!AppendJump, Dedup!Restart, Dedup!Kill,
           Dedup!NetworkComes, Dedup!Reboot, Dedup!vars
  <2> QED
    BY <2>1 DEF Dedup!IInv, Dedup!TypeOK
<1>7. exists' \in BOOLEAN
  <2>1. CASE Dedup!NewChain
    BY <2>1 DEF Dedup!NewChain, Dedup!Fails, Dedup!tables, Dedup!IInv, Dedup!TypeOK
  <2>2. CASE Dedup!Reboot
    BY <2>2 DEF Dedup!Reboot
  <2>3. CASE exists' = exists
    BY <2>3 DEF Dedup!IInv, Dedup!TypeOK
  <2> QED
    BY <2>1, <2>2, <2>3
    DEF Dedup!Next, Dedup!ScriptStep, Dedup!List, Dedup!ListFails, Dedup!Look, Dedup!AppendAccept,
        Dedup!AppendDrop, Dedup!AppendJump, Dedup!Restart, Dedup!Kill, Dedup!NetworkComes,
        Dedup!Appends, Dedup!Fails, Dedup!tables, Dedup!vars
<1>5. command' \in {"list", "look", "new", "accept", "drop", "jump"} \cup Dedup!Ends
  BY DEF Dedup!IInv, Dedup!TypeOK, Dedup!Next, Dedup!ScriptStep, Dedup!List, Dedup!ListFails, Dedup!Look,
         Dedup!NewChain, Dedup!AppendAccept, Dedup!AppendDrop, Dedup!AppendJump, Dedup!Restart,
         Dedup!Kill, Dedup!NetworkComes, Dedup!Reboot, Dedup!Goes, Dedup!Ends, Dedup!vars
<1>6. \E n \in DOMAIN Dedup!Stages : network' = Dedup!Stages[n]
  <2>1. CASE Dedup!NetworkComes \/ Dedup!Reboot
    BY <2>1 DEF Dedup!NetworkComes, Dedup!Reboot, Dedup!Stages
  <2>2. CASE network' = network
    BY <2>2 DEF Dedup!IInv, Dedup!TypeOK
  <2> QED
    BY <2>1, <2>2
    DEF Dedup!Next, Dedup!ScriptStep, Dedup!List, Dedup!ListFails, Dedup!Look, Dedup!NewChain,
        Dedup!AppendAccept, Dedup!AppendDrop, Dedup!AppendJump, Dedup!Restart, Dedup!Kill,
        Dedup!vars
<1> QED
  BY <1>1, <1>2, <1>3, <1>4, <1>5, <1>6, <1>7 DEF Dedup!IInv, Dedup!TypeOK
-----------------------------------------------------------------------------
(***************************************************************************)
(* HealthMonitor: the kill of a runtime that does not answer.              *)
(***************************************************************************)
LEMMA MonitorInit == ASSUME Monitor!Init PROVE Monitor!IInv
  BY MonitorAssumption
  DEF Monitor!ConstantsAssumption, Monitor!Init, Monitor!IInv, Monitor!TypeOK

LEMMA MonitorStep ==
    ASSUME Monitor!IInv, Monitor!Next \/ UNCHANGED Monitor!vars
    PROVE  Monitor!IInv'
<1> USE MonitorAssumption
    DEF Monitor!ConstantsAssumption, Monitor!IInv, Monitor!TypeOK, Monitor!StartedBy,
        Monitor!runtimeVars, Monitor!monitorVars
<1>1. CASE Monitor!StartRuntime
  BY <1>1 DEF Monitor!StartRuntime
<1>2. CASE Monitor!ensureMonitorService
  BY <1>2 DEF Monitor!ensureMonitorService
<1>3. CASE Monitor!ComesUp
  BY <1>3 DEF Monitor!ComesUp
<1>4. CASE Monitor!Elapse
  BY <1>4 DEF Monitor!Elapse
<1>5. CASE Monitor!CheckSucceeds
  BY <1>5 DEF Monitor!CheckSucceeds
<1>6. CASE Monitor!AttemptFails
  BY <1>6 DEF Monitor!AttemptFails
<1>7. CASE Monitor!Kill
  BY <1>7 DEF Monitor!Kill
<1>8. CASE Monitor!Tick
  BY <1>8 DEF Monitor!Tick
<1>9. CASE Monitor!Hang
  BY <1>9 DEF Monitor!Hang
<1>10. CASE Monitor!OtherRestarts
  BY <1>10 DEF Monitor!OtherRestarts
<1>11. CASE UNCHANGED Monitor!vars
  BY <1>11 DEF Monitor!vars
<1> QED
  BY <1>1, <1>2, <1>3, <1>4, <1>5, <1>6, <1>7, <1>8, <1>9, <1>10, <1>11
  DEF Monitor!Next, Monitor!Progress

\* A runtime the monitor has killed is still starting when the pause is over only if its
\* start takes as long.
LEMMA MonitorKillIsDue == ASSUME Monitor!IInv PROVE Monitor!KillIsDue
<1>1. ASSUME Monitor!Kill, s2 = "starting", s4 = "monitor" PROVE s3 >= Pause
  BY <1>1, MonitorAssumption
  DEF Monitor!Kill, Monitor!IInv, Monitor!TypeOK, Monitor!ConstantsAssumption
<1> QED
  BY <1>1 DEF Monitor!Kill, Monitor!KillIsDue, Monitor!IInv

-----------------------------------------------------------------------------
(***************************************************************************)
(* NodeLabels: the label updater.                                          *)
(***************************************************************************)
LEMMA LabelsInit == ASSUME Labels!Init PROVE Labels!IInv
<1>1. s1 \in BOOLEAN
  BY Zenon DEF Labels!Init
<1> QED
  BY <1>1, LabelsAssumption
  DEF Labels!WantedAssumption, Labels!Init, Labels!IInv, Labels!TypeOK, Labels!DoneMeansLabelled

LEMMA LabelsStep ==
    ASSUME Labels!IInv, Labels!Next \/ UNCHANGED Labels!vars
    PROVE  Labels!IInv'
<1> DEFINE labels == s2  script == s3  missing == s4  touched == s5
           Value(v) == v \in {Labels!Absent, Other} \cup {Wanted[j] : j \in DOMAIN Wanted}
<1> USE LabelsAssumption
    DEF Labels!WantedAssumption, Labels!IInv, Labels!TypeOK, Labels!DoneMeansLabelled
<1>1. CASE Labels!Register
  BY <1>1 DEF Labels!Register
<1>2. CASE Labels!OtherWrites
  <2>1. PICK key \in Keys, value \in {Labels!Absent, Other} :
            labels' = [labels EXCEPT ![key] = value] /\ touched' = touched \cup {key}
    BY <1>2 DEF Labels!OtherWrites
  <2>2. /\ DOMAIN labels' = Keys /\ \A j \in Keys : Value(labels'[j])
        /\ \A j \in Keys : j \notin touched' => labels'[j] = labels[j]
    BY <2>1
  <2> QED
    BY <1>2, <2>1, <2>2 DEF Labels!OtherWrites
\* A listing that finds nothing missing has just seen that all is there.
<1>3. CASE Labels!List
  BY <1>3 DEF Labels!List
<1>4. CASE Labels!Write
  <2>1. /\ DOMAIN labels' = Keys /\ \A j \in Keys : Value(labels'[j])
        /\ \A j \in Keys : labels'[j] = IF j \in missing THEN Wanted[j] ELSE labels[j]
    BY <1>4 DEF Labels!Write
  <2> QED
    BY <1>4, <2>1 DEF Labels!Write
<1>5. CASE Labels!Fails
  BY <1>5 DEF Labels!Fails
<1>6. CASE Labels!Restart
  BY <1>6 DEF Labels!Restart
<1>7. CASE UNCHANGED Labels!vars
  BY <1>7 DEF Labels!vars
<1> QED
  BY <1>1, <1>2, <1>3, <1>4, <1>5, <1>6, <1>7 DEF Labels!Next

\* A write by others is counted; the service's own is of what was wanted and missing.
LEMMA LabelsOnlySetsWanted ==
    ASSUME Labels!IInv, Labels!Next PROVE Labels!OnlySetsWanted
<1> DEFINE registered == s1  labels == s2  writes == s7
<1> SUFFICES ASSUME writes' = writes, registered, NEW key \in Keys, labels'[key] # labels[key]
             PROVE  key \in DOMAIN Wanted /\ labels'[key] # Labels!Absent
  BY DEF Labels!OnlySetsWanted
<1>1. ~Labels!OtherWrites
  <2>1. writes \in Nat
    BY LabelsAssumption DEF Labels!IInv, Labels!TypeOK, Labels!WantedAssumption
  <2>2. writes' # writes + 1
    BY <2>1
  <2> QED
    BY <2>2 DEF Labels!OtherWrites
<1>2. CASE Labels!Write
  BY <1>2, LabelsAssumption
  DEF Labels!Write, Labels!IInv, Labels!TypeOK, Labels!WantedAssumption
<1>3. CASE ~Labels!Write
  BY <1>1, <1>3
  DEF Labels!Next, Labels!Register, Labels!List, Labels!Fails, Labels!Restart
<1> QED
  BY <1>2, <1>3

-----------------------------------------------------------------------------
(***************************************************************************)
(* The theorems.                                                           *)
(***************************************************************************)
ServicesInv ==
    /\ part = "mount" => Mount!IInv
    /\ part = "hosts" => Hosts!IInv
    /\ part = "dedup" => Dedup!IInv
    /\ part = "monitor" => Monitor!IInv
    /\ part = "labels" => Labels!IInv

LEMMA ServicesKept == PartsSpec => []ServicesInv
<1>1. PartsInit => ServicesInv
  BY InitOfPart, MountInit, HostsInit, DedupInit, MonitorInit, LabelsInit DEF ServicesInv
<1>2. ServicesInv /\ [PartsNext]_allVars => ServicesInv'
  BY StepOfPart, MountStep, HostsStep, DedupStep, MonitorStep, LabelsStep DEF ServicesInv
<1> QED
  BY <1>1, <1>2, PTL DEF PartsSpec, PartsSafety

\* Wherever crashes fall: no file the CSE has placed in /var/lib/kubelet is lost, the
\* sentinel stands for a complete move, and a script that ends well has mounted the
\* disk with all of them (bind-mount.sh).
THEOREM FilesAreKept == PartsSpec => []MoveKeepsFiles
<1>1. ServicesInv => MoveKeepsFiles
  BY DEF ServicesInv, MoveKeepsFiles, Mount!MoveKeepsFiles, Mount!IInv, Mount!Copied,
         Mount!SentinelMeansMoved, Mount!DoneMeansMounted, Mount!Seen
<1> QED
  BY <1>1, ServicesKept, PTL

\* /etc/hosts never has two addresses for the API server, nor one the server has not
\* had, however often the server moves and the script is killed (reconcile-private-hosts.sh).
THEOREM OneAddressAtMost == PartsSpec => []OneAddress
<1>1. ServicesInv => OneAddress
  BY DEF ServicesInv, OneAddress, Hosts!IInv
<1> QED
  BY <1>1, ServicesKept, PTL

\* However often the unit is restarted and whatever fails: a rule of the bridge is there
\* once, and once more for each listing that missed the chain; and unless a command other
\* than the listing failed no packet goes through an incomplete chain (ensure-no-dup.sh:
\* the test for the chain, the jump as the last command).
THEOREM RulesStayWhole == PartsSpec => []RulesAreWhole
<1>1. ASSUME Dedup!IInv PROVE Dedup!RulesAreWhole
  <2>1. Dedup!NoneTooOften
    BY <1>1 DEF Dedup!IInv, Dedup!OneRuleAtATime
  <2>2. Dedup!JumpMeansRules
    BY <1>1 DEF Dedup!IInv, Dedup!OneRuleAtATime, Dedup!JumpMeansRules
  <2> QED
    BY <2>1, <2>2 DEF Dedup!RulesAreWhole
<1>2. ServicesInv => RulesAreWhole
  BY <1>1 DEF ServicesInv, RulesAreWhole
<1> QED
  BY <1>2, ServicesKept, PTL

\* The monitor kills no runtime before its timer's time, and none that it has killed before
\* the whole pause has gone by: one that starts in less is left alone until it has answered,
\* however long others take (health-monitor.sh, containerd-monitor.timer,
\* docker-monitor.timer).
THEOREM NoKillTooSoon == PartsSpec => KillsWhenDue
<1>1. ServicesInv => [part = "monitor" => Monitor!KillIsDue]_allVars
  BY MonitorKillIsDue DEF ServicesInv
<1> QED
  BY <1>1, ServicesKept, PTL DEF KillsWhenDue

\* A label service that has succeeded has left the node with every label the CSE wrote for
\* it, but for what somebody else has written since it listed them (update-node-labels.sh).
THEOREM LabelsAreThere == PartsSpec => []DoneMeansLabelled
<1>1. ServicesInv => DoneMeansLabelled
  BY DEF ServicesInv, DoneMeansLabelled, Labels!IInv
<1> QED
  BY <1>1, ServicesKept, PTL
=============================================================================
