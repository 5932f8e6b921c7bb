---------------------------- MODULE EnsureNoDup ----------------------------
(***************************************************************************)
(* ensure-no-dup.sh and its unit: the ebtables rules that drop a pod's     *)
(* duplicate packets.  The script waits for the CNI by failing: systemd    *)
(* starts it again until it exits 0.  It may be killed between any two     *)
(* commands, or begun again behind the last (a second CSE restarts the     *)
(* unit), and no command's failure ends it, that of the listing included.  *)
(* The kernel forgets the rules at a reboot, and the unit has no [Install] *)
(* section.                                                                *)
(***************************************************************************)
EXTENDS Naturals, Sequences, FiniteSets

CONSTANTS
    Kills,      \* bound: how often the unit is restarted
    Failures,   \* bound: how many listings, and how many other ebtables commands, fail
    Reboots     \* bound on reboots

BoundsAssumption == Kills \in Nat /\ Failures \in Nat /\ Reboots \in Nat

VARIABLES
    promisc,    \* promiscMode in the CNI's configuration
    network,    \* what there is: "none", "conf" (the file), "bridge", "address"
    chain,      \* the rules of AKS-DEDUP-PROMISC, if it exists
    exists,     \* it exists
    jumps,      \* rules of OUTPUT that jump to it
    at,         \* the command the script is at
    spent       \* kills, failed listings, other failures and reboots so far

vars == <<promisc, network, chain, exists, jumps, at, spent>>
tables == <<chain, exists, jumps>>

Counts == [kills : 0..Kills, lists : 0..Failures, failures : 0..Failures,
           reboots : 0..Reboots]
Nothing == [kills |-> 0, lists |-> 0, failures |-> 0, reboots |-> 0]
Stages == <<"none", "conf", "bridge", "address">>
Ends == {"set already", "not promiscuous", "added", "exit 1", "killed", "off"}

\* Every variable keeps its type.
TypeOK ==
    /\ promisc \in BOOLEAN
    /\ \E i \in DOMAIN Stages : network = Stages[i]
    /\ chain \in Seq({"ACCEPT", "DROP"}) /\ exists \in BOOLEAN /\ jumps \in Nat
    /\ at \in {"list", "look", "new", "accept", "drop", "jump"} \cup Ends
    /\ spent \in Counts

Init ==
    /\ promisc \in BOOLEAN
    /\ network = "none"
    /\ chain = <<>> /\ exists = FALSE /\ jumps = 0
    /\ at = "list"
    /\ spent = Nothing

-----------------------------------------------------------------------------
\* Kubelet's CNI configuration, its bridge and the bridge's address come one by one.
NetworkComes ==
    /\ \E i \in 1..(Len(Stages) - 1) : network = Stages[i] /\ network' = Stages[i + 1]
    /\ UNCHANGED <<promisc, tables, at, spent>>

Goes(from, to) == at = from /\ at' = to

\* Slip: no test for the chain.
ListNothing ==
    /\ Goes("list", "look")
    /\ UNCHANGED <<promisc, network, tables, spent>>

\* ebtables -L: a chain that is listed ends the script.
List ==
    /\ Goes("list", IF exists THEN "set already" ELSE "look")
    /\ UNCHANGED <<promisc, network, tables, spent>>

\* Any failure of the listing, with 2>/dev/null, is taken for the chain's absence.
ListFails ==
    /\ Goes("list", "look")
    /\ exists /\ spent.lists < Failures
    /\ spent' = [spent EXCEPT !.lists = @ + 1]
    /\ UNCHANGED <<promisc, network, tables>>

\* Not up yet: exit 1.  A bridge that is not promiscuous needs no rules: exit 0.
Look ==
    /\ Goes("look",
            IF network = "none" THEN "exit 1"
            ELSE IF ~promisc THEN "not promiscuous"
            ELSE IF network # "address" THEN "exit 1" ELSE "new")
    /\ UNCHANGED <<promisc, network, tables, spent>>

\* An ebtables command does its part or, while failures are left, nothing; on it goes.
Fails ==
    /\ spent.failures < Failures
    /\ spent' = [spent EXCEPT !.failures = @ + 1]
    /\ UNCHANGED tables

\* Without its chain, a rule cannot be appended.
Appends(rule) ==
    /\ chain' = IF exists THEN Append(chain, rule) ELSE chain
    /\ UNCHANGED <<exists, jumps, spent>>

\* Slip: the jump comes before the rules.
JumpFirst ==
    /\ Goes("new", "accept")
    /\ exists' = TRUE /\ jumps' = jumps + 1
    /\ UNCHANGED <<promisc, network, chain, spent>>

\* ebtables -N: it fails, and changes nothing, for a chain that exists.
NewChain ==
    /\ Goes("new", "accept")
    /\ \/ exists' = TRUE /\ UNCHANGED <<chain, jumps, spent>>
       \/ Fails
    /\ UNCHANGED <<promisc, network>>

AppendAccept ==
    /\ Goes("accept", "drop")
    /\ Appends("ACCEPT") \/ Fails
    /\ UNCHANGED <<promisc, network>>

AppendDrop ==
    /\ Goes("drop", "jump")
    /\ Appends("DROP") \/ Fails
    /\ UNCHANGED <<promisc, network>>

AppendJump ==
    /\ Goes("jump", "added")
    /\ \/ jumps' = (IF exists THEN jumps + 1 ELSE jumps) /\ UNCHANGED <<chain, exists, spent>>
       \/ Fails
    /\ UNCHANGED <<promisc, network>>

-----------------------------------------------------------------------------
\* A second CSE restarts the unit, which runs or has ended.
Kill ==
    /\ at \notin {"killed", "off"} /\ spent.kills < Kills
    /\ at' = "killed" /\ spent' = [spent EXCEPT !.kills = @ + 1]
    /\ UNCHANGED <<promisc, network, tables>>

\* Slip: Restart=no.
RestartKilled ==
    /\ at = "killed" /\ at' = "list"
    /\ UNCHANGED <<promisc, network, tables, spent>>

\* Restart=on-failure after exit 1; a killed one is started again by whoever killed it.
Restart ==
    /\ at \in {"exit 1", "killed"}
    /\ at' = "list"
    /\ UNCHANGED <<promisc, network, tables, spent>>

\* After a reboot nobody starts the script.
Reboot ==
    /\ spent.reboots < Reboots
    /\ spent' = [spent EXCEPT !.reboots = @ + 1]
    /\ network' = "none" /\ chain' = <<>> /\ exists' = FALSE /\ jumps' = 0 /\ at' = "off"
    /\ UNCHANGED promisc

ScriptStep == List \/ ListFails \/ Look \/ NewChain \/ AppendAccept \/ AppendDrop \/ AppendJump

Next == ScriptStep \/ Restart \/ NetworkComes \/ Kill \/ Reboot

Spec == Init /\ [][Next]_vars

\* The script goes on, systemd restarts it and the network comes up.
FairSpec == Spec /\ WF_vars(ScriptStep) /\ WF_vars(Restart) /\ WF_vars(NetworkComes)

-----------------------------------------------------------------------------
Complete == chain = <<"ACCEPT", "DROP">> /\ jumps = 1

\* What is to be filtered is, and nothing else: the DROP is there, and ACCEPT comes first.
Filters == chain # <<>> /\ chain[1] = "ACCEPT" /\ \E i \in DOMAIN chain : chain[i] = "DROP"

\* If no command fails but the listing, packets are never sent through a chain that is not
\* complete: one with the DROP and not the ACCEPT before it would drop what it is to let
\* through.
JumpMeansRules == spent.failures = 0 /\ jumps > 0 => Filters

\* However often the script is restarted and whatever fails, a rule is there no more than
\* once, and once more for every listing that did not see the chain.
Copies(rule) == Cardinality({i \in DOMAIN chain : chain[i] = rule})
NoneTooOften ==
    /\ jumps <= 1 + spent.lists
    /\ \A rule \in {"ACCEPT", "DROP"} : Copies(rule) <= 1 + spent.lists

\* The rules are all there where they are used, and no more often than the chain was missed.
RulesAreWhole == JumpMeansRules /\ NoneTooOften

\* Why: only a script that has seen no chain goes on to make one, nobody starts the script
\* while it runs, and each command adds the rule that is missing next.
Before(command) ==                      \* the script has yet to reach that command, or is at it
    \/ at = command
    \/ at \in {"look", "new"}
    \/ at = "accept" /\ command \in {"drop", "jump"}
    \/ at = "drop" /\ command = "jump"
OneRuleAtATime ==
    /\ NoneTooOften
    /\ ~exists => chain = <<>> /\ jumps = 0
    /\ Before("accept") => Copies("ACCEPT") <= spent.lists
    /\ Before("drop") => Copies("DROP") <= spent.lists
    /\ Before("jump") => jumps <= spent.lists
    /\ spent.failures = 0 =>
          /\ at \in {"accept", "drop", "jump"} => exists
          /\ at \in {"drop", "jump"} => chain # <<>>
          /\ chain # <<>> => chain[1] = "ACCEPT"
          /\ at = "jump" \/ jumps > 0 => Filters
IInv == TypeOK /\ OneRuleAtATime

\* Where nothing is restarted, fails or is rebooted, a promiscuous bridge has its rules at
\* last, for good, although the script first exits 1 as often as the network is late.
CompleteIfQuiet ==
    promisc /\ spent = Nothing => Complete
FilteredIfQuiet == <>[]CompleteIfQuiet

\* "AKS-DEDUP-PROMISC rule already set": only then.
SaidMeansSet == at = "set already" => Complete

\* A promiscuous bridge has its rules at last, for good.
FilteredAtLast == promisc => <>[]Complete
=============================================================================
