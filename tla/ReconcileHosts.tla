--------------------------- MODULE ReconcileHosts ---------------------------
(***************************************************************************)
(* reconcile-private-hosts.sh: every fifteen seconds the API server's      *)
(* address, a tag of the virtual machine, is compared with /etc/hosts, in  *)
(* which an old line is deleted and a new one appended, in two commands.   *)
(* The tag changes, the metadata service may not answer, and the script    *)
(* may be killed between any two commands; systemd starts it again.        *)
(***************************************************************************)
EXTENDS Naturals, Sequences

CONSTANTS
    Moves,      \* bound: how often the API server's address changes
    Kills       \* bound: how often the script is killed

BoundsAssumption == Moves \in Nat /\ Kills \in Nat

Addresses == 1..(Moves + 1)
NoAnswer == 0       \* an empty answer, or none

VARIABLES
    private,    \* the cluster's name is a private link's
    tag,        \* the address in the tag: the first one is 1, the next one 2, ...
    lines,      \* the addresses of the cluster's lines in /etc/hosts
    at,         \* the command the script is at
    clusterIP,  \* its variable
    kills

vars == <<private, tag, lines, at, clusterIP, kills>>

\* Every variable keeps its type.
TypeOK ==
    /\ private \in BOOLEAN
    /\ tag \in Addresses
    /\ lines \in Seq(Addresses)
    /\ at \in {"start", "ask", "test", "sed", "tee", "exited", "killed"}
    /\ clusterIP \in Addresses \cup {NoAnswer}
    /\ kills \in 0..Kills

Init ==
    /\ private \in BOOLEAN
    /\ tag = 1 /\ lines = <<>>
    /\ at = "start" /\ clusterIP = NoAnswer /\ kills = 0

-----------------------------------------------------------------------------
\* The control plane moves, or the private end point is made again.
ServerMoves ==
    /\ tag <= Moves
    /\ tag' = tag + 1
    /\ UNCHANGED <<private, lines, at, clusterIP, kills>>

\* Not a private cluster: exit 0, and Restart=on-failure leaves it at that.
SkipOrGoOn ==
    /\ at = "start"
    /\ at' = IF private THEN "ask" ELSE "exited"
    /\ UNCHANGED <<private, tag, lines, clusterIP, kills>>

\* get-apiserver-ip-from-tags, whose answer is compared later.
Answered ==
    /\ at = "ask"
    /\ clusterIP' = tag
    /\ at' = "test"
    /\ UNCHANGED <<private, tag, lines, kills>>

\* The service does not answer, or the tag is not set: sleep and ask again.
NotAnswered ==
    /\ at = "ask"
    /\ clusterIP' = NoAnswer
    /\ UNCHANGED <<private, tag, lines, at, kills>>

Present == \E i \in DOMAIN lines : lines[i] = clusterIP

\* grep: nothing to do, sleep.
UpToDate ==
    /\ at = "test" /\ Present
    /\ at' = "ask"
    /\ UNCHANGED <<private, tag, lines, clusterIP, kills>>

OutOfDate ==
    /\ at = "test" /\ ~Present
    /\ at' = "sed"
    /\ UNCHANGED <<private, tag, lines, clusterIP, kills>>

\* Slip: the new line is appended and nothing deleted.
KeepLines ==
    /\ at = "sed"
    /\ at' = "tee"
    /\ UNCHANGED <<private, tag, lines, clusterIP, kills>>

\* sed deletes every line with the cluster's name.
DeleteLines ==
    /\ at = "sed"
    /\ lines' = <<>> /\ at' = "tee"
    /\ UNCHANGED <<private, tag, clusterIP, kills>>

AppendLine ==
    /\ at = "tee"
    /\ lines' = Append(lines, clusterIP) /\ at' = "ask"
    /\ UNCHANGED <<private, tag, clusterIP, kills>>

Kill ==
    /\ at \notin {"exited", "killed"} /\ kills < Kills
    /\ at' = "killed" /\ kills' = kills + 1
    /\ UNCHANGED <<private, tag, lines, clusterIP>>

\* Slip: no Restart= in the unit.
RestartNever == FALSE /\ UNCHANGED vars

\* systemd starts the script again, with nothing in its variables.
Restart ==
    /\ at = "killed"
    /\ at' = "start" /\ clusterIP' = NoAnswer
    /\ UNCHANGED <<private, tag, lines, kills>>

ScriptStep == SkipOrGoOn \/ Answered \/ NotAnswered \/ UpToDate \/ OutOfDate \/ DeleteLines \/ AppendLine

Next == ScriptStep \/ Restart \/ ServerMoves \/ Kill

Spec == Init /\ [][Next]_vars

\* The script goes on and is restarted; the metadata service answers a question asked again and again.
FairSpec == Spec /\ WF_vars(ScriptStep) /\ WF_vars(Answered) /\ WF_vars(Restart)

-----------------------------------------------------------------------------
\* /etc/hosts never has two addresses for the API server, whatever is killed, and no
\* line with an address the server has not had.
OneAddress == Len(lines) <= 1 /\ \A i \in DOMAIN lines : lines[i] \in 1..tag

\* Why: between the two commands the file has no line of the cluster, and the variable has
\* an address the tag had when it was read; a kill empties the variable with the script.
IInv ==
    /\ TypeOK /\ OneAddress
    /\ at = "tee" => lines = <<>>
    /\ at \in {"test", "sed", "tee"} => clusterIP \in 1..tag

\* Whatever moves and kills come, /etc/hosts ends up with the server's last address.
LineIsLast == private => lines = <<tag>>
Reconciled == <>[]LineIsLast
=============================================================================
