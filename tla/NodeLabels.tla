----------------------------- MODULE NodeLabels -----------------------------
(***************************************************************************)
(* The label updater of a node (update-node-labels.sh and its service).    *)
(* It lists the node's labels, compares them with those the CSE wrote for  *)
(* kubelet, and writes the ones that are missing or differ, in two calls   *)
(* of kubectl between which others may write labels too.  Any command that *)
(* fails ends the script, and the service runs it again until it succeeds. *)
(***************************************************************************)
EXTENDS Naturals

CONSTANTS
    Keys,      \* label keys
    Wanted,    \* KUBELET_NODE_LABELS and the role: a value for some of the keys
    Other,     \* the value somebody else would give
    Failures,  \* bound: how often a call of kubectl fails on a node that is there
    Writes     \* bound: how often somebody else writes or removes a label

Absent == "absent"

WantedAssumption ==
    /\ DOMAIN Wanted \subseteq Keys
    /\ \A k \in DOMAIN Wanted : Wanted[k] \notin {Other, Absent}
    /\ Other # Absent /\ Failures \in Nat /\ Writes \in Nat

VARIABLES
    registered,  \* the node object exists
    labels,      \* its labels
    script,      \* "list", "write", "waiting" for the service to run it, or "done"
    missing,     \* MISSING_LABELS: the keys found missing or different
    touched,     \* keys that others have written since the script listed them
    failures, writes

vars == <<registered, labels, script, missing, touched, failures, writes>>

Init ==
    /\ registered = FALSE /\ labels = [k \in Keys |-> Absent]
    /\ script = "list" /\ missing = {} /\ touched = {}
    /\ failures = 0 /\ writes = 0

-----------------------------------------------------------------------------
\* kubelet makes the node, with its own labels or, where it was there before, with old ones.
Register ==
    /\ ~ registered /\ registered' = TRUE
    /\ labels' \in [Keys -> {Absent, Other}]
    /\ UNCHANGED <<script, missing, touched, failures, writes>>

OtherWrites ==
    /\ registered /\ writes < Writes /\ writes' = writes + 1
    /\ \E k \in Keys, value \in {Absent, Other} :
            labels' = [labels EXCEPT ![k] = value] /\ touched' = touched \cup {k}
    /\ UNCHANGED <<registered, script, missing, failures>>

\* Slip: only labels the node does not have are missing.
ListAbsent ==
    /\ script = "list" /\ registered
    /\ missing' = {k \in DOMAIN Wanted : labels[k] = Absent} /\ touched' = {}
    /\ script' = IF missing' = {} THEN "done" ELSE "write"
    /\ UNCHANGED <<registered, labels, failures, writes>>

List ==
    /\ script = "list" /\ registered
    /\ missing' = {k \in DOMAIN Wanted : labels[k] # Wanted[k]} /\ touched' = {}
    /\ script' = IF missing' = {} THEN "done" ELSE "write"
    /\ UNCHANGED <<registered, labels, failures, writes>>

\* Slip: all labels are replaced by the missing ones.
Replace ==
    /\ script = "write" /\ script' = "done"
    /\ labels' = [k \in Keys |-> IF k \in missing THEN Wanted[k] ELSE Absent]
    /\ UNCHANGED <<registered, missing, touched, failures, writes>>

\* kubectl label --overwrite
Write ==
    /\ script = "write" /\ script' = "done"
    /\ labels' = [k \in Keys |-> IF k \in missing THEN Wanted[k] ELSE labels[k]]
    /\ UNCHANGED <<registered, missing, touched, failures, writes>>

\* set -e; there is no node yet, or kubectl fails.
Fails ==
    /\ script \in {"list", "write"} /\ (registered => failures < Failures)
    /\ script' = "waiting"
    /\ failures' = IF registered THEN failures + 1 ELSE failures
    /\ UNCHANGED <<registered, labels, missing, touched, writes>>

\* Slip: the service is not run again once the node has been there.
RestartBefore ==
    /\ script = "waiting" /\ ~ registered /\ script' = "list" /\ missing' = {} /\ touched' = {}
    /\ UNCHANGED <<registered, labels, failures, writes>>

\* Restart=on-failure, after 30 seconds.
Restart ==
    /\ script = "waiting" /\ script' = "list" /\ missing' = {} /\ touched' = {}
    /\ UNCHANGED <<registered, labels, failures, writes>>

Next == Register \/ OtherWrites \/ List \/ Write \/ Fails \/ Restart

Spec == Init /\ [][Next]_vars

\* The service runs on; a listing comes through in the end where there is a node.
FairSpec == Spec /\ WF_vars(Register) /\ WF_vars(List) /\ WF_vars(Write) /\ WF_vars(Restart)

-----------------------------------------------------------------------------
\* Every variable keeps its type.
TypeOK ==
    /\ registered \in BOOLEAN
    /\ \A k \in Keys : labels[k] \in {Absent, Other} \cup {Wanted[j] : j \in DOMAIN Wanted}
    /\ script \in {"list", "write", "waiting", "done"}
    /\ missing \subseteq DOMAIN Wanted /\ touched \subseteq Keys
    /\ script \in {"list", "waiting"} \/ registered
    /\ failures \in 0 .. Failures /\ writes \in 0 .. Writes

\* When the service has succeeded the node has every wanted label, but for those that
\* somebody else has written since they were listed.
DoneMeansLabelled ==
    script = "done" =>
        \A k \in DOMAIN Wanted : labels[k] = Wanted[k] \/ k \in touched

\* Why: what is not to be written any more is there, but for what others wrote meanwhile.
IInv ==
    /\ TypeOK /\ DOMAIN labels = Keys /\ DoneMeansLabelled
    /\ script = "write" =>
          \A k \in DOMAIN Wanted : labels[k] = Wanted[k] \/ k \in missing \/ k \in touched

\* It adds and changes labels and never removes any, and leaves what it was not asked
\* about as it is.
OnlySetsWanted ==
    writes' = writes /\ registered =>
        \A k \in Keys : labels'[k] # labels[k] => k \in DOMAIN Wanted /\ labels'[k] # Absent
NeverRemoves == [][OnlySetsWanted]_vars

\* The service runs until it succeeds.
Succeeded == script = "done"
SucceedsAtLast == <>Succeeded
=============================================================================
