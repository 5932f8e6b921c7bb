-------------------------- MODULE ProvisionContract --------------------------
(***************************************************************************)
(* What the guest agent may rely on when it runs the custom script         *)
(* extension on a node, possibly again and again, with no word of how the  *)
(* node gets provisioned:                                                  *)
(*   - a run that finds the node provisioned reports 0 and leaves it so;   *)
(*   - any other run provisions the node and reports the outcome of the    *)
(*     validation, or gives up with a code that is not 0;                  *)
(*   - any run may be killed or fail before it looks at the node at all;   *)
(*   - a provisioned node stays provisioned.                               *)
(***************************************************************************)
EXTENDS Integers

CONSTANTS
    Verdicts,    \* the exit codes the validation of a provisioned node may report
    Early        \* the exit codes of a run that could not even begin its work

VARIABLES
    busy,          \* a run is going on
    provisioned,   \* some run has provisioned the node
    report         \* the last run's exit code, -1 while it runs, -2 if killed

cvars == <<busy, provisioned, report>>

CInit == ~busy /\ ~provisioned /\ report = -1

CBegin ==
    /\ ~busy
    /\ busy' = TRUE
    /\ report' = -1
    /\ UNCHANGED provisioned

CSkip ==
    /\ busy
    /\ provisioned
    /\ busy' = FALSE
    /\ report' = 0
    /\ UNCHANGED provisioned

CCannotStart ==
    /\ busy
    /\ busy' = FALSE
    /\ report' \in Early
    /\ UNCHANGED provisioned

CGiveUp ==
    /\ busy
    /\ ~provisioned
    /\ busy' = FALSE
    /\ report' \in Nat \ {0}
    /\ UNCHANGED provisioned

CProvision ==
    /\ busy
    /\ ~provisioned
    /\ busy' = FALSE
    /\ provisioned' = TRUE
    /\ report' \in Verdicts

CKill ==
    /\ busy
    /\ busy' = FALSE
    /\ report' = -2
    /\ UNCHANGED provisioned

CNext == CBegin \/ CSkip \/ CCannotStart \/ CGiveUp \/ CProvision \/ CKill

CSpec == CInit /\ [][CNext]_cvars
=============================================================================
