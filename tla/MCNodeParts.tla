---------------------------- MODULE MCNodeParts ----------------------------
(***************************************************************************)
(* Values for NodeParts' constants: two of every thing that comes in       *)
(* several, and what a cfg cannot write.                                   *)
(***************************************************************************)
EXTENDS NodeParts

Asks(function, times) == [fn |-> function, asked |-> times]

\* cse_install_ubuntu.sh and cse_main.sh: packages, docker and runc; the purge.
NodeCalls == {Asks("apt_get_install", 30), Asks("apt_get_install", 20),
              Asks("apt_get_purge", 20), Asks("apt_get_update", 10),
              Asks("apt_get_dist_upgrade", 10)}

\* Two labels that are wanted, of the three there are.
WantedLabels == [l \in {"role", "pool"} |-> l]

\* The hypothesis of the theorems about AptRetries.
ASSUME NodeCallsAskEnough == InstallsAskEnough
=============================================================================
