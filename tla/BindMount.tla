----------------------------- MODULE BindMount -----------------------------
(***************************************************************************)
(* bind-mount.sh and its unit, beside kubelet's unit, which requires it.   *)
(* The unit is of the default type, simple: systemd takes it for started   *)
(* once the shell runs, so kubelet's own steps follow at once, although    *)
(* its unit says After=bind-mount.service.                                 *)
(*                                                                         *)
(* mv goes from one file system to another: it copies the files it reads,  *)
(* then deletes all there are, then the directory.  It cannot replace a    *)
(* directory that is not empty nor remove one something is mounted on.     *)
(***************************************************************************)
EXTENDS Naturals, FiniteSets

CONSTANTS
    Placed,     \* files the CSE has put into /var/lib/kubelet
    Written,    \* files kubelet itself writes there
    Starts,     \* bound: starts of the unit systemd grants in a boot (5)
    Boots       \* bound on boots

FilesAssumption == IsFiniteSet(Placed \cup Written)
BoundsAssumption == Starts \in Nat \ {0} /\ Boots \in Nat \ {0}

\* A directory is the set of its entries, empty if it is not there.
Self == "."
Files(d) == d \ {Self}

VARIABLES
    dir,        \* the directory /var/lib/kubelet itself
    disk,       \* the directory /mnt/aks/kubelet
    sentinel,   \* bind-sentinel exists
    mount,      \* what is mounted on /var/lib/kubelet: "no", "self", "disk"
    script,     \* the line bind-mount.sh is at
    starts,     \* starts of the unit in this boot
    kubelet,    \* "off", "pre" (its ExecStartPre lines), "up"
    boot        \* number of this boot

vars == <<dir, disk, sentinel, mount, script, starts, kubelet, boot>>

Contents == {{}} \cup {d \in SUBSET ({Self} \cup Placed \cup Written) : Self \in d}
Lines == {"off", "test", "move", "copy", "delete", "touch", "mkdir", "mount", "done", "failed"}

\* Every variable keeps its type.
TypeOK ==
    /\ dir \in Contents /\ disk \in Contents
    /\ sentinel \in BOOLEAN
    /\ mount \in {"no", "self", "disk"}
    /\ script \in Lines
    /\ starts \in 0..Starts
    /\ kubelet \in {"off", "pre", "up"}
    /\ boot \in 1..Boots

\* The CSE starts kubelet on a node whose directory it has filled.
Init ==
    /\ dir = Placed \cup {Self} /\ disk = {} /\ sentinel = FALSE /\ mount = "no"
    /\ script = "off" /\ starts = 0 /\ kubelet = "off" /\ boot = 1

\* What a path below /var/lib/kubelet shows.
Seen == IF mount = "disk" THEN disk ELSE dir

-----------------------------------------------------------------------------
\* Kubelet's start, at first by the CSE and on every boot by systemd, pulls the unit in.
StartUnits ==
    /\ kubelet = "off" /\ script = "off"
    /\ script' = "test" /\ starts' = 1 /\ kubelet' = "pre"
    /\ UNCHANGED <<dir, disk, sentinel, mount, boot>>

\* Restart=on-failure, until systemd has granted all starts.
RestartUnit ==
    /\ script = "failed" /\ starts < Starts
    /\ script' = "test" /\ starts' = starts + 1
    /\ UNCHANGED <<dir, disk, sentinel, mount, kubelet, boot>>

\* mkdir -p /mnt/aks, and the test for the sentinel.
TestSentinel ==
    /\ script = "test"
    /\ script' = IF sentinel THEN "mkdir" ELSE "move"
    /\ UNCHANGED <<dir, disk, sentinel, mount, starts, kubelet, boot>>

\* Slip: the script goes on after a failed command.
FailsUnnoticed ==
    /\ script' = "touch"
    /\ UNCHANGED <<dir, disk, sentinel, mount, starts, kubelet, boot>>

\* errexit: a failed command ends the script.
Fails ==
    /\ script' = "failed"
    /\ UNCHANGED <<dir, disk, sentinel, mount, starts, kubelet, boot>>

\* mv finds nothing to move, or a directory with files where it is to go.
MoveRefused ==
    /\ script = "move"
    /\ dir = {} \/ Files(disk) # {}
    /\ Fails

\* Slip: the files are moved one by one.
MoveBeginsDeleting ==
    /\ script = "move"
    /\ dir # {} /\ Files(disk) = {}
    /\ \E some \in SUBSET Files(dir) : disk' = {Self} \cup some /\ dir' = dir \ some
    /\ script' = "delete"
    /\ UNCHANGED <<sentinel, mount, starts, kubelet, boot>>

\* It has copied some files: a crash may leave it there.
MoveBegins ==
    /\ script = "move"
    /\ dir # {} /\ Files(disk) = {}
    /\ \E some \in SUBSET Files(dir) : disk' = {Self} \cup some
    /\ script' = "copy"
    /\ UNCHANGED <<dir, sentinel, mount, starts, kubelet, boot>>

\* It has copied all files that were there; one that kubelet has written since it may
\* have read or not.
MoveCopies ==
    /\ script = "copy"
    /\ \E new \in SUBSET (dir \cap Written) : disk' = disk \cup (dir \cap Placed) \cup new
    /\ script' = "delete"
    /\ UNCHANGED <<dir, sentinel, mount, starts, kubelet, boot>>

\* It deletes the files, and the directory unless it is mounted on: then mv fails.
MoveDeletes ==
    /\ script = "delete"
    /\ IF mount = "no"
       THEN dir' = {} /\ script' = "touch"
       ELSE dir' = {Self} /\ script' = "failed"
    /\ UNCHANGED <<disk, sentinel, mount, starts, kubelet, boot>>

TouchSentinel ==
    /\ script = "touch"
    /\ sentinel' = TRUE /\ script' = "mkdir"
    /\ UNCHANGED <<dir, disk, mount, starts, kubelet, boot>>

MakeDirectory ==
    /\ script = "mkdir"
    /\ dir' = dir \cup {Self} /\ script' = "mount"
    /\ UNCHANGED <<disk, sentinel, mount, starts, kubelet, boot>>

\* Slip: the directory is not mounted, the script ends well all the same.
BindDiskUnchecked ==
    /\ script = "mount"
    /\ script' = "done"
    /\ mount' = IF mount = "self" THEN "self" ELSE "disk"
    /\ UNCHANGED <<dir, disk, sentinel, starts, kubelet, boot>>

BindDisk ==
    /\ script = "mount"
    /\ IF disk = {}
       THEN script' = "failed" /\ UNCHANGED mount
       ELSE script' = "done" /\ mount' = "disk"
    /\ UNCHANGED <<dir, disk, sentinel, starts, kubelet, boot>>

-----------------------------------------------------------------------------
\* Kubelet's own lines: mkdir -p, and a mount of the directory on itself if nothing is
\* mounted there; on one the disk is mounted on, it changes nothing.
KubeletPre ==
    /\ kubelet = "pre"
    /\ dir' = dir \cup {Self}
    /\ mount' = IF mount = "no" THEN "self" ELSE mount
    /\ kubelet' = "up"
    /\ UNCHANGED <<disk, sentinel, script, starts, boot>>

KubeletWrites ==
    /\ kubelet = "up"
    /\ \E f \in Written \ Seen :
         IF mount = "disk"
         THEN disk' = disk \cup {f} /\ UNCHANGED dir
         ELSE dir' = dir \cup {f} /\ UNCHANGED disk
    /\ UNCHANGED <<sentinel, mount, script, starts, kubelet, boot>>

\* A reboot, or a crash: mounts and processes are gone, files are not.
Reboot ==
    /\ kubelet # "off" /\ boot < Boots
    /\ boot' = boot + 1
    /\ mount' = "no" /\ script' = "off" /\ starts' = 0 /\ kubelet' = "off"
    /\ UNCHANGED <<dir, disk, sentinel>>

ScriptStep ==
    \/ TestSentinel \/ MoveRefused \/ MoveBegins \/ MoveCopies \/ MoveDeletes \/ TouchSentinel
    \/ MakeDirectory \/ BindDisk

SystemdStep == StartUnits \/ RestartUnit

Next == ScriptStep \/ SystemdStep \/ KubeletPre \/ KubeletWrites \/ Reboot

Spec == Init /\ [][Next]_vars

\* The script, systemd and kubelet's start go on.
FairSpec == Spec /\ WF_vars(ScriptStep) /\ WF_vars(SystemdStep) /\ WF_vars(KubeletPre)

-----------------------------------------------------------------------------
\* No file the CSE has placed is ever lost, wherever a crash falls: it is in the directory
\* or in its copy on the disk.
NothingLost == Placed \subseteq dir \cup disk

\* The sentinel stands for a move that is complete: from then on a boot may mount the
\* disk over the directory and hide nothing the CSE has placed.
SentinelMeansMoved == sentinel => disk # {} /\ Placed \subseteq disk

\* Where the script has ended well, kubelet's directory is the disk's, with the CSE's files.
DoneMeansMounted == script = "done" => mount = "disk" /\ Placed \subseteq Seen

\* The move keeps every file, and what stands for it stands for all of it.
MoveKeepsFiles == NothingLost /\ SentinelMeansMoved /\ DoneMeansMounted

\* Why: the move is of a boot that has no sentinel, from the end of the copy on all files
\* are on the disk, and behind the move the sentinel is there.  What is mounted is there.
Copied == disk # {} /\ Placed \subseteq disk
IInv ==
    /\ TypeOK /\ NothingLost
    /\ sentinel => Copied
    /\ script \in {"move", "copy", "delete", "touch"} => ~sentinel
    /\ script = "copy" => disk # {}
    /\ script \in {"delete", "touch"} => Copied
    /\ script \in {"mkdir", "mount", "done"} => sentinel
    /\ script = "done" => mount = "disk"
    /\ mount = "disk" => disk # {}
    /\ mount # "no" \/ script = "mount" => dir # {}
    /\ kubelet = "up" => mount # "no"

\* "On every boot, bind mount the kubelet directory back to the expected location before
\* kubelet itself may start": a kubelet that is up has the disk mounted.
MountedBeforeKubelet == kubelet = "up" => mount = "disk"

\* The same boot's end: the disk is mounted at last.
MountedAtLast == <>[](mount = "disk")
=============================================================================
