----------------------------- MODULE Downloads ------------------------------
(***************************************************************************)
(* What is downloaded to a node (cse_install.sh, ubuntu/cse_install_       *)
(* ubuntu.sh) by the two loops of cse_helpers.sh, while the image is built *)
(* (vhdbuilder/packer/install-dependencies.sh) or by the node's own run.   *)
(* retrycmd_get_tarball reads the archive before it takes it for good;     *)
(* retrycmd_curl_file takes any file that is there, what a curl that       *)
(* timed out has left included.  Neither downloads in its last try.        *)
(***************************************************************************)
EXTENDS Naturals, Sequences

CONSTANTS Tries  \* bound: the tries of a loop (10 or 120 in the calls)

TriesAssumption == Tries \in Nat \ {0}

Tarballs == {"cni", "kube"}                  \* fetched by retrycmd_get_tarball
Files == {"crictl", "deb", "teleportd"}      \* fetched by retrycmd_curl_file
Artifacts == Tarballs \cup Files
Contents == {"none", "part", "whole"}

VARIABLES
    image,     \* "vhd" where the image is built with the downloads, else "plain"
    step,      \* the number of the step the build or the run is at
    try,       \* the try of the loop that is running, 0 outside of a loop
    file,      \* each artifact's file in its download directory
    bin,       \* what has been installed of it
    kubectl,   \* kubelet-<version> and kubectl-<version> in /usr/local/bin
    cliTool,   \* CLI_TOOL
    wanted,    \* artifacts that the image's own version does not stand for
    code       \* the exit code, by name; "none" while it runs

vars == <<image, step, try, file, bin, kubectl, cliTool, wanted, code>>

-----------------------------------------------------------------------------
\* The build of an image, which the node then boots from, and the node's own run.
Steps ==
    <<"getCrictl", "getCni", "getKube", "extractKube", "boot",
      "installCrictl", "findDeb", "getDeb", "installDeb", "findTeleportd",
      "getTeleportd", "moveTeleportd", "findCni", "getCni", "untarCni",
      "findKube", "getKube", "extractKube", "moveKube">>
FirstOfNode == 6
Last == Len(Steps)

\* The artifact a step downloads.
Gets ==
    [s \in {"getCrictl", "getDeb", "getTeleportd", "getCni", "getKube"} |->
        CASE s = "getCrictl" -> "crictl"
          [] s = "getDeb" -> "deb"
          [] s = "getTeleportd" -> "teleportd"
          [] s = "getCni" -> "cni"
          [] s = "getKube" -> "kube"]

AtStep(s) == step <= Last /\ Steps[step] = s
Getter == step <= Last /\ Steps[step] \in DOMAIN Gets
It == Gets[Steps[step]]
Advance == step' = step + 1
Skip(steps) == step' = step + 1 + steps
Exit == step' = Last + 1

Init ==
    /\ image \in {"vhd", "plain"}
    /\ step = IF image = "vhd" THEN 1 ELSE FirstOfNode
    /\ try = 0
    /\ file = [a \in Artifacts |-> "none"] /\ bin = [a \in Artifacts |-> "none"]
    /\ kubectl = "none" /\ cliTool = "ctr" /\ code = "none"
    /\ \E more \in SUBSET {"deb", "teleportd"} : wanted = more \cup {"crictl", "cni", "kube"}

-----------------------------------------------------------------------------
(***************************************************************************)
(* The loops.                                                              *)
(***************************************************************************)
Begin ==
    /\ Getter /\ try = 0 /\ try' = 1
    /\ UNCHANGED <<image, step, file, bin, kubectl, cliTool, wanted, code>>

LooksGood(a) ==
    \/ a \in Tarballs /\ file[a] = "whole"    \* tar -tzf
    \/ a \in Files /\ file[a] # "none"        \* [[ -f ]]

Found ==
    /\ Getter /\ try > 0 /\ LooksGood(It)
    /\ try' = 0 /\ Advance
    /\ UNCHANGED <<image, file, bin, kubectl, cliTool, wanted, code>>

\* curl brings the file, is killed by timeout on the way, or gets no answer.
Download ==
    /\ Getter /\ try \in 1 .. Tries - 1 /\ ~ LooksGood(It)
    /\ \E content \in {"whole", "part", file[It]} : file' = [file EXCEPT ![It] = content]
    /\ try' = try + 1
    /\ UNCHANGED <<image, step, bin, kubectl, cliTool, wanted, code>>

\* Slip: the last try does not look.
GiveUpBlind ==
    /\ Getter /\ try = Tries
    /\ try' = 0 /\ Exit /\ code' = "downloadTimeout"
    /\ UNCHANGED <<image, file, bin, kubectl, cliTool, wanted>>

\* Slip: the loop starts over.
StartOver ==
    /\ Getter /\ try = Tries /\ ~ LooksGood(It) /\ try' = 1
    /\ UNCHANGED <<image, step, file, bin, kubectl, cliTool, wanted, code>>

\* Every caller exits but the image build's for crictl.
GiveUp ==
    /\ Getter /\ try = Tries /\ ~ LooksGood(It)
    /\ try' = 0
    /\ IF It = "crictl" THEN Advance /\ UNCHANGED code
       ELSE Exit /\ code' = "downloadTimeout"
    /\ UNCHANGED <<image, file, bin, kubectl, cliTool, wanted>>

-----------------------------------------------------------------------------
(***************************************************************************)
(* What is done with the files.                                            *)
(***************************************************************************)
Boot ==
    /\ AtStep("boot") /\ Advance
    /\ UNCHANGED <<image, try, file, bin, kubectl, cliTool, wanted, code>>

\* Only an image has the archive.  Neither tar's status nor chmod's is the last one: the
\* function succeeds, and the directory goes, whatever has come out of the archive.
installCrictl ==
    /\ AtStep("installCrictl") /\ Advance
    /\ file' = [file EXCEPT !["crictl"] = "none"]
    /\ IF file["crictl"] = "none" THEN UNCHANGED <<bin, cliTool>>
       ELSE bin' = [bin EXCEPT !["crictl"] = file["crictl"]] /\ cliTool' = "crictl"
    /\ UNCHANGED <<image, try, kubectl, wanted, code>>

\* The versions are compared, and the download is skipped where a file is in place already.
FindDeb ==
    /\ AtStep("findDeb") /\ IF "deb" \in wanted THEN Advance ELSE Skip(2)
    /\ UNCHANGED <<image, try, file, bin, kubectl, cliTool, wanted, code>>
FindTeleportd ==
    /\ AtStep("findTeleportd") /\ IF "teleportd" \in wanted THEN Advance ELSE Skip(2)
    /\ UNCHANGED <<image, try, file, bin, kubectl, cliTool, wanted, code>>
FindCni ==
    /\ AtStep("findCni")
    /\ IF file["cni"] # "none" THEN Skip(1) ELSE Advance
    /\ UNCHANGED <<image, try, file, bin, kubectl, cliTool, wanted, code>>
FindKube ==
    /\ AtStep("findKube")
    /\ IF kubectl # "none" THEN Skip(2) ELSE Advance
    /\ UNCHANGED <<image, try, file, bin, kubectl, cliTool, wanted, code>>

\* Slip: apt-get's status is not looked at.
InstallDebAnyway ==
    /\ AtStep("installDeb") /\ Advance
    /\ bin' = [bin EXCEPT !["deb"] = file["deb"]]
    /\ UNCHANGED <<image, try, file, kubectl, cliTool, wanted, code>>

\* apt-get refuses what is not a package, and may fail ten times on one that is.
InstallDeb ==
    /\ AtStep("installDeb")
    /\ \/ file["deb"] = "whole" /\ Advance /\ bin' = [bin EXCEPT !["deb"] = "whole"]
          /\ UNCHANGED code
       \/ Exit /\ code' = "installTimeout" /\ UNCHANGED bin
    /\ UNCHANGED <<image, try, file, kubectl, cliTool, wanted>>

MoveTeleportd ==
    /\ AtStep("moveTeleportd") /\ Advance
    /\ bin' = [bin EXCEPT !["teleportd"] = file["teleportd"]]
    /\ file' = [file EXCEPT !["teleportd"] = "none"]
    /\ UNCHANGED <<image, try, kubectl, cliTool, wanted, code>>

UntarCni ==
    /\ AtStep("untarCni") /\ Advance
    /\ bin' = [bin EXCEPT !["cni"] = file["cni"]]
    /\ UNCHANGED <<image, try, file, kubectl, cliTool, wanted, code>>

ExtractKube ==
    /\ AtStep("extractKube") /\ Advance
    /\ kubectl' = file["kube"] /\ file' = [file EXCEPT !["kube"] = "none"]
    /\ UNCHANGED <<image, try, bin, cliTool, wanted, code>>

\* The end of installKubeletKubectlKubeadmAndKubeProxy.
MoveKube ==
    /\ AtStep("moveKube") /\ Advance
    /\ bin' = [bin EXCEPT !["kube"] = kubectl] /\ kubectl' = "none"
    /\ code' = "done"
    /\ UNCHANGED <<image, try, file, cliTool, wanted>>

Next ==
    \/ Begin \/ Found \/ Download \/ GiveUp \/ Boot \/ installCrictl
    \/ FindDeb \/ InstallDeb \/ FindTeleportd \/ MoveTeleportd
    \/ FindCni \/ UntarCni \/ FindKube \/ ExtractKube \/ MoveKube

Spec == Init /\ [][Next]_vars /\ WF_vars(Next)

-----------------------------------------------------------------------------
\* Every variable keeps its type.
TypeOK ==
    /\ image \in {"vhd", "plain"} /\ step \in 1 .. Last + 1 /\ try \in 0 .. Tries
    /\ wanted \subseteq Artifacts
    /\ file \in [Artifacts -> Contents] /\ bin \in [Artifacts -> Contents]
    /\ kubectl \in {"none", "whole"}
    /\ cliTool \in {"ctr", "crictl"}
    /\ code \in {"none", "done", "downloadTimeout", "installTimeout"}

\* A node on which the installation goes through has the whole of the network plugin,
\* of kubelet, and of the containerd it was to get.
WholeAtTheEnd ==
    code = "done" =>
        /\ bin["cni"] = "whole" /\ bin["kube"] = "whole"
        /\ "deb" \in wanted => bin["deb"] = "whole"

\* Why, by the numbers of the steps: an archive that was found is whole until something
\* else is made of it, a step is only skipped where its work is done, and the end is
\* reached through all of them.
IInv ==
    /\ TypeOK /\ WholeAtTheEnd
    /\ try > 0 => step \in {1, 2, 3, 8, 11, 14, 17}                   \* the loops
    /\ step \in {4, 18} => file["kube"] = "whole"                    \* extractKube
    /\ step = 15 => file["cni"] = "whole"                            \* untarCni
    /\ step = 19 => kubectl = "whole"                                \* moveKube
    /\ file["cni"] = "part" => step \in {2, 14, 20}                  \* getCni, the end
    /\ step \in 10 .. 19 /\ "deb" \in wanted => bin["deb"] = "whole"  \* installDeb is over
    /\ step \in 16 .. 19 => bin["cni"] = "whole"                     \* untarCni is over

\* A download is reported as timed out only if the file has not come, in the last of
\* the downloads as in the others.
TimesOutForMissing == code' = "downloadTimeout" /\ code # code' => ~ LooksGood(It)
TimedOutMeansMissing == [][TimesOutForMissing]_vars

\* Every loop ends, and with it the build and the run.
Ended == code # "none"
InstallationEnds == <>Ended

\* cse_main.sh: if crictl gets installed, it is used as the CLI instead of ctr.
CrictlMeansInstalled == cliTool = "crictl" => bin["crictl"] = "whole"
=============================================================================
