-------------------------- MODULE ContainerImages ---------------------------
(***************************************************************************)
(* The images of a node without separate Kubernetes binaries while         *)
(* cse_main.sh runs (cse_install.sh).  Two clean-ups start in the          *)
(* background and delete the images of other Kubernetes versions that a    *)
(* prepared image carries; meanwhile the run installs the runtime they     *)
(* talk to, takes kubelet out of the hyperkube image, pulls kube-proxy in  *)
(* the background as well, and restarts the runtime.                       *)
(*                                                                         *)
(* An image is <<its name, its version>>.                                  *)
(***************************************************************************)
EXTENDS Naturals, FiniteSets

CONSTANTS
    Own,           \* KUBERNETES_VERSION
    Others,        \* versions of the images that were prepared besides
    ProxyVersion,  \* the version of KUBEPROXY_URL, which the control plane dictates
    Tries          \* bound: the tries of retrycmd_if_failure (10 and 60 in the code)

Names == {"hyperkube", "kube-proxy"}

ConstantsAssumption ==
    /\ Own \notin Others /\ ProxyVersion \in Others \cup {Own} /\ Tries \in Nat \ {0}

VARIABLES
    store,   \* the images the runtime has
    up,      \* the runtime answers
    clean,   \* each clean-up: "list", "remove" or "over"
    left,    \* the tries each has left
    delete,  \* images_to_delete of each
    unread,  \* the listing a clean-up acts on is one that failed
    run,     \* where cse_main.sh is
    pulls,   \* the tries its pull has left
    proxy,   \* the pull of kube-proxy: "no", "pull", "done" or "failed"
    kubelet, \* /usr/local/bin/kubelet is there
    code     \* the exit code, by name

vars == <<store, up, clean, left, delete, unread, run, pulls, proxy, kubelet, code>>
cleanVars == <<clean, left, delete, unread>>

Init ==
    /\ \E versions \in [Names -> SUBSET (Others \cup {Own})] :
            store = {i \in Names \X (Others \cup {Own}) : i[2] \in versions[i[1]]}
    /\ up = TRUE
    /\ clean = [n \in Names |-> "list"] /\ left = [n \in Names |-> Tries]
    /\ delete = [n \in Names |-> {}] /\ unread = [n \in Names |-> FALSE]
    /\ run = "installRuntime" /\ pulls = Tries /\ proxy = "no"
    /\ kubelet = FALSE /\ code = "none"

-----------------------------------------------------------------------------
(***************************************************************************)
(* cleanupImagesRun.  The status of the listing is that of the last        *)
(* command of a pipe, which has nothing to fail about; that of the         *)
(* deletion is the last image's.                                           *)
(***************************************************************************)
\* Slip: the images of the version are deleted too.
ListAll(n) ==
    /\ clean[n] = "list" /\ clean' = [clean EXCEPT ![n] = "remove"]
    /\ delete' = [delete EXCEPT ![n] = IF up THEN {i \in store : i[1] = n} ELSE {}]
    /\ unread' = [unread EXCEPT ![n] = ~ up]
    /\ UNCHANGED <<store, up, left, run, pulls, proxy, kubelet, code>>

List(n) ==
    /\ clean[n] = "list" /\ clean' = [clean EXCEPT ![n] = "remove"]
    /\ delete' = [delete EXCEPT ![n] = IF up THEN {i \in store : i[1] = n /\ i[2] # Own} ELSE {}]
    /\ unread' = [unread EXCEPT ![n] = ~ up]
    /\ UNCHANGED <<store, up, left, run, pulls, proxy, kubelet, code>>

\* Slip: the tries begin anew.
TryAgainAlways(n) == clean' = [clean EXCEPT ![n] = "list"] /\ UNCHANGED left

TryAgain(n) ==
    /\ clean' = [clean EXCEPT ![n] = IF left[n] = 1 THEN "over" ELSE "list"]
    /\ left' = [left EXCEPT ![n] = left[n] - 1]

\* Some of the images go; the try counts as good if the last one did.
Remove(n) ==
    /\ clean[n] = "remove"
    /\ \E gone \in SUBSET delete[n] :
        /\ up \/ gone = {}
        /\ store' = store \ gone
        /\ \/ /\ delete[n] = {} \/ gone # {}
              /\ clean' = [clean EXCEPT ![n] = "over"] /\ UNCHANGED left
           \/ gone # delete[n] /\ TryAgain(n)
    /\ delete' = [delete EXCEPT ![n] = {}]
    /\ UNCHANGED <<up, unread, run, pulls, proxy, kubelet, code>>

-----------------------------------------------------------------------------
(***************************************************************************)
(* cse_main.sh.                                                            *)
(***************************************************************************)
\* installContainerRuntime, which need not change anything, and ensureContainerd.
InstallRuntime ==
    /\ run = "installRuntime"
    /\ \/ up' = FALSE /\ run' = "runtimeStarts"
       \/ run' = "pull" /\ UNCHANGED up
    /\ UNCHANGED <<store, cleanVars, pulls, proxy, kubelet, code>>

RuntimeStarts ==
    /\ run \in {"runtimeStarts", "runtimeRestarts"} /\ up' = TRUE
    /\ IF run = "runtimeStarts" THEN run' = "pull" /\ UNCHANGED code
       ELSE run' = "over" /\ code' = IF kubelet THEN "success" ELSE "kubeletStart"
    /\ UNCHANGED <<store, cleanVars, pulls, proxy, kubelet>>

PullSucceeds ==
    /\ run = "pull" /\ run' = "extract"
    /\ store' = store \cup {<<"hyperkube", Own>>}
    /\ UNCHANGED <<up, cleanVars, pulls, proxy, kubelet, code>>

\* The exit after the last try is inside parentheses.
PullFails ==
    /\ run = "pull" /\ pulls' = pulls - 1
    /\ run' = IF pulls = 1 THEN "extract" ELSE "pull"
    /\ UNCHANGED <<store, up, cleanVars, proxy, kubelet, code>>

\* Slip: kubelet is taken for extracted whatever the image store holds.
ExtractAnything ==
    /\ run = "extract" /\ run' = "restartRuntime" /\ kubelet' = TRUE
    /\ proxy' = "pull"
    /\ UNCHANGED <<store, up, cleanVars, pulls, code>>

\* kubelet comes out of the image where there is one; no status is looked at.  kube-proxy
\* is pulled in the background from here on.
Extract ==
    /\ run = "extract" /\ run' = "restartRuntime"
    /\ kubelet' = (<<"hyperkube", Own>> \in store)
    /\ proxy' = "pull"
    /\ UNCHANGED <<store, up, cleanVars, pulls, code>>

RestartRuntime ==
    /\ run = "restartRuntime" /\ run' = "runtimeRestarts" /\ up' = FALSE
    /\ UNCHANGED <<store, cleanVars, pulls, proxy, kubelet, code>>

PullProxy ==
    /\ proxy = "pull"
    /\ \/ up /\ proxy' = "done" /\ store' = store \cup {<<"kube-proxy", ProxyVersion>>}
       \/ proxy' = "failed" /\ UNCHANGED store
    /\ UNCHANGED <<up, cleanVars, run, pulls, kubelet, code>>

RunSteps ==
    \/ InstallRuntime \/ RuntimeStarts \/ PullSucceeds \/ PullFails
    \/ Extract \/ RestartRuntime
Next == (\E n \in Names : List(n) \/ Remove(n)) \/ RunSteps \/ PullProxy

Spec == Init /\ [][Next]_vars

\* Processes: each goes on as long as it can.
FairSpec ==
    /\ Spec /\ WF_vars(RunSteps) /\ WF_vars(PullProxy)
    /\ \A n \in Names : WF_vars(List(n) \/ Remove(n))

-----------------------------------------------------------------------------
\* Every variable keeps its type.
TypeOK ==
    /\ store \subseteq Names \X (Others \cup {Own}) /\ up \in BOOLEAN
    /\ clean \in [Names -> {"list", "remove", "over"}] /\ left \in [Names -> 0 .. Tries]
    /\ DOMAIN delete = Names /\ \A n \in Names : delete[n] \subseteq {n} \X Others
    /\ unread \in [Names -> BOOLEAN]
    /\ proxy \in {"no", "pull", "done", "failed"} /\ pulls \in 0 .. Tries
    /\ run \in {"installRuntime", "runtimeStarts", "pull", "extract", "restartRuntime",
                "runtimeRestarts", "over"}
    /\ kubelet \in BOOLEAN /\ code \in {"none", "success", "kubeletStart"}

\* What this version of Kubernetes needs is never deleted, whichever of the clean-ups, the
\* run and the pull comes first.
KeepsOwnImages == \A n \in Names : <<n, Own>> \in store => <<n, Own>> \in store'
OwnImagesStay == [][KeepsOwnImages]_vars

\* A run that succeeds has taken kubelet out of an image that is still there.
SuccessHasKubelet == code = "success" => kubelet /\ <<"hyperkube", Own>> \in store

\* Why: kubelet is there only if its image was, and no clean-up has an image of this version
\* in its list.
IInv ==
    /\ TypeOK
    /\ \A n \in Names : clean[n] # "over" => left[n] > 0
    /\ run \in {"installRuntime", "runtimeStarts", "pull"} => pulls > 0
    /\ kubelet => <<"hyperkube", Own>> \in store
    /\ code = "success" => kubelet

\* The clean-ups end, whatever the runtime does.
AllClean == \A n \in Names : clean[n] = "over"
CleanUpEnds == <>AllClean

\* cleanupImagesRun tests the status of the listing to exit with it: a listing that
\* failed is tried again.
FailedListIsRetried ==
    \A n \in Names : clean[n] = "over" /\ unread[n] => left[n] = 0

\* A pull that timed out has a code of its own (cse_helpers.sh).
PullTimeoutIsReported == pulls = 0 => code # "kubeletStart"
=============================================================================
