------------------------- MODULE MCScriptDiscipline -------------------------
(***************************************************************************)
(* The hypotheses of the theorems about NodeProvision and WindowsSetup,    *)
(* evaluated for the scripts of this repository.                           *)
(***************************************************************************)
EXTENDS MCNodeProvision

\* Whatever else is on, every file a step reads is covered by an earlier look or one of
\* the five left out; a custom search domain alone is apart, for want of a marker.
ReadingFeatures == {"containerd", "vhd", "gpu", "proxy", "teleport", "dualStack", "hostsAgent",
                    "controlPlane", "tlsBootstrap", "customCloud"}
OtherFeatures == {"containerd", "vhd", "gpu", "gpuConfig", "proxyCA", "mig", "dedupBridge",
                  "tempDisk", "customCloud", "azureStack"}

Orderly(c, script) ==
    /\ Covered(script, CSE!Order(c), CSE!Baked(c), CSE!Unawaited)
    /\ ChecksFirst(script) /\ ReportsAsAgreed(script) /\ NothingUndone(script)
    /\ EditsOfCustomClouds(c, script)
    /\ MarkersOnce(script)
    /\ CommandFirst(script, "modprobe br_netfilter", "kubelet")
    /\ UnitFirst(script, RuntimeOf(c), "kubelet")
    /\ \A u \in {"kubelet", RuntimeOf(c)} : u \in BootUnits /\ Starts(script, u) # {}
    /\ \A i \in DOMAIN script : "kubelet" \notin Brings(script[i].on)

ASSUME ScriptDiscipline ==
    \A c \in SUBSET ReadingFeatures \cup SUBSET OtherFeatures : Orderly(c, CSE!Script(c))

\* None of the five is left out for nothing: each is read before anything makes sure of it.
LooseConfigs == {{"containerd", "vhd", "gpu", "proxyCA"}, {"proxy"}, {"containerd"}}
ASSUME NoneLeftOutInVain ==
    \A f \in CSE!Unawaited : \E c \in LooseConfigs :
        ~Covered(CSE!Script(c), CSE!Order(c), CSE!Baked(c), CSE!Unawaited \ {f})

\* The Windows script is in order whatever its switches are.
Windows == INSTANCE WindowsScript
ASSUME WindowsDiscipline == Windows!ScriptsInOrder

\* No image starts kubelet by itself.
ASSUME KubeletNotAtBoot == \A units \in MCActive : "kubelet" \notin units

ASSUME VerdictsOfTheEnd == {0, AzureDnsErr} \subseteq Verdicts
=============================================================================
