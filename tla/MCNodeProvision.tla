-------------------------- MODULE MCNodeProvision --------------------------
(***************************************************************************)
(* NodeProvision with the scripts of this repository (CseScript), for the  *)
(* configurations the runs choose.                                         *)
(***************************************************************************)
EXTENDS NodeProvision

CSE == INSTANCE CseScript

\* Tables, so that TLC builds each script once.
ScriptTable == [c \in Configs |-> CSE!Script(c)]
OrderTable == [c \in Configs |-> CSE!Order(c)]
MCScript(c) == ScriptTable[c]
MCOrder(c) == OrderTable[c]
MCBaked(c) == CSE!Baked(c)
MCBrings(cmd) == CSE!packageUnits(cmd)
MCUnawaited == CSE!Unawaited
MCUnmarked == CSE!Unmarked
MCInstallable == CSE!Installable

\* Configurations: an ordinary containerd node on a VHD, one with most of the
\* optional parts on a plain image, docker nodes, a control plane node.
VhdNode == {"containerd", "vhd", "tlsBootstrap", "azureCNI"}
PlainNode == {"containerd", "dualStack", "dedupBridge", "hostsAgent", "swapFile", "teleport",
              "tempDisk", "proxy"}
DockerNode == {"vhd", "tlsBootstrap", "pendingReboot"}
DockerPlainNode == {"gpu", "gpuConfig", "gpuPlugin", "mig", "sgx"}
GpuVhdNode == {"containerd", "vhd", "gpu", "tlsBootstrap", "azureCNI"}
AntreaNode == {"containerd", "vhd", "overlayCNI", "customCloud"}
ControlPlane == {"containerd", "vhd", "controlPlane", "firstMaster", "customCloud",
                 "azureStack", "azureCNI", "blockOutbound"}
ControlPlaneJoin == {"containerd", "controlPlane", "upgrade", "k8s123"}

VhdConfigs == {VhdNode, DockerNode, AntreaNode}
AllConfigs == {VhdNode, PlainNode, DockerNode, DockerPlainNode, GpuVhdNode, AntreaNode,
               ControlPlane, ControlPlaneJoin}
RerunConfigs == {VhdNode, PlainNode, DockerPlainNode, ControlPlane}

\* Nodes with a custom search domain (where TimeoutMeansMissing fails in a first run),
\* with a proxy CA, and one that reboots.
SearchDomainNode == {"containerd", "vhd", "tlsBootstrap", "searchDomain"}
ProxyNode == {"containerd", "vhd", "tlsBootstrap", "proxyCA"}
RebootingNode == {"containerd", "vhd", "tlsBootstrap", "pendingReboot"}
OneVhdConfig == {VhdNode}
SearchDomainConfig == {SearchDomainNode}
ProxyConfig == {ProxyNode}
RebootConfig == {RebootingNode}

\* Packages that the image carries may have started a runtime, the wanted one or the other.
MCActive == SUBSET {"containerd", "docker"}
NoneActive == {{}}

\* "The update-node-labels.service updates the labels for the kubernetes node.
\* Runs until successful on startup": it is among what a completed node runs.
LabelsServiceServes == complete => "update-node-labels" \in running

\* ERR_SYSTEMD_DOCKER_STOP_FAIL, "Error stopping dockerd", is how a containerd node
\* ends where docker cannot be put away: a completed one does not have it enabled.
NoLeftoverDocker == complete /\ "containerd" \in conf => "docker" \notin enabled

\* How the validation may end, and what comes before the test of provision.complete.
MCVerdicts == {0, CSE!ERR.K8S_API_SERVER_CONN_FAIL,
               CSE!ERR.K8S_API_SERVER_DNS_LOOKUP_FAIL, AzureDnsErr}
MCEarly == {CSE!ERR.OUTBOUND_CONN_FAIL}
=============================================================================
