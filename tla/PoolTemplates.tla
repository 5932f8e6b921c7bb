---------------------------- MODULE PoolTemplates ----------------------------
(***************************************************************************)
(* What the Go side decides for a Linux pool and the shell side relies on. *)
(* The templates are filled twice, custom data and CSE command, from three *)
(* sources that read the cluster differently: switches (the functions of   *)
(* getContainerServiceFuncMap), parameters (params.go) and variables       *)
(* (variables.go).  A cluster may mix pools; some of these sources look at *)
(* the pool, some at the cluster, some at its first pool only.  The node   *)
(* then acts on whatever mixture it got (CseScript says what it runs).     *)
(***************************************************************************)
EXTENDS Naturals, Sequences, SequencesExt, FiniteSets

Runtimes == {"unset", "docker", "containerd", "kata-containers"}
PoolSettings == [distro : {"vhd", "raw"}, runtime : Runtimes, dataDir : {"none", "pool"},
                 disk : {"unset", "OS", "Temporary"}, scaleSet : BOOLEAN]

\* Settings of the whole cluster; binaries says that kubelet is on the VHD or can be
\* downloaded (bound: where it cannot, the cluster has no directory of its own).
Clusters == {c \in [runtime : Runtimes, dataDir : {"none", "cluster"}, binaries : BOOLEAN] :
                c.binaries \/ c.dataDir = "none"}

CONSTANT PoolLists   \* the agent pools clusters have

PoolsAssumption == PoolLists \subseteq Seq(PoolSettings) \ {<<>>}

VARIABLES
    cluster,
    pools,     \* Properties.AgentPoolProfiles
    at,        \* how far the node is
    pool,      \* the one of the pools the node belongs to
    payload,   \* what GetNodeBootstrapping returned for it
    node       \* what the node made of it

vars == <<cluster, pools, at, pool, payload, node>>

CSE == INSTANCE CseScript

-----------------------------------------------------------------------------
(***************************************************************************)
(* Switches: a runtime set on the pool counts for the pool, otherwise the  *)
(* cluster's does.                                                         *)
(***************************************************************************)
runtimeOf(p) == IF p.runtime # "unset" THEN p.runtime ELSE cluster.runtime
NeedsContainerd(p) == runtimeOf(p) \in {"containerd", "kata-containers"}

\* Slip: the pool's own runtime is forgotten.
NeedsDockerOfCluster(p) == cluster.runtime \notin {"containerd", "kata-containers"}

NeedsDocker(p) == runtimeOf(p) \notin {"containerd", "kata-containers"}
IsDockerContainerRuntime(p) == runtimeOf(p) = "docker"

HasDataDir(p) ==
    p.dataDir # "none" \/ p.disk = "Temporary" \/ cluster.dataDir # "none"

\* Slip: the disk type is looked at only where HasDataDir looks.
GetDataDirWithoutDisk(p) == IF p.dataDir # "none" THEN p.dataDir ELSE cluster.dataDir

GetDataDir(p) ==
    IF p.dataDir # "none" THEN p.dataDir
    ELSE IF p.disk = "Temporary" THEN "tempDisk"
    ELSE cluster.dataDir

\* The pool's template switches, by the names CseScript gives them.
Switches(p) ==
    {s \in {"containerd", "vhd", "tempDisk"} :
        CASE s = "containerd" -> NeedsContainerd(p)
          [] s = "vhd"        -> p.distro = "vhd"
          [] s = "tempDisk"   -> p.disk # "unset"}

(***************************************************************************)
(* Parameters: the cluster's runtime, which a pool's replaces.  Only a     *)
(* runtime of the pool's own comes with a tool.                            *)
(***************************************************************************)
cliTool(p) ==
    CASE p.runtime = "unset"      -> ""
      [] p.runtime = "containerd" -> "ctr"
      [] OTHER                    -> "docker"

\* Slip: a pool's runtime does not replace the cluster's.
getParametersOfCluster(p) == [containerRuntime |-> cluster.runtime, cliTool |-> cliTool(p)]

getParameters(p) == [containerRuntime |-> runtimeOf(p), cliTool |-> cliTool(p)]

(***************************************************************************)
(* Variables: files a VHD carries are provided unless all pools have a VHD.*)
(***************************************************************************)
NotOnVHD == {"provision_cis.sh", "kms.service", "apt/preferences", "health-monitor.sh",
             "kubelet-monitor.service", "docker-monitor.service", "docker-monitor.timer",
             "containerd-monitor.service", "containerd-monitor.timer",
             "clear_mount_propagation_flags.conf"}

\* Slip: the first pool speaks for all.
IsVHDDistroForFirst == pools[1].distro = "vhd"

IsVHDDistroForAllNodes == \A i \in DOMAIN pools : pools[i].distro = "vhd"

\* Of the pools one by one, but the names of the first pool.
GetVMType == IF \E i \in DOMAIN pools : pools[i].scaleSet THEN "vmss" ELSE "standard"

\* Slip: the pool is taken for one of an availability set.
GetPrimaryScaleSetNameUntyped == IF ~pools[1].scaleSet THEN 1 ELSE 0

GetPrimaryScaleSetName == IF pools[1].scaleSet THEN 1 ELSE 0
GetPrimaryAvailabilitySetName == IF pools[1].scaleSet THEN 0 ELSE 1

variables ==
    [provided |-> IF IsVHDDistroForAllNodes THEN {} ELSE NotOnVHD,
     vmType |-> GetVMType,
     primaryScaleSet |-> GetPrimaryScaleSetName,
     primaryAvailabilitySet |-> GetPrimaryAvailabilitySetName]

-----------------------------------------------------------------------------
\* nodecustomdata.yml: its blocks NeedsContainerd and NeedsDocker are apart.
RuntimeBlocks(p) ==
    (IF NeedsContainerd(p) THEN {"containerd"} ELSE {})
    \cup (IF NeedsDocker(p) THEN {"docker"} ELSE {})

NoNode == [empty |-> {}, configured |-> {}, root |-> "none", cli |-> "", hyperkube |-> "none",
           store |-> {}, started |-> "none", login |-> FALSE]
NoPayload == [switches |-> {}, parameters |-> [containerRuntime |-> "unset", cliTool |-> ""],
              variables |-> [provided |-> {}, vmType |-> "standard", primaryScaleSet |-> 0,
                             primaryAvailabilitySet |-> 0]]

Init ==
    /\ cluster \in Clusters
    /\ pools \in PoolLists
    /\ at = "asked" /\ pool = 1
    /\ payload = NoPayload /\ node = NoNode

GetNodeBootstrapping(i) ==
    /\ at = "asked"
    /\ at' = "rendered" /\ pool' = i
    /\ payload' = [switches |-> Switches(pools[i]), parameters |-> getParameters(pools[i]),
                   variables |-> variables]
    /\ UNCHANGED <<cluster, pools, node>>

\* A variable that is not there renders as the empty string.
CloudInit ==
    LET p == pools[pool]
        written == ToSet(CSE!Order(payload.switches))
    IN  /\ at = "rendered" /\ at' = "written"
        /\ node' = [node EXCEPT !.empty = (written \cap NotOnVHD) \ payload.variables.provided,
                                !.configured = RuntimeBlocks(p),
                                !.root = IF HasDataDir(p) THEN GetDataDir(p) ELSE "default"]
        /\ UNCHANGED <<cluster, pools, pool, payload>>

\* installCrictl && CLI_TOOL="crictl", in pools with containerd; it fails where the
\* image has no crictl of the version cached.
installCrictl ==
    /\ at = "written" /\ at' = "tooled"
    /\ \E cached \in BOOLEAN :
        node' = [node EXCEPT !.cli = IF "containerd" \in payload.switches /\ cached
                                     THEN "crictl" ELSE payload.parameters.cliTool]
    /\ UNCHANGED <<cluster, pools, pool, payload>>

\* pullContainerImage: neither ctr nor crictl is docker.
StoreOf(tool) == IF tool \in {"ctr", "crictl"} THEN "containerd" ELSE "docker"

\* docker login is only for a runtime called docker.  Without binaries to download,
\* extractHyperkube pulls with the tool of CONTAINER_RUNTIME and overwrites CLI_TOOL.
InstallKubelet ==
    LET tool == IF payload.parameters.containerRuntime = "containerd" THEN "ctr" ELSE "docker"
    IN  /\ at = "tooled" /\ at' = "installed"
        /\ node' = [node EXCEPT
               !.login = IsDockerContainerRuntime(pools[pool]),
               !.hyperkube = IF cluster.binaries THEN "none" ELSE StoreOf(tool),
               !.cli = IF cluster.binaries THEN node.cli ELSE tool,
               !.store = {StoreOf(IF cluster.binaries THEN node.cli ELSE tool)}]
        /\ UNCHANGED <<cluster, pools, pool, payload>>

\* ensureContainerd or ensureDocker, and kubelet with flags for the one.
StartNode ==
    /\ at = "installed" /\ at' = "started"
    /\ node' = [node EXCEPT
           !.started = IF "containerd" \in payload.switches THEN "containerd" ELSE "docker"]
    /\ UNCHANGED <<cluster, pools, pool, payload>>

Next ==
    \/ \E i \in DOMAIN pools : GetNodeBootstrapping(i)
    \/ CloudInit \/ installCrictl \/ InstallKubelet \/ StartNode

Spec == Init /\ [][Next]_vars

-----------------------------------------------------------------------------
\* Every variable keeps its type.
TypeOK ==
    /\ cluster \in Clusters /\ pools \in PoolLists /\ pool \in DOMAIN pools
    /\ at \in {"asked", "rendered", "written", "tooled", "installed", "started"}
    /\ payload.switches \subseteq CSE!Features
    /\ payload.parameters.cliTool \in {"", "ctr", "docker"}
    /\ node.empty \subseteq NotOnVHD
    /\ node.root \in {"none", "default", "pool", "tempDisk", "cluster"}

\* No file is written with nothing in it, whatever other pools the cluster has: the
\* template asks the pool for its VHD, the variables all of them.
EveryFileHasContent == node.empty = {}

\* The runtime cloud-init configures, the one the script starts and the one the shell
\* reads in CONTAINER_RUNTIME are one, in mixed clusters too.
OneRuntime ==
    at = "started" =>
        /\ node.configured = {node.started}
        /\ runtimeOf(pools[pool]) \in {"docker", "containerd"} =>
               payload.parameters.containerRuntime = node.started

\* A runtime told to keep its data elsewhere is told where.
RootIsNamed == at # "asked" /\ at # "rendered" => node.root # "none"

\* Clusters of one kind of pool: the primary set the cloud provider is given is of the
\* type it is given.
PrimarySetFitsType ==
    LET v == payload.variables
    IN  at # "asked" /\ Cardinality({pools[i].scaleSet : i \in DOMAIN pools}) = 1
            => /\ v.vmType = "vmss" <=> v.primaryScaleSet # 0
               /\ v.vmType = "standard" <=> v.primaryAvailabilitySet # 0

\* Pools with a runtime of their own: whatever the cluster's is, images are pulled into
\* the store of the runtime the kubelet uses.
PulledWhereUsed ==
    at = "started" /\ pools[pool].runtime \in {"docker", "containerd"}
        => node.store = {node.started} /\ node.hyperkube \in {"none", node.started}

\* The three sources agree on what the node is to be.
TemplatesAgree ==
    EveryFileHasContent /\ OneRuntime /\ RootIsNamed /\ PrimarySetFitsType /\ PulledWhereUsed

\* cse_main.sh says of a pool with containerd that CLI_TOOL is by default set to "ctr";
\* it is "docker" for kata-containers and empty where the cluster sets the runtime.
CliToolIsCtrByDefault ==
    at = "tooled" /\ "containerd" \in payload.switches => node.cli \in {"ctr", "crictl"}
=============================================================================
