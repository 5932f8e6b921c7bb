--------------------------- MODULE WindowsScript ---------------------------
(***************************************************************************)
(* What one run of the Windows custom script extension executes, as data:  *)
(* for a set f of switches, Script(f) is the sequence of commands          *)
(* kuberneteswindowssetup.ps1 goes through.  One operator stands for one   *)
(* function of src/parts/windows and is named after it, without its dash.  *)
(*                                                                         *)
(* A command is what it needs, what it makes and deletes (files, services, *)
(* tasks: names of things), how often it is tried, and the set codes of    *)
(* what a failure of it can come to: the code Set-ExitCode exits with,     *)
(* Thrown for an exception (the catch block makes 1 of it), Logged for a   *)
(* failure that shows in the log alone.                                    *)
(***************************************************************************)
EXTENDS Naturals, Sequences

Switches == {"containerd", "tls", "calico", "csiProxy", "hostsAgent", "customCloud",
             "azureStack", "k8s122", "ssh", "gmsa", "secureTls", "telemetry", "cached",
             "kubeBinaries", "scaleSet", "fips"}

Logged == 0
Thrown == 1
ERR == [DOWNLOAD |-> 2, INVOKE_EXECUTABLE |-> 3, FILE_NOT_EXIST |-> 4, API_SERVER |-> 5,
        PAUSE_IMAGE |-> 6, SUBNET_PREFIX |-> 7, ARM_TOKEN |-> 8, INTERFACES |-> 9,
        ADAPTER |-> 10, MANAGEMENT_IP |-> 11, CALICO_ACCOUNT |-> 12,
        CONTAINERD_NOT_INSTALLED |-> 13, CONTAINERD_NOT_RUNNING |-> 14,
        OPENSSH |-> 15, OPENSSH_FIREWALL |-> 16, AZURE_CONFIG |-> 17, SECURE_TLS |-> 22,
        GMSA_EXPAND |-> 23, GMSA_PRIVILEGE |-> 24, GMSA_PERMISSION |-> 25, GMSA_VALUES |-> 26]

Command(codes, needs, makes) ==
    <<[codes |-> codes, needs |-> needs, makes |-> makes, drops |-> {}, loop |-> FALSE]>>

Unguarded(needs, makes) == Command({Logged}, needs, makes)       \* outside the try block
Native(needs, makes) == Command({Logged}, needs, makes)          \* & x.exe, status unread
Cmdlet(needs, makes) == Command({Logged, Thrown}, needs, makes)  \* its errors stop or do not
Method(needs, makes) == Command({Thrown}, needs, makes)          \* a .NET call
Exits(code, needs, makes) == Command({code}, needs, makes)       \* Set-ExitCode
Tries(code, needs, makes) ==                                     \* ... after a counted loop
    <<[codes |-> {code}, needs |-> needs, makes |-> makes, drops |-> {}, loop |-> TRUE]>>
RemoveItem(things) ==
    <<[codes |-> {Logged, Thrown}, needs |-> {}, makes |-> {}, drops |-> things, loop |-> FALSE]>>

When(cond, commands) == IF cond THEN commands ELSE <<>>

(***************************************************************************)
(* kuberneteswindowsfunctions.ps1                                          *)
(***************************************************************************)
\* A file of the image's cache is copied, any other fetched.
DownloadFileOverHttp(f, file) ==
    IF "cached" \in f THEN Cmdlet({}, {file}) ELSE Exits(ERR.DOWNLOAD, {}, {file})

GetProvisioningScripts(f) ==
    DownloadFileOverHttp(f, "provisioningscripts.zip")
    \o Cmdlet({"provisioningscripts.zip"}, {"scripts"})
    \o RemoveItem({"provisioningscripts.zip"})

InvokeExecutable(needs, makes) == Tries(ERR.INVOKE_EXECUTABLE, needs, makes)

GetLogCollectionScripts(f) == DownloadFileOverHttp(f, "debug scripts")

RegisterLogsCleanupScriptTask == Cmdlet({}, {"cleanup task"})
RegisterNodeResetScriptTask == Cmdlet({}, {"reset task"})

WriteKubeClusterConfig == Cmdlet({}, {"kubeclusterconfig.json"})

UpdateDefenderPreferences(f) ==
    Cmdlet({}, {}) \o When("csiProxy" \in f, Cmdlet({}, {}))
    \o When("containerd" \in f, Cmdlet({}, {}))

CheckAPIServerConnectivity == Tries(ERR.API_SERVER, {}, {"api server seen"})

(***************************************************************************)
(* windowsconfigfunc.ps1, windowsinstallopensshfunc.ps1                    *)
(***************************************************************************)
InstallOpenSSH ==
    Exits(ERR.OPENSSH, {}, {}) \o Cmdlet({}, {"sshd"})
    \o Exits(ERR.OPENSSH_FIREWALL, {}, {})

\* What goes wrong in its try block is logged.  The image may carry a docker already.
InstallDocker == Native({}, {"runtime service"})

\* The file is rewritten by a .NET call; the service restarts with it.
SetDockerLogFileOptions == Method({}, {"daemon.json"}) \o Cmdlet({"runtime service"}, {})

AddSystemPathEntry == Method({}, {})

AdjustDynamicPortRange == InvokeExecutable({}, {})

UpdateServiceFailureActions == Native({"Kubelet"}, {}) \o Native({"Kubeproxy"}, {})
                               \o Native({"runtime service"}, {})

InstallGmsaPlugin(f) ==
    DownloadFileOverHttp(f, "gmsa.zip")
    \o Command({Logged, Thrown, ERR.GMSA_EXPAND}, {"gmsa.zip"}, {"gmsa files"})
    \o RemoveItem({"gmsa.zip"})
    \o Cmdlet({"gmsa files"}, {})
    \o Tries(ERR.GMSA_PRIVILEGE, {}, {})
    \o Exits(ERR.GMSA_PERMISSION, {}, {})
    \o Command({Logged, ERR.GMSA_VALUES}, {"gmsa files"}, {"gmsa"})
    \o RemoveItem({"gmsa files"})

(***************************************************************************)
(* windowscontainerdfunc.ps1, windowscsiproxyfunc.ps1,                     *)
(* windowshostsconfigagentfunc.ps1                                         *)
(***************************************************************************)
\* Slip: a service that does not run after the last look is let pass.
RegisterContainerDServiceUnwatched ==
    Exits(ERR.FILE_NOT_EXIST, {"containerd.exe"}, {})
    \o Native({"nssm.exe"}, {"runtime service"})
    \o Exits(ERR.CONTAINERD_NOT_INSTALLED, {"runtime service"}, {})
    \o Native({"config.toml"}, {"runtime ran"})

\* nssm installs the service unwatched; the loop that starts it looks for it first.
RegisterContainerDService ==
    Exits(ERR.FILE_NOT_EXIST, {"containerd.exe"}, {})
    \o Native({"nssm.exe"}, {"runtime service"})
    \o Exits(ERR.CONTAINERD_NOT_INSTALLED, {"runtime service"}, {})
    \o Tries(ERR.CONTAINERD_NOT_RUNNING, {"config.toml"}, {"runtime ran"})

InstallContainerd(f) ==
    DownloadFileOverHttp(f, "containerd.zip")
    \o Cmdlet({"containerd.zip"}, {"containerd.exe"})
    \o RemoveItem({"containerd.zip"})
    \o AddSystemPathEntry
    \o Method({"kubeclusterconfig.json"}, {})
    \o Cmdlet({}, {"config.toml"})
    \o RegisterContainerDService

NewCsiProxyService(f) ==
    DownloadFileOverHttp(f, "csiproxy.tar") \o Native({"csiproxy.tar"}, {"csi-proxy.exe"})
    \o Cmdlet({"csi-proxy.exe"}, {}) \o Native({"nssm.exe"}, {"csi-proxy"})

NewHostsConfigService == Native({"nssm.exe"}, {"hosts-config-agent"})

(***************************************************************************)
(* windowskubeletfunc.ps1                                                  *)
(***************************************************************************)
GetKubePackage(f) ==
    DownloadFileOverHttp(f, "k.zip")
    \o Cmdlet({"k.zip"}, {"nssm.exe", "kubectl.exe", "kubelet.exe"})
    \o RemoveItem({"k.zip"})

GetKubeBinaries(f) ==
    DownloadFileOverHttp(f, "k.tar.gz") \o Native({"k.tar.gz"}, {"node binaries"})
    \o Cmdlet({"node binaries"}, {"kubectl.exe", "kubelet.exe"})
    \o RemoveItem({"k.tar.gz", "node binaries"})

\* Nothing is written on a node of neither a scale set nor an availability set.
WriteAzureConfig(f) ==
    IF "scaleSet" \in f THEN Cmdlet({}, {"azure.json"})
    ELSE Exits(ERR.AZURE_CONFIG, {"a set's name"}, {"azure.json"})

WriteCACert == Cmdlet({}, {"ca.crt"})
WriteBootstrapKubeConfig == Cmdlet({}, {"bootstrap-config"})
WriteKubeConfig == Cmdlet({}, {"config"})

\* The image is pulled and tagged, or built by docker where no tag is known for the OS.
NewInfraContainer ==
    Method({"kubeclusterconfig.json"}, {})
    \o InvokeExecutable({"runtime service"}, {"pause image"})
    \o InvokeExecutable({"pause image"}, {"kubletwin/pause"})

TestContainerImageExists == Exits(ERR.PAUSE_IMAGE, {"kubletwin/pause"}, {})

\* Slip: the proxy is depended upon where it is not installed.
KubeletDependOnServicesAlways(f) ==
    {"runtime service", "csi-proxy"}
    \cup (IF "hostsAgent" \in f THEN {"hosts-config-agent"} ELSE {})

KubeletDependOnServices(f) ==
    {"runtime service"} \cup (IF "csiProxy" \in f THEN {"csi-proxy"} ELSE {})
                        \cup (IF "hostsAgent" \in f THEN {"hosts-config-agent"} ELSE {})

InstallKubernetesServices ==
    Native({"nssm.exe"}, {"Kubelet"}) \o Native({"nssm.exe"}, {"Kubeproxy"})

(***************************************************************************)
(* windowscnifunc.ps1, windowsazurecnifunc.ps1, windowscalicofunc.ps1      *)
(***************************************************************************)
GetHnsPsm1(f) == DownloadFileOverHttp(f, "hns.psm1")

InstallVnetPlugins(f) ==
    DownloadFileOverHttp(f, "azure-vnet.zip") \o Cmdlet({"azure-vnet.zip"}, {"cni plugins"})
    \o RemoveItem({"azure-vnet.zip"}) \o Cmdlet({"cni plugins"}, {"conflist"})

SetAzureCNIConfig == Method({"conflist"}, {}) \o Cmdlet({}, {"cni config"})

GenerateAzureStackCNIConfig ==
    Cmdlet({"azurestackcloud.json"}, {}) \o Cmdlet({"azure.json"}, {})
    \o Tries(ERR.ARM_TOKEN, {}, {})
    \o Tries(ERR.INTERFACES, {}, {"network-interfaces.json"})
    \o Tries(ERR.SUBNET_PREFIX, {"network-interfaces.json"}, {})
    \o Cmdlet({}, {"interfaces.json"})

NewExternalHnsNetwork ==
    Exits(ERR.ADAPTER, {}, {}) \o Cmdlet({"hns.psm1"}, {"ext network"})
    \o Tries(ERR.MANAGEMENT_IP, {}, {})

GetCalicoKubeConfig ==
    Tries(ERR.CALICO_ACCOUNT, {"kubectl.exe", "config"}, {"calico account"})
    \o Method({"calico account", "config"}, {}) \o Cmdlet({"calico files"}, {"calico config"})

StartInstallCalico(f) ==
    DownloadFileOverHttp(f, "calicowindows.zip")
    \o Cmdlet({"calicowindows.zip"}, {"calico files"})
    \o RemoveItem({"calicowindows.zip"})
    \o Method({"calico files"}, {})
    \o GetCalicoKubeConfig
    \o Cmdlet({"calico config"}, {"calico"})

(***************************************************************************)
(* kuberneteswindowssetup.ps1                                              *)
(***************************************************************************)
\* ContainerRuntime is overridden: a custom cloud has docker (lines 90 to 108).
Effective(f) == IF "customCloud" \in f THEN f \ {"containerd"} ELSE f

\* Before the try block nothing catches what fails: the next statement is run.  The last
\* of the eleven files defines Set-ExitCode and Create-Directory.
SourceFunctions ==
    Unguarded({}, {"scripts.zip"})
    \o Unguarded({"scripts.zip"}, {"function files"})
    \o Unguarded({"function files"}, {"functions"})
    \o Unguarded({"function files"}, {"windowscsehelper.ps1"})

CreateDirectory == Method({"windowscsehelper.ps1"}, {})

Telemetry(f) ==
    CreateDirectory
    \o DownloadFileOverHttp(f, "appinsights.zip") \o Cmdlet({"appinsights.zip"}, {"appinsights"})
    \o Method({"appinsights"}, {})

Prepare(f) ==
    When("telemetry" \in f, Telemetry(f))
    \o When("ssh" \in f, InstallOpenSSH)
    \o Cmdlet({}, {})                        \* telemetry setting, OS drive, disks
    \o CreateDirectory
    \o GetProvisioningScripts(f)
    \o WriteKubeClusterConfig

InstallRuntime(f) ==
    IF "containerd" \in f THEN InstallContainerd(f)
    ELSE InstallDocker \o SetDockerLogFileOptions

BinariesAndRuntime(f) ==
    GetKubePackage(f)
    \o When("kubeBinaries" \in f, GetKubeBinaries(f))
    \o InstallRuntime(f)

Credentials(f) ==
    WriteAzureConfig(f)
    \o When("customCloud" \in f, Method({}, {"azurestackcloud.json"}))
    \o WriteCACert
    \o When("csiProxy" \in f, NewCsiProxyService(f))
    \o When("tls" \in f, WriteBootstrapKubeConfig)
    \o WriteKubeConfig
    \o When("hostsAgent" \in f, NewHostsConfigService)

Networking(f) ==
    NewInfraContainer \o TestContainerImageExists
    \o GetHnsPsm1(f) \o InstallVnetPlugins(f) \o SetAzureCNIConfig
    \o When("azureStack" \in f, GenerateAzureStackCNIConfig)
    \o NewExternalHnsNetwork

AzureStackRootCert(f) ==
    Method({"azurestackcloud.json"}, {"root certificate"})
    \o Cmdlet({"root certificate"}, {"azsroot.cer"})
    \o Method({}, {"addazsroot.bat"})

ServicesAndTasks(f) ==
    InstallKubernetesServices
    \o GetLogCollectionScripts(f)
    \o Cmdlet({}, {})                        \* Set-Explorer, page file, the extension's script
    \o UpdateServiceFailureActions
    \o AdjustDynamicPortRange
    \o RegisterLogsCleanupScriptTask
    \o RegisterNodeResetScriptTask
    \o UpdateDefenderPreferences(f)
    \o When({"azureStack", "k8s122"} \subseteq f, AzureStackRootCert(f))
    \o When("secureTls" \in f, Exits(ERR.SECURE_TLS, {"scripts"}, {}))
    \o When("fips" \in f, Cmdlet({}, {}))

\* Slip: the cluster is asked for after the credentials are gone.
LeaveCalicoLast(f) ==
    When("gmsa" \in f, InstallGmsaPlugin(f))
    \o CheckAPIServerConnectivity
    \o When("tls" \in f, RemoveItem({"config"}))
    \o When("calico" \in f, StartInstallCalico(f))
    \o Cmdlet({}, {"restart task"})

\* Slip: the restart is scheduled before the last looks.
LeaveRestartFirst(f) ==
    When("gmsa" \in f, InstallGmsaPlugin(f))
    \o Cmdlet({}, {"restart task"})
    \o CheckAPIServerConnectivity
    \o When("calico" \in f, StartInstallCalico(f))
    \o When("tls" \in f, RemoveItem({"config"}))

Leave(f) ==
    When("gmsa" \in f, InstallGmsaPlugin(f))
    \o CheckAPIServerConnectivity
    \o When("calico" \in f, StartInstallCalico(f))
    \o RemoveItem({"cache"})
    \o When("tls" \in f, RemoveItem({"config"}))
    \o Cmdlet({}, {"restart task"})

\* Slip: the tasks that start kubelet come before the network.
BodyTasksFirst(f) ==
    SourceFunctions \o Prepare(f) \o BinariesAndRuntime(f) \o Credentials(f) \o ServicesAndTasks(f)
    \o Networking(f) \o Leave(f)

Body(f) ==
    SourceFunctions \o Prepare(f) \o BinariesAndRuntime(f) \o Credentials(f) \o Networking(f)
    \o ServicesAndTasks(f) \o Leave(f)

Script(f) == Body(Effective(f))

-----------------------------------------------------------------------------
(***************************************************************************)
(* The order every script keeps, whatever fails when it runs.              *)
(***************************************************************************)
\* IsAzureStackCloud is a case of IsAKSCustomCloud (types.go).
Configurations == {f \in SUBSET Switches : "azureStack" \in f => "customCloud" \in f}

Codes == {Logged, Thrown} \cup {ERR[e] : e \in DOMAIN ERR}

\* What kubelet runs with; a node with TLS bootstrapping has no credentials in the end.
KubeletParts(f) ==
    {"azure.json", "ca.crt", "kubletwin/pause", "cni config", "ext network"}
    \cup (IF "tls" \in f THEN {} ELSE {"config"})

\* What a run that reports 0 has looked at (CSEResult.log, the exits 5, 6, 12, 14).
Looked(f) ==
    {"api server seen", "kubletwin/pause"}
    \cup (IF "containerd" \in f THEN {"runtime ran"} ELSE {})
    \cup (IF "calico" \in f THEN {"calico account"} ELSE {})

Commands == [codes : SUBSET Codes, needs : SUBSET STRING, makes : SUBSET STRING,
             drops : SUBSET STRING, loop : BOOLEAN]

\* Made before command n of s, and not dropped before command end.
MadeUntil(s, n, end, x) ==
    \E m \in 1 .. n - 1 : x \in s[m].makes /\ \A k \in m .. end - 1 : x \notin s[k].drops
\* The same, by a command that ends the run when it fails.
SeenUntil(s, n, end, x) ==
    \E m \in 1 .. n - 1 :
        /\ x \in s[m].makes /\ Logged \notin s[m].codes
        /\ \A k \in m .. end - 1 : x \notin s[k].drops

\* What is there before command n if no command failed in silence, and what in any case.
Made(s, n, x) == MadeUntil(s, n, n, x)
Seen(s, n, x) == SeenUntil(s, n, n, x)

\* What a command needs has been made before, and only a node of no scale set may end its
\* run for want of something.  Where the startup task is registered kubelet's parts are made
\* to stay, and where the restart is scheduled, or the end is reached, the looks are over.
InOrder(f, s) ==
    LET end == Len(s) + 1
    IN  /\ s \in Seq(Commands)
        /\ \A n \in DOMAIN s :
            /\ "restart task" \notin s[n].needs
            /\ "scaleSet" \in f \/ Logged \in s[n].codes => \A x \in s[n].needs : Made(s, n, x)
            /\ "reset task" \in s[n].makes =>
                  \A x \in KubeletParts(f) : MadeUntil(s, n, end, x)
            /\ "restart task" \in s[n].makes =>
                  \A x \in Looked(Effective(f)) : SeenUntil(s, n, end, x)
        /\ \A x \in Looked(Effective(f)) : Seen(s, end, x)

ScriptsInOrder == \A f \in Configurations : InOrder(f, Script(f))
=============================================================================
