----------------------------- MODULE CseScript -----------------------------
(***************************************************************************)
(* What one run of the Linux custom script extension (CSE) executes, as    *)
(* data: for a template configuration c, Script(c) is the sequence of      *)
(* steps that cse_cmd.sh and cse_main.sh go through and Order(c) the files *)
(* of nodecustomdata.yml in the order cloud-init writes them.              *)
(*                                                                         *)
(* A configuration is the set of the template switches that are on.  One   *)
(* operator stands for one shell function and is named after it; what the  *)
(* commands do to the node is NodeProvision's business, here only the      *)
(* order, the conditions, the exit codes and the files a command reads     *)
(* matter.  The distribution modelled is Ubuntu.                           *)
(***************************************************************************)
EXTENDS Integers, Sequences

Features == {"containerd", "vhd", "gpu", "gpuConfig", "gpuPlugin", "mig", "proxy",
             "proxyCA", "teleport", "searchDomain", "dualStack", "hostsAgent", "swapFile",
             "controlPlane", "firstMaster", "upgrade", "k8s123", "dedupBridge", "tlsBootstrap",
             "azureCNI", "overlayCNI", "sgx", "customCloud", "azureStack", "tempDisk",
             "pendingReboot", "blockOutbound"}

(***************************************************************************)
(* The exit codes the modelled steps use (cse_helpers.sh).                 *)
(***************************************************************************)
ERR == [SYSTEMCTL_START_FAIL |-> 4, FILE_WATCH_TIMEOUT |-> 6,
        HOLD_WALINUXAGENT |-> 7, APT_INSTALL_TIMEOUT |-> 9,
        ASH_KUBEADM_INIT_JOIN |-> 13, DOCKER_START_FAIL |-> 24,
        MS_GPG_KEY_DOWNLOAD_TIMEOUT |-> 26, MOBY_APT_LIST_TIMEOUT |-> 25,
        MOBY_INSTALL_TIMEOUT |-> 27, CONTAINERD_INSTALL_TIMEOUT |-> 28,
        RUNC_INSTALL_TIMEOUT |-> 29, K8S_DOWNLOAD_TIMEOUT |-> 31,
        KUBELET_START_FAIL |-> 34, CNI_DOWNLOAD_TIMEOUT |-> 41,
        MS_PROD_DEB_DOWNLOAD_TIMEOUT |-> 42, MS_PROD_DEB_PKG_ADD_FAIL |-> 43,
        MODPROBE_FAIL |-> 49, OUTBOUND_CONN_FAIL |-> 50, K8S_API_SERVER_CONN_FAIL |-> 51,
        K8S_API_SERVER_DNS_LOOKUP_FAIL |-> 52, CONTAINERD_DOWNLOAD_TIMEOUT |-> 70,
        CUSTOM_SEARCH_DOMAINS_FAIL |-> 80, GPU_DRIVERS_START_FAIL |-> 84,
        GPU_DRIVERS_INSTALL_TIMEOUT |-> 85, GPU_DEVICE_PLUGIN_START_FAIL |-> 86,
        SGX_DRIVERS_INSTALL_TIMEOUT |-> 90, SGX_DRIVERS_START_FAIL |-> 91,
        APT_UPDATE_TIMEOUT |-> 99, CSE_PROVISION_SCRIPT_NOT_READY_TIMEOUT |-> 100,
        APT_DIST_UPGRADE_TIMEOUT |-> 101, SYSCTL_RELOAD |-> 103,
        SYSTEMD_DOCKER_STOP_FAIL |-> 116, ASH_GET_ARM_TOKEN |-> 120,
        ASH_GET_NETWORK_CONFIGURATION |-> 121, ASH_GET_SUBNET_PREFIX |-> 122,
        ASH_KUBEADM_GEN_FILES |-> 123,
        VHD_FILE_NOT_FOUND |-> 124, SWAP_CREAT_FAIL |-> 130,
        SWAP_CREAT_INSUFFICIENT_DISK_SPACE |-> 131, ASH_APPLY_ADDON |-> 133,
        TELEPORTD_DOWNLOAD_ERR |-> 150, TELEPORTD_INSTALL_ERR |-> 151,
        HTTP_PROXY_CA_CONVERT |-> 160, HTTP_PROXY_CA_UPDATE |-> 161]

(***************************************************************************)
(* Steps.  op says how the step behaves, on what it is about (a file, a    *)
(* unit, a command), err the code it exits with, uses the files written    *)
(* by cloud-init that it reads.                                            *)
(***************************************************************************)
StepOf(op, on, err, uses) == [op |-> op, on |-> on, err |-> err, uses |-> uses]

Check == <<StepOf("check", "provision.complete", 0, {})>>
Poll(f, err) == <<StepOf("poll", f, err, {})>>            \* grep until it is there
Strip(f, err) == <<StepOf("strip", f, err, {})>>          \* ... and delete its marker
WaitFile(f) ==                                             \* wait_for_file f || exit 6
    <<StepOf("wait", f, ERR.FILE_WATCH_TIMEOUT, {})>>
Source(f) == <<StepOf("do", f, 0, {f})>>                   \* source f
Do(cmd) == <<StepOf("do", cmd, 0, {})>>                    \* status not looked at
DoWith(cmd, uses) == <<StepOf("do", cmd, 0, uses)>>
Run(cmd, err) == <<StepOf("run", cmd, err, {})>>           \* cmd || exit err
RunWith(cmd, err, uses) == <<StepOf("run", cmd, err, uses)>>
Start(unit, err, uses) ==                                  \* systemctlEnableAndStart
    <<StepOf("start", unit, err, uses)>>
DisableOther(unit, err) ==       \* is-active unit && (systemctl_disable unit || exit err)
    <<StepOf("disable", unit, err, {})>>
Locks == <<StepOf("lock", "apt locks", 0, {})>>            \* wait_for_apt_locks, no bound
Settle == <<StepOf("settle", "cloud-init", 0, {})>>        \* cloud-init status --wait
Edit(what, uses) == <<StepOf("edit", what, 0, uses)>>      \* changes the node on every run
Until(f) == <<StepOf("until", f, 0, {})>>                  \* while [ ! -f f ], no bound
Probe(cmd, err) == <<StepOf("probe", cmd, err, {})>>       \* sets VALIDATION_ERR
Finish(reboot) ==                                          \* touch provision.complete; exit
    <<StepOf("finish", IF reboot THEN "reboot" ELSE "stay", 0, {})>>

When(cond, steps) == IF cond THEN steps ELSE <<>>

RunEach(cmds, err) == [i \in DOMAIN cmds |-> StepOf("run", cmds[i], err, {})]

\* What cloud-init writes of apt's configuration: a VHD has the preferences already, and
\* 99periodic holds settings of apt's daily jobs alone.
aptFiles(c) ==
    (IF "vhd" \in c THEN {} ELSE {"apt/preferences"}) \cup (IF "proxy" \in c THEN {"95proxy"} ELSE {})

\* A command of apt, after wait_for_apt_locks.  One wait stands for those before each try
\* and after the last.
Apt(c, cmd, err) == Locks \o RunWith(cmd, err, aptFiles(c))
AptUnchecked(c, cmd) == Locks \o DoWith(cmd, aptFiles(c))

-----------------------------------------------------------------------------
(***************************************************************************)
(* cse_install.sh and its Ubuntu part                                      *)
(***************************************************************************)
installDeps(c) ==
    Run("curl packages-microsoft-prod.deb", ERR.MS_PROD_DEB_DOWNLOAD_TIMEOUT)
    \o Run("dpkg -i packages-microsoft-prod.deb", ERR.MS_PROD_DEB_PKG_ADD_FAIL)
    \o Apt(c, "aptmarkWALinuxAgent hold", ERR.HOLD_WALINUXAGENT)
    \o Apt(c, "apt_get_update", ERR.APT_UPDATE_TIMEOUT)
    \o Apt(c, "apt_get_dist_upgrade", ERR.APT_DIST_UPGRADE_TIMEOUT)
    \o Apt(c, "apt_get_install deps", ERR.APT_INSTALL_TIMEOUT)

\* From a package the VHD has cached or from the repository.
ensureRunc(c) == Apt(c, "install runc", ERR.RUNC_INSTALL_TIMEOUT)

installStandaloneContainerd(c) ==
    ensureRunc(c)
    \o Run("download containerd", ERR.CONTAINERD_DOWNLOAD_TIMEOUT)
    \o Apt(c, "install containerd", ERR.CONTAINERD_INSTALL_TIMEOUT)

updateAptWithMicrosoftPkg(c) ==
    RunEach(<<"curl prod.list", "cp prod.list">>, ERR.MOBY_APT_LIST_TIMEOUT)
    \o RunEach(<<"gpg --dearmor", "cp microsoft.gpg">>, ERR.MS_GPG_KEY_DOWNLOAD_TIMEOUT)
    \o Apt(c, "apt_get_update", ERR.APT_UPDATE_TIMEOUT)

\* A VHD carries the runtime already, an older image has to get it.
installMoby(c) ==
    ensureRunc(c)
    \o When("vhd" \notin c,
            AptUnchecked(c, "removeMoby") \o updateAptWithMicrosoftPkg(c)
            \o Apt(c, "install moby", ERR.MOBY_INSTALL_TIMEOUT))

installContainerRuntime(c) ==
    IF "containerd" \in c THEN installStandaloneContainerd(c) ELSE installMoby(c)

\* The units that the package a command installs starts and enables by itself.  What they
\* read they read again when ensureContainerd or ensureDocker restarts them.
packageUnits(cmd) ==
    CASE cmd = "install containerd" -> {"containerd"}
      [] cmd = "install moby" -> {"docker", "containerd"}
      [] OTHER -> {}

installTeleportdPlugin ==
    Run("download teleportd", ERR.TELEPORTD_DOWNLOAD_ERR)
    \o Run("install teleportd", ERR.TELEPORTD_INSTALL_ERR)

installNetworkPlugin(c) ==
    When("azureCNI" \in c, Run("downloadAzureCNI", ERR.CNI_DOWNLOAD_TIMEOUT))
    \o Run("downloadCNI", ERR.CNI_DOWNLOAD_TIMEOUT)

installGPUDrivers(c) ==
    Run("curl gpgkey", ERR.GPU_DRIVERS_INSTALL_TIMEOUT)
    \o Locks \o Run("apt-key add", ERR.GPU_DRIVERS_INSTALL_TIMEOUT)
    \o Locks \o Run("curl nvidia-docker.list", ERR.GPU_DRIVERS_INSTALL_TIMEOUT)
    \o Locks \o Run("cp nvidia-docker.list", ERR.GPU_DRIVERS_INSTALL_TIMEOUT)
    \o AptUnchecked(c, "apt_get_update")
    \o RunWith("apt-get linux-headers", ERR.GPU_DRIVERS_INSTALL_TIMEOUT, aptFiles(c))
    \o Run("curl nvidia driver", ERR.GPU_DRIVERS_INSTALL_TIMEOUT)
    \o RunWith("download nvidia-docker2", ERR.GPU_DRIVERS_INSTALL_TIMEOUT, aptFiles(c))

installSGXDrivers(c) ==
    Apt(c, "apt-get make gcc dkms", ERR.SGX_DRIVERS_INSTALL_TIMEOUT)
    \o Run("curl sgx driver", ERR.SGX_DRIVERS_INSTALL_TIMEOUT)
    \o Run("sgx driver", ERR.SGX_DRIVERS_START_FAIL)

\* The client of the runtime finds its endpoint in a file.
crictlFiles(c) == IF "containerd" \in c THEN {"crictl.yaml"} ELSE {}

\* A VHD has the kubernetes binaries of its versions; otherwise fetch them.
installKubeletKubectlKubeadmAndKubeProxy(c) ==
    When("vhd" \notin c, Run("extractKubeBinaries", ERR.K8S_DOWNLOAD_TIMEOUT))
    \o Do("mv kubelet kubectl kubeadm")
    \o DoWith("pullContainerImage kube-proxy", crictlFiles(c))

-----------------------------------------------------------------------------
(***************************************************************************)
(* cse_config.sh                                                           *)
(***************************************************************************)
configureHTTPProxyCA ==
    RunWith("openssl x509 proxyCA", ERR.HTTP_PROXY_CA_CONVERT, {"proxyCA.pem"})
    \o Run("update-ca-certificates", ERR.HTTP_PROXY_CA_UPDATE)

\* The exits of the step between leave a subshell, whose status nobody looks at.
configGPUDrivers(c) ==
    Run("update-initramfs", ERR.GPU_DRIVERS_INSTALL_TIMEOUT)
    \o Apt(c, "apt-get nvidia-container-runtime", ERR.GPU_DRIVERS_INSTALL_TIMEOUT)
    \o Locks \o Do("unpack nvidia-docker2")
    \o RunEach(<<"pkill -SIGHUP runtime", "mount overlay">>, ERR.GPU_DRIVERS_INSTALL_TIMEOUT)
    \o RunEach(<<"installGPUDriversRun", "ldconfig", "nvidia-modprobe", "nvidia-smi">>,
               ERR.GPU_DRIVERS_START_FAIL)

\* A validation that fails configures the drivers after all.
ensureGPUDrivers(c) ==
    (IF "gpuConfig" \in c
     THEN configGPUDrivers(c)
     ELSE Apt(c, "validateGPUDrivers", ERR.GPU_DRIVERS_START_FAIL))
    \o Start("nvidia-modprobe", ERR.GPU_DRIVERS_START_FAIL, {"nvidia-modprobe.service"})

ensureRPC ==
    Start("rpcbind", ERR.SYSTEMCTL_START_FAIL, {})
    \o Start("rpc-statd", ERR.SYSTEMCTL_START_FAIL, {})

configureK8s == Do("write azure.json") \o Do("configureKubeletServerCert")

\* Slip: a bridge netfilter module that cannot be loaded goes unnoticed.
configureCNIUnchecked == Do("modprobe br_netfilter") \o Do("configureCNIIPTables")

configureCNI ==
    Run("modprobe br_netfilter", ERR.MODPROBE_FAIL) \o Do("configureCNIIPTables")

\* On Azure Stack the addresses come from its resource manager.
customizeCNI(c) ==
    When({"azureStack", "azureCNI"} \subseteq c,
         Run("get resource manager token", ERR.ASH_GET_ARM_TOKEN)
         \o Run("get network interfaces", ERR.ASH_GET_NETWORK_CONFIGURATION)
         \o RunEach(<<"find own interfaces", "get subnet prefixes">>, ERR.ASH_GET_SUBNET_PREFIX))

ensureDHCPv6 ==
    WaitFile("dhcpv6.service") \o WaitFile("enable-dhcpv6.sh")
    \o Start("dhcpv6", ERR.SYSTEMCTL_START_FAIL, {"dhcpv6.service", "enable-dhcpv6.sh"})
    \o Run("modprobe ip6_tables", ERR.MODPROBE_FAIL)

ensureTeleportd ==
    WaitFile("teleportd.service")
    \o Start("teleportd", ERR.SYSTEMCTL_START_FAIL, {"teleportd.service"})

\* Slip: the last of the three files, after which the sysctl settings are read, is
\* not awaited.
ensureContainerdUnawaited(c) ==
    When("teleport" \in c, ensureTeleportd)
    \o WaitFile("containerd/exec_start.conf")
    \o WaitFile("config.toml")
    \o RunWith("sysctl --system", ERR.SYSCTL_RELOAD, {"11-containerd.conf"})
    \o DisableOther("docker", ERR.SYSTEMD_DOCKER_STOP_FAIL)
    \o Start("containerd", ERR.SYSTEMCTL_START_FAIL, {"containerd.service", "config.toml"})

ensureContainerd(c) ==
    When("teleport" \in c, ensureTeleportd)
    \o WaitFile("containerd/exec_start.conf")
    \o WaitFile("config.toml")
    \o WaitFile("11-containerd.conf")
    \o RunWith("sysctl --system", ERR.SYSCTL_RELOAD, {"11-containerd.conf"})
    \o DisableOther("docker", ERR.SYSTEMD_DOCKER_STOP_FAIL)
    \o Start("containerd", ERR.SYSTEMCTL_START_FAIL,
             {"containerd.service", "containerd/exec_start.conf", "config.toml",
              "kubenet_template.conf"})

\* daemon.json carries no marker: the loop waits for it to be valid JSON.
ensureDocker ==
    WaitFile("docker/exec_start.conf")
    \o Do("usermod -aG docker")
    \o WaitFile("clear_mount_propagation_flags.conf")
    \o Poll("daemon.json", ERR.FILE_WATCH_TIMEOUT)
    \o DisableOther("containerd", 0)
    \o Start("docker", ERR.DOCKER_START_FAIL,
             {"docker/exec_start.conf", "clear_mount_propagation_flags.conf", "daemon.json"})

MonitorOf(c) ==
    IF "containerd" \in c
    THEN [timer |-> "containerd-monitor.timer", service |-> "containerd-monitor.service"]
    ELSE [timer |-> "docker-monitor.timer", service |-> "docker-monitor.service"]

ensureMonitorService(c) ==
    WaitFile(MonitorOf(c).timer) \o WaitFile(MonitorOf(c).service)
    \o Start(MonitorOf(c).timer, ERR.SYSTEMCTL_START_FAIL,
             {MonitorOf(c).timer, MonitorOf(c).service, "health-monitor.sh"})

configPrivateClusterHosts ==
    Start("reconcile-private-hosts", ERR.SYSTEMCTL_START_FAIL,
          {"reconcile-private-hosts.service", "reconcilePrivateHosts.sh"})

configureSwapFile ==
    Run("check free disk space", ERR.SWAP_CREAT_INSUFFICIENT_DISK_SPACE)
    \o RunEach(<<"fallocate", "mkswap", "swapon", "swapon --show">>, ERR.SWAP_CREAT_FAIL)
    \o Do("append swap to fstab")

ensureSysctl ==
    WaitFile("999-sysctl-aks.conf") \o DoWith("sysctl --system", {"999-sysctl-aks.conf"})

kubeconfig(c) ==
    IF "tlsBootstrap" \in c THEN "bootstrap-kubeconfig" ELSE "kubeconfig"

ensureKubelet(c) ==
    WaitFile("default/kubelet")
    \o WaitFile(kubeconfig(c))
    \o WaitFile("kubelet.sh")
    \o Start("kubelet", ERR.KUBELET_START_FAIL,
             {"kubelet.service", "default/kubelet", "kubelet.sh", "ca.crt", kubeconfig(c)}
             \cup (IF "tlsBootstrap" \in c THEN {} ELSE {"client.crt"})
             \cup (IF "tempDisk" \in c THEN {"bind-mount.service", "bind-mount.sh"} ELSE {}))
    \o When("overlayCNI" \in c, Until("10-antrea.conf"))

initControlPlane ==
    RunEach(<<"init certs", "init kubeconfig", "init control-plane">>,
            ERR.ASH_KUBEADM_GEN_FILES)
    \o Run("kubeadm init", ERR.ASH_KUBEADM_INIT_JOIN)
    \o Run("apply psp.yaml", ERR.ASH_APPLY_ADDON)
    \o Do("create clusterrolebindings")
    \o RunWith("apply kube-proxy.yaml", ERR.ASH_APPLY_ADDON, {"kube-proxy.yaml"})
    \o RunWith("apply coredns.yaml", ERR.ASH_APPLY_ADDON, {"coredns.yaml"})
    \o Run("apply addons", ERR.ASH_APPLY_ADDON)

upgradeControlPlane ==
    RunEach(<<"apply role", "apply rolebinding", "apply clusterrole", "apply clusterrolebinding",
              "get kubelet-config", "apply kubelet-config", "replace kubeadm-conf">>,
            ERR.ASH_KUBEADM_INIT_JOIN)
    \o RunWith("apply coredns.yaml", ERR.ASH_APPLY_ADDON, {"coredns.yaml"})

\* ERR_ASH_KUBEADM_REFRESH_ETCD_MEMBERLIST is defined nowhere: exit then passes on the
\* status of what failed.  Listing the members fails in a subshell and goes unnoticed.
refreshEtcdMembers ==
    Run("extractEtcdctl", 1) \o Do("etcdctl member list")
    \o Run("etcdctl member remove", 1) \o Do("back up etcd")

joinControlPlane(c) ==
    RunEach(<<"join certs", "join kubeconfig", "get kubeadm-config">>, ERR.ASH_KUBEADM_GEN_FILES)
    \o When("upgrade" \in c, upgradeControlPlane)
    \o When("k8s123" \in c, refreshEtcdMembers)
    \o Run("join control-plane files", ERR.ASH_KUBEADM_GEN_FILES)
    \o Run("join kubelet-start", ERR.KUBELET_START_FAIL)
    \o RunEach(<<"control-plane-join", "uncordon">>, ERR.ASH_KUBEADM_INIT_JOIN)

customizeK8s(c) ==
    WaitFile("kubeadm-config.yaml") \o WaitFile("kube-proxy.yaml") \o WaitFile("coredns.yaml")
    \o <<StepOf("do", "copy certificates", 0, {"ca.crt", "ca.key", "sa.key"})>>
    \o IF "firstMaster" \in c THEN initControlPlane ELSE joinControlPlane(c)

ensureJournal == Start("systemd-journald", ERR.SYSTEMCTL_START_FAIL, {})

\* The file kubelet is configured from is awaited once more.
ensureUpdateNodeLabels ==
    WaitFile("default/kubelet")
    \o WaitFile("update-node-labels.sh") \o WaitFile("update-node-labels.service")
    \o Start("update-node-labels", ERR.SYSTEMCTL_START_FAIL,
             {"default/kubelet", "update-node-labels.sh", "update-node-labels.service"})

ensureNoDupOnPromiscuBridge ==
    WaitFile("ensure-no-dup.sh") \o WaitFile("ensure-no-dup.service")
    \o Start("ensure-no-dup", ERR.SYSTEMCTL_START_FAIL,
             {"ensure-no-dup.sh", "ensure-no-dup.service"})

ensureMigPartition ==
    Start("mig-partition", ERR.SYSTEMCTL_START_FAIL,
          {"mig-partition.service", "mig-partition.sh"})
-----------------------------------------------------------------------------
(***************************************************************************)
(* cse_cmd.sh: what the extension itself runs before provision.sh          *)
(***************************************************************************)
outBoundCmd(c) ==
    When("blockOutbound" \notin c, Run("nc registry", ERR.OUTBOUND_CONN_FAIL))

\* init-aks-custom-cloud.sh: certificates and a line of crontab, then, once cloud-init is
\* through, the repositories of apt and the clock.  On Azure Stack it exits early.
initCustomCloud(c) ==
    Poll("init-aks-custom-cloud.sh", ERR.CSE_PROVISION_SCRIPT_NOT_READY_TIMEOUT)
    \o (IF "azureStack" \in c
        THEN Edit("certificates and clock", {"init-aks-custom-cloud.sh"})
        ELSE Edit("certificates and crontab", {"init-aks-custom-cloud.sh"})
             \o Settle
             \o Edit("repositories and clock", aptFiles(c)))

\* provision.complete is not looked at before cse_main.sh: what comes here comes on every run.
cseCmd(c) ==
    outBoundCmd(c)
    \o Poll("provision.sh", ERR.CSE_PROVISION_SCRIPT_NOT_READY_TIMEOUT)
    \o When("customCloud" \in c, initCustomCloud(c))
    \o Source("provision_start.sh")

(***************************************************************************)
(* cse_main.sh, from the test of provision.complete to its exit.           *)
(***************************************************************************)
loadScripts ==
    Strip("helpers", ERR.FILE_WATCH_TIMEOUT) \o Source("helpers")
    \o WaitFile("helpers_distro") \o Source("helpers_distro")
    \o WaitFile("installs") \o Source("installs")
    \o WaitFile("installs_distro") \o Source("installs_distro")
    \o WaitFile("configs") \o Source("configs")

prepareNode(c) ==
    When("containerd" \notin c, Do("cleanUpContainerd"))
    \o When("gpu" \notin c, Do("cleanUpGPUDrivers"))
    \o When("proxyCA" \in c, configureHTTPProxyCA)
    \o Do("disable1804SystemdResolved") \o Do("configureAdminUser")
    \o When("containerd" \in c, Do("installCrictl"))

\* IS_VHD promises the image carries vhd-install.complete.
installNode(c) ==
    (IF "vhd" \in c
     THEN Run("find vhd-install.complete", ERR.VHD_FILE_NOT_FOUND)
          \o DoWith("cleanUpContainerImages", crictlFiles(c))
     ELSE installDeps(c))
    \o installContainerRuntime(c)
    \o When({"containerd", "teleport"} \subseteq c, installTeleportdPlugin)
    \o installNetworkPlugin(c)
    \o When("gpu" \in c,
            When("vhd" \notin c, installGPUDrivers(c))
            \o ensureGPUDrivers(c)
            \o IF "gpuPlugin" \in c
               THEN Start("nvidia-device-plugin", ERR.GPU_DEVICE_PLUGIN_START_FAIL, {})
               ELSE Do("systemctlDisableAndStop nvidia-device-plugin"))
    \o installKubeletKubectlKubeadmAndKubeProxy(c)

configureNode(c) ==
    ensureRPC
    \o Do("createKubeManifestDir")
    \o When("sgx" \in c, installSGXDrivers(c))
    \o When("searchDomain" \in c,
            WaitFile("setup-custom-search-domains.sh") \o Locks
            \o RunWith("setup-custom-search-domains.sh", ERR.CUSTOM_SEARCH_DOMAINS_FAIL,
                       {"setup-custom-search-domains.sh"} \cup aptFiles(c)))
    \o configureK8s
    \o configureCNI
    \o customizeCNI(c)
    \o When("dualStack" \in c, ensureDHCPv6)
    \o (IF "containerd" \in c THEN ensureContainerd(c) ELSE ensureDocker)
    \o ensureMonitorService(c)
    \o When("hostsAgent" \in c, configPrivateClusterHosts)
    \o When("swapFile" \in c, configureSwapFile)
    \o ensureSysctl
    \o ensureKubelet(c)
    \o When("controlPlane" \in c, customizeK8s(c))
    \o ensureJournal
    \o ensureUpdateNodeLabels
    \o When({"containerd", "dedupBridge"} \subseteq c, ensureNoDupOnPromiscuBridge)

\* With the hosts agent the name is in /etc/hosts and is not looked up.
validateNode(c) ==
    <<StepOf("do", "rm 99periodic", 0, {"99periodic"})>>
    \o When("hostsAgent" \notin c,
            Probe("nslookup apiserver", ERR.K8S_API_SERVER_DNS_LOOKUP_FAIL))
    \o Probe("nc apiserver", ERR.K8S_API_SERVER_CONN_FAIL)
    \o When("mig" \in c, ensureMigPartition)
    \o Finish({"mig", "pendingReboot"} \cap c # {})

\* Slip: the helpers are loaded before provision.complete is looked at.
ScriptLoadingFirst(c) ==
    cseCmd(c) \o loadScripts \o Check \o prepareNode(c) \o installNode(c)
    \o configureNode(c) \o validateNode(c)

Script(c) ==
    cseCmd(c) \o Check \o loadScripts \o prepareNode(c) \o installNode(c)
    \o configureNode(c) \o validateNode(c)

-----------------------------------------------------------------------------
(***************************************************************************)
(* nodecustomdata.yml: what cloud-init writes, in its order.               *)
(***************************************************************************)
cseFiles(c) ==
    <<"helpers", "helpers_distro", "provision_start.sh", "provision.sh",
      "installs", "installs_distro", "configs">>
    \o When("vhd" \notin c, <<"provision_cis.sh">>)
    \o When("customCloud" \in c, <<"init-aks-custom-cloud.sh">>)

serviceFiles(c) ==
    When("hostsAgent" \in c, <<"reconcilePrivateHosts.sh", "reconcile-private-hosts.service">>)
    \o <<"kubelet.service">>
    \o When("mig" \in c, <<"mig-partition.service", "mig-partition.sh">>)
    \o <<"update-node-labels.service", "update-node-labels.sh">>
    \o When("tempDisk" \in c, <<"bind-mount.sh", "bind-mount.service">>)

\* Files a VHD carries and cloud-init therefore leaves alone on one.
monitorFiles(c) ==
    When("vhd" \notin c,
         <<"health-monitor.sh", "kubelet-monitor.service", MonitorOf(c).timer,
           MonitorOf(c).service, "kms.service", "apt/preferences">>)

networkFiles(c) ==
    <<"99periodic">>
    \o When("proxy" \in c, <<"95proxy", "proxy.conf">>)
    \o When("proxyCA" \in c, <<"proxyCA.pem">>)
    \o When("dualStack" \in c, <<"dhcpv6.service", "enable-dhcpv6.sh">>)

dockerFiles(c) ==
    When("vhd" \notin c, <<"clear_mount_propagation_flags.conf">>)
    \o <<"docker/exec_start.conf", "daemon.json">>

containerdFiles(c) ==
    <<"config.toml", "kubenet_template.conf", "containerd.service",
      "containerd/exec_start.conf", "crictl.yaml", "11-containerd.conf">>
    \o When("teleport" \in c, <<"teleportd.service">>)
    \o When("dedupBridge" \in c, <<"ensure-no-dup.service", "ensure-no-dup.sh">>)

kubeletFiles(c) ==
    When("gpu" \in c, <<"nvidia-modprobe.service">>)
    \o <<"ca.crt">>
    \o When("tlsBootstrap" \notin c, <<"client.crt">>)
    \o When("searchDomain" \in c, <<"setup-custom-search-domains.sh">>)
    \o <<kubeconfig(c), "default/kubelet", "kubelet.sh", "999-sysctl-aks.conf">>

controlPlaneFiles(c) ==
    When("controlPlane" \in c,
         <<"cloud-controller-manager.yaml", "kubeadm-config.yaml", "ca.key", "sa.key",
           "ip-masq-agent-configmap.yaml", "coredns.yaml", "kube-proxy.yaml">>)

Order(c) ==
    cseFiles(c) \o serviceFiles(c) \o monitorFiles(c) \o networkFiles(c)
    \o (IF "containerd" \in c THEN containerdFiles(c) ELSE dockerFiles(c))
    \o kubeletFiles(c) \o controlPlaneFiles(c)

\* Files read though nothing awaits them, nor a file cloud-init writes after them.
Unawaited ==
    {"apt/preferences", "95proxy", "nvidia-modprobe.service", "crictl.yaml", "proxyCA.pem"}

\* packer_source.sh puts these on a VHD, marker line included.
Baked(c) ==
    IF "vhd" \notin c THEN {}
    ELSE {"kubelet.service", "update-node-labels.sh", "update-node-labels.service",
          "clear_mount_propagation_flags.conf", "provision_cis.sh", "health-monitor.sh",
          MonitorOf(c).timer, MonitorOf(c).service}

\* Awaited files whose text does not contain the marker wait_for_file greps for.
Unmarked == {"setup-custom-search-domains.sh"}

\* Units with an [Install] section: systemctl enable makes these start at boot.
Installable ==
    {"rpcbind", "rpc-statd", "dhcpv6", "teleportd", "containerd", "docker",
     "containerd-monitor.timer", "docker-monitor.timer", "reconcile-private-hosts",
     "kubelet", "mig-partition", "nvidia-modprobe", "nvidia-device-plugin"}
=============================================================================
