# AgentBaker, verified

AgentBaker turns an AKS node configuration into what a virtual machine needs to
become a Kubernetes node: cloud-init data and a command for the custom script
extension (CSE). This directory holds TLA+ models of the Go code that makes the
two and of what then happens on the node, TLC configurations that check them and
proofs that TLAPS checks. Paths below are relative to the repository;
`artifacts/` stands for `src/parts/linux/cloud-init/artifacts/`.

## 1. Inventory

| Part | State it keeps | Operations | Interacts with |
|---|---|---|---|
| **CSE driver** `artifacts/cse_cmd.sh`, `cse_start.sh`, `cse_main.sh` | `provision.complete`, `VALIDATION_ERR`, `REBOOTREQUIRED`, the exit code | one run, first line to last | run by the guest agent, more than once if it fails or is killed; sources and calls all below |
| **CSE helpers** `cse_helpers.sh` | marker lines in files, `cloud-init-files.paved`, units running and enabled | `wait_for_file`, `retrycmd_*`, `systemctl*` | cloud-init, systemd |
| **Configuration functions** `cse_config.sh` | files in `/etc`, units | `ensureX`, `configureX`, `customizeK8s` | await cloud-init's files, start units |
| **Installation functions** `cse_install.sh`, `ubuntu/cse_install_ubuntu.sh` | packages, binaries, images | `installX`, `pullContainerImage`, clean-ups in the background | apt, the container runtime |
| **cloud-init data** `nodecustomdata.yml` | files on disk, written in order | `write_files`, then `runcmd` | runs beside the CSE |
| **apt helpers** `ubuntu/cse_helpers_ubuntu.sh` | apt's locks, the hold on walinuxagent | `apt_get_*`, `aptmarkWALinuxAgent` | apt's daily jobs, `runcmd` |
| **Services** `bind-mount.sh`, `ensure-no-dup.sh`, `health-monitor.sh`, `reconcile-private-hosts.sh`, `update-node-labels.sh` | mounts, ebtables, the runtime, `/etc/hosts`, node labels | started by the CSE, restarted by systemd | kubelet, the CNI, the API server |
| **VHD build** `src/vhdbuilder/` | the image: files, packages, `vhd-install.complete` | copies and downloads | the CSE finds them |
| **Bootstrapping API** `src/pkg/agent/` | the caller's configuration, the tables of images, distros and versions | `GetNodeBootstrapping`, the template functions, `ParseCSEMessage` | fills the templates of all above |
| **Windows** `src/parts/windows/` | things made (files, services, tasks), `CSEResult.log` | the setup script, the CSE command, the startup task | the same API, the host |

What is hard here: two programs (cloud-init and the CSE) race over the same
files, the second deletes from them the mark that the first has finished with
them, the agent may kill the CSE at any step and run it again, every step may
fail, and at the end a file decides that all is done. Services are started again
from the middle of what they did. Shell functions share global variables, leave
subshells where they mean to exit, and take a file that exists for one that is
whole. The Go side decides one thing (a runtime, an image, a cloud) at several
places, edits its caller's data and lends out a shared name with no lock. On Windows most
commands fail in silence, and the exit code is read from a file that may be missing or old.

What makes each part correct:

* driver: the agent is told 0 only of a provisioned node; such a node is not
  provisioned again; a run ends; what a completed node runs, it runs again after
  a reboot;
* helpers: no command runs before the files it reads are complete, five files apart that
  nothing makes sure of; a timeout is reported only for a file that is missing;
* configuration functions: the order between CNI, runtime and kubelet; every
  failure of a step that matters ends the run;
* installation: what ends well has whole files and a kubelet; a clean-up deletes
  nothing of this version;
* apt helpers: status and number of tries are true; the agent that runs the CSE is
  not upgraded under it;
* services: started again from anywhere, they lose nothing, double nothing they have seen,
  and come to the state they are there to keep;
* API: the same input gives the same node, its sources agree on it, and what the
  caller asks is in force;
* Windows: every command finds what it needs, a reported success is one, and ends
  in a node that joins.

## 2. Modules

Component modules, each with its specification and its properties:

| Module | Models |
|---|---|
| `CseScript` | What a Linux run executes, as data. One operator for each shell function, named after it; `Script(c)` is the run under configuration `c`, `Order(c)` cloud-init's files, `Baked(c)` those of the image. |
| `NodeProvision` | What each kind of step does to the node, what cloud-init, the agent and a reboot do, and the properties. Parameterised by the scripts. |
| `ProvisionContract` | The abstract specification: what the agent may rely on. |
| `AptRetries` | The four `apt_get_*` loops with the shell's shared `retries` and `i`, the locks and another apt. |
| `AgentHold` | The hold on walinuxagent: `runcmd`, `installDeps`, the release at the end of the run, apt's other jobs, the reboot. |
| `Downloads` | The two download loops and everything fetched with them, from the image's build to the run on the node. |
| `ContainerImages` | Image clean-ups in the background beside the runtime's installation, the hyperkube pull and kube-proxy's. |
| `BindMount` | `bind-mount.sh` and its unit beside kubelet's start, over crashes, restarts and reboots. |
| `ReconcileHosts` | `reconcile-private-hosts.sh`, an API server that moves, kills between the two writes. |
| `EnsureNoDup` | `ensure-no-dup.sh` and its unit, ebtables commands that fail, the listing among them, kills, the reboot. |
| `HealthMonitor` | `health-monitor.sh`, its timer, the CSE that enables it, a runtime that hangs, is restarted, and takes any time to start. |
| `NodeLabels` | `update-node-labels.sh`, other writers, calls that fail. |
| `KubeletFlags` | The flags between the caller's map, the command line and the configuration file, over repeated calls. |
| `CustomCloud` | Overlapping calls for the pools of a cluster in a custom cloud, whose name each call for a Windows pool changes for a while. |
| `PoolTemplates` | What switches, parameters and variables say of one pool of a mixed cluster, and the node made of it. |
| `NodeImages` | One call's image: the distro, the marketplace's table, the galleries, the lists; and the promise `IS_VHD`. |
| `KubernetesVersions` | The version table over releases of the package, new clusters and updates. |
| `WindowsScript`, `WindowsSetup` | The Windows run as data, and its execution with failures, restarts and the task that starts kubelet. |

Modules that put components together, and those for TLC and TLAPS:

| Module | Is |
|---|---|
| `NodeParts` | The nine parts of a Linux node beside the CSE's sequence (`AptRetries` to `NodeLabels` above). |
| `NodeRequests` | The five modules of the Go side (`KubeletFlags` to `KubernetesVersions`). |
| `MCNodeProvision` | `NodeProvision` with the scripts of `CseScript`, for the configurations of the runs, and the properties that name this repository's units. |
| `MCScriptDiscipline` | The theorems' hypotheses about scripts, evaluated for those of this repository: the Linux script under 2032 combinations of sixteen switches, the Windows script under every one there is. The module of the run `runs_end`. |
| `MCNodeParts`, `MCNodeRequests`, `MCWindowsSetup` | Values for the constants. |
| `NodeProvision_proofs`, `FirstRun_proofs` | Theorems about the Linux run; the second module has those about the order of starts, and the two that hold of a first run only. |
| `AptRetries_proofs`, `CustomCloud_proofs`, `WindowsSetup_proofs` | Theorems about the module they are named after. |
| `NodeServices_proofs`, `NodeParts_proofs` | Theorems about `NodeParts`: the services and the monitor, then the installation and the whole. |
| `NodeRequests_proofs` | Theorems about `NodeRequests`. |

`NodeParts` and `NodeRequests` extend one component and instantiate the others
onto variables `s1`, `s2`, ...; a variable (`part`, `side`) says which component a
behaviour is about. The components of each share no state: `mv` in `/var/lib/kubelet`
and a line of `/etc/hosts` do not meet. Interleaving them would multiply states and
say nothing new; where components do meet, they are in one module (kubelet and the
mount, the CSE and the monitor's timer, `runcmd`, the run and apt's jobs).

The scripts are compiled into the Go program: `src/pkg/templates/templates_generated.go`
holds every file of `src/parts` verbatim and it is this copy that is executed. The `map`
of `PROJECT.json` names the lines of that copy: line *n* of a script is line
*start + n - 1* of the file, where *start* is the line its text begins at. Comments in
the modules, hazards and findings quote the script itself.

### State and actions: the Linux run

A configuration is the set of template switches that are on. A run is at step
`pc` of its script. Each step has a kind (`op`), an object (a file, a unit, a
command), an exit code and the files it reads, and each kind is an action or a few:

| Step | Shell | Actions |
|---|---|---|
| `check` | `if [ -f provision.complete ]` | `AlreadyRan`, `NotYetRan` |
| `poll` | a loop on `grep` or `jq` | `PollSees`, `LookAgain`, `GiveUp` |
| `strip` | the helpers loop of `cse_main.sh:18-28` | `StripSees`, `LookAgain`, `GiveUp` |
| `wait` | `wait_for_file f \|\| exit 6` | `WaitPaved`, `WaitSees`, `WaitPaves`, `LookAgain`, `GiveUp` |
| `do` | a command whose status nobody reads | `DoStep` |
| `run` | `cmd \|\| exit err` | `RunSucceeds`, `RunFails`, and `PackageStarts` before either |
| `edit` | a command of `init-aks-custom-cloud.sh` that changes the node each time it runs | `Edits` |
| `start` | `systemctlEnableAndStart u \|\| exit err` | `Restarts`, `RestartFails`, `Enables`, `EnableFails` |
| `disable` | `is-active u && (systemctl_disable u \|\| exit err)` | `OtherInactive`, `DisablesOther`, `DisableFails` |
| `until` | the loop on `10-antrea.conf` or `10-flannel.conf` | `OverlaySeen` |
| `lock` | `wait_for_apt_locks` | `LocksFree` |
| `settle` | `cloud-init status --wait` | `Settles` |
| `probe` | `nslookup`, `nc` at the end | `ProbeSucceeds`, `ProbeFails` |
| `finish` | reboot, `touch provision.complete`, `exit` | `Finishes` |

`CloudInitWrites` gives the next file its final content (and its marker, if it
has one); `BeginRun` and `Kill` are the agent's; `Reboot` keeps only what is
enabled and has an `[Install]` section; `OverlayReady` is the CNI daemon set.

A wait has two effects, the deletion of the marker and the entry in the paved
list, and is two actions, so that a kill can fall between them; so is a start.
The tries of a command that is retried until it succeeds or gives up are one
step: only its outcome matters to the node. A unit started with `Restart=` may
of course stop later; `running` says what the CSE, or the last boot, has started.

The package of a runtime starts and enables its unit while it is being installed
(`PackageStarts`), long before `ensureContainerd`; on an image that carries the package
any of the runtimes may be running when the node boots (`ActiveAtBoot`). A `lock`
precedes every use of apt and stands for all the tests that the tries of one command make.

A custom cloud's set-up comes at the head of the run, before `provision.complete` is looked
at: `edits` counts what its commands change (certificates, crontab, apt's sources, the
clock's service), on every run anew. Whether a change repeats one already made is not
distinguished.

A file of the image that cloud-init also writes (`kubelet.service` on a VHD)
has the image's marker before it has its final content. Waits can see it then;
`Whole` says when it is final.

Two switches stand for what scripts find at run time: `vhd` also stands for the
runtime and the binaries the image has, `gpuConfig` for the choice between
installing and validating drivers. Where `validateGPUDrivers` ends with other codes
than 84, the model ends with 84.

### State and actions: the other parts of a Linux node

* `AptRetries`: `k` and `inner` are the positions in the words of the two `seq 1
  $retries`, fixed when a loop starts; `i` and `retries` are the globals, which the
  nested update overwrites. One action for the wait, each command's success and
  failure, each last-try test, the nested loop and the return.
* `AgentHold`: `mark` is each call of `aptmarkWALinuxAgent` (waiting for the locks,
  trying, done), `job` what works under the locks, `run` where `cse_main.sh` is; the
  reboot cuts whatever still goes on.
* `Downloads`: a run is a number in the list of its steps. `Begin`, `Found`, `Download` and
  `GiveUp` are the loop; a download leaves a whole file, a part, or what was there.
  `installCrictl` looks at no status; an archive is looked into and a file is not.
* `ContainerImages`: `List` reads the store and `Remove` acts on what it read, later;
  the runtime is down from its installation or restart until it answers again.
* `BindMount`: `dir` and `disk` are the two directories; `mv` across file systems is
  `MoveBegins`, `MoveCopies`, `MoveDeletes`. The unit is of type simple, so that
  `KubeletPre` may come at any moment of the script.
* `ReconcileHosts`, `EnsureNoDup`, `NodeLabels`: one action for each command with an
  effect, so that kills, failures and other writers fall between any two.
* `HealthMonitor`: time goes by in minutes (`Tick`), and no minute ends before what is
  due in it is done; the check, the kill and its pause, the timer, hangs.

### State and actions: the Go side and Windows

* `KubeletFlags`: one action is a call of `getNodeBootstrappingPayload`; it edits the
  caller's map (`validateAndSet...`), puts the gates in any order, since Go's order of a
  map is nobody's, and splits the flags as `GetOrderedKubeletConfigFlagString` and
  `GetKubeletConfigFileContent` do.
* `CustomCloud`: a call is the list of places where a template reads the cloud's name,
  in order, with what is skipped where the answer is no; `GetCustomEnvironmentJSON` is
  six steps, and writing a string is two, one for each of its words. Any calls overlap.
  `lent` and `clashed` are histories: which calls had another's renaming beside them, and
  whether two calls have had the name in their hands at once.
* `PoolTemplates`: `GetNodeBootstrapping`, then what cloud-init, the installation and the
  start of the runtime make of the answer; it takes `Order` from `CseScript`.
* `NodeImages`: `Render`, `FindOSImage`, `FindSIGImage` (or the errors between them) and the
  boot of a node from one of the images. Distros go by the names of the constants, an
  image is the set of what its definition says of it.
* `KubernetesVersions`: `Create`, `Update`, `Validate` and `NewPackage`.
* `WindowsSetup`: `Begins` is `csecmd.ps1`'s copy of the script, and `BeginsNot` its failure.
  The script begins with the archive of its functions and their sourcing, which no `try`
  guards (`SourceFunctions`); a function that is missing later throws (`Unsourced`).
  `Succeeds`, `TriesAgain`, `Stops` and `Shrugs` are what a command can come to; `Shrugs` is
  a failure that only the log shows. `Exit` is `Set-ExitCode`, which does nothing where
  `windowscsehelper.ps1` was not sourced. `WritesResult`, or `LosesResult`, is the finally
  block; `Reports` reads `CSEResult.log`, an earlier run's if this one wrote none and 0 if
  there is none. `PostponedRestart` and `HostRestart` are the one-time task and the host.

## 3. Properties and runs

| Run | Asks | Result |
|---|---|---|
| `first_run` | One run against cloud-init at every speed, on eight kinds of nodes, every failure, any runtime running from the start. `TypeOK`, `CommandsFindTheirFiles`, `CompleteMeansDone`, `KubeletAfterRuntime`, `TimeoutMeansMissing` | hold (96 527 states) |
| `reruns` | Three runs, a kill at any step, the reboot. `CompleteIsFinal`, `ZeroMeansComplete`, `CompleteNodeServes`, `KubeletAfterCni`, `ImplementsContract` | hold (196 152) |
| `runs_end` | Two runs with kills under fairness. `RunsEnd`; also the theorems' hypotheses | holds (18 415) |
| `node_parts` | The nine other parts of a Linux node, below | hold (37 305) |
| `node_requests` | The five modules of the Go side, below | hold (101 042) |
| `windows_setup` | Six kinds of Windows nodes, every failure, a restart at any moment, below | hold (145 035) |
| `rerun_times_out` | `TimeoutMeansMissing` with a second run | violated |
| `proxy_ca` | `CommandsFindTheirFiles` with a proxy CA | violated |
| `docker_stop` | `NoLeftoverDocker` | violated |
| `already_ran` | `CompletedWithSuccess` | violated |
| `labels_after_reboot` | `LabelsServiceServes` | violated |
| `lost_name` | `NameIsRestored` with two calls for Windows pools | violated |

The Linux run:

* **`CommandsFindTheirFiles`** is the reason for `wait_for_file`, and few of the
  files the CSE reads are awaited: `kubelet.service`, `ca.crt`, `health-monitor.sh`,
  `reconcilePrivateHosts.sh` and others are there because cloud-init writes
  them before a file somebody waits for. Five are not (`Unawaited`): `proxyCA.pem`,
  apt's `preferences` and `95proxy`, `crictl.yaml` and `nvidia-modprobe.service` are read
  with nothing before that makes sure of them, and are left out of the claim by name; in
  a custom cloud the wait for the end of cloud-init covers them too. `Covered` says so of
  a script, an order and what is left out; TLC evaluates it for 2032 combinations of
  sixteen switches (`ScriptDiscipline`), and that none of the five can be put back
  (`NoneLeftOutInVain`).
* **`TimeoutMeansMissing`**: a run that gives up on a file has not seen a file that was
  there. It holds in a first run: `default/kubelet` is awaited twice, the second time
  thanks to the paved list. It does not hold in a second run (below), nor in the first of
  a node with a custom search domain.
* **`CompleteMeansDone`**: `provision.complete` exists only if every step that is
  checked succeeded. Touching the file a few lines too early breaks it.
* **`CompleteNodeServes`**: whatever the script has started and can start at boot runs
  on a completed node, through reruns, kills and the reboot.
* **`CompleteIsFinal`**: once the file exists no run changes the node, except that a custom
  cloud's set-up does on every run, whose edits the property names: units, marks and the
  commands done stay as they are there too.
* **`KubeletAfterCni`**: kubelet never runs on a node where the bridge's module was not loaded
  and the runtime then restarted with its configuration. Of the runtime itself this is not
  true: its package starts it, and clean-ups and the pull of the pause image use it
  (`cse_main.sh:75`, `:120`), before `configureCNI`. GPU nodes are apart:
  `nvidia-modprobe.service` restarts kubelet after its start (`nodecustomdata.yml:570`).
* **`KubeletAfterRuntime`**: in a first run, however it ends, and after the reboot, kubelet
  does not run without its runtime.
* **`RunsEnd`**: a run stays nowhere for good but in the three waits without a bound: for apt's
  locks (`cse_helpers_ubuntu.sh:18-23`), for the end of cloud-init in a custom cloud
  (`init-aks-custom-cloud.sh:93`) and for the CNI of a pod (`cse_config.sh:717`).
* **`ImplementsContract`**: `NodeProvision` implements `ProvisionContract` under
  the mapping *busy = a run is at a step, provisioned = `provision.complete` exists,
  report = the exit code*. What takes argument: a run on a provisioned node gets
  through its early steps to the `check`, except where the outbound check that
  precedes it fails (exit 50).

The other parts of a Linux node (`node_parts`); each property is a component's own, of
the name in parentheses where it differs:

* **`SuccessMeansDone`**, **`TriesAreTrue`** (apt): a call returns 0 only if its last try
  succeeded, reports the tries it made, and gives up after as many as asked or, where
  the nested update has overwritten the number, after as many as the update makes.
* **`MoveKeepsFiles`** (mount): no file the CSE placed is lost wherever a crash falls,
  the sentinel stands for a complete move, a script that ends well has mounted it.
* **`OneAddress`** (hosts): never two addresses of the API server, nor one it never had.
* **`RulesAreWhole`** (ebtables): unless a command other than the listing failed, packets go
  only through a chain that accepts before it drops; a rule is there once, and once more
  for each listing that failed beside a chain (`ensure-no-dup.sh:9-10` takes any failure for
  the chain's absence and appends all again).
* **`WholeAtTheEnd`**, **`TimedOutMeansMissing`** (downloads): an installation that goes
  through has whole files, although the loop takes half a file; a timeout is of a file
  that has not come.
* **`AgentOutlivesRun`**, **`OnlyRuncmdHoldsAgain`** (hold): the run's own upgrade does not
  reach the agent that waits for it; only a late `runcmd` undoes the release.
* **`DoneMeansLabelled`** (labels): the service ends with every wanted label there, but for
  what others wrote since it looked.
* **`SuccessHasKubelet`** (images): a run that succeeds has taken kubelet out of an image
  that is still there.
* **`KillsWhenDue`** (monitor): no runtime is killed before the timer's time, nor one that the
  monitor itself has killed before the whole pause has gone by. One that takes the pause
  or longer to start is killed again before it has come up, and may be for ever: `Serves`,
  which `EveryPartSettles` asks for, leaves it out by name.
* **`LeavesTheRest`**: the label service removes no label of others, the clean-ups no image
  of this version.
* **`EveryPartEnds`**, **`EveryPartSettles`**: liveness; the loops, waits and the label service
  end; `/etc/hosts`, the rules and the runtime come to what they are kept at.

The Go side (`node_requests`):

* **`SeesItsOwnCloud`**, **`NameIsTheJsonsOnly`**: calls overlap as they like. A template reads
  the cluster's own cloud unless another call had the name in its hands beside it; until
  two have it at once, the JSON has the other name and the cluster its own back. What two
  do to each other is in `lost_name`.
* **`FlagsInForce`**: what is asked of a flag is in force on the line or in the file, and
  dynamic configuration is off, except for the eight flags that are lost and for a
  webhook switched off, which the claims below are about.
* **`TemplatesAgree`**: a pool of a mixed cluster gets no empty file, one runtime, a
  directory with a name, images in the store its runtime reads, a primary set of its type.
* **`TablesAgree`**: a payload that promises a prepared image gets one; lists and galleries
  agree; every known distro is served; the image's cloud is the payload's.
* **`VersionsFit`**, **`SameAnswerAgain`**: a new cluster gets an offered version, whoever asks
  for a release gets one of it, a change goes to the newest; a used configuration gives
  the same payload and an updated cluster keeps its version. Packages change what is
  offered and drop no version from the table.

Windows (`windows_setup`):

* **`FindsWhatItNeeds`**: unless a command failed in silence, every command, and kubelet
  after a restart at any moment, finds what it needs.
* **`LooksFirst`**: whatever failed in silence, the restart that joins the node is scheduled
  only after the runtime, the pause image, the API server and calico's account have been
  seen; and so is a 0 reported, if it is the run's own. Three zeros are not, and say
  nothing of the node: `CSEResult.log` is missing, since the script did not begin or could
  not write it (`csecmd.ps1:21` exits with nothing, which is 0); it is an earlier run's; or
  `windowscsehelper.ps1` was not sourced, `Set-ExitCode` therefore unknown, and the finally
  block wrote the 0 it began with (`kuberneteswindowssetup.ps1:205-216` and the finally block).
* **`SuccessJoins`**, **`RunEnds`**: liveness; a run with a success of its own and no silent
  failure ends with kubelet running, and every run ends.

### What the violations show

1. **A killed run cannot be repeated.** `cse_main.sh:28` deletes `#HELPERSEOF` from the
   helpers and records the file nowhere; the next run looks for it for an hour and
   exits 6. Consequently, in the model as on the node, no run after one that got past
   this line completes, unless that one did.
2. **The proxy CA is not awaited** and is written after the last file awaited before its use.
3. **The exit after a failed disable leaves a subshell only**, and the node completes with
   docker enabled.
4. **A failed validation becomes success** on the next run.
5. **The label service does not survive a reboot**, having no `[Install]` section.
6. **Two calls for Windows pools lose the cloud's name.** The second saves the name the first
   has lent to its JSON, and restores that after the first has restored the cluster's
   (`types.go:777-785`): every later payload is of another cloud.

### Claims of comments and names that the other components refute

They are definitions at the end of their modules, each with the sentence it states.
No run of this directory checks them: to see one fail, model-check its module alone with
`Spec` (`FairSpec` for the temporal ones), the constants the modules
`MC...` and the runs' configurations give it, and the claim as an invariant
(`TimeoutMeansMissing`, `MountedAtLast` and `FilteredAtLast`: as a property).

| Claim | Said at | What the code does |
|---|---|---|
| `MCNodeProvision.TimeoutMeansMissing` with `Configs <- SearchDomainConfig` and one run | `cse_main.sh:133` exits 6 if the file times out | `setup-custom-search-domains.sh` has no `#EOF` to be found: every such node exits 6 with the file in place. |
| `AptRetries.SuccessMeansDone` with `Asks("apt_get_install", 5)` | `vhdbuilder/scripts/linux/ubuntu/tool_installs_ubuntu.sh:176` exits if it fails | The last-try test compares with the 10 of the nested update: five failing tries return 0. |
| `AptRetries.TriesAsAsked` | `cse_install_ubuntu.sh:176` asks for 20 | It gives up at the tenth. |
| `BindMount.MountedBeforeKubelet` | `bind-mount.sh:32-33` "before kubelet itself may start" | The unit has no `Type`: kubelet does not wait for the end of the script. |
| `BindMount.MountedAtLast` | the same "on every boot" | kubelet's own mount during `mv` keeps it from removing the directory; later starts cannot move again. |
| `EnsureNoDup.SaidMeansSet` | `ensure-no-dup.sh:11` "already set" | The chain's existence is taken for its rules. |
| `EnsureNoDup.FilteredAtLast` | `ensure-no-dup.sh:5` "we should filter" | After the reboot nobody sets the rules: no `[Install]` section. |
| `Downloads.CrictlMeansInstalled` | `cse_main.sh:66` "If crictl gets installed" | Half an archive passes the loop, `tar`'s status is not looked at. |
| `AgentHold.HoldIsReleased` | `cse_helpers.sh:7`, a code for it | The release runs in the background; locks, the reboot or a late `runcmd` leave the hold. |
| `HealthMonitor.DelayedAsSaid` | `cse_config.sh:667` "30 mins after booting" | `OnBootSec` is 10min. |
| `ContainerImages.FailedListIsRetried` | `cse_install.sh:279-281` | The status is that of the last command of a pipe. |
| `ContainerImages.PullTimeoutIsReported` | `cse_helpers.sh:25-26`, codes for it | The exit leaves a subshell only. |
| `KubeletFlags.TranslatedIsInForce` | `agent/utils.go:30` "will be translated into config file" | Eight flags leave the line and never enter the file. |
| `KubeletFlags.SwitchesAreInForce` | the same | `--authentication-token-webhook=false` is left out by `omitempty`. |
| `PoolTemplates.CliToolIsCtrByDefault` | `cse_main.sh:68` | It is empty where the cluster sets the runtime, `docker` for kata-containers. |
| `NodeImages.VHDPromiseKeptEverywhere` | `types.go:960` | The German cloud has plain images for the AKS distros. |
| `NodeImages.ContainerdIsKnown` | `sig_config.go:105` | The list lacks `AKSWindows2019Containerd`. |
| `NodeImages.DeprecatedIsEquivalent` | `types.go:146-147` | The VHD list lacks the deprecated names. |
| `KubernetesVersions.PrefixMakesNoDifference` | `versions.go:411` "v1.8.0 is equivalent to 1.8.0" | `GetValidPatchVersion` cannot parse the `v`. |
| `WindowsSetup.TemporaryConfigGoes` | `kuberneteswindowssetup.ps1:406-407` "will deleted" | Every exit between line 414 and 590 leaves it. |

### Bounds

* `Polls = 2`: looks before a wait gives up, 1200 or 3600 in the code. A wait that
  never sees its file, one that sees it at once and one that sees it late are all there.
* `MaxRuns` 1, 2 or 3: two runs suffice for every effect of one run on the next; the
  third one is a run on a node that an earlier one left half done and a later one found.
* Configurations: every switch that changes the script is on in one and off in another.
  `proxyCA` is on only in the run that shows what goes wrong, and `searchDomain` in none.
  In `first_run` neither, either or both runtimes run from the start (`MCActive`); `reruns`
  and `runs_end` start with none (`NoneActive`) to keep their states few: there it is the
  packages' installation that starts one early.
* `AptRetries`: the numbers of tries are the code's own (30, 20 and 10). `Others = 2`: the
  locks are taken before a try and again during the nested update.
* `BindMount`: `Starts = 5` is systemd's own limit; `Boots = 3`: one to be cut off, one
  that moves, one that finds the sentinel. Two files of each kind: one may be moved and
  the other not.
* `ReconcileHosts`, `EnsureNoDup`: `Moves`, `Kills`, `Failures` 2 (the last of listings and of
  other commands each), so that a second one meets what the first one left; one reboot
  forgets all rules.
* `Downloads`: `Tries = 3`, the least with a first, a middle and a last try.
  `AgentHold` and `ContainerImages`: `Tries = 2`, a last one and another. One other
  version of each image stands for all others, since they are treated alike.
* `HealthMonitor`: the delay, the attempts and the pause are the code's; `Hangs = 2` (one in the
  attempts, one in the watch), one restart by others; a start takes 0 to 3 minutes, each as it
  likes: less than the pause, as long, and longer; beyond `Horizon = 12`, two minutes after
  the timer, only the clock stops. `NodeLabels`: two wanted labels, one other, two failures and
  two writes of others.
* `KubeletFlags`: a map sets none, one or all flags: every flag is decided by itself. Two
  calls: the second one sees what the first left. `CustomCloud`: a Linux pool and two Windows
  ones, two calls of any two that overlap or follow each other. `KubernetesVersions`: two
  releases of the package, five versions of two minors with every case of the tables.
* `PoolTemplates`: all settings of one pool, or two pools without a directory of their own;
  the sources look at the pool, the first pool, some pool or all pools, and two
  tell these apart.
* `WindowsSetup`: `MaxTries = 2` for loops of 6 to 360; one silent failure of a command's
  own, whose consequences are further ones and not counted; one restart by the host; an
  earlier run that left nothing, a 0 or a failure.
* `CHECK_DEADLOCK FALSE` everywhere: when everything is written and the runs, calls,
  kills and moves are used up, a node rests.

### Fairness

All fairness is weak.

* `runs_end`: the run's own steps (`CseStep`): the shell goes on. Nothing of cloud-init,
  the agent, the CNI daemon set or the other processes that use apt. The three waits that
  end when one of these lets them (`LetGo`, `OverlayReady`) are therefore the places where a
  run may stay, and `RunsEnd` names them. `GiveUp` is part of `CseStep`, with a count of
  looks that must get there.
* `node_parts`: every script goes on, systemd restarts what its unit says it restarts, and
  the outside does what the script waits for without a bound: another apt ends and
  gives the locks back, the metadata service answers, the network comes, kubelet registers
  the node, a runtime that starts answers, time goes by. Kills, failures, hangs, moves of
  the server and other writers are bounded and never fair. `BindMount` has
  no liveness property here: the claim that it mounts at last is one of those refuted.
  Each action of `PartsSpec` takes one fair action of each part; as `part` never
  changes, its weak fairness is that of each part's `FairSpec`.
* `windows_setup`: the script goes on, and Windows runs a task that is due.
* `node_requests` has safety only: its calls are functions that return.

## 4. Proofs

A theorem holds for every value of its module's constants: every script, file order,
image, set of files, labels, pools, flags, versions or calls, and every bound. Each
safety theorem is proved from an inductive invariant, named below (`IInv` where the
module has one); an action property from the invariant and one step. All invariants that
the passing runs check are theorems, and all action properties.

What a theorem needs of a script is a named predicate in its hypothesis. TLC evaluates
them on `runs_end`, in `MCScriptDiscipline`: `ScriptDiscipline` for the Linux scripts of 2032
combinations of sixteen switches (all those of either of two sets of ten),
`WindowsDiscipline` for the Windows script of every configuration, `KubeletNotAtBoot` and
`VerdictsOfTheEnd` for the run's other constants.
`AptRetries`' hypothesis is evaluated for the node's calls on `node_parts`
(`NodeCallsAskEnough`), the assumptions on constants on every run.

### The Linux run

`NodeProvision`'s assumptions: a script is a nonempty sequence of steps of which the
last one, and no other, is `finish`; cloud-init writes no file twice; the bounds are
naturals.

* `TypeCorrect`: `TypeOK` is inductive. The step that needs an argument is `Advance`:
  only a step that is not `finish` advances, so there is a next one.
* `FilesThereWhenRead`: if every script has the discipline `Covered` but for the files left
  out (`Racing`), then `[]CommandsFindTheirFiles`. The invariant is `LooksSawTheirFiles`:
  the files of all looks behind the run, and the paved ones, are whole or on the image, and
  behind a `settle` all are. It is
  needed because a wait may be passed over in this run (`WaitPaved`) for what an
  earlier run saw, and because of the gap between the two effects of a wait.
  `LooksFindFiles` derives the property: a look's file that is not on the image is
  whole, and cloud-init being sequential and writing no file twice, everything before
  it is too.
* `CompletedNodesAreDone`: `[]CompleteMeansDone`, from `DoneSoFar`, which says it of the
  part of the script behind the run.
* `CompletedNodesAreLeftAlone`: if every script has `ChecksFirst` and edits nothing but in
  custom clouds (`EditsOfCustomClouds`), `CompleteIsFinal`. The invariant
  `CompleteStopsRuns` keeps a run on a completed node before the check; the checked
  commands there repeat what `DoneSoFar` says is done, and bring no unit.
* `ZeroIsTrue`: if failures exit with a code other than 0 (`ReportsAsAgreed`),
  `[]ZeroMeansComplete`, which is inductive with the types.
* `NodeKeepsContract`: the refinement. With `ChecksFirst` and `ReportsAsAgreed`, and with
  0 and 53 among the verdicts, `Spec => ImplementsContract`. Each action maps to a step of
  `ProvisionContract` or a stutter; the one that takes an invariant is a failure on a
  completed node: `CompleteStopsRuns` puts it before the check, `PollsSaw` says that the
  polls there cannot time out again, so that it is an early command, with its early
  code. `VerdictKept` bounds what the last step reports.
* `CompletedNodesServe`: if every script has `ChecksFirst` and disables nothing it starts
  (`NothingUndone`), `[]CompleteNodeServes`. The invariant `ServesSoFar` says it of the
  part of the script behind the run, of the start whose unit runs and is not yet
  enabled, and of `enabled`, which is what a reboot keeps.
* `CniIsFirst`: if a script loads the bridge's module (`CommandFirst`) and then restarts the
  runtime (`UnitFirst`) before it starts kubelet, and neither an image nor a package starts
  kubelet by itself, `[]KubeletAfterCni`. The invariant `CniSoFar` says it of `enabled` as
  well, for the next boot. Nothing is asked of what runs the runtime before.

Two properties hold of a first run only, and their theorems say so (`MaxRuns = 1`):

* `RuntimeUnderKubelet`: if a script starts the runtime before kubelet (`RuntimesFirst`),
  `[]KubeletAfterRuntime`. The invariant `KubeletSoFar` keeps the one start of the
  runtime behind a run that has started kubelet. A second run restarts the runtime while
  kubelet runs, and the restart may fail: the property is not one of reruns.
* `FirstTimeoutsAreTrue`: if a script looks for no marker twice, or waits for it both times
  (`MarkersOnce`), `TimeoutMeansMissing`. The invariant `MarkersSoFar` says whose look
  deleted a marker, and that the paved list remembers it. `rerun_times_out` shows what a
  second run does; a custom search domain is what a script without `MarkersOnce` does.

### The other parts of a Linux node

* `StatusIsTrue` and `TriesAreTold`: if every install asks for at least as many tries as
  the nested update makes (`InstallsAskEnough`), `[]SuccessMeansDone` and
  `[]TriesAreTrue`. `SharedVariables` says what the globals are inside and outside of the
  nested loop, `TriesCounted` what has been counted before the loop goes on.
* `FilesAreKept`: `[]MoveKeepsFiles`. From the end of the copy on all files are on the disk
  (`Copied`), and the sentinel is behind it.
* `OneAddressAtMost`: `[]OneAddress`. Where a line is appended there is none.
* `RulesStayWhole`: `[]RulesAreWhole`. `OneRuleAtATime` relates the command the script is at
  to the chain it has made: what it has yet to append is there no more often than listings
  have failed. That the count of a rule grows by one with an `Append` is by cardinality.
* `NoKillTooSoon`: `KillsWhenDue`, whatever a start takes. While a runtime starts after the
  monitor's kill, what is left of the pause and what the start has taken add up to it.
* `LabelsAreThere`: `[]DoneMeansLabelled`. Before it writes, every wanted label is there, in
  the list of the missing, or touched by others since.
* `InstalledIsWhole` and `TimeoutsAreTrue`: `[]WholeAtTheEnd` and `TimedOutMeansMissing`. By
  the numbers of the steps: an archive that was found stays whole until it is used, and
  the end is reached through every step that is not rightly skipped.
* `UpgradeSparesAgent` and `LateHoldIsRuncmds`: `[]AgentOutlivesRun` and
  `OnlyRuncmdHoldsAgain`. While the run upgrades, `installDeps`'s hold has been set and
  the release has not begun.
* `KubeletHasItsImage`: `[]SuccessHasKubelet`. No clean-up has an image of this version in
  its list, however old the list is.
* `OthersAreLeftAlone`: `LeavesTheRest`, the step of the label service and of the clean-ups.
* `PartsKeepTypes`: `[]PartsTypeOK`, the types of all nine, under `InstallsAskEnough`.

They are theorems of `PartsSpec`: `StepOfPart` reduces a step of the whole to one of the
part it is about, and `ServicesInv` and `InstallsInv` put the parts' invariants together.

### The Go side

Theorems of `RequestsSpec`; `RequestsInv` says of each side its invariant.

* `AskedFlagsAreRead` and half of `AnswersRepeat`: `[]FlagsInForce` and `SameAnswerAgain`, for
  all sets of flags and lists of gates. `FlagsInv` says that the caller's map after any
  number of calls is `EditOf` what was asked, which done again changes nothing, and that
  the gate is off in the gates' string. `StringOfGates` proves that a string made of a
  map in any order reads as that map, and so that Go's order of a map does not matter.
* `SourcesAgree`: `[]TemplatesAgree`, for all lists of pools. `TemplatesInv` gives the payload
  as a function of the pool's settings and the node as one of the payload. That no file
  on a VHD is empty goes through every list of `CseScript`'s cloud-init data
  (`VHDCarriesTheRest`).
* `AnswersAgree`: `[]TablesAgree`, for all clouds, regions and galleries, from what is listed
  for each distro (`ImagesAreAsListed`).
* `VersionsDoFit` and the other half of `AnswersRepeat`: `[]VersionsFit`, for every table that
  has a default. `LatestExists` proves that a finite set of versions has a latest one, from
  a smallest set that has none; `TableIsWhole` says what a later package keeps.
* `RequestsKeepTypes`: `[]RequestsTypeOK`.
* `RequestsAreOfCloud`: `RequestsSpec` implements `CustomCloud`'s `Spec`, whose theorems follow:
  `OwnCloudIsSeen` and `NameIsLent`: `[]SeesItsOwnCloud` and `[]NameIsTheJsonsOnly`, for any
  pools and calls however they overlap. The invariant: until two calls have met, one at most
  has the name in its hands (`HoldsAlone`) and holds the old one meanwhile (`Held`), the
  name is another only then (`NameKept`), and every call beside it is in `lent`
  (`LentBeside`).

Induction needs a predicate as a parameter, which the provers cannot instantiate. Where a
proof goes by induction (the latest version, the last naming of a gate), it takes the
smallest counterexample instead, by cardinality or by place, which is a set of naturals.

The attempt to prove `VersionsFit` found the two arms of `GetValidPatchVersion`'s `CASE`
to overlap, where TLC takes the first and a proof may not: the second one now excludes
what the first one has, as the early return in `versions.go` does. Strings with blanks, and
`@@` and `:>` of the module `TLC`, are not in the modules proved about, for the provers do
not read them; `Over` and `Only` stand for the latter.

### Windows

`TypesHold`, `NeedsAreFound` and `LooksAreFirst`: `[]TypeOK`, `[]FindsWhatItNeeds` and
`[]LooksFirst`, for all sets of nodes, if every script is in order (`ScriptsInOrder`). `InOrder`
is about the script alone: what a command needs has been made before and not been removed
again, and the looks come before what they guard. The invariant says how this carries
over to the machine: what was made is there as long as nothing failed in silence
(`MadeIsThere`), what ends the run when it fails is there in any case (`SeenIsThere`), a
task that Windows runs was registered by a command (`TasksWereMade`), and where
`Set-ExitCode` was sourced nothing but the end of the script makes a 0 of the run's own
(`ZeroIsTheEnd`). The looks of `LooksFirst` hold although the script may not begin, may
not have its functions, or may lose its result.

### Only model-checked

* Liveness: `RunsEnd`, `EveryPartEnds`, `EveryPartSettles`, `SuccessJoins`, `RunEnds`. Fairness
  and `ENABLED` are out of the prover's reach.
* That the scripts have the disciplines the theorems ask for: the hypotheses are evaluated,
  for finitely many configurations, since `CseScript` and `WindowsScript` are data.
* The violations, which need no more than a behaviour.

## 5. Plan

Done: the Linux run with its contract; the apt helpers and the hold; the downloads and
images; the five services; the Go side's flags, cloud, templates, images and versions;
Windows; a theorem for every safety property that a passing run checks.

Left, the most useful first:

1. What holds of reruns in place of the two theorems of first runs: a node whose earlier
   run did not reach kubelet, and which markers a rerun can still find.
2. Disciplines proved of `CseScript` for every set of switches and not evaluated for 2032:
   `ReportsAsAgreed` and `ChecksFirst`, list by list, as `VHDCarriesTheRest` does.
3. `ParseCSEMessage` and the status JSON of `cse_start.sh`: what the resource provider
   reads of a run that was killed or cut short.
4. A temporary disk that a redeployment has emptied, in `BindMount`.
5. The token of Azure Stack's functions in `cse_config.sh`, and its retries.
6. `validateGPUDrivers` with all its codes, and GPU partitioning.
7. Mariner's package helpers, where they differ in control.

## 6. Not modelled

* **Mariner variant**: the same driver with `tdnf` for `apt`, without the nested loops.
* **What Azure Stack's token and subnet functions ask for**: I/O with an outside service, a step
  with its exit code each (`CseScript`).
* **GPU partitioning, GPU driver packages, etcdctl**: commands on a device or a download like
  the modelled ones; no state of ours.
* **Hardening scripts and the image's build** but for its downloads: run once, in order, on a
  machine that is thrown away if anything fails.
* **Text** of configuration files, manifests and sysctl settings: nothing depends on a step.
* **Copied utilities** (`aks-engine` helpers), record types and accessors of the Go side,
  the label's normalisation, the list of IP addresses.
* **`kubelet_monitoring`** of `health-monitor.sh`: nothing enables it.
* **The job of cron** that a custom cloud's set-up leaves (`init-aks-custom-cloud.sh:91`): a
  refresh of certificates once a day.
* **The clean-ups' reading of `CLI_TOOL`** before it is set (`cse_install.sh:162`), and the
  bootstrap configuration among what kubelet of a TLS node needs on Windows (`KubeletParts`).
* **End-to-end tests**.

`PROJECT.json` lists each part with its reason, and the hazards with the properties that
would catch them going wrong.
