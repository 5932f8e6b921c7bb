---------------------------- MODULE CustomCloud ----------------------------
(***************************************************************************)
(* Calls of GetNodeBootstrapping for the pools of one cluster in a custom  *)
(* cloud share its ContainerService.  A Windows pool's payload holds the   *)
(* environment as JSON, for which GetCustomEnvironmentJSON renames the     *)
(* cloud to AzureStackCloud and back (datamodel/types.go); every template  *)
(* that asks IsAKSCustomCloud, IsAzureStackCloud or GetTargetEnvironment   *)
(* reads that name.  Nothing locks it, and calls overlap as they like.  A  *)
(* Go string is two words, a text and a length, written one by one: a      *)
(* reader in between gets a string that is neither.                        *)
(***************************************************************************)
EXTENDS Naturals, Sequences

CONSTANTS
    Pools,         \* the pools a call is made for
    WindowsPools,  \* those of Windows
    MaxCalls       \* bound: how many calls are made

ASSUME PoolsAssumption == WindowsPools \subseteq Pools
ASSUME BoundsAssumption == MaxCalls \in Nat

\* The clouds, and what a string variable holds: the words of one, or of two.
CustomNames == {"akscustom", "AzureStackCloud"}
Strings == [text : CustomNames, length : CustomNames]
String(cl) == [text |-> cl, length |-> cl]

\* What a call does with the name, in order: the artifacts of the custom data
\* (a map literal, so in the order of its text), the YAML, the CSE command.
LinuxSteps == <<
    "cse_config: cloud", "cse_config: environment", "cse_config: file", "cse_config: name",
    "cse_config: IPAM", "cse_config: IPAM functions", "cse_config: kubeconfig awaited",
    "kubelet.service: bootstrap flags", "init script given", "init script: certificates",
    "yml: init script", "yml: client certificate", "yml: kubeconfig",
    "yml: environment", "yml: environment file", "cse_cmd: registry", "cse_cmd: repo depot">>

WindowsSteps == <<
    "setup: docker", "setup: target environment", "setup: environment JSON",
    "JSON: custom cloud", "JSON: old name", "JSON: rename", "JSON: renamed",
    "JSON: marshal", "JSON: restore", "JSON: restored",
    "setup: stack networking", "setup: root certificates",
    "csecmd: registry", "csecmd: target environment">>

\* How many of the steps that follow are inside the condition a step reads.
Under(step) ==
    IF step = "cse_config: environment" THEN 2
    ELSE IF step \in {"init script given", "yml: environment"} THEN 1
    ELSE IF step = "setup: environment JSON" THEN 7
    ELSE IF step = "JSON: custom cloud" THEN 6     \* returns the empty string
    ELSE 0

StepsOf(p) == IF p \in WindowsPools THEN WindowsSteps ELSE LinuxSteps

VARIABLES
    cloud,      \* CustomCloudEnv.Name as the resource provider set it
    name,       \* CustomCloudEnv.Name
    pc,         \* per pool: the step its call is at, 0 when it has none
    oldName,    \* per pool: GetCustomEnvironmentJSON's variable
    seen,       \* per pool: the names its call has read, besides the marshalled one
    json,       \* per pool: the name in the JSON, as a set; empty before
    calls,
    lent,       \* history: the pools whose call overlapped another's renaming
    clashed     \* history: two calls have had the name in their hands at once

vars == <<cloud, name, pc, oldName, seen, json, calls, lent, clashed>>

Init ==
    /\ cloud \in CustomNames
    /\ name = String(cloud)
    /\ pc = [p \in Pools |-> 0]
    /\ oldName = [p \in Pools |-> String(cloud)]
    /\ seen = [p \in Pools |-> {}]
    /\ json = [p \in Pools |-> {}]
    /\ calls = 0
    /\ lent = {} /\ clashed = FALSE

\* The whole name of either cloud, and nothing else.
IsAKSCustomCloud(n) == n.text = n.length

AtStep(p, step) == pc[p] > 0 /\ StepsOf(p)[pc[p]] = step
Skips(p, n) == pc' = [pc EXCEPT ![p] = IF @ + n >= Len(StepsOf(p)) THEN 0 ELSE @ + n + 1]
Goes(p) == Skips(p, 0)

\* From the reading of the old name (step 5 of WindowsSteps) to its last word
\* restored (step 10) a call has the name in its hands.
Holds(p) == p \in WindowsPools /\ pc[p] \in 6..10

\* The histories, of the state a step leads to.
Remember ==
    /\ lent' = {p \in Pools : IF pc'[p] = 0
                              THEN p \in lent
                              ELSE \/ pc[p] > 0 /\ p \in lent
                                   \/ \E q \in Pools \ {p} : Holds(q)'}
    /\ clashed' = (clashed \/ \E p \in Pools, q \in Pools : p # q /\ Holds(p)' /\ Holds(q)')

-----------------------------------------------------------------------------
\* A call with nothing seen or made yet.
Begin(p) ==
    /\ pc[p] = 0
    /\ pc' = [pc EXCEPT ![p] = 1]
    /\ oldName' = [oldName EXCEPT ![p] = String(cloud)]
    /\ seen' = [seen EXCEPT ![p] = {}]
    /\ json' = [json EXCEPT ![p] = {}]
    /\ calls' = calls + 1
    /\ UNCHANGED <<cloud, name>>
    /\ Remember

\* Slip: the caller goes on past the number of calls.
CallUnlimited(p) == Begin(p)

\* The resource provider calls for a pool, whatever other calls are under way.
Call(p) == calls < MaxCalls /\ Begin(p)

OwnSteps == {"JSON: old name", "JSON: rename", "JSON: renamed",
             "JSON: marshal", "JSON: restore", "JSON: restored"}

\* A template, or the test at the head of GetCustomEnvironmentJSON, asks.
Read(p) ==
    /\ pc[p] > 0 /\ StepsOf(p)[pc[p]] \notin OwnSteps
    /\ seen' = [seen EXCEPT ![p] = @ \cup {name}]
    /\ IF IsAKSCustomCloud(name)
       THEN Goes(p)
       ELSE Skips(p, Under(StepsOf(p)[pc[p]]))
    /\ UNCHANGED <<cloud, name, oldName, json, calls>>
    /\ Remember

KeepOldName(p) ==
    /\ AtStep(p, "JSON: old name")
    /\ oldName' = [oldName EXCEPT ![p] = name]
    /\ Goes(p)
    /\ UNCHANGED <<cloud, name, seen, json, calls>>
    /\ Remember

\* The new name, a word at a time.
Rename(p) ==
    /\ \/ AtStep(p, "JSON: rename") /\ name' = [name EXCEPT !.length = "AzureStackCloud"]
       \/ AtStep(p, "JSON: renamed") /\ name' = [name EXCEPT !.text = "AzureStackCloud"]
    /\ Goes(p)
    /\ UNCHANGED <<cloud, oldName, seen, json, calls>>
    /\ Remember

\* Slip: the name is marshalled as it was before.
MarshalOldName(p) ==
    /\ AtStep(p, "JSON: marshal")
    /\ json' = [json EXCEPT ![p] = {oldName[p]}]
    /\ Goes(p)
    /\ UNCHANGED <<cloud, name, oldName, seen, calls>>
    /\ Remember

Marshal(p) ==
    /\ AtStep(p, "JSON: marshal")
    /\ json' = [json EXCEPT ![p] = {name}]
    /\ Goes(p)
    /\ UNCHANGED <<cloud, name, oldName, seen, calls>>
    /\ Remember

\* Slip: the deferred function is forgotten.
RestoreNothing(p) ==
    /\ AtStep(p, "JSON: restore") \/ AtStep(p, "JSON: restored")
    /\ Goes(p)
    /\ UNCHANGED <<cloud, name, oldName, seen, json, calls>>
    /\ Remember

\* The deferred function, a word at a time.
Restore(p) ==
    /\ \/ AtStep(p, "JSON: restore") /\ name' = [name EXCEPT !.length = oldName[p].length]
       \/ AtStep(p, "JSON: restored") /\ name' = [name EXCEPT !.text = oldName[p].text]
    /\ Goes(p)
    /\ UNCHANGED <<cloud, oldName, seen, json, calls>>
    /\ Remember

Next == \E p \in Pools :
    \/ Call(p) \/ Read(p) \/ KeepOldName(p) \/ Rename(p) \/ Marshal(p) \/ Restore(p)

Spec == Init /\ [][Next]_vars

-----------------------------------------------------------------------------
\* Every variable keeps its type.
TypeOK ==
    /\ cloud \in CustomNames /\ name \in Strings
    /\ pc \in [Pools -> Nat] /\ \A p \in Pools : pc[p] \in 0..Len(StepsOf(p))
    /\ oldName \in [Pools -> Strings]
    /\ seen \in [Pools -> SUBSET Strings]
    /\ json \in [Pools -> SUBSET Strings]
    /\ calls \in 0..MaxCalls
    /\ lent \subseteq Pools /\ clashed \in BOOLEAN

\* A payload and its command are of one cloud, the cluster's own: on Linux the
\* client certificate is left out exactly where the bootstrap kubeconfig is
\* written and awaited, and the environment file named is the one written
\* (baker.go:448-452 and 700-711, read from five files of one payload).  Another
\* name is read only while another pool's JSON is being made, or once two of
\* those have met.
SeesItsOwnCloud ==
    \A p \in Pools : p \notin lent /\ ~clashed => seen[p] \subseteq {String(cloud)}

\* The JSON says AzureStackCloud whatever the cloud is called, as the Windows
\* cloud provider wants it ("Workaround to set correct name in
\* AzureStackCloud.json", types.go:776).
JsonIsOfStack == \A p \in Pools : json[p] \subseteq {String("AzureStackCloud")}

\* "Restore p.CustomCloudEnv to old value" (types.go:780): with no call under
\* way the cloud has the name it was given.
NameIsRestored == (\A p \in Pools : pc[p] = 0) => name = String(cloud)

\* The new name is where it is wanted and nowhere else, however many calls for
\* Linux pools and parts of other Windows calls run beside it, until two calls
\* have the name in their hands at once.
NameIsTheJsonsOnly ==
    ~clashed => /\ (\A p \in Pools : ~Holds(p)) => name = String(cloud)
                /\ JsonIsOfStack
=============================================================================
