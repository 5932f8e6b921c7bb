---------------------------- MODULE KubeletFlags ----------------------------
(***************************************************************************)
(* How the kubelet's flags, which the resource provider passes as a map,   *)
(* become a command line and, where that is enabled, a configuration file  *)
(* (pkg/agent/utils.go).  A call edits the caller's map before it renders  *)
(* (validateAndSet... in baker.go), and addFeatureGateString writes the    *)
(* gates in whatever order Go ranges over a map: the model leaves that     *)
(* order open and lets the caller use the same configuration again.        *)
(***************************************************************************)
EXTENDS Naturals, Sequences, FiniteSets, SequencesExt

CONSTANTS
    GateLists,  \* the caller's --feature-gates: sequences of <<gate, value>>
    FlagSets,   \* the sets of other flags a caller's map sets
    CustomSets, \* the sets of flags customKubeletConfig sets
    MaxCalls    \* bound: how often the configuration is used

BoundsAssumption == MaxCalls \in Nat

\* The gates a list can name: the callers' and the one the code turns off.
Gates == {"DynamicKubeletConfig"} \cup UNION {{l[n][1] : n \in DOMAIN l} : l \in GateLists}

GatesAssumption == \A l \in GateLists : l \in Seq(Gates \X BOOLEAN)

-----------------------------------------------------------------------------
\* The translated flags, by the way GetKubeletConfigFileContent reads them.
TextFlags == {"--address", "--pod-manifest-path", "--authorization-mode",
    "--tls-cert-file", "--tls-private-key-file", "--cluster-domain",
    "--node-status-update-frequency", "--streaming-connection-idle-timeout",
    "--resolv-conf", "--client-ca-file", "--max-pods", "--read-only-port",
    "--image-gc-high-threshold", "--image-gc-low-threshold", "--event-qps",
    "--pod-max-pids", "--eviction-hard", "--system-reserved", "--kube-reserved"}
ListFlags == {"--cluster-dns", "--tls-cipher-suites", "--enforce-node-allocatable"}
SwitchFlags == {"--rotate-certificates", "--protect-kernel-defaults",
    "--authentication-token-webhook", "--anonymous-auth"}
PointerSwitches == {"--cgroups-per-qos"}
\* These are in TranslatedKubeletConfigFlags, and only customKc sets them.
CustomFlags == {"--cpu-manager-policy", "--cpu-cfs-quota", "--cpu-cfs-quota-period",
    "--topology-manager-policy", "--allowed-unsafe-sysctls", "--fail-swap-on",
    "--container-log-max-size", "--container-log-max-files"}

\* Slip: the gates are forgotten in the list.
TranslatedWithoutGates ==
    TextFlags \cup ListFlags \cup SwitchFlags \cup PointerSwitches \cup CustomFlags

TranslatedKubeletConfigFlags ==
    {"--feature-gates"} \cup TextFlags \cup ListFlags \cup SwitchFlags
        \cup PointerSwitches \cup CustomFlags

\* Flags that stay on the command line; the first two are Windows' backfill.
CommandLineFlags == {"--bootstrap-kubeconfig", "--cert-dir", "--dynamic-config-dir", "--v"}

Flags == (TranslatedKubeletConfigFlags \ {"--feature-gates"}) \cup CommandLineFlags

Switches == SwitchFlags \cup PointerSwitches \cup {"--cpu-cfs-quota", "--fail-swap-on"}
Values == {"given", "true", "false", "custom", "windows", "blank"}

\* Flags of which customKubeletConfig may set the field as well.
Overridden == {"--image-gc-high-threshold", "--image-gc-low-threshold", "--pod-max-pids"}

SetsAssumption ==
    FlagSets \subseteq SUBSET Flags /\ CustomSets \subseteq SUBSET (CustomFlags \cup Overridden)

VARIABLES
    os,             \* of the pool
    fileEnabled,    \* the toggle (from 1.14 on), or a custom configuration
    customKc,       \* the flags customKubeletConfig sets
    token,          \* a TLS bootstrap token is given
    asked,          \* the map as the caller made it
    kubeletConfig,  \* the map without --feature-gates, as the calls edit it
    isNil,          \* the map is nil
    gates,          \* its --feature-gates: a sequence of pairs
    payload,        \* what the last call rendered
    calls

configuration == <<os, fileEnabled, customKc, token, asked>>
vars == <<configuration, kubeletConfig, isNil, gates, payload, calls>>

EmptyMap == [f \in {} |-> "given"]
Nothing == [line |-> EmptyMap, gatesOnLine |-> <<>>, file |-> EmptyMap, gatesInFile |-> EmptyMap]

-----------------------------------------------------------------------------
\* Two maps as one, of which the first counts, and a map of one key: @@ and :> of the
\* module TLC, written out for the provers.
Over(f, g) == [x \in DOMAIN f \cup DOMAIN g |-> IF x \in DOMAIN f THEN f[x] ELSE g[x]]
Only(key, value) == [x \in {key} |-> value]

\* strKeyValToMapBool: of a gate named twice the last pair counts.
GateMap(list) ==
    [g \in {p[1] : p \in ToSet(list)} |->
        list[CHOOSE n \in DOMAIN list :
                list[n][1] = g /\ \A m \in (n + 1)..Len(list) : list[m][1] # g][2]]

\* Slip: a gate the caller names keeps the caller's value.
AddGateIfAbsent(list, gate, value) ==
    LET m == Over(GateMap(list), Only(gate, value)) IN
    {[n \in DOMAIN order |-> <<order[n], m[order[n]]>>] : order \in SetToSeqs(DOMAIN m)}

\* addFeatureGateString: all the strings Go may make of the map.
AddFeatureGateString(list, gate, value) ==
    LET m == Over(Only(gate, value), GateMap(list)) IN
    {[n \in DOMAIN order |-> <<order[n], m[order[n]]>>] : order \in SetToSeqs(DOMAIN m)}

\* validateAndSetLinux... and validateAndSetWindows...: the map and the gates
\* a call leaves with the caller.
EditedMap ==
    IF os = "linux"
    THEN IF fileEnabled
         THEN Restrict(kubeletConfig, DOMAIN kubeletConfig \ {"--dynamic-config-dir"})
         ELSE kubeletConfig
    ELSE IF token
         THEN Over([f \in {"--bootstrap-kubeconfig", "--cert-dir"} |-> "windows"],
                   kubeletConfig)
         ELSE kubeletConfig

EditedGates ==
    IF os = "linux" /\ fileEnabled /\ ~isNil
    THEN AddFeatureGateString(gates, "DynamicKubeletConfig", FALSE)
    ELSE {gates}

\* GetOrderedKubeletConfigFlagString, and Windows' string of every flag.
OnLine(map) ==
    IF os = "linux" /\ fileEnabled
    THEN Restrict(map, DOMAIN map \ TranslatedKubeletConfigFlags)
    ELSE map

GatesOnLine(list) ==
    IF os = "linux" /\ fileEnabled /\ "--feature-gates" \in TranslatedKubeletConfigFlags
    THEN <<>> ELSE list

\* Slip: one of the flags taken off the command line is not read here.
WrittenWithoutPort(map) ==
    LET text == Restrict(map, (DOMAIN map \cap (TextFlags \cup PointerSwitches))
                                  \ {"--read-only-port"})
        switches == [f \in {g \in SwitchFlags \cap DOMAIN map : map[g] = "true"} |-> "true"]
        lists == [f \in ListFlags |-> IF f \in DOMAIN map THEN map[f] ELSE "blank"]
    IN  Over(text, Over(switches, lists))

\* The fields GetKubeletConfigFileContent writes from the flags.  A false
\* switch is left out (omitempty) unless it is behind a pointer; a list that
\* is not given is written with one empty string, strings.Split("", ",").
Written(map) ==
    LET text == Restrict(map, DOMAIN map \cap (TextFlags \cup PointerSwitches))
        switches == [f \in {g \in SwitchFlags \cap DOMAIN map : map[g] = "true"} |-> "true"]
        lists == [f \in ListFlags |-> IF f \in DOMAIN map THEN map[f] ELSE "blank"]
    IN  Over(text, Over(switches, lists))

Content(map) == Over([f \in customKc |-> "custom"], Written(map))

GatesInContent(list) ==
    LET period == IF "--cpu-cfs-quota-period" \in customKc
                  THEN Only("CustomCPUCFSQuotaPeriod", TRUE) ELSE EmptyMap
        topology == IF "--topology-manager-policy" \in customKc
                    THEN Only("TopologyManager", TRUE) ELSE EmptyMap
    IN  Over(period, Over(topology, GateMap(list)))

Rendered(map, list, nil) ==
    [line        |-> OnLine(map),
     gatesOnLine |-> GatesOnLine(list),
     file        |-> IF os = "linux" /\ fileEnabled /\ ~nil THEN Content(map) ELSE EmptyMap,
     gatesInFile |-> IF os = "linux" /\ fileEnabled /\ ~nil
                     THEN GatesInContent(list) ELSE EmptyMap]

-----------------------------------------------------------------------------
Init ==
    /\ os \in {"linux", "windows"}
    /\ customKc \in CustomSets
    /\ fileEnabled \in BOOLEAN /\ (customKc # {} => fileEnabled)
    /\ token \in BOOLEAN
    /\ \E F \in FlagSets, switch \in {"true", "false"} :
        asked = [f \in F |-> IF f \in Switches THEN switch ELSE "given"]
    /\ kubeletConfig = asked
    /\ gates \in GateLists
    /\ isNil \in BOOLEAN /\ (isNil => asked = EmptyMap /\ gates = <<>>)
    /\ payload = Nothing
    /\ calls = 0

\* GetNodeBootstrappingPayload: the edits, then the templates.
GetNodeBootstrappingPayload ==
    /\ calls < MaxCalls
    /\ kubeletConfig' = EditedMap
    /\ \E list \in EditedGates :
        /\ gates' = list
        /\ payload' = Rendered(EditedMap, list, isNil /\ ~(os = "windows" /\ token))
    /\ isNil' = (isNil /\ ~(os = "windows" /\ token))
    /\ calls' = calls + 1
    /\ UNCHANGED configuration

Next == GetNodeBootstrappingPayload

Spec == Init /\ [][Next]_vars

-----------------------------------------------------------------------------
\* The kubelet takes a flag before the file and the file before its default;
\* the defaults are those the comments of AKSKubeletConfiguration state.
DefaultOf(f) ==
    CASE f \in {"--authentication-token-webhook", "--cgroups-per-qos", "--cpu-cfs-quota"} -> "true"
      [] f \in Switches \ {"--authentication-token-webhook", "--cgroups-per-qos", "--cpu-cfs-quota"} -> "false"
      [] OTHER -> "default"

InForce(f) ==
    CASE f \in DOMAIN payload.line -> payload.line[f]
      [] f \notin DOMAIN payload.line /\ f \in DOMAIN payload.file -> payload.file[f]
      [] OTHER -> DefaultOf(f)

GatesInForce == Over(GateMap(payload.gatesOnLine), payload.gatesInFile)

\* What the caller asks of a flag and the call does not replace on purpose.
Own(f) ==
    /\ f \notin customKc
    /\ ~(os = "linux" /\ fileEnabled /\ f = "--dynamic-config-dir")
    /\ ~(os = "windows" /\ token /\ f \in {"--bootstrap-kubeconfig", "--cert-dir"})

\* The map, the gates and the payload stay of their types.
TypeOK ==
    /\ os \in {"linux", "windows"} /\ fileEnabled \in BOOLEAN /\ token \in BOOLEAN
    /\ customKc \subseteq CustomFlags \cup Overridden
    /\ DOMAIN kubeletConfig \subseteq Flags /\ Range(kubeletConfig) \subseteq Values
    /\ gates \in Seq(Gates \X BOOLEAN) /\ isNil \in BOOLEAN
    /\ DOMAIN payload.line \subseteq DOMAIN kubeletConfig
    /\ Range(payload.file) \subseteq Values
    /\ calls \in 0..MaxCalls

\* Apart from the flags the two runs below refute, whatever the caller asks is
\* in force when the kubelet reads both the command line and the file: no flag
\* is lost between the list of flags taken off the command line and the code
\* that writes the file (utils.go:31-68 and 404-513).
AskedIsInForce ==
    calls > 0 => \A f \in DOMAIN asked :
        Own(f) /\ ~(os = "linux" /\ fileEnabled
                    /\ (f \in CustomFlags \/ (f = "--authentication-token-webhook" /\ asked[f] = "false")))
            => InForce(f) = asked[f]

\* With the file in use dynamic configuration is off in every way: its gate is
\* FALSE in what the kubelet reads, whatever gates the caller names and however
\* often the configuration has been used (baker.go:260-272, and the gates
\* customKubeletConfig adds).
DynamicConfigIsOff ==
    calls > 0 /\ os = "linux" /\ fileEnabled /\ ~isNil =>
        /\ "DynamicKubeletConfig" \in DOMAIN GatesInForce
        /\ GatesInForce["DynamicKubeletConfig"] = FALSE
        /\ "--dynamic-config-dir" \notin DOMAIN payload.line

\* What kubelet reads is what was asked for, but for what the code turns off.
FlagsInForce == AskedIsInForce /\ DynamicConfigIsOff

\* A configuration that is used again gives the same payload, although a call
\* edits the caller's map and writes its gates in an order Go chooses anew: a
\* node whose custom data changed would be replaced.
SamePayload == calls > 0 => payload' = payload
Repeatable == [][SamePayload]_vars

\* "kubelet flags that will be translated into config file" (utils.go:30): a
\* flag of that list which the caller sets is in force.
TranslatedIsInForce ==
    calls > 0 => \A f \in DOMAIN asked \cap TranslatedKubeletConfigFlags :
        Own(f) => InForce(f) = asked[f]

\* The same comment, for the switches the file does carry.
SwitchesAreInForce ==
    calls > 0 => \A f \in DOMAIN asked \cap SwitchFlags : Own(f) => InForce(f) = asked[f]

=============================================================================
