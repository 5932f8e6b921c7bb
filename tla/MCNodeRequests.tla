--------------------------- MODULE MCNodeRequests ---------------------------
EXTENDS NodeRequests

\* The sets the constants are made of, read from the sides before they have any.
TheFlags == INSTANCE KubeletFlags WITH
    GateLists <- {}, FlagSets <- {}, CustomSets <- {}, MaxCalls <- 0,
    os <- 0, fileEnabled <- 0, customKc <- 0, token <- 0, asked <- 0, kubeletConfig <- 0,
    isNil <- 0, gates <- 0, payload <- 0, calls <- 0
ThePools == INSTANCE PoolTemplates WITH
    PoolLists <- {}, cluster <- 0, pools <- 0, at <- 0, pool <- 0, payload <- 0, node <- 0
TheImages == INSTANCE NodeImages WITH
    Clouds <- {}, Regions <- {}, Galleries <- {},
    request <- 0, at <- 0, payload <- 0, sigCloud <- 0, images <- 0, node <- 0

\* No gates, a gate named twice, and the gate the code turns off.
MCGateLists == {<<>>,
                <<<<"Rotate", TRUE>>, <<"Rotate", FALSE>>>>,
                <<<<"DynamicKubeletConfig", TRUE>>, <<"TopologyManager", FALSE>>>>}

\* A map sets one flag, none, or all of them together.
OneOrAll(S) == {{f} : f \in S} \cup {{}, S}
MCFlagSets == OneOrAll(TheFlags!Flags)
MCCustomSets == OneOrAll(TheFlags!CustomFlags \cup TheFlags!Overridden)

\* One pool with everything it can set, or two that differ in what the sources read
\* differently.
PlainPools == {p \in ThePools!PoolSettings :
                  p.dataDir = "none" /\ p.disk = "unset" /\ p.runtime # "kata-containers"}
SomePools == {p \in ThePools!PoolSettings : p.disk # "OS" /\ ~p.scaleSet}
MCPoolLists == {<<p>> : p \in SomePools} \cup {<<p, q>> : p \in PlainPools, q \in PlainPools}

\* A cloud that no table knows, and galleries that are not given in full.
MCClouds == {"AzurePublicCloud", "AzureChinaCloud", "AzureGermanCloud",
             "AzureUSGovernmentCloud", "USNatCloud"}
MCRegions == {"westus2", "chinaeast2", "germanycentral", "usgovvirginia", "usdodeast",
              "usnateast", "usseceast"}
MCGalleries == {TheImages!FullConfig, {"AKSUbuntu", "ids"}, TheImages!FullConfig \ {"ids"}}

\* Release 8, whose last patches Windows lost but for one, and 9, the default, with a
\* release candidate of a patch.
MCVersions == {<<8, 12, 1>>, <<8, 13, 1>>, <<9, 0, 0>>, <<9, 0, 1>>, <<9, 1, 1>>}
MCNotOnWindows == {<<8, 13, 1>>, <<9, 0, 0>>}
MCWindowsOnly == <<8, 12, 1>>
MCDefaultRelease == [b \in BOOLEAN |-> 9]
=============================================================================
