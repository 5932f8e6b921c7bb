--------------------------- MODULE MCWindowsSetup ---------------------------
EXTENDS WindowsSetup

\* An ordinary node, one with everything of the public cloud, and each corner of its own.
Ordinary == {"containerd", "tls", "scaleSet"}
MCNodes ==
    {Ordinary,
     Ordinary \cup {"calico", "csiProxy", "hostsAgent", "ssh", "gmsa", "secureTls",
                    "telemetry", "kubeBinaries"},
     Ordinary \cup {"cached", "calico", "csiProxy"},
     {"scaleSet", "hostsAgent", "cached"},                  \* docker
     Ordinary \cup {"customCloud", "azureStack", "k8s122"},
     {"containerd", "tls"}}                                  \* of no set
=============================================================================
