\* The same image over and over, by two processes, with a reboot each time it
\* was installed, on an installation without a kernel directory; one kill or
\* loss of power and two failing calls, anywhere.
CONSTANTS
    v1 = v1
    v2 = v2
    v3 = v3
    edgi = edgi
    k3s = k3s
    kernel = kernel
    NoVersion = NoVersion
    NoProcess = NoProcess
    Key = {edgi, k3s, kernel}
    Version = {v1, v2}
    Shipped = {edgi, k3s}
    Process = {plan, console}
    Components <- ThreeComponents
    Job <- SameImage
    Faulty <- AllCalls
    MaxFaults = 2
    MaxKills = 1
SPECIFICATION FairSpec
INVARIANT SyncedBeforeReboot
PROPERTIES
    RunEnds
    RetryConverges
    NoRebootLoop
