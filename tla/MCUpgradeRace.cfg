\* Two processes race for one component; one kill or loss of power and one
\* failing call, anywhere.
CONSTANTS
    v1 = v1
    v2 = v2
    v3 = v3
    edgi = edgi
    k3s = k3s
    kernel = kernel
    NoVersion = NoVersion
    NoProcess = NoProcess
    Key = {edgi}
    Version = {v1, v2, v3}
    Shipped = {edgi}
    Process = {plan, console}
    Components <- OneComponent
    Job <- ThreeImages
    Faulty <- AllCalls
    MaxFaults = 1
    MaxKills = 1
SPECIFICATION Spec
INVARIANTS
    IInv
    CurrentComplete
    RollbackKept
    NoLeftovers
PROPERTIES
    FlipKeepsRollback
    SwitchesVersions
