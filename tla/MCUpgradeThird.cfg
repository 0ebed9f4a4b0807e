\* No call fails of itself, nothing is killed, nothing reboots.
CONSTANTS
    v1 = v1
    v2 = v2
    v3 = v3
    edgi = edgi
    k3s = k3s
    kernel = kernel
    NoVersion = NoVersion
    NoProcess = NoProcess
    Key = {edgi}
    Version = {v1, v2}
    Shipped = {edgi}
    Process = {plan}
    Components <- OneComponent
    Job <- ToAndFroByHand
    Faulty = {}
    MaxFaults = 0
    MaxKills = 0
SPECIFICATION Spec
INVARIANT MovesCurrent
