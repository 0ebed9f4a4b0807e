\* No call fails, but one run is killed.
CONSTANTS
    v1 = v1
    v2 = v2
    v3 = v3
    edgi = edgi
    k3s = k3s
    kernel = kernel
    NoVersion = NoVersion
    NoProcess = NoProcess
    Key = {edgi, kernel}
    Version = {v1, v2}
    Shipped = {edgi, kernel}
    Process = {plan}
    Components <- TwoComponents
    Job <- SameJob
    Faulty = {}
    MaxFaults = 0
    MaxKills = 1
SPECIFICATION Spec
INVARIANT RebootsIntoImage
