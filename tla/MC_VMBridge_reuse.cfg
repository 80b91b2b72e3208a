\* A replacement machine comes up under the hostname of a stopped one.
CONSTANTS
    n1 = n1  n2 = n2  v1 = v1  v2 = v2  h1 = h1  h2 = h2  h3 = h3
    Nodes = {n1, n2}
    VMs = {v1, v2}
    NoVM = NoVM
    Idle = Idle
    NoName = NoName
    NodeVM <- MCNodeVM
    Hostnames = {h1, h2, h3}
    NamesOf <- MCNamesReused
    MaxRenames = 1
    MaxQueue = 2
SPECIFICATION Spec
PROPERTY NodeResolves
CHECK_DEADLOCK FALSE
