\* Machines with hostnames of their own, two renames, the node handler
\* lagging by up to three notifications, callers racing both caches.
CONSTANTS
    n1 = n1  n2 = n2  v1 = v1  v2 = v2  h1 = h1  h2 = h2  h3 = h3
    Nodes = {n1, n2}
    VMs = {v1, v2}
    NoVM = NoVM
    Idle = Idle
    NoName = NoName
    NodeVM <- MCNodeVM
    Hostnames = {h1, h2, h3}
    NamesOf <- MCNamesOwn
    MaxRenames = 2
    MaxQueue = 3
SPECIFICATION Spec
INVARIANT TypeOK
PROPERTY LookupSpec
CHECK_DEADLOCK FALSE
