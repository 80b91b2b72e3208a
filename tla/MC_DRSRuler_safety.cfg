\* Every interleaving of pod events, handler, rule stream, one restart and
\* failing vSphere calls, with passes started after the stream caught up.
CONSTANTS
    a = a  b = b  c = c  n1 = n1  n2 = n2  v1 = v1  v2 = v2
    Pods = {a, b}
    Nodes = {n1, n2}
    VMs = {v1, v2}
    NoNode = NoNode
    NoVM = NoVM
    NodeVM <- MCNodeVM
    RuleNames <- MCRuleNames
    Keys <- MCKeys
    PodSpec <- MCPodSpec
    InitCluster <- NoClusterRules
    InitResolved = {}
    TickAfterRefresh = TRUE
    WatchGaps = TRUE
    MaxRestarts = 1
    MaxFailures = 1
    MaxForgets = 1
    MaxQueue = 1
SPECIFICATION Spec
INVARIANT TypeOK
INVARIANT NoDuplicateRuleNames
