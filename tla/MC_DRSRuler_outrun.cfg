\* A pass may start before the rule stream reported the last pass or the restart.
CONSTANTS
    a = a  b = b  c = c  n1 = n1  n2 = n2  v1 = v1  v2 = v2
    Pods = {a, b}
    Nodes = {n1, n2}
    VMs = {v1, v2}
    NoNode = NoNode
    NoVM = NoVM
    NodeVM <- MCNodeVM
    RuleNames <- MCRuleNames
    Keys <- MCKeys
    PodSpec <- MCPodSpec
    InitCluster <- NoClusterRules
    InitResolved = {n1, n2}
    TickAfterRefresh = FALSE
    WatchGaps = FALSE
    MaxRestarts = 1
    MaxFailures = 0
    MaxForgets = 0
    MaxQueue = 0
SPECIFICATION Spec
INVARIANT NoDuplicateRuleNames
CONSTRAINT ClusterBound
