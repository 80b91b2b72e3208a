\* Drift: the anchor pod binds after b's rule was installed; all VMs resolved.
CONSTANTS
    a = a  b = b  c = c  n1 = n1  n2 = n2  v1 = v1  v2 = v2
    Pods = {a, b}
    Nodes = {n1, n2}
    VMs = {v1, v2}
    NoNode = NoNode
    NoVM = NoVM
    NodeVM <- MCNodeVM
    RuleNames <- MCRuleNames
    Keys <- MCKeys
    PodSpec <- MCPodSpec
    InitCluster <- NoClusterRules
    InitResolved = {n1, n2}
    TickAfterRefresh = TRUE
    WatchGaps = FALSE
    MaxRestarts = 0
    MaxFailures = 0
    MaxForgets = 0
    MaxQueue = 0
SPECIFICATION FairSpec
PROPERTY Converges
