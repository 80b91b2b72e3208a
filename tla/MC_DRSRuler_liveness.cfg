\* Passes keep retrying: rules of deleted pods leave the cluster and
\* installable desired rules get installed, under the fairness of FairSpec.
CONSTANTS
    a = a  b = b  c = c  n1 = n1  n2 = n2  v1 = v1  v2 = v2
    Pods = {a, b}
    Nodes = {n1, n2}
    VMs = {v1, v2}
    NoNode = NoNode
    NoVM = NoVM
    NodeVM <- MCNodeVM
    RuleNames <- MCRuleNames
    Keys <- MCKeys
    PodSpec <- MCPodSpec
    InitCluster <- NoClusterRules
    InitResolved = {}
    TickAfterRefresh = TRUE
    WatchGaps = FALSE
    MaxRestarts = 1
    MaxFailures = 1
    MaxForgets = 0
    MaxQueue = 0
SPECIFICATION FairSpec
PROPERTY DeletedPodRulesRemoved
PROPERTY DesiredRuleInstalled
