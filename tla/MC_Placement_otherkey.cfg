\* A pod whose only anti-affinity term has another topology key.
CONSTANTS
    n1 = n1  n2 = n2  n3 = n3  h1 = h1  h2 = h2  p1 = p1  p2 = p2  la = la  lb = lb
    Nodes = {n1, n2}
    Hosts = {h1, h2}
    NoHost = NoHost
    WatchGaps = FALSE
    MaxQueue = 3
    MaxRestarts = 1
    Pods = {p1, p2}
    PodLabels <- MCPodLabels
    PodNode <- MCPodNode
    NoNode = NoNode
    Labels = {la, lb}
    Invalid = Invalid
    HostKey = HostKey
    OtherKey = OtherKey
    NoTerms = NoTerms
    NilNodes = NilNodes
    Candidates <- MCCandidates
    TermSets <- MCTermSetsOther
SPECIFICATION PlacementSpec
INVARIANT FilterMatchesRule
