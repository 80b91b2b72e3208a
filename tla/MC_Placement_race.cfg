\* Three nodes, pods bound on n1 and n2: a call's lookups of two hosts
\* interleave with the handler moving a third node between them.
CONSTANTS
    n1 = n1  n2 = n2  n3 = n3  h1 = h1  h2 = h2  p1 = p1  p2 = p2  la = la  lb = lb
    Nodes = {n1, n2, n3}
    Hosts = {h1, h2}
    NoHost = NoHost
    WatchGaps = FALSE
    MaxQueue = 1
    MaxRestarts = 0
    Pods = {p1, p2}
    PodLabels <- MCPodLabels
    PodNode <- MCPodNodeBound
    NoNode = NoNode
    Labels = {la, lb}
    Invalid = Invalid
    HostKey = HostKey
    OtherKey = OtherKey
    NoTerms = NoTerms
    NilNodes = NilNodes
    Candidates <- MCCandidatesAll
    TermSets <- MCTermSetsRace
SPECIFICATION PlacementSpec
INVARIANT FilterExcludesCoHosts
