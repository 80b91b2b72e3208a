\* Two nodes on two hosts, starting with any placement and any labels:
\* one migration, one lookup falling back to "", one failed RetrieveOne
\* and one Update whose patches both fail.
CONSTANTS
    n1 = n1  n2 = n2  h1 = h1  h2 = h2
    Nodes = {n1, n2}
    Hosts = {h1, h2}
    NoHost = NoHost
    NoVM = NoVM
    MaxMoves = 1
    MaxForgets = 1
    MaxRetrieveFailures = 1
    MaxPatchFailures = 1
SPECIFICATION Spec
INVARIANT TypeOK
PROPERTY LabelFollowsHost
