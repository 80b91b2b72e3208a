\* Pods created pending or bound, bound later and deleted, with the handler
\* lagging; the watch breaks once and the informer relists.  Each name is
\* used by one pod only.  Deadlock is not checked: once every name has been
\* used up, the API server is idle and the informer and handler wait, as the
\* program does.
CONSTANTS
    p = p  q = q  n1 = n1  n2 = n2
    Names = {p, q}
    Nodes = {n1, n2}
    NoNode = NoNode
    MaxIncarnation = 1
    MaxGaps = 1
    MaxQueue = 3
SPECIFICATION Spec
CHECK_DEADLOCK FALSE
INVARIANT TypeOK
INVARIANT IndexComplete
