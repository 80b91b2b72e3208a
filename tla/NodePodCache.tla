---------------------------- MODULE NodePodCache ----------------------------
(***************************************************************************)
(* The node -> pods index of pkg/k8s/cache/node_pod_cache.go, fed by the   *)
(* pod informer of pkg/k8s/cache/cache.go.                                 *)
(*                                                                         *)
(* server     : the API server's pods, name -> [uid, node]; NoNode while   *)
(*              pending.  A name may be reused by a new pod (a new UID).   *)
(* store      : the informer's store, keyed by name like the server.       *)
(* watching   : FALSE while the watch is broken; changes then reach the    *)
(*              store only through the relist (Replace) that follows.      *)
(* queue      : notifications queued for the nodePodCache handler.         *)
(* podsOnNode : node -> set of pod UIDs, a node without pods has no entry. *)
(***************************************************************************)
EXTENDS Naturals, SequencesExt

CONSTANTS
    Names,          \* namespace/name keys of pods
    Nodes,          \* node names
    NoNode,         \* spec.nodeName = ""
    MaxIncarnation, \* pods created under one name
    MaxGaps,        \* watch breaks followed by a relist
    MaxQueue        \* watch notifications the handler may lag behind by

VARIABLES server, store, watching, queue, podsOnNode, incarnation, gaps

vars == <<server, store, watching, queue, podsOnNode, incarnation, gaps>>

ASSUME NoNode \notin Nodes

UIDs == Names \X (1 .. MaxIncarnation)

Pod == [uid: UIDs, node: Nodes \cup {NoNode}]

NoPod == [uid |-> <<"none", 0>>, node |-> NoNode]

PodEvent == [kind: {"add", "update", "delete", "tombstone"},
             old: Pod \cup {NoPod}, new: Pod]

NoEntries == [x \in {} |-> x]

-----------------------------------------------------------------------------
(* doAdd and doDelete                                                      *)

DoAdd(idx, pod) ==
    IF pod.node \in DOMAIN idx THEN [idx EXCEPT ![pod.node] = @ \cup {pod.uid}]
    ELSE (pod.node :> {pod.uid}) @@ idx

\* doDelete without the removal of the emptied entry.
DoDeleteNoGC(idx, pod) ==
    IF pod.node \in DOMAIN idx THEN [idx EXCEPT ![pod.node] = @ \ {pod.uid}]
    ELSE idx

\* delete(c.podsOnNode[nodename], uid), then drop the entry once empty.
DoDelete(idx, pod) ==
    LET rest == IF pod.node \in DOMAIN idx THEN idx[pod.node] \ {pod.uid} ELSE {}
    IN  IF rest = {} THEN [x \in DOMAIN idx \ {pod.node} |-> idx[x]]
        ELSE [idx EXCEPT ![pod.node] = rest]

-----------------------------------------------------------------------------
(* The API server and the informer.  While watching, a change reaches the  *)
(* store and is queued for handlers at once.                               *)

Watch(e) ==
    IF watching
    THEN /\ Len(queue) < MaxQueue
         /\ store' = server'
         /\ queue' = Append(queue, e)
    ELSE UNCHANGED <<store, queue>>

CreatePod(name, n) ==
    /\ name \notin DOMAIN server
    /\ incarnation[name] < MaxIncarnation
    /\ incarnation' = [incarnation EXCEPT ![name] = @ + 1]
    /\ server' = (name :> [uid |-> <<name, incarnation[name] + 1>>, node |-> n]) @@ server
    /\ Watch([kind |-> "add", old |-> NoPod, new |-> server'[name]])
    /\ UNCHANGED <<watching, podsOnNode, gaps>>

\* The scheduler binds a pending pod (nodeName is set once, never changed).
BindPod(name, n) ==
    /\ name \in DOMAIN server
    /\ server[name].node = NoNode
    /\ server' = [server EXCEPT ![name].node = n]
    /\ Watch([kind |-> "update", old |-> server[name], new |-> server'[name]])
    /\ UNCHANGED <<watching, podsOnNode, incarnation, gaps>>

DeletePod(name) ==
    /\ name \in DOMAIN server
    /\ server' = [x \in DOMAIN server \ {name} |-> server[x]]
    /\ Watch([kind |-> "delete", old |-> NoPod, new |-> server[name]])
    /\ UNCHANGED <<watching, podsOnNode, incarnation, gaps>>

WatchBreaks ==
    /\ watching
    /\ gaps < MaxGaps
    /\ watching' = FALSE
    /\ gaps' = gaps + 1
    /\ UNCHANGED <<server, store, queue, podsOnNode, incarnation>>

\* Replace: every listed pod is delivered as an update if its key is in
\* the store and as an add otherwise; every stored key the list lacks as a
\* DeletedFinalStateUnknown tombstone.
Relist ==
    /\ ~watching
    /\ watching' = TRUE
    /\ store' = server
    /\ LET listed == SetToSeq(DOMAIN server)
           gone == SetToSeq(DOMAIN store \ DOMAIN server)
           Listed(x) == IF x \in DOMAIN store
                        THEN [kind |-> "update", old |-> store[x], new |-> server[x]]
                        ELSE [kind |-> "add", old |-> NoPod, new |-> server[x]]
       IN  queue' = queue \o [i \in DOMAIN listed |-> Listed(listed[i])]
                          \o [i \in DOMAIN gone |->
                                [kind |-> "tombstone", old |-> NoPod, new |-> store[gone[i]]]]
    /\ UNCHANGED <<server, podsOnNode, incarnation, gaps>>

-----------------------------------------------------------------------------
(* The nodePodCache handler (Add, Update, Delete), under its mutex.        *)

HandleAdd ==
    /\ queue # <<>>
    /\ Head(queue).kind = "add"
    /\ podsOnNode' = IF Head(queue).new.node # NoNode
                     THEN DoAdd(podsOnNode, Head(queue).new) ELSE podsOnNode
    /\ queue' = Tail(queue)
    /\ UNCHANGED <<server, store, watching, incarnation, gaps>>

\* Update with the branch for a newly assigned node left out.
HandleUpdateNoBind ==
    /\ queue # <<>>
    /\ Head(queue).kind = "update"
    /\ LET o == Head(queue).old
           p == Head(queue).new
       IN  podsOnNode' =
             CASE o.uid # p.uid -> podsOnNode
               [] o.node # NoNode /\ p.node = NoNode -> DoDelete(podsOnNode, o)
               [] o.node # NoNode /\ o.node # p.node -> DoAdd(DoDelete(podsOnNode, o), p)
               [] OTHER -> podsOnNode
    /\ queue' = Tail(queue)
    /\ UNCHANGED <<server, store, watching, incarnation, gaps>>

\* Update: an update whose UID changed is dropped; otherwise the pod is
\* unassigned, assigned, or moved.
HandleUpdate ==
    /\ queue # <<>>
    /\ Head(queue).kind = "update"
    /\ LET o == Head(queue).old
           p == Head(queue).new
       IN  podsOnNode' =
             CASE o.uid # p.uid -> podsOnNode
               [] o.node # NoNode /\ p.node = NoNode -> DoDelete(podsOnNode, o)
               [] o.node = NoNode /\ p.node # NoNode -> DoAdd(podsOnNode, p)
               [] o.node # NoNode /\ o.node # p.node -> DoAdd(DoDelete(podsOnNode, o), p)
               [] OTHER -> podsOnNode
    /\ queue' = Tail(queue)
    /\ UNCHANGED <<server, store, watching, incarnation, gaps>>

\* Delete: a tombstone fails the type assertion to *v1.Pod and is dropped.
HandleDelete ==
    /\ queue # <<>>
    /\ Head(queue).kind \in {"delete", "tombstone"}
    /\ podsOnNode' = IF Head(queue).kind = "delete" /\ Head(queue).new.node # NoNode
                     THEN DoDelete(podsOnNode, Head(queue).new) ELSE podsOnNode
    /\ queue' = Tail(queue)
    /\ UNCHANGED <<server, store, watching, incarnation, gaps>>

-----------------------------------------------------------------------------
Init ==
    /\ server = NoEntries
    /\ store = NoEntries
    /\ watching = TRUE
    /\ queue = <<>>
    /\ podsOnNode = NoEntries
    /\ incarnation = [x \in Names |-> 0]
    /\ gaps = 0

Next ==
    \/ \E name \in Names, n \in Nodes \cup {NoNode} : CreatePod(name, n)
    \/ \E name \in Names, n \in Nodes : BindPod(name, n)
    \/ \E name \in Names : DeletePod(name)
    \/ WatchBreaks \/ Relist
    \/ HandleAdd \/ HandleUpdate \/ HandleDelete

Spec == Init /\ [][Next]_vars

-----------------------------------------------------------------------------
(* Properties                                                              *)

TypeOK ==
    /\ DOMAIN server \subseteq Names /\ \A x \in DOMAIN server : server[x] \in Pod
    /\ DOMAIN store \subseteq Names /\ \A x \in DOMAIN store : store[x] \in Pod
    /\ watching \in BOOLEAN
    /\ queue \in Seq(PodEvent)
    /\ DOMAIN podsOnNode \subseteq Nodes
    /\ \A n \in DOMAIN podsOnNode : podsOnNode[n] \in (SUBSET UIDs) \ {{}}
    /\ incarnation \in [Names -> 0 .. MaxIncarnation]
    /\ gaps \in 0 .. MaxGaps

\* The UIDs of the stored pods assigned to node n.
OnNode(n) == {store[x].uid : x \in {x \in DOMAIN store : store[x].node = n}}

Indexed(n) == IF n \in DOMAIN podsOnNode THEN podsOnNode[n] ELSE {}

\* Once the handler has caught up with the informer, GetPodsOnNode lists
\* every stored pod assigned to the node: adds and assignments are indexed.
IndexComplete ==
    queue = <<>> => \A n \in Nodes : OnNode(n) \subseteq Indexed(n)
=============================================================================
