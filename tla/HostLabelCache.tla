--------------------------- MODULE HostLabelCache ---------------------------
(***************************************************************************)
(* The node <-> host label index of pkg/k8s/cache/host_label_cache.go,     *)
(* fed by the node informer.                                               *)
(*                                                                         *)
(* labels      : the node informer's store, node -> value of the host      *)
(*               label (NoHost when the label is absent or "").            *)
(* queue       : notifications queued for the hostLabelCache handler,      *)
(*               which runs after the store has changed.                   *)
(* nodeToHost  : partial function node -> host.                            *)
(* hostToNodes : host -> set of nodes; a host never added reads as the     *)
(*               empty set, as a nil Go map does in GetNodes.              *)
(***************************************************************************)
EXTENDS Naturals, SequencesExt

CONSTANTS
    Nodes,        \* node names
    Hosts,        \* values of the host label
    NoHost,       \* label absent or ""
    WatchGaps,    \* a delete may reach handlers as a tombstone
    MaxQueue,     \* notifications the handler may lag behind by
    MaxRestarts   \* process restarts

VARIABLES labels, queue, nodeToHost, hostToNodes, restarts

vars == <<labels, queue, nodeToHost, hostToNodes, restarts>>

ASSUME NoHost \notin Hosts

NodeEvent == [kind: {"add", "update", "delete", "tombstone"}, node: Nodes,
              old: Hosts \cup {NoHost}, host: Hosts \cup {NoHost}]

Cache == [nodeToHost |-> nodeToHost, hostToNodes |-> hostToNodes]

SetCache(c) == nodeToHost' = c.nodeToHost /\ hostToNodes' = c.hostToNodes

NoNodes == [n \in {} |-> n]

-----------------------------------------------------------------------------
(* addNodeHost and removeNodeHost: an empty host is ignored.               *)

\* addNodeHost without its check for an empty host.
AddNodeHostEmpty(c, n, h) ==
    [nodeToHost |-> (n :> h) @@ c.nodeToHost,
     hostToNodes |-> IF h \in Hosts THEN [c.hostToNodes EXCEPT ![h] = @ \cup {n}]
                                    ELSE c.hostToNodes]

AddNodeHost(c, n, h) ==
    IF h = NoHost THEN c
    ELSE [nodeToHost |-> (n :> h) @@ c.nodeToHost,
          hostToNodes |-> [c.hostToNodes EXCEPT ![h] = @ \cup {n}]]

\* removeNodeHost without the delete from hostToNodes[host].
RemoveNodeHostKeepIndex(c, n, h) ==
    IF h = NoHost THEN c
    ELSE [c EXCEPT !.nodeToHost = [x \in DOMAIN @ \ {n} |-> @[x]]]

RemoveNodeHost(c, n, h) ==
    IF h = NoHost THEN c
    ELSE [nodeToHost |-> [x \in DOMAIN c.nodeToHost \ {n} |-> c.nodeToHost[x]],
          hostToNodes |-> [c.hostToNodes EXCEPT ![h] = @ \ {n}]]

-----------------------------------------------------------------------------
(* The node informer: the store changes, then the handler is notified.     *)

Notify(e) == /\ Len(queue) < MaxQueue
             /\ queue' = Append(queue, e)

AddNode(n, h) ==
    /\ n \notin DOMAIN labels
    /\ labels' = (n :> h) @@ labels
    /\ Notify([kind |-> "add", node |-> n, old |-> NoHost, host |-> h])
    /\ UNCHANGED <<nodeToHost, hostToNodes, restarts>>

\* The host label of a node is set, changed or removed.
Relabel(n, h) ==
    /\ n \in DOMAIN labels
    /\ labels[n] # h
    /\ labels' = [labels EXCEPT ![n] = h]
    /\ Notify([kind |-> "update", node |-> n, old |-> labels[n], host |-> h])
    /\ UNCHANGED <<nodeToHost, hostToNodes, restarts>>

\* After a relist, a delete the watch missed reaches handlers as a
\* DeletedFinalStateUnknown tombstone instead of the *v1.Node.
DeleteNode(n) ==
    /\ n \in DOMAIN labels
    /\ labels' = [x \in DOMAIN labels \ {n} |-> labels[x]]
    /\ \E kind \in IF WatchGaps THEN {"delete", "tombstone"} ELSE {"delete"} :
          Notify([kind |-> kind, node |-> n, old |-> NoHost, host |-> labels[n]])
    /\ UNCHANGED <<nodeToHost, hostToNodes, restarts>>

-----------------------------------------------------------------------------
(* The hostLabelCache handler (Add, Update, Delete), under its mutex.      *)

HandleAdd ==
    /\ queue # <<>>
    /\ Head(queue).kind = "add"
    /\ SetCache(AddNodeHost(Cache, Head(queue).node, Head(queue).host))
    /\ queue' = Tail(queue)
    /\ UNCHANGED <<labels, restarts>>

\* Update without the removal of the old binding.
HandleUpdateNoRemove ==
    /\ queue # <<>>
    /\ Head(queue).kind = "update"
    /\ LET e == Head(queue) IN
         IF e.old # e.host THEN SetCache(AddNodeHost(Cache, e.node, e.host))
                           ELSE UNCHANGED <<nodeToHost, hostToNodes>>
    /\ queue' = Tail(queue)
    /\ UNCHANGED <<labels, restarts>>

\* Update: a changed label moves the node, the old binding removed first.
HandleUpdate ==
    /\ queue # <<>>
    /\ Head(queue).kind = "update"
    /\ LET e == Head(queue) IN
         IF e.old # e.host
         THEN SetCache(AddNodeHost(RemoveNodeHost(Cache, e.node, e.old),
                                   e.node, e.host))
         ELSE UNCHANGED <<nodeToHost, hostToNodes>>
    /\ queue' = Tail(queue)
    /\ UNCHANGED <<labels, restarts>>

\* Delete: a tombstone fails the type assertion to *v1.Node and is dropped.
HandleDelete ==
    /\ queue # <<>>
    /\ Head(queue).kind \in {"delete", "tombstone"}
    /\ IF Head(queue).kind = "delete"
       THEN SetCache(RemoveNodeHost(Cache, Head(queue).node, Head(queue).host))
       ELSE UNCHANGED <<nodeToHost, hostToNodes>>
    /\ queue' = Tail(queue)
    /\ UNCHANGED <<labels, restarts>>

-----------------------------------------------------------------------------
(* A process restart: the cache is rebuilt from the informer's initial     *)
(* list, one add per stored node, in some order.                           *)

Restart ==
    /\ restarts < MaxRestarts
    /\ restarts' = restarts + 1
    /\ \E order \in SetToSeqs(DOMAIN labels) :
          queue' = [i \in DOMAIN order |->
                      [kind |-> "add", node |-> order[i], old |-> NoHost,
                       host |-> labels[order[i]]]]
    /\ nodeToHost' = NoNodes
    /\ hostToNodes' = [h \in Hosts |-> {}]
    /\ UNCHANGED labels

Init ==
    /\ labels = NoNodes
    /\ queue = <<>>
    /\ nodeToHost = NoNodes
    /\ hostToNodes = [h \in Hosts |-> {}]
    /\ restarts = 0

Next ==
    \/ \E n \in Nodes, h \in Hosts \cup {NoHost} : AddNode(n, h) \/ Relabel(n, h)
    \/ \E n \in Nodes : DeleteNode(n)
    \/ HandleAdd \/ HandleUpdate \/ HandleDelete
    \/ Restart

Spec == Init /\ [][Next]_vars

-----------------------------------------------------------------------------
(* Properties                                                              *)

TypeOK ==
    /\ labels \in [DOMAIN labels -> Hosts \cup {NoHost}]
    /\ DOMAIN labels \subseteq Nodes
    /\ queue \in Seq(NodeEvent) /\ Len(queue) <= MaxQueue
    /\ DOMAIN nodeToHost \subseteq Nodes
    /\ \A n \in DOMAIN nodeToHost : nodeToHost[n] \in Hosts
    /\ hostToNodes \in [Hosts -> SUBSET Nodes]
    /\ restarts \in 0 .. MaxRestarts

\* The two indices agree: nodeToHost[n] = h exactly when n is in
\* hostToNodes[h], so GetHost and GetNodes give the same answer.  Update
\* must remove the old binding before adding the new one, and Delete must
\* see every deleted node.
HostIndexConsistent ==
    \A n \in Nodes, h \in Hosts :
        (n \in DOMAIN nodeToHost /\ nodeToHost[n] = h) <=> n \in hostToNodes[h]

\* GetHost's view of the store: the stored nodes with a host label.
Labelled == {n \in DOMAIN labels : labels[n] # NoHost}

\* The store change a notification announces, applied to a node -> host
\* view: the node takes its new label, or leaves the view when it is
\* deleted or its label is removed.
Announce(view, e) ==
    IF e.kind \in {"add", "update"} /\ e.host # NoHost
    THEN (e.node :> e.host) @@ view
    ELSE [x \in DOMAIN view \ {e.node} |-> view[x]]

\* The announced changes of a queue applied in order (FoldLeft of
\* SequencesExt, written out: TLC evaluates it once per state).
RECURSIVE Replay(_, _)
Replay(view, q) ==
    IF q = <<>> THEN view ELSE Replay(Announce(view, Head(q)), Tail(q))

\* In every state, GetHost lags the store by exactly the notifications
\* still queued: replaying them, as the store changes they announce, onto
\* nodeToHost gives the stored host labels.  The handler's add, update and
\* delete, and the rebuild after a restart, must each make precisely the
\* change of the store they are told of, whatever is still pending behind.
CacheReplaysToStore ==
    Replay(nodeToHost, queue) = [n \in Labelled |-> labels[n]]
=============================================================================
