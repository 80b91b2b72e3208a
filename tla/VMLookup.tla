------------------------------ MODULE VMLookup ------------------------------
(***************************************************************************)
(* What the hostname/VM-id bridge (pkg/bridgecache) promises its callers,  *)
(* stated without the two caches it is built from.                         *)
(*                                                                         *)
(* live   : the nodes whose machine is running.                            *)
(* answer : node -> the VM id the last GetVMIDFromNode(node) returned,     *)
(*          NoVM for "".                                                   *)
(*                                                                         *)
(* A lookup may lag: it may answer "" for any node, and the VM of a node   *)
(* that has stopped, but it never answers another machine's VM, and a      *)
(* node that keeps running is eventually answered with its own VM.         *)
(***************************************************************************)
CONSTANTS
    Nodes,   \* node names, one machine each
    VMs,     \* VM ids
    NoVM,    \* ""
    NodeVM   \* the VM a node's machine runs in

VARIABLES live, answer

vars == <<live, answer>>

ASSUME NodeVM \in [Nodes -> VMs] /\ NoVM \notin VMs

Join(n) == /\ n \notin live
           /\ live' = live \cup {n}
           /\ UNCHANGED answer

Leave(n) == /\ n \in live
            /\ live' = live \ {n}
            /\ UNCHANGED answer

Resolve(n) == /\ answer' = [answer EXCEPT ![n] = NodeVM[n]]
              /\ UNCHANGED live

Forget(n) == /\ answer' = [answer EXCEPT ![n] = NoVM]
             /\ UNCHANGED live

Init == /\ live = {}
        /\ answer = [n \in Nodes |-> NoVM]

Next == \E n \in Nodes : Join(n) \/ Leave(n) \/ Resolve(n) \/ Forget(n)

(* Weak fairness of Resolve(n) while n is live.  Resolve is always allowed *)
(* by Next, so it is enabled exactly when n is live and answer[n] is not   *)
(* its VM, and WF_vars(n \in live /\ Resolve(n)) is the formula below.     *)
Resolution == \A n \in Nodes : []<>(n \notin live \/ answer[n] = NodeVM[n])

Spec == Init /\ [][Next]_vars /\ Resolution
=============================================================================
