---------------------------- MODULE MC_Placement ----------------------------
(***************************************************************************)
(* Instances of Placement for TLC: two nodes, two ESXi hosts, two pods.    *)
(* Pod p1 carries label la and runs on n1; p2 carries lb and is pending.   *)
(* The race instance adds n3 and binds p2 to n2, so that a call matches    *)
(* pods on two nodes, and so on two hosts.                                 *)
(***************************************************************************)
EXTENDS Placement

CONSTANTS n1, n2, n3, h1, h2, p1, p2, la, lb

MCPodLabels == (p1 :> {la}) @@ (p2 :> {lb})

MCPodNode == (p1 :> n1) @@ (p2 :> NoNode)

T(key, label) == [key |-> key, label |-> label]

\* The terms of filtered pods: none, one or two host terms, a host term
\* beside a term of another key, and a host term that does not parse.
MCTermSets ==
    {NoTerms, {T(HostKey, la)}, {T(HostKey, lb)}, {T(HostKey, la), T(HostKey, lb)},
     {T(HostKey, la), T(OtherKey, lb)}, {T(HostKey, Invalid), T(HostKey, la)}}

\* NodeNames: both nodes, one of them, or none sent.
MCCandidates == {Nodes, {n2}, NilNodes}

\* The same with a pod whose only term has another key.
MCTermSetsOther == MCTermSets \cup {{T(OtherKey, lb)}}
\* Both pods bound, on different nodes.
MCPodNodeBound == (p1 :> n1) @@ (p2 :> n2)

\* A pod whose anti-affinity terms match both pods, sent with every node.
MCTermSetsRace == {{T(HostKey, la), T(HostKey, lb)}}

MCCandidatesAll == {Nodes}
=============================================================================
