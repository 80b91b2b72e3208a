---------------------------- MODULE MC_DRSRuler ----------------------------
(***************************************************************************)
(* Instances of DRSRuler for TLC.  Pod a is an anchor without affinity;    *)
(* pod b requires host affinity to a and pod c host anti-affinity to a     *)
(* (the objects of TestDRSRulerDesiredRules).  Two nodes on two VMs.       *)
(***************************************************************************)
EXTENDS DRSRuler, TLC

CONSTANTS a, b, c, n1, n2, v1, v2

MCNodeVM == (n1 :> v1) @@ (n2 :> v2)

MCRuleNames == {<<k, p>> : k \in {"affi", "anti"}, p \in Pods}

MCKeys == 1 .. 2 * Cardinality(MCRuleNames)

NoTerms == [podAffinity |-> FALSE, podAntiAffinity |-> FALSE,
            affinityTerms |-> {}, antiAffinityTerms |-> {}]

ToAnchor(host) == {[host |-> host, matches |-> {a}]}

\* b: podAffinity to a on the host label; c: podAntiAffinity to a.
\* Restricted to the pods of the run.
MCPodSpec ==
    [p \in Pods |->
        CASE p = b -> [NoTerms EXCEPT !.podAffinity = TRUE,
                                      !.affinityTerms = ToAnchor(TRUE)]
          [] p = c -> [NoTerms EXCEPT !.podAntiAffinity = TRUE,
                                      !.antiAffinityTerms = ToAnchor(TRUE)]
          [] OTHER -> NoTerms]

NoClusterRules == <<>>

\* Bound for the runs in which a pass may outrun the rule stream.
ClusterBound == Len(cluster) <= 3
=============================================================================
