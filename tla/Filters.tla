------------------------------ MODULE Filters ------------------------------
(***************************************************************************)
(* The selector algebra of pkg/selector/selector.go and the pure parts of  *)
(* the pod anti-affinity filter (pkg/algorithm/filters/                    *)
(* pod_anti_affinity.go) and of SchedCache.ListPod.                        *)
(*                                                                         *)
(* A selector is represented by the set of store pods it matches, so And   *)
(* and Or act on sets of such sets.  A pod's labels are a set of labels,   *)
(* and a term's label selector asks for one label (matchLabels).           *)
(***************************************************************************)
CONSTANTS
    Pods,       \* the pods in the informer's store
    PodLabels,  \* pod -> its labels
    PodNode,    \* pod -> spec.nodeName, NoNode while pending
    NoNode,     \* ""
    Labels,     \* label key=value pairs
    Invalid,    \* a label selector LabelSelectorAsSelector rejects
    HostKey,    \* the host topology label
    OtherKey,   \* any other topology key, e.g. zone
    NoTerms     \* RequiredDuringScheduling anti-affinity terms that are nil

Term == [key: {HostKey, OtherKey}, label: Labels \cup {Invalid}]

-----------------------------------------------------------------------------
(* selector.And and selector.Or: an empty group matches every pod.         *)

AndMatches(sels) == IF sels = {} THEN Pods ELSE {p \in Pods : \A s \in sels : p \in s}

OrMatches(sels) == IF sels = {} THEN Pods ELSE UNION sels

\* metav1.LabelSelectorAsSelector for a valid selector.
TermSelector(t) == {p \in Pods : t.label \in PodLabels[p]}

-----------------------------------------------------------------------------
(* The first half of Filter: the host terms are parsed into an Or, the     *)
(* store is listed, and the nodes of the matched pods make nodeMap.        *)

HostTerms(terms) == {t \in terms : t.key = HostKey}

\* A host term whose selector does not parse makes Filter return an error.
ParseFails(terms) == \E t \in HostTerms(terms) : t.label = Invalid

\* The host terms joined by selector.And, as the affinity side joins them.
MatchedPodsAnd(terms) == AndMatches({TermSelector(t) : t \in HostTerms(terms)})

\* ListPod(selectors) with selectors the Or of the host terms.
MatchedPods(terms) == OrMatches({TermSelector(t) : t \in HostTerms(terms)})

\* The nodes the matched pods are bound to.
PodNodes(pods) == {PodNode[p] : p \in pods} \ {NoNode}

-----------------------------------------------------------------------------
(* The placement rule the filter is for: the pod may not share a node, or  *)
(* a host, with a pod matched by one of its host-topology terms; terms     *)
(* with another topology key are ignored.  hostOf is the node -> host map  *)
(* of the cache (a node without a host label is absent from it).           *)

CoHosted(nodes, hostOf) ==
    nodes \cup {x \in DOMAIN hostOf :
                  \E m \in nodes \cap DOMAIN hostOf : hostOf[x] = hostOf[m]}

Forbidden(terms, hostOf) ==
    IF terms = NoTerms \/ HostTerms(terms) = {} THEN {}
    ELSE CoHosted(PodNodes({p \in Pods : \E t \in HostTerms(terms) :
                                            p \in TermSelector(t)}), hostOf)
=============================================================================
