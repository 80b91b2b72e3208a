------------------------------ MODULE DRSRuler ------------------------------
(***************************************************************************)
(* The reconciler of pkg/services/drs_ruler.go (DRSRuler) composed with    *)
(* the pod informer that feeds it, the node-to-VM bridge it reads and the  *)
(* rule client of AffinityClient.                                          *)
(*                                                                         *)
(* store      : the pod informer's store, pod -> spec.nodeName (NoNode     *)
(*              while pending); ListPod reads it.                          *)
(* queue      : notifications the shared informer has queued for the       *)
(*              DRSRuler handler; the handler runs on its own goroutine,   *)
(*              after the store has changed.                               *)
(* affinityPods, antiAffinityPods : the handler's maps, pod -> the         *)
(*              nodeName of the stored pod object.                         *)
(* resolved   : nodes for which GetVMIDFromNode gives the node's VM; for  *)
(*              the others it gives "" (VMLookup's Resolve and Forget).   *)
(* phase, actual, desired, todo, modifying : the position of the running  *)
(*              sync() pass and its local snapshots.                       *)
(***************************************************************************)
EXTENDS AffinityClient

CONSTANTS
    Pods,              \* pod UIDs
    Nodes,             \* node names
    NoNode,            \* spec.nodeName = ""
    NodeVM,            \* the VM backing each node
    PodSpec,           \* each pod's affinity section (immutable)
    InitCluster,       \* rules the cluster holds when the process starts
    InitResolved,      \* nodes the bridge resolves from the start
    TickAfterRefresh,  \* a pass starts only after the rule stream caught up
    WatchGaps,         \* a delete may reach handlers as a tombstone
    MaxRestarts,       \* process restarts
    MaxFailures,       \* vSphere calls that fail (transient errors)
    MaxForgets,        \* lookups of a resolved node that answer "" again
    MaxQueue           \* handler notifications a status update may queue behind

VARIABLES store, created, queue, affinityPods, antiAffinityPods, resolved,
          phase, actual, desired, todo, modifying, restarts, failures, forgets

podVars == <<store, created>>
rulerVars == <<queue, affinityPods, antiAffinityPods>>
passVars == <<phase, actual, desired, todo, modifying>>
envVars == <<restarts, failures, forgets>>
vars == <<clientVars, podVars, rulerVars, resolved, passVars, envVars>>

\* A required pod (anti-)affinity term: whether its topologyKey is the host
\* label, and the pods its label selector matches (labels never change).
Term == [host: BOOLEAN, matches: SUBSET Pods]

Notification == [kind: {"add", "update", "delete", "tombstone"},
                 pod: Pods, old: Nodes \cup {NoNode}, node: Nodes \cup {NoNode}]

ASSUME /\ NoNode \notin Nodes
       /\ NodeVM \in [Nodes -> VMs]
       /\ PodSpec \in [Pods -> [podAffinity: BOOLEAN, podAntiAffinity: BOOLEAN,
                                affinityTerms: SUBSET Term,
                                antiAffinityTerms: SUBSET Term]]
       /\ {<<k, p>> : k \in {"affi", "anti"}, p \in Pods} \subseteq RuleNames
       /\ Cardinality(Keys) >= 2 * Cardinality(RuleNames)

-----------------------------------------------------------------------------
(* Rule calculation                                                        *)

\* ruleName: "affi-<uid>" or "anti-<uid>".
RuleName(p, affinity) == IF affinity THEN <<"affi", p>> ELSE <<"anti", p>>

\* GetVMIDFromNode: "" until the bridge knows the node's VM.
VMIDFromNode(n) == IF n \in resolved THEN NodeVM[n] ELSE NoVM

\* The terms whose topologyKey is the host label; the others are skipped.
HostTerms(p, affinity) ==
    {t \in IF affinity THEN PodSpec[p].affinityTerms
                       ELSE PodSpec[p].antiAffinityTerms : t.host}

\* ListPod(selector.And{...}): an empty And matches every pod.
Matched(p, affinity) ==
    {q \in DOMAIN store : \A t \in HostTerms(p, affinity) : q \in t.matches}

\* calculateRules: a rule for each tracked pod with a matched pod, over the
\* VMs of the matched pods that have a node and of the pod's own node.
CalculateRules(tracked, affinity) ==
    LET withMatch == {p \in DOMAIN tracked : Matched(p, affinity) # {}}
    IN  [n \in {RuleName(p, affinity) : p \in withMatch} |->
           [name |-> n, affinity |-> affinity,
            vms |-> {VMIDFromNode(store[q]) :
                        q \in {q \in Matched(n[2], affinity) : store[q] # NoNode}}
                    \cup {VMIDFromNode(tracked[n[2]])}]]

\* desiredRules
DesiredRules ==
    CalculateRules(affinityPods, TRUE) @@ CalculateRules(antiAffinityPods, FALSE)

-----------------------------------------------------------------------------
(* Pod informer: the API server's changes, applied to the store and queued *)
(* for the handler.                                                         *)

CreatePod(p, n) ==
    /\ p \notin created
    /\ created' = created \cup {p}
    /\ store' = (p :> n) @@ store
    /\ queue' = Append(queue, [kind |-> "add", pod |-> p, old |-> NoNode, node |-> n])
    /\ UNCHANGED <<clientVars, affinityPods, antiAffinityPods, resolved, passVars, envVars>>

BindPod(p, n) ==
    /\ p \in DOMAIN store
    /\ store[p] = NoNode
    /\ store' = [store EXCEPT ![p] = n]
    /\ queue' = Append(queue, [kind |-> "update", pod |-> p, old |-> NoNode, node |-> n])
    /\ UNCHANGED <<clientVars, created, affinityPods, antiAffinityPods, resolved, passVars, envVars>>

\* Any other change of a pod object (status, labels of no selector here).
UpdatePod(p) ==
    /\ p \in DOMAIN store
    /\ Len(queue) < MaxQueue
    /\ queue' = Append(queue, [kind |-> "update", pod |-> p, old |-> store[p],
                               node |-> store[p]])
    /\ UNCHANGED <<clientVars, podVars, affinityPods, antiAffinityPods, resolved, passVars, envVars>>

\* After a relist, a delete the watch missed reaches handlers as a
\* DeletedFinalStateUnknown tombstone instead of the *v1.Pod.
DeletePod(p) ==
    /\ p \in DOMAIN store
    /\ store' = [q \in DOMAIN store \ {p} |-> store[q]]
    /\ \E kind \in IF WatchGaps THEN {"delete", "tombstone"} ELSE {"delete"} :
           queue' = Append(queue, [kind |-> kind, pod |-> p, old |-> NoNode,
                                   node |-> store[p]])
    /\ UNCHANGED <<clientVars, created, affinityPods, antiAffinityPods, resolved, passVars, envVars>>

\* The vSphere VM stream reports the guest hostname of the node's VM.
ResolveVM(n) ==
    /\ n \notin resolved
    /\ resolved' = resolved \cup {n}
    /\ UNCHANGED <<clientVars, podVars, rulerVars, passVars, envVars>>

\* A renamed node: the node cache has the new hostname before the VM stream
\* reports it, and the lookup answers "" meanwhile.
ForgetVM(n) ==
    /\ n \in resolved
    /\ forgets < MaxForgets
    /\ forgets' = forgets + 1
    /\ resolved' = resolved \ {n}
    /\ UNCHANGED <<clientVars, podVars, rulerVars, passVars, restarts, failures>>

-----------------------------------------------------------------------------
(* The DRSRuler event handler                                              *)

\* Track without the nodeName check.
TrackAnyNode(m, p, n, present) == IF present THEN (p :> n) @@ m ELSE m

Track(m, p, n, present) == IF n # NoNode /\ present THEN (p :> n) @@ m ELSE m

\* Untrack with the nodeName check inverted.
UntrackNodeless(m, p, n, present) ==
    IF n = NoNode /\ present THEN [q \in DOMAIN m \ {p} |-> m[q]] ELSE m

Untrack(m, p, n, present) ==
    IF n # NoNode /\ present THEN [q \in DOMAIN m \ {p} |-> m[q]] ELSE m

\* OnAdd: a pod with a node is tracked per affinity kind its spec has.
OnAdd(p, n) ==
    /\ affinityPods' = Track(affinityPods, p, n, PodSpec[p].podAffinity)
    /\ antiAffinityPods' = Track(antiAffinityPods, p, n, PodSpec[p].podAntiAffinity)

HandleAdd ==
    /\ queue # <<>>
    /\ Head(queue).kind = "add"
    /\ OnAdd(Head(queue).pod, Head(queue).node)
    /\ queue' = Tail(queue)
    /\ UNCHANGED <<clientVars, podVars, resolved, passVars, envVars>>

\* OnUpdate: only a newly assigned nodeName is acted on.
HandleUpdate ==
    /\ queue # <<>>
    /\ Head(queue).kind = "update"
    /\ LET e == Head(queue) IN
         IF e.old # e.node /\ e.old = NoNode
         THEN OnAdd(e.pod, e.node)
         ELSE UNCHANGED <<affinityPods, antiAffinityPods>>
    /\ queue' = Tail(queue)
    /\ UNCHANGED <<clientVars, podVars, resolved, passVars, envVars>>

\* OnDelete: the type assertion to *v1.Pod fails for a tombstone, which is
\* then dropped.
HandleDelete ==
    /\ queue # <<>>
    /\ Head(queue).kind \in {"delete", "tombstone"}
    /\ LET e == Head(queue) IN
         IF e.kind = "delete"
         THEN /\ affinityPods' = Untrack(affinityPods, e.pod, e.node,
                                         PodSpec[e.pod].podAffinity)
              /\ antiAffinityPods' = Untrack(antiAffinityPods, e.pod, e.node,
                                             PodSpec[e.pod].podAntiAffinity)
         ELSE UNCHANGED <<affinityPods, antiAffinityPods>>
    /\ queue' = Tail(queue)
    /\ UNCHANGED <<clientVars, podVars, resolved, passVars, envVars>>

-----------------------------------------------------------------------------
(* The sync() pass.  Go map iteration order is unspecified, so each loop   *)
(* takes its names in any order.                                           *)

NoRules == [n \in {} |-> n]

\* The apply loop with its membership test inverted.
MissingInActual == DOMAIN desired \cap DOMAIN actual

\* "Apply missing rules": desired names Rules() lacked.
Missing == DOMAIN desired \ DOMAIN actual

\* "Modify changed rules": names in both whose sorted VMs differ.
Drifted == {n \in DOMAIN desired \cap DOMAIN actual : desired[n].vms # actual[n].vms}

\* Run's tick: snapshot Rules() and desiredRules().
SyncStart ==
    /\ phase = "idle"
    /\ TickAfterRefresh => seen = cluster
    /\ phase' = "delete"
    /\ actual' = Rules
    /\ desired' = DesiredRules
    /\ todo' = DOMAIN Rules \ DOMAIN DesiredRules
    /\ UNCHANGED <<clientVars, podVars, rulerVars, resolved, modifying, envVars>>

\* A failed vSphere call is counted against MaxFailures.
Failed(ok) == failures' = IF ok THEN failures ELSE failures + 1

Outcomes == IF failures < MaxFailures THEN BOOLEAN ELSE {TRUE}

\* "Delete not-needed rules"
DeleteStale(n, ok) ==
    /\ phase = "delete"
    /\ n \in todo
    /\ DeleteRule(n, ok)
    /\ todo' = todo \ {n}
    /\ Failed(ok)
    /\ UNCHANGED <<podVars, rulerVars, resolved, phase, actual, desired, modifying, restarts, forgets>>

\* "Apply missing rules"
ApplyMissing(n, ok) ==
    /\ phase = "apply"
    /\ n \in todo
    /\ ApplyRule(n, desired[n].affinity, desired[n].vms, ok)
    /\ todo' = todo \ {n}
    /\ Failed(ok)
    /\ UNCHANGED <<podVars, rulerVars, resolved, phase, actual, desired, modifying, restarts, forgets>>

\* "Modify changed rules": delete the installed rule ...
ModifyDelete(n, ok) ==
    /\ phase = "modify"
    /\ modifying = {}
    /\ n \in todo
    /\ DeleteRule(n, ok)
    /\ todo' = todo \ {n}
    /\ modifying' = {n}
    /\ Failed(ok)
    /\ UNCHANGED <<podVars, rulerVars, resolved, phase, actual, desired, restarts, forgets>>

\* ... and apply it again, with actualRule.VMs (lines 124-130).
ModifyReapply(ok) ==
    /\ phase = "modify"
    /\ \E n \in modifying :
          ApplyRule(n, actual[n].affinity, actual[n].vms, ok)
    /\ modifying' = {}
    /\ Failed(ok)
    /\ UNCHANGED <<podVars, rulerVars, resolved, phase, actual, desired, todo, restarts, forgets>>

\* A loop has run out of names: go on to the next one, or end the pass.
EndLoop ==
    /\ phase # "idle"
    /\ todo = {}
    /\ modifying = {}
    /\ \/ /\ phase = "delete"
          /\ phase' = "apply"
          /\ todo' = Missing
          /\ UNCHANGED <<actual, desired>>
       \/ /\ phase = "apply"
          /\ phase' = "modify"
          /\ todo' = Drifted
          /\ UNCHANGED <<actual, desired>>
       \/ /\ phase = "modify"
          /\ phase' = "idle"
          /\ actual' = NoRules
          /\ desired' = NoRules
          /\ UNCHANGED todo
    /\ UNCHANGED <<clientVars, podVars, rulerVars, resolved, modifying, envVars>>

-----------------------------------------------------------------------------
(* Crash and restart of the process: everything in memory is lost, the     *)
(* informer relists the store as adds, the rule view starts empty and the  *)
(* bridge caches answer "" until the streams report again.  The cluster's  *)
(* rules survive.                                                          *)

Relist ==
    LET order == SetToSeq(DOMAIN store)
    IN  [i \in DOMAIN order |->
           [kind |-> "add", pod |-> order[i], old |-> NoNode, node |-> store[order[i]]]]

Restart ==
    /\ restarts < MaxRestarts
    /\ restarts' = restarts + 1
    /\ queue' = Relist
    /\ affinityPods' = NoRules
    /\ antiAffinityPods' = NoRules
    /\ seen' = <<>>
    /\ phase' = "idle"
    /\ actual' = NoRules
    /\ desired' = NoRules
    /\ todo' = {}
    /\ modifying' = {}
    /\ resolved' = {}
    /\ UNCHANGED <<cluster, podVars, failures, forgets>>

-----------------------------------------------------------------------------
Init ==
    /\ cluster = InitCluster
    /\ seen = <<>>
    /\ store = NoRules
    /\ created = {}
    /\ queue = <<>>
    /\ affinityPods = NoRules
    /\ antiAffinityPods = NoRules
    /\ resolved = InitResolved
    /\ phase = "idle"
    /\ actual = NoRules
    /\ desired = NoRules
    /\ todo = {}
    /\ modifying = {}
    /\ restarts = 0
    /\ failures = 0
    /\ forgets = 0

Environment ==
    \/ \E p \in Pods, n \in Nodes \cup {NoNode} : CreatePod(p, n)
    \/ \E p \in Pods, n \in Nodes : BindPod(p, n)
    \/ \E p \in Pods : UpdatePod(p)
    \/ \E p \in Pods : DeletePod(p)
    \/ \E n \in Nodes : ResolveVM(n) \/ ForgetVM(n)
    \/ Restart

Handler == HandleAdd \/ HandleUpdate \/ HandleDelete

RuleStream == Refresh /\ UNCHANGED <<podVars, rulerVars, resolved, passVars, envVars>>

PassStep ==
    \/ SyncStart
    \/ \E n \in RuleNames, ok \in Outcomes :
          DeleteStale(n, ok) \/ ApplyMissing(n, ok) \/ ModifyDelete(n, ok)
    \/ \E ok \in Outcomes : ModifyReapply(ok)
    \/ EndLoop

Next == Environment \/ Handler \/ RuleStream \/ PassStep

\* The handler, the rule stream and the ticker each run on a goroutine of
\* their own and never stop; vSphere calls fail at most MaxFailures times.
Fairness ==
    /\ WF_vars(Handler)
    /\ WF_vars(RuleStream)
    /\ WF_vars(PassStep)

Spec == Init /\ [][Next]_vars
FairSpec == Spec /\ Fairness

-----------------------------------------------------------------------------
(* Properties                                                              *)

TypeOK ==
    /\ ClientTypeOK
    /\ store \in [DOMAIN store -> Nodes \cup {NoNode}] /\ DOMAIN store \subseteq created
    /\ created \subseteq Pods
    /\ queue \in Seq(Notification)
    /\ DOMAIN affinityPods \subseteq Pods /\ DOMAIN antiAffinityPods \subseteq Pods
    /\ \A p \in DOMAIN affinityPods : affinityPods[p] \in Nodes
    /\ \A p \in DOMAIN antiAffinityPods : antiAffinityPods[p] \in Nodes
    /\ resolved \subseteq Nodes
    /\ phase \in {"idle", "delete", "apply", "modify"}
    /\ todo \subseteq RuleNames
    /\ modifying \subseteq RuleNames /\ Cardinality(modifying) <= 1
    /\ restarts \in 0..MaxRestarts
    /\ failures \in 0..MaxFailures
    /\ forgets \in 0..MaxForgets

ClusterNames == NamesOf(cluster)

\* The cluster never holds two rules of one name.  Apply checks ruleKey
\* before adding, but ruleKey lags the cluster: a restart starts with empty
\* indices, and a modify whose delete failed re-applies the same name.
NoDuplicateRuleNames ==
    \A i, j \in DOMAIN cluster : i # j => cluster[i].name # cluster[j].name

\* Once a pod is deleted, the affi-/anti- rules named after it eventually
\* leave the cluster for good: OnDelete untracks it and a later pass deletes
\* the rules by their key from the rule view.
DeletedPodRulesRemoved ==
    \A p \in Pods :
        (p \in created \ DOMAIN store)
            ~> [](RuleName(p, TRUE) \notin ClusterNames
                  /\ RuleName(p, FALSE) \notin ClusterNames)

\* A rule that is desired and whose VMs are all resolved is eventually
\* installed, or stops being desired: passes retry a failed or refused apply.
InstallableRule(n) ==
    n \in DOMAIN DesiredRules /\ NoVM \notin DesiredRules[n].vms

DesiredRuleInstalled ==
    \A n \in RuleNames :
        InstallableRule(n) ~> (n \in ClusterNames \/ ~InstallableRule(n))

ClusterRuleSet == {[name |-> r.name, affinity |-> r.affinity, vms |-> r.vms] :
                      r \in ToSet(cluster)}

\* Once pods stop changing, the cluster's rules eventually equal the desired
\* rules and stay so (the reconciler's fixed point).  The modify loop
\* re-applies a drifted rule with actualRule.VMs, not desiredRule.VMs.
Converges == <>[](ClusterRuleSet = Range(DesiredRules))
=============================================================================
