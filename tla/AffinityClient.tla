--------------------------- MODULE AffinityClient ---------------------------
(***************************************************************************)
(* The VM-to-VM rule client of pkg/vsphere/affinity_rule_client.go and the *)
(* rule list of the vSphere cluster it drives.                             *)
(*                                                                         *)
(* cluster : the cluster's configurationEx.rule list, in config order.     *)
(*           vCenter appends an added rule and assigns it a fresh key.     *)
(* seen    : the last rule list the property collector delivered to the    *)
(*           client (affinityClient.Run); the client's indices rules,      *)
(*           ruleKey and rrules are all functions of it.  <<>> is the nil  *)
(*           maps the client starts with.                                  *)
(*                                                                         *)
(* A key only matters through equality with the keys held in cluster and  *)
(* seen, so a fresh key is any key of Keys that neither holds; this is     *)
(* indistinguishable from vCenter's never-reused keys.                     *)
(***************************************************************************)
EXTENDS Naturals, FiniteSets, SequencesExt

CONSTANTS
    RuleNames,   \* names a rule can carry
    VMs,         \* VM references "VirtualMachine:<id>"
    NoVM,        \* the empty VM id of an unresolved node
    Keys         \* numeric rule keys vCenter can hand out

VARIABLES cluster, seen

clientVars == <<cluster, seen>>

ASSUME NoVM \notin VMs

ClusterRule == [key: Keys, name: RuleNames, affinity: BOOLEAN,
                vms: SUBSET (VMs \cup {NoVM})]

\* The rule view the property-collector callback builds (Run, lines 123-156):
\* ruleKey[name] and rrules[name] are overwritten in config order, so the
\* last rule of a name wins.
LastNamed(s, n) == s[SelectLastInSeq(s, LAMBDA r : r.name = n)]

NamesOf(s) == {s[i].name : i \in DOMAIN s}

RuleKey(n) == LastNamed(seen, n).key

Rules == [n \in NamesOf(seen) |->
            [name |-> n, affinity |-> LastNamed(seen, n).affinity,
             vms |-> LastNamed(seen, n).vms]]

FreeKeys == Keys \ ({cluster[i].key : i \in DOMAIN cluster}
                      \cup {seen[i].key : i \in DOMAIN seen})

-----------------------------------------------------------------------------
\* Run: a Modify/Enter update replaces the three indices by ones rebuilt
\* from the delivered configuration.  The property collector reports the
\* cluster's current configuration.
Refresh ==
    /\ seen # cluster
    /\ seen' = cluster
    /\ UNCHANGED cluster

\* Apply{Anti}AffinityRule with the ruleKey check left out.
ApplyRuleNoDupCheck(name, affinity, vms, ok) ==
    /\ \/ /\ ok
          /\ NoVM \notin vms
          /\ FreeKeys # {}
          /\ cluster' = Append(cluster,
                 [key |-> CHOOSE k \in FreeKeys : \A j \in FreeKeys : k <= j,
                  name |-> name, affinity |-> affinity, vms |-> vms])
       \/ /\ \/ ~ok
             \/ NoVM \in vms
          /\ UNCHANGED cluster
    /\ UNCHANGED seen

\* ApplyAffinityRule / ApplyAntiAffinityRule (lines 176-258).  A name that
\* ruleKey already holds is refused with ErrAffinityRuleDupKey; otherwise a
\* reconfigure adds the rule.  It fails, adding nothing, when the call or
\* the task fails (~ok) or when a VM id is empty: FromString leaves a zero
\* moref, which vCenter rejects.
ApplyRule(name, affinity, vms, ok) ==
    \/ /\ name \in NamesOf(seen)
       /\ UNCHANGED clientVars
    \/ /\ name \notin NamesOf(seen)
       /\ \/ /\ ok
             /\ NoVM \notin vms
             /\ FreeKeys # {}
             /\ cluster' = Append(cluster,
                    [key |-> CHOOSE k \in FreeKeys : \A j \in FreeKeys : k <= j,
                     name |-> name, affinity |-> affinity, vms |-> vms])
          \/ /\ \/ ~ok
                \/ NoVM \in vms
             /\ UNCHANGED cluster
       /\ UNCHANGED seen

\* deleteRule (lines 260-301): the key comes from ruleKey; an unknown name
\* is an error.  The reconfigure removes the rule with that key; vCenter
\* rejects a key it no longer has, and the call may fail (~ok).
DeleteRule(name, ok) ==
    /\ \/ /\ name \in NamesOf(seen)
          /\ ok
          /\ cluster' = SelectSeq(cluster, LAMBDA r : r.key # RuleKey(name))
       \/ /\ name \notin NamesOf(seen) \/ ~ok
          /\ UNCHANGED cluster
    /\ UNCHANGED seen

ClientTypeOK ==
    /\ cluster \in Seq(ClusterRule)
    /\ seen \in Seq(ClusterRule)
=============================================================================
