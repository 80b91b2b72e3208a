----------------------------- MODULE Placement -----------------------------
(***************************************************************************)
(* The extender's filter endpoint (pkg/server/handler.go) and the pod     *)
(* anti-affinity filter of pkg/algorithm/filters/pod_anti_affinity.go,     *)
(* composed with the host label cache it reads                             *)
(* (HostLabelCache).  The filter runs on an HTTP request's goroutine and   *)
(* reads GetHost and GetNodes without the cache's lock, one lookup at a    *)
(* time, while the node handler keeps updating the cache.                  *)
(*                                                                         *)
(* call     : the Filter call in progress (phase "hosts") or the last one  *)
(*            (phase "done"): its terms, matched nodes, the nodes still to *)
(*            look up (toHost), the hosts still to expand (hosts), nodeMap *)
(*            and the result; cands are the request's NodeNames.  err is   *)
(*            an answer of 400 Bad Request.                                *)
(* cohosted : the candidates that, in every state since the call began,    *)
(*            ran a matched pod or shared a host with a node running one.  *)
(* quiet    : no handler step has changed the cache since the call began.  *)
(***************************************************************************)
EXTENDS HostLabelCache, Filters

CONSTANTS
    TermSets,    \* the anti-affinity terms a filtered pod may carry
    Candidates,  \* the NodeNames lists a request may carry, as sets
    NilNodes     \* NodeNames absent from the request

VARIABLES call, cohosted, quiet

cacheVars == <<labels, queue, nodeToHost, hostToNodes, restarts>>
filterVars == <<call, cohosted, quiet>>
allVars == <<cacheVars, filterVars>>

NoCall == [phase |-> "idle", terms |-> NoTerms, cands |-> {}, err |-> FALSE, matched |-> {},
           toHost |-> {}, hosts |-> {}, nodeMap |-> {}, result |-> {}]

\* GetHost: a node without a host label reads as "".
GetHost(n) == IF n \in DOMAIN nodeToHost THEN nodeToHost[n] ELSE NoHost

\* GetNodes: hostToNodes[""] is a nil map.
GetNodes(h) == IF h \in Hosts THEN hostToNodes[h] ELSE {}

Done(terms, cands, err, result) ==
    [NoCall EXCEPT !.phase = "done", !.terms = terms, !.cands = cands, !.err = err,
                   !.result = result]

-----------------------------------------------------------------------------
(* Filter, one lookup of the host cache per step.                          *)

FilterBegin(terms, cands) ==
    /\ LET pods == MatchedPods(terms) IN
       /\ call' = CASE terms = NoTerms -> Done(terms, cands, FALSE, cands)
                    [] ParseFails(terms) -> Done(terms, cands, TRUE, {})
                    [] pods = {} -> Done(terms, cands, FALSE, cands)
                    [] OTHER -> [NoCall EXCEPT !.phase = "hosts", !.terms = terms, !.cands = cands,
                                   !.matched = PodNodes(pods),
                                   !.toHost = PodNodes(pods), !.nodeMap = PodNodes(pods)]
       /\ cohosted' = CoHosted(call'.matched, nodeToHost)
       /\ quiet' = TRUE
    /\ UNCHANGED cacheVars

\* processFilter: a request without NodeNames (or whose body does not
\* decode) is answered 400 without filtering; otherwise the Filters chain
\* runs and its error, if any, is answered 400.  The pod-affinity filter
\* that main.go puts first in the chain is not in the repository; its
\* output is taken to be the request's NodeNames.
ProcessFilter(terms, cands) ==
    /\ call.phase \in {"idle", "done"}
    /\ IF cands = NilNodes
       THEN /\ call' = Done(terms, cands, TRUE, {})
            /\ cohosted' = {} /\ quiet' = TRUE
            /\ UNCHANGED cacheVars
       ELSE FilterBegin(terms, cands)

\* for node := range nodeMap { hostMap[GetHost(node)] }
FilterGetHost(n) ==
    /\ call.phase = "hosts"
    /\ n \in call.toHost
    /\ call' = [call EXCEPT !.toHost = @ \ {n}, !.hosts = @ \cup {GetHost(n)}]
    /\ UNCHANGED <<cacheVars, cohosted, quiet>>

\* for host := range hostMap { nodeMap += GetNodes(host) }
FilterGetNodes(h) ==
    /\ call.phase = "hosts"
    /\ call.toHost = {}
    /\ h \in call.hosts
    /\ call' = [call EXCEPT !.hosts = @ \ {h}, !.nodeMap = @ \cup GetNodes(h)]
    /\ UNCHANGED <<cacheVars, cohosted, quiet>>

\* The candidates not in nodeMap, in their order.
FilterEnd ==
    /\ call.phase = "hosts"
    /\ call.toHost = {} /\ call.hosts = {}
    /\ call' = Done(call.terms, call.cands, FALSE, call.cands \ call.nodeMap)
    /\ UNCHANGED <<cacheVars, cohosted, quiet>>

-----------------------------------------------------------------------------
(* The node informer and handler run on while a call is in progress.       *)

CacheStep ==
    \/ \E n \in Nodes, h \in Hosts \cup {NoHost} : AddNode(n, h) \/ Relabel(n, h)
    \/ \E n \in Nodes : DeleteNode(n)
    \/ HandleAdd \/ HandleUpdate \/ HandleDelete

Observe ==
    /\ UNCHANGED call
    /\ IF call.phase # "idle"
       THEN /\ cohosted' = cohosted \cap CoHosted(call.matched, nodeToHost')
            /\ quiet' = (quiet /\ nodeToHost' = nodeToHost /\ hostToNodes' = hostToNodes)
       ELSE UNCHANGED <<cohosted, quiet>>

\* A crash ends the request with the process.
RestartProcess ==
    /\ Restart
    /\ call' = NoCall /\ cohosted' = {} /\ quiet' = TRUE

PlacementInit ==
    /\ Init
    /\ call = NoCall /\ cohosted = {} /\ quiet = TRUE

PlacementNext ==
    \/ CacheStep /\ Observe
    \/ RestartProcess
    \/ \E terms \in TermSets, cands \in Candidates : ProcessFilter(terms, cands)
    \/ \E n \in Nodes : FilterGetHost(n)
    \/ \E h \in Hosts \cup {NoHost} : FilterGetNodes(h)
    \/ FilterEnd

PlacementSpec == PlacementInit /\ [][PlacementNext]_allVars

-----------------------------------------------------------------------------
(* Properties                                                              *)

\* The spec (section 5) has a filter response reflect a point-in-time
\* snapshot of the caches, and scenario S3 has the anti-affinity filter
\* exclude the co-hosts of matched pods.  So a node the filter returns did
\* not, in every state of the call, run a matched pod or share a host with
\* a node running one: the unlocked GetHost and GetNodes calls of one
\* Filter, each atomic, must not combine into an answer no state gives.
FilterExcludesCoHosts ==
    call.phase = "done" /\ ~call.err => call.result \cap cohosted = {}

\* A request answered while the cache did not change gets exactly the
\* candidates it sent that the placement rule allows on the cache's hosts:
\* terms with another topology key are ignored, and a request without
\* NodeNames or with a selector that does not parse is answered 400.
FilterMatchesRule ==
    call.phase = "done" /\ quiet =>
        IF call.cands = NilNodes \/ (call.terms # NoTerms /\ ParseFails(call.terms))
        THEN call.err
        ELSE ~call.err /\ call.result = call.cands \ Forbidden(call.terms, nodeToHost)
=============================================================================
