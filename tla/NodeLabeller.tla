---------------------------- MODULE NodeLabeller ----------------------------
(***************************************************************************)
(* The node labeller (pkg/services/node_labeller.go) with what it reads    *)
(* and writes: the runtime.host half of the cachedQuerier                  *)
(* (pkg/vsphere/cache.go: the callback, getHost and its hostCache,         *)
(* GetHostFromVMID) and the node updater (pkg/k8s/nodeupdater).  main.go   *)
(* has the labeller's start commented out; this is the design it would     *)
(* run.                                                                    *)
(*                                                                         *)
(* The node -> VM-id lookup is the abstract bridge of VMLookup, as in      *)
(* DRSRuler: a node's VM id is either its own VM or "".  VMBridge shows    *)
(* the two caches behind GetVMIDFromNode implement it.  A node's VM is     *)
(* named after the node.                                                   *)
(*                                                                         *)
(* vmHost     : the ESX host each node's VM runs on (vSphere's truth).     *)
(* reported   : the runtime.host the property collector last delivered.    *)
(* vmidToHost : the name GetHostFromVMID returns; NoHost for a VM not yet  *)
(*              reported and for a host whose RetrieveOne failed, both "". *)
(* hostCache  : the host refs whose name getHost has retrieved.            *)
(* label      : each node's host label; NoHost when absent or "", which    *)
(*              the host label cache reads alike.                          *)
(* todo, cur  : the doLabel pass in progress.                              *)
(***************************************************************************)
EXTENDS Naturals

CONSTANTS
    Nodes, Hosts,
    NoHost,               \* the host name "", and no host label
    NoVM,                 \* the VM id ""
    MaxMoves,             \* DRS migrations of VMs between hosts
    MaxForgets,           \* lookups that fall back to "" after a rename
    MaxRetrieveFailures,  \* failed RetrieveOne calls in getHost
    MaxPatchFailures      \* Update calls whose two patches both fail

VARIABLES vmHost, reported, vmidToHost, hostCache, resolved, label,
          todo, cur, moves, forgets, retrieveFailures, patchFailures

env     == <<vmHost, moves, forgets>>
querier == <<reported, vmidToHost, hostCache, retrieveFailures>>
pass    == <<todo, cur>>
vars    == <<vmHost, reported, vmidToHost, hostCache, resolved, label,
             todo, cur, moves, forgets, retrieveFailures, patchFailures>>

ASSUME NoHost \notin Hosts /\ NoVM \notin Nodes

Idle == [step |-> "idle", node |-> NoVM, vmid |-> NoVM, host |-> NoHost]

-----------------------------------------------------------------------------
(* vSphere and the bridge.                                                 *)

\* DRS migrates a node's VM to another host.
VMotion(n, h) ==
    /\ moves < MaxMoves
    /\ h # vmHost[n]
    /\ moves' = moves + 1
    /\ vmHost' = [vmHost EXCEPT ![n] = h]
    /\ UNCHANGED <<forgets, querier, resolved, label, pass, patchFailures>>

\* GetVMIDFromNode starts answering the node's VM (VMLookup's Resolve).
ResolveVM(n) ==
    /\ n \notin resolved
    /\ resolved' = resolved \cup {n}
    /\ UNCHANGED <<env, querier, label, pass, patchFailures>>

\* A renamed node is answered "" until the VM stream reports the new
\* hostname (VMLookup's Forget).
ForgetVM(n) ==
    /\ n \in resolved
    /\ forgets < MaxForgets
    /\ forgets' = forgets + 1
    /\ resolved' = resolved \ {n}
    /\ UNCHANGED <<vmHost, moves, querier, label, pass, patchFailures>>

-----------------------------------------------------------------------------
(* cachedQuerier.Run, the runtime.host change of a VM: the callback calls  *)
(* getHost under the querier lock.  getHost returns the cached HostSystem, *)
(* or retrieves its name and caches it; when RetrieveOne fails it returns  *)
(* an empty HostSystem, uncached, whose name "" is stored for the VM.  The *)
(* collector reports a property only when it changes, so it is not asked   *)
(* again until the VM moves.                                               *)

HostReport(n, ok) ==
    LET r == vmHost[n] IN
    /\ reported[n] # r
    /\ reported' = [reported EXCEPT ![n] = r]
    /\ \/ /\ r \in hostCache
          /\ vmidToHost' = [vmidToHost EXCEPT ![n] = r]
          /\ UNCHANGED <<hostCache, retrieveFailures>>
       \/ /\ r \notin hostCache
          /\ ok
          /\ hostCache' = hostCache \cup {r}
          /\ vmidToHost' = [vmidToHost EXCEPT ![n] = r]
          /\ UNCHANGED retrieveFailures
       \/ /\ r \notin hostCache
          /\ ~ok
          /\ retrieveFailures < MaxRetrieveFailures
          /\ retrieveFailures' = retrieveFailures + 1
          /\ vmidToHost' = [vmidToHost EXCEPT ![n] = NoHost]
          /\ UNCHANGED hostCache
    /\ UNCHANGED <<env, resolved, label, pass, patchFailures>>

\* GetHostFromVMID answering the VM id itself for a VM without an entry.
HostOfVMKey(v) == IF v \in Nodes THEN vmidToHost[v] ELSE v

\* GetHostFromVMID: a VM id without an entry ("" included) reads as "",
\* and the error it returns is always nil.
HostOfVM(v) == IF v \in Nodes THEN vmidToHost[v] ELSE NoHost

-----------------------------------------------------------------------------
(* NodeLabeller.Run: on every tick, doLabel lists the informer's nodes and *)
(* labels each with GetHostFromVMID(GetVMIDFromNode(node)), one call per   *)
(* step.                                                                   *)

Tick ==
    /\ todo = {} /\ cur = Idle
    /\ todo' = Nodes
    /\ UNCHANGED <<env, querier, resolved, label, cur, patchFailures>>

LookupVM(n) ==
    /\ cur = Idle
    /\ n \in todo
    /\ todo' = todo \ {n}
    /\ cur' = [Idle EXCEPT !.step = "host", !.node = n,
                           !.vmid = IF n \in resolved THEN n ELSE NoVM]
    /\ UNCHANGED <<env, querier, resolved, label, patchFailures>>

\* doLabel passing the node name where GetHostFromVMID wants the VM id.
ReadHostNodeName ==
    /\ cur.step = "host"
    /\ cur' = [cur EXCEPT !.step = "patch", !.host = NoHost]
    /\ UNCHANGED <<env, querier, resolved, label, todo, patchFailures>>

ReadHost ==
    /\ cur.step = "host"
    /\ cur' = [cur EXCEPT !.step = "patch", !.host = HostOfVM(cur.vmid)]
    /\ UNCHANGED <<env, querier, resolved, label, todo, patchFailures>>

\* nodeUpdater.Update: a JSON-patch "add" of the host label, sent a second
\* time when the first fails; "" is written like any other host.  When
\* both fail doLabel logs the error and goes on with the next node.
Update(ok) ==
    /\ cur.step = "patch"
    /\ \/ /\ ok
          /\ label' = [label EXCEPT ![cur.node] = cur.host]
          /\ UNCHANGED patchFailures
       \/ /\ ~ok
          /\ patchFailures < MaxPatchFailures
          /\ patchFailures' = patchFailures + 1
          /\ UNCHANGED label
    /\ cur' = Idle
    /\ UNCHANGED <<env, querier, resolved, todo>>

-----------------------------------------------------------------------------
Init ==
    /\ vmHost \in [Nodes -> Hosts]
    /\ reported = [n \in Nodes |-> NoHost]
    /\ vmidToHost = [n \in Nodes |-> NoHost]
    /\ hostCache = {}
    /\ resolved = {}
    /\ label \in [Nodes -> Hosts \cup {NoHost}]
    /\ todo = {} /\ cur = Idle
    /\ moves = 0 /\ forgets = 0 /\ retrieveFailures = 0 /\ patchFailures = 0

Labeller == Tick \/ (\E n \in Nodes : LookupVM(n)) \/ ReadHost \/ (\E ok \in BOOLEAN : Update(ok))

Next ==
    \/ \E n \in Nodes, h \in Hosts : VMotion(n, h)
    \/ \E n \in Nodes : ResolveVM(n) \/ ForgetVM(n)
    \/ \E n \in Nodes, ok \in BOOLEAN : HostReport(n, ok)
    \/ Labeller

\* The ticker fires every interval and doLabel runs to the end; the
\* property collector's goroutine delivers every change; the bridge
\* resolves a node whose VM is reported (VMLookup's Resolution).
Fairness ==
    /\ WF_vars(Labeller)
    /\ \A n \in Nodes : /\ WF_vars(\E ok \in BOOLEAN : HostReport(n, ok))
                        /\ WF_vars(ResolveVM(n))

Spec == Init /\ [][Next]_vars /\ Fairness

-----------------------------------------------------------------------------
(* Properties                                                              *)

TypeOK ==
    /\ vmHost \in [Nodes -> Hosts]
    /\ reported \in [Nodes -> Hosts \cup {NoHost}]
    /\ vmidToHost \in [Nodes -> Hosts \cup {NoHost}]
    /\ hostCache \subseteq Hosts
    /\ resolved \subseteq Nodes
    /\ label \in [Nodes -> Hosts \cup {NoHost}]
    /\ todo \subseteq Nodes
    /\ cur \in [step : {"idle", "host", "patch"}, node : Nodes \cup {NoVM},
                vmid : Nodes \cup {NoVM}, host : Hosts \cup {NoHost}]
    /\ moves \in 0..MaxMoves /\ forgets \in 0..MaxForgets
    /\ retrieveFailures \in 0..MaxRetrieveFailures
    /\ patchFailures \in 0..MaxPatchFailures

\* Once the querier holds the host a node's VM runs on, the labeller
\* labels the node with it unless the VM moves first: across lookups that
\* answer "" (which label the node "" meanwhile), failed patches and
\* passes that started before the report.
LabelFollowsHost ==
    \A n \in Nodes, h \in Hosts :
        (vmHost[n] = h /\ vmidToHost[n] = h) ~> (label[n] = h \/ vmHost[n] # h)
=============================================================================
