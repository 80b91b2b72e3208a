------------------------------ MODULE VMBridge ------------------------------
(***************************************************************************)
(* The hostname/VM-id bridge: kubeNodeCache (pkg/bridgecache/              *)
(* kube_cache.go), fed by the node informer, the cachedQuerier of          *)
(* pkg/vsphere/cache.go, fed by the vSphere property collector, and        *)
(* GetVMIDFromNode (pkg/bridgecache/node.go), which reads the first and    *)
(* then the second.                                                        *)
(*                                                                         *)
(* status, osName : each node runs on one machine, in VM NodeVM[n]; the    *)
(*   machine's OS hostname is reported both as the node's hostname address *)
(*   and as the VM's summary.guest.hostName.                               *)
(* kubeQueue : node notifications queued for the kubeNodeCache handler.    *)
(* kubeNodeToHostname, hostnameToKubeNode, vmidToHostname, hostnameToVMID: *)
(*   the four maps of the two caches, as partial functions.                *)
(* lookup, answer : one caller of GetVMIDFromNode per node; lookup[n] is   *)
(*   the hostname read under the first lock (Idle between calls), answer   *)
(*   what the last call returned.                                          *)
(***************************************************************************)
EXTENDS Naturals, Sequences, Functions, TLC

CONSTANTS
    Nodes, VMs, NoVM, NodeVM,
    Hostnames,   \* OS hostnames
    NamesOf,     \* node -> the hostnames its machine may carry
    NoName,      \* the hostname ""
    Idle,        \* no GetVMIDFromNode call in progress
    MaxRenames,  \* hostname changes of running machines
    MaxQueue     \* node notifications the handler may lag behind by

VARIABLES status, osName, kubeQueue, kubeNodeToHostname, hostnameToKubeNode,
          vmidToHostname, hostnameToVMID, lookup, answer, renames

machine == <<status, osName, renames>>
vars == <<status, osName, kubeQueue, kubeNodeToHostname, hostnameToKubeNode,
          vmidToHostname, hostnameToVMID, lookup, answer, renames>>

ASSUME /\ NodeVM \in [Nodes -> VMs] /\ NoVM \notin VMs
       /\ \A m, n \in Nodes : m # n => NodeVM[m] # NodeVM[n]
       /\ NamesOf \in [Nodes -> SUBSET Hostnames] /\ {Idle, NoName} \cap Hostnames = {}

NoEntries == [x \in {} |-> x]

Without(f, x) == Restrict(f, DOMAIN f \ {x})

Up == {n \in Nodes : status[n] = "up"}

-----------------------------------------------------------------------------
(* The machines.  Hostnames are unique among running machines; a stopped   *)
(* machine's hostname may be taken by a later one when NamesOf allows it.  *)

InUse == {osName[m] : m \in Up}

Notify(e) == /\ Len(kubeQueue) < MaxQueue
             /\ kubeQueue' = Append(kubeQueue, e)

Boot(n, h) ==
    /\ status[n] = "absent"
    /\ h \in NamesOf[n] \ InUse
    /\ status' = [status EXCEPT ![n] = "up"]
    /\ osName' = [osName EXCEPT ![n] = h]
    /\ Notify([kind |-> "add", node |-> n, host |-> h])
    /\ UNCHANGED <<renames, kubeNodeToHostname, hostnameToKubeNode,
                   vmidToHostname, hostnameToVMID, lookup, answer>>

Rename(n, h) ==
    /\ status[n] = "up"
    /\ h \in NamesOf[n] \ InUse
    /\ renames < MaxRenames
    /\ renames' = renames + 1
    /\ osName' = [osName EXCEPT ![n] = h]
    /\ Notify([kind |-> "update", node |-> n, host |-> h])
    /\ UNCHANGED <<status, kubeNodeToHostname, hostnameToKubeNode,
                   vmidToHostname, hostnameToVMID, lookup, answer>>

Stop(n) ==
    /\ status[n] = "up"
    /\ status' = [status EXCEPT ![n] = "gone"]
    /\ Notify([kind |-> "delete", node |-> n, host |-> osName[n]])
    /\ UNCHANGED <<osName, renames, kubeNodeToHostname, hostnameToKubeNode,
                   vmidToHostname, hostnameToVMID, lookup, answer>>

-----------------------------------------------------------------------------
(* kubeNodeCache: add, delete and OnUpdate's delete(old) then add(new).    *)

KubeAdd(c, n, h) == [n2h |-> (n :> h) @@ c.n2h, h2n |-> (h :> n) @@ c.h2n]

\* delete: the hostname entry is removed whichever node it now names.
KubeDelete(c, n) ==
    IF n \in DOMAIN c.n2h THEN [n2h |-> Without(c.n2h, n), h2n |-> Without(c.h2n, c.n2h[n])]
    ELSE c

HandleNode ==
    /\ kubeQueue # <<>>
    /\ LET e == Head(kubeQueue)
           c == [n2h |-> kubeNodeToHostname, h2n |-> hostnameToKubeNode]
           r == CASE e.kind = "add"    -> KubeAdd(c, e.node, e.host)
                  [] e.kind = "update" -> KubeAdd(KubeDelete(c, e.node), e.node, e.host)
                  [] e.kind = "delete" -> KubeDelete(c, e.node)
       IN  /\ kubeNodeToHostname' = r.n2h
           /\ hostnameToKubeNode' = r.h2n
    /\ kubeQueue' = Tail(kubeQueue)
    /\ UNCHANGED <<machine, vmidToHostname, hostnameToVMID, lookup, answer>>

-----------------------------------------------------------------------------
(* cachedQuerier.Run: the property collector reports, per VM, the change   *)
(* between the VM and what it last reported (vmidToHostname), coalescing   *)
(* the changes in between.                                                 *)

\* The callback without the fallthrough from Modify into Enter.
VMHostnameEnterOnly(n) ==
    LET v == NodeVM[n]
        h == osName[n]
    IN  /\ status[n] = "up"
        /\ v \notin DOMAIN vmidToHostname
        /\ vmidToHostname' = (v :> h) @@ vmidToHostname
        /\ hostnameToVMID' = (h :> v) @@ hostnameToVMID
        /\ UNCHANGED <<machine, kubeQueue, kubeNodeToHostname,
                       hostnameToKubeNode, lookup, answer>>

\* Enter or modify of summary.guest.hostName.
VMHostname(n) ==
    LET v == NodeVM[n]
        h == osName[n]
    IN  /\ status[n] = "up"
        /\ ~(v \in DOMAIN vmidToHostname /\ vmidToHostname[v] = h)
        /\ vmidToHostname' = (v :> h) @@ vmidToHostname
        /\ hostnameToVMID' = (h :> v) @@ hostnameToVMID
        /\ UNCHANGED <<machine, kubeQueue, kubeNodeToHostname,
                       hostnameToKubeNode, lookup, answer>>

\* Leave: the VM's last hostname entry is deleted whichever VM it now names.
VMLeave(n) ==
    LET v == NodeVM[n] IN
        /\ status[n] = "gone"
        /\ v \in DOMAIN vmidToHostname
        /\ vmidToHostname' = Without(vmidToHostname, v)
        /\ hostnameToVMID' = Without(hostnameToVMID, vmidToHostname[v])
        /\ UNCHANGED <<machine, kubeQueue, kubeNodeToHostname,
                       hostnameToKubeNode, lookup, answer>>

-----------------------------------------------------------------------------
(* GetVMIDFromNode: GetHostnameFromNodeName under the kube lock, then,     *)
(* unless it is "", GetVMIDFromHostname under the vSphere lock.            *)

\* GetHostnameFromNodeName: a missing key reads as "".
HostnameOf(n) ==
    IF n \in DOMAIN kubeNodeToHostname THEN kubeNodeToHostname[n] ELSE NoName

\* GetVMIDFromNode without its check for an empty hostname.
ReadHostnameNoCheck(n) ==
    /\ lookup[n] = Idle
    /\ lookup' = [lookup EXCEPT ![n] = HostnameOf(n)]
    /\ UNCHANGED <<machine, kubeQueue, kubeNodeToHostname, hostnameToKubeNode,
                   vmidToHostname, hostnameToVMID, answer>>

ReadHostname(n) ==
    /\ lookup[n] = Idle
    /\ IF HostnameOf(n) # NoName
       THEN /\ lookup' = [lookup EXCEPT ![n] = HostnameOf(n)]
            /\ UNCHANGED answer
       ELSE /\ answer' = [answer EXCEPT ![n] = NoVM]
            /\ UNCHANGED lookup
    /\ UNCHANGED <<machine, kubeQueue, kubeNodeToHostname, hostnameToKubeNode,
                   vmidToHostname, hostnameToVMID>>

ReadVMID(n) ==
    LET h == lookup[n] IN
        /\ h # Idle
        /\ answer' = [answer EXCEPT ![n] = IF h \in DOMAIN hostnameToVMID
                                           THEN hostnameToVMID[h] ELSE NoVM]
        /\ lookup' = [lookup EXCEPT ![n] = Idle]
        /\ UNCHANGED <<machine, kubeQueue, kubeNodeToHostname, hostnameToKubeNode,
                       vmidToHostname, hostnameToVMID>>

-----------------------------------------------------------------------------
Init ==
    /\ status = [n \in Nodes |-> "absent"]
    /\ osName = [n \in Nodes |-> Idle]
    /\ renames = 0
    /\ kubeQueue = <<>>
    /\ kubeNodeToHostname = NoEntries /\ hostnameToKubeNode = NoEntries
    /\ vmidToHostname = NoEntries /\ hostnameToVMID = NoEntries
    /\ lookup = [n \in Nodes |-> Idle]
    /\ answer = [n \in Nodes |-> NoVM]

Next ==
    \/ \E n \in Nodes, h \in Hostnames : Boot(n, h) \/ Rename(n, h)
    \/ \E n \in Nodes : Stop(n)
    \/ HandleNode
    \/ \E n \in Nodes : VMHostname(n) \/ VMLeave(n) \/ ReadHostname(n) \/ ReadVMID(n)

\* The node handler and the property collector run on goroutines of their
\* own that never stop; each node's caller keeps calling GetVMIDFromNode.
Fairness ==
    /\ WF_vars(HandleNode)
    /\ \A n \in Nodes : /\ WF_vars(VMHostname(n)) /\ WF_vars(VMLeave(n))
                        /\ WF_vars(ReadHostname(n)) /\ WF_vars(ReadVMID(n))

Spec == Init /\ [][Next]_vars /\ Fairness

-----------------------------------------------------------------------------
(* Properties                                                              *)

TypeOK ==
    /\ status \in [Nodes -> {"absent", "up", "gone"}]
    /\ osName \in [Nodes -> Hostnames \cup {Idle}]
    /\ kubeQueue \in Seq([kind: {"add", "update", "delete"}, node: Nodes, host: Hostnames])
    /\ DOMAIN kubeNodeToHostname \subseteq Nodes
    /\ DOMAIN hostnameToKubeNode \subseteq Hostnames
    /\ DOMAIN vmidToHostname \subseteq VMs
    /\ DOMAIN hostnameToVMID \subseteq Hostnames
    /\ lookup \in [Nodes -> Hostnames \cup {Idle}]
    /\ answer \in [Nodes -> VMs \cup {NoVM}]
    /\ renames \in 0 .. MaxRenames

\* The bridge implements VMLookup: GetVMIDFromNode never returns another
\* machine's VM, and a node whose machine keeps running is eventually
\* answered with its own VM, across renames, stops and cache lag.
Lookup == INSTANCE VMLookup WITH live <- Up, answer <- answer

LookupSpec == Lookup!Spec

\* A node whose machine is running is eventually answered with its VM,
\* whatever happened to the machines that ran before it.
NodeResolves ==
    \A n \in Nodes : (status[n] = "up") ~> (status[n] # "up" \/ answer[n] = NodeVM[n])
=============================================================================
