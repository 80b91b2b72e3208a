# TLA+ models of the vSphere scheduler extender

These modules model the Kubernetes scheduler extender under `src/`.

- The HTTP filter endpoint places pods by (anti-)affinity over hosts.
- The `DRSRuler` service keeps vSphere DRS VM-VM (anti-)affinity rules in step with the pods' affinity specs.

Every definition is translated from the Go source. `PROJECT.json` maps each one to the lines it models.

## 1. Inventory

### Components and their state

| # | Component | Source | State | Operations (state changes) |
|---|-----------|--------|-------|----------------------------|
| C1 | Selector algebra | `pkg/selector/selector.go` | none (pure) | `And/Or/Not.Matches`. An empty And or Or matches everything. |
| C2 | Node-host label cache | `pkg/k8s/cache/host_label_cache.go` | `nodeToHost`, `hostToNodes` (mutex) | `Add`, `Update`, `Delete` from the node informer. `GetHost` and `GetNodes` read without the lock. |
| C3 | Node-pod index | `pkg/k8s/cache/node_pod_cache.go` | `podsOnNode` (mutex) | `Add`, `Update`, `Delete` from the pod informer. `GetPodsOnNode` unlocks at once. |
| C4 | Scheduler cache | `pkg/k8s/cache/cache.go` | the pod and node informers' stores | `New` (registers C2 and C3), `Run`, `ListPod` (selector over the store) |
| C5 | Hostname/VM bridge | `pkg/bridgecache/{kube_cache,node}.go`, `pkg/vsphere/cache.go` | node→hostname and hostname→node maps; VM→hostname, hostname→VM and VM→host maps | node `OnAdd`/`OnUpdate`/`OnDelete`; VM stream enter/modify/leave; `GetVMIDFromNode` |
| C6 | Affinity-rule client | `pkg/vsphere/affinity_rule_client.go` | the cluster's rule list (in vCenter); the client's `rules`, `ruleKey` and `rrules` | `Run` (property-collector callback rebuilds the indices), `ApplyAffinityRule`, `ApplyAntiAffinityRule`, `DeleteAffinityRule`, `DeleteAntiAffinityRule` |
| C7 | DRSRuler | `pkg/services/drs_ruler.go` | `affinityPods`, `antiAffinityPods` | `OnAdd`, `OnUpdate`, `OnDelete` (pod handler); `Run`, which calls `sync` every 15 s: the delete loop, the apply loop, then the modify loop |
| C8 | Filters | `pkg/algorithm/filters/pod_anti_affinity.go`, `pkg/algorithm/interface.go` (pod affinity: only its test is in the repository) | none | `Filter` over candidate nodes, reading C2, C3 and C4 |
| C9 | HTTP endpoint | `pkg/server/handler.go`, `logging_decorator.go` | none | decode `ExtenderArgs`, run the filters, encode the result |
| C10 | Process | `main.go` | — | starts the informers, the DRSRuler goroutine and the HTTP server |
| C11 | Node labeller, node updater | `pkg/services/node_labeller.go`, `pkg/k8s/nodeupdater/updater.go` | the nodes' host labels (in Kubernetes) | `doLabel` on a 10 s ticker: for each node, `GetVMIDFromNode`, `GetHostFromVMID`, then `Update` (a JSON-patch add, sent again if it fails). `main.go` leaves its start commented out. |

### How the parts interact

Each shared informer has its own goroutine. It first updates its store, then hands the notification to every registered handler.

- Each handler has its own delivery goroutine.
- The pod handlers are C3 and C7. The node handlers are C2 and C5.
- C7 reads the pod store through `ListPod` (C4), VM ids through C5, and the cluster's rules through C6.

C6 learns of the cluster's rules only from the property-collector stream. That stream runs on another goroutine and lags the Reconfigure tasks that C7 issues. `sync` runs on the ticker goroutine and shares `affinityPods` with the pod handler without a lock.

### Hard behaviours

- The handler lags the informer store.
- The rule view lags the cluster.
- Go map iteration order is unspecified.
- A delete can be missed by the watch and arrive as a `DeletedFinalStateUnknown` tombstone.
- A vSphere call can fail.
- The process can crash (for example on a concurrent map write) and restart with empty memory, while the cluster keeps its rules.
- A node's VM id is `""` until the VM stream reports the node's hostname.
- The VM stream reports a property only when it changes, so a failed lookup made while handling a report is not retried.

### Properties, per component

- **C6 + C7 (safety):**
  - no two rules of one name.
- **C6 + C7 (liveness):**
  - the rules of a deleted pod eventually disappear;
  - an installable desired rule is eventually installed;
  - the cluster converges to the desired rules.
- **C2, C3:**
  - once the handler has caught up, the pod index is the function of the informer store it caches;
  - in every state, the host cache is the informer store with the still-queued notifications not yet applied (`CacheReplaysToStore`);
  - the two directions of `nodeToHost` and `hostToNodes` agree in every state.
- **C5:** `GetVMIDFromNode` implements the abstract `VMLookup`: it never returns another machine's VM, and a node that keeps running is eventually answered with its own VM.
- **C11 with C5:** once the querier holds the host a node's VM runs on, the node is eventually labelled with it.
- **C8 with C2:**
  - the anti-affinity filter never returns a node that ran a matched pod, or shared its host, throughout the call (the spec's point-in-time snapshot). It fails: `placement_race`;
  - a call that saw no cache change returns exactly the nodes the placement rule allows.

## 2. Modules

| Module | Models | State ↔ code |
|--------|--------|--------------|
| `AffinityClient` | C6 | `cluster` is vCenter's rule array: records with key, name, kind and VM set, in cluster order. `seen` is the last array the property collector delivered: `rrules` and `ruleKey` are functions of it (`Rules`, `RuleKey`), keeping the last rule of a name as the Go map assignment does. `Refresh` is the callback. `ApplyRule` and `DeleteRule` are the client calls, each with an outcome `ok`. A failed Reconfigure, or vCenter refusing a rule whose VM id is `""`, leaves the cluster unchanged. |
| `DRSRuler` | C7 with the pod informer (part of C4), `GetVMIDFromNode` (part of C5) and C6 | `store` is the informer store and `queue` the notifications not yet delivered to the DRSRuler handler. `affinityPods` and `antiAffinityPods` map each tracked pod to its nodeName. `resolved` holds the nodes the bridge answers with their VM. `ResolveVM` adds one (the VM stream reports the hostname). `ForgetVM` removes one: a renamed node, whose new hostname the node cache has before the VM stream reports it. `Restart` empties it, because the new process's caches are empty until both streams report again. A `sync` pass is a sequence of steps: `SyncStart` takes the two snapshots, then `DeleteStale`, `ApplyMissing`, `ModifyDelete` and `ModifyReapply` (one vSphere call each), and `EndLoop`. The position of the pass is `phase`, `todo` and `modifying`. `Restart` is a process crash. |
| `HostLabelCache` | C2 with the node informer | `labels` is the informer store (the host label of each node; `NoHost` for absent or `""`, which the code treats alike). `queue` holds the notifications for the handler. `nodeToHost` and `hostToNodes` are the cache's maps; `hostToNodes` is total, because a missing key and an empty set read alike in `GetNodes`. `AddNodeHost` and `RemoveNodeHost` are the helpers. `HandleAdd`, `HandleUpdate` and `HandleDelete` are the handler, whose mutex makes each one atomic. A delete may arrive as a tombstone. `Restart` rebuilds the cache from the initial list, in any order. |
| `NodePodCache` | C3 with the pod informer | `server` is the API server's pods and `store` the informer's, both keyed by name. A name can be reused by a new pod with a new UID. `watching` is FALSE while the watch is broken. `Relist` is the informer's `Replace`: a listed pod whose key is stored arrives as an update, a new key as an add, and a vanished key as a tombstone. `podsOnNode` is the index; `DoAdd` and `DoDelete` are its helpers, and `DoDelete` drops an emptied entry. |
| `VMLookup` | C5, abstractly | What the bridge promises. `live` is the set of running nodes and `answer` what the last lookup of each node returned. A lookup may answer `""` or lag behind a stopped node, but never gives another machine's VM. `Resolution` is weak fairness of resolving a live node, written out. |
| `VMBridge` | C5 with the node informer | Each node runs on one machine in VM `NodeVM[n]`, with an OS hostname `osName[n]` (one of `NamesOf[n]`, unique among running machines). `Boot`, `Rename` and `Stop` change the machine and queue the node notification. `HandleNode` is `kubeNodeCache`'s `OnAdd`/`OnUpdate`/`OnDelete` (`KubeAdd`, `KubeDelete`). `VMHostname` and `VMLeave` are the property-collector callback. The collector reports per VM the difference from what it reported last (`vmidToHostname`), so coalesced updates are covered. `ReadHostname` and `ReadVMID` are the two locked reads of `GetVMIDFromNode`, with one caller per node. `Lookup` is the refinement: `INSTANCE VMLookup WITH live <- Up`. |
| `Filters` | C1 and the pure parts of C8 | A selector is the set of store pods it matches. `AndMatches` and `OrMatches` are `And`/`Or.Matches`, including the empty cases. `HostTerms`, `ParseFails`, `MatchedPods` (`ListPod` over the `Or`) and `PodNodes` are the first half of `Filter`. `Forbidden` is the placement rule the filter is checked against: no node of a pod matched by a host term, nor a node sharing its host. |
| `Placement` | C9's filter request and C8, composed with C2 | It extends `HostLabelCache`. `ProcessFilter` is `processFilter`: a request without `NodeNames` is answered 400 (`err`), otherwise the filter runs on the request's candidates (`cands`, from `Candidates`) and its error is answered 400. `call` is a `Filter` call, taken one host-cache lookup per step: `FilterBegin` (terms, `ListPod`, `nodeMap`), `FilterGetHost` per node, `FilterGetNodes` per host, then `FilterEnd`. The lookups take no lock, so the node informer and handler (`CacheStep`) interleave with them. `cohosted` and `quiet` record, for the properties, what held in every state of the call. `RestartProcess` ends the call with the process. |
| `NodeLabeller` | C11 with the `runtime.host` half of C5 | `vmHost` is where vSphere runs each node's VM; `VMotion` migrates one. `HostReport` is the `runtime.host` branch of the property-collector callback with `getHost`: a cached host, a retrieved and cached one, or, when `RetrieveOne` fails, `""` uncached. `reported` is what the collector last delivered, so a report is made only when the host changes. `vmidToHost` is what `GetHostFromVMID` answers (`HostOfVM`). The VM-id lookup is `VMLookup` abstractly, as in `DRSRuler` (`ResolveVM`, `ForgetVM`). `Tick` is a pass of `doLabel` over the listed nodes; `LookupVM`, `ReadHost` and `Update` are its three calls per node. `label` is each node's host label. |
| `MC_DRSRuler`, `MC_Placement`, `MC_NodePodCache`, `MC_VMBridge` | — | model values and the pod specs of `TestDRSRulerDesiredRules`: `a` is an anchor, `b` has host affinity to `a`, `c` has host anti-affinity to `a` |

### Abstractions

- **Rule names.** A rule name is `<<"affi", p>>` or `<<"anti", p>>` rather than a string.
- **Label selectors.** A label selector is the set of pods it matches (`Term.matches`); pod labels never change in the model.
- **Rule keys.** Keys come from a finite `Keys` set. A new rule takes the least key not held by the cluster or by the client's view. Since keys are only compared for equality, this is the same as vCenter's ever-growing keys.
- **Order.** Map iteration order is a nondeterministic choice of the next name in `todo`. Rule VM lists are sets: the code sorts them before comparing.

## 3. Runs

| Run | Expect | What it shows |
|-----|--------|---------------|
| `drs_safety` | pass | `TypeOK` and `NoDuplicateRuleNames` hold over every interleaving of pod creation, binding, status updates, deletion (including tombstones), VM resolution, the handler, the rule stream, one restart and one failing call. Passes start only once the stream has caught up. |
| `drs_liveness` | pass | `DeletedPodRulesRemoved` and `DesiredRuleInstalled` hold under `FairSpec`, across one restart and one failure. |
| `drs_converge` | violation | `Converges` fails. Once `a` is bound, `b`'s rule drifts. Every pass then deletes it and re-applies it with `actualRule.VMs` (drs_ruler.go:126), so the rule never changes. |
| `drs_tombstone` | violation | `DeletedPodRulesRemoved` fails. `OnDelete` drops a tombstone, so the pod stays tracked and its rule stays installed. |
| `drs_outrun` | violation | `NoDuplicateRuleNames` fails. Without `TickAfterRefresh`, a pass that starts before the stream reports the previous pass (or after a restart) adds a second rule of the same name. |
| `placement_filter` | pass | If every delete reaches the handler, `HostIndexConsistent` holds in every state, and so does `CacheReplaysToStore`: replaying the queued notifications, as the store changes they announce (`Announce`, `Replay`), onto `nodeToHost` gives the stored host labels. Both hold over any order of node adds, relabels and deletes, with a lag of up to three notifications and one restart. Filter calls interleave with all of this. `FilterMatchesRule` holds for every term set with a host term, for `nil`, for an unparsable selector, and for requests carrying both nodes, one node or no `NodeNames`. |
| `placement_race` | violation | `FilterExcludesCoHosts` fails. Pods `p1` and `p2` run on `n1` and `n2`, and all three nodes are on `h1`. `GetHost(n2)` reads `""` before `n2`'s add is handled. The handler then removes `n1`'s label before `GetHost(n1)`, so no host is expanded. `n3` is returned, although it shared `h1` with a matched pod in every state of the call. Each lookup is atomic, as the spec allows, but the answer matches no snapshot of the cache. |
| `placement_otherkey` | violation | `FilterMatchesRule` fails. A pod whose only term has another topology key gets an empty `selector.Or`, which matches every pod, so the pod is kept off `n1`, which runs `p1`. The rule says such terms are ignored. An empty non-nil term list does the same. |
| `npc_relist` | pass | When names are not reused, binds, deletes, a lagging handler, and a broken watch with its relist never make the index miss an assigned pod (`IndexComplete`). `TypeOK` holds too, including the removal of emptied entries. |
| `vmb_lookup` | pass | `LookupSpec`: the bridge implements `VMLookup` when no hostname is carried by two machines. This holds across renames, stops, either stream lagging, and state changing between the two reads of `GetVMIDFromNode`. |
| `labeller` | pass | `LabelFollowsHost` holds: once the querier holds the host of a node's VM, the node is labelled with it unless the VM moves first. This holds across a lookup answering `""`, a failed `RetrieveOne`, a failed `Update`, a migration, and passes that began before the report. `TypeOK` holds too. |
| `vmb_reuse` | violation | `NodeResolves` fails. `n1` stops and `n2` comes up under `n1`'s hostname `h1`. `v2`'s enter is delivered before `v1`'s leave, and the leave deletes `hostnameToVMID[h1]` (vsphere/cache.go:122). `n2` is then answered `""` for good. |

### Bounds

- Two nodes, each on its own VM, and two pods (`a`, `b`). This is enough for the following cases:
  - an anchor pod and a pod with a term, on the same node or on different nodes;
  - binding after creation;
  - a drift of the rule's VM set when the anchor binds.
- `MaxForgets = 1` in `drs_safety` and 0 elsewhere. One forgotten node lets a pass compute a rule with VM id `""`; the liveness run leaves it out to keep its state space small, and it still crosses a restart, which empties `resolved`.
- `MaxRestarts = 1` and `MaxFailures = 1`. One crash and one failed call reach every branch that a failure or a restart takes.
- `MaxQueue = 1` in `drs_safety` lets one status update queue behind other notifications. The other runs set it to 0: a status update changes nothing in the handler, so it only enlarges the state space.
- `Keys` has twice as many keys as there are rule names, so `FreeKeys` is never empty while the cluster has no duplicates.
- `drs_outrun` bounds the cluster at 3 rules with a CONSTRAINT. Duplicates grow it without limit there.
- `placement_race`: three nodes, `p1` on `n1` and `p2` on `n2`, the two-term set matching both, all nodes as candidates, a lag of one notification and no restart. Two matched hosts are needed for lookups of different states to combine. A third node is needed to be wrongly returned.
- `Placement`: two pods, `p1` (label `la`, on `n1`) and `p2` (label `lb`, pending), and six term sets. These reach a match on a bound pod, a match only on a pending pod, two terms, an ignored term beside a host term, and a parse error. Requests carry both nodes, only `n2` (so `n1`, which runs `p1`, is not a candidate), or no `NodeNames`. The cache part has two nodes and two hosts, a lag of up to 3 notifications, one restart. This reaches a relabel from one host to another, a label removed, and a node deleted and re-added.
- `NodePodCache`: two names, two nodes, and a lag of up to 3 notifications.
  - One pod per name.
  - One watch break.
  - Its runs do not check deadlock. Once every name is used up, the API server is idle and the informer waits, as the program does.

- `VMBridge`: two machines and three hostnames. In `vmb_lookup`, `n1` may carry `h1` or `h2` and `n2` carries `h3`. There are two renames, and the node handler lags by up to three notifications. This reaches a rename racing both streams, stale `hostnameToVMID` entries, and stops before either stream reports. `vmb_reuse` lets `n2` take `h1`. Neither run checks deadlock: once the machines have stopped and both caches have caught up, only the callers' reads remain, and they change nothing.
- `NodePodCache` is checked only without reused names. With `MaxIncarnation = 2` and `MaxGaps = 1`, `IndexComplete` fails: the relist's update pairs two UIDs and `Update` drops it. `GetPodsOnNode` has no caller in the repository, so this and the tombstone drop below are latent.
- `NodeLabeller`: two nodes and two hosts, any initial placement and any initial labels, one migration, one lookup falling back to `""`, one failed `RetrieveOne` and one `Update` whose two patches both fail. This reaches a report delivered while a pass is between its calls, a migration to a host whose name is cached, and a failure on a host that is later retrieved for the other node.
- The tombstone drops of `HostLabelCache` and `NodePodCache` (`WatchGaps = TRUE`, or `MaxGaps = 1`) break `HostIndexConsistent` and leave a stale entry in `podsOnNode`, in the same way that `drs_tombstone` shows for `DRSRuler`. They are not kept as runs of their own. The node-pod index's stale-entry property is not checked: with one watch break it fails this way, and without one `Relist` would not run. The run slot went to `placement_race`.
- `calculateRules` (drs_ruler.go:171) builds an empty `selector.And` for a pod whose terms all have another topology key, and it matches every pod, so the pod gets a rule over every pod's VM. This is the fault `placement_otherkey` shows for the filter's empty `selector.Or`. Its `DRSRuler` run is not kept, to stay within twelve runs.

### Fairness

`FairSpec` assumes weak fairness of three actions, each on a goroutine that never stops:

- the handler (the informer's delivery goroutine);
- the rule stream (the property-collector goroutine);
- the pass (`Run` loops forever on a 15 s ticker).

Failures are bounded by `MaxFailures`, so weak fairness is enough: after the last failure every call succeeds. `TickAfterRefresh` is the assumption that the 15 s sleep lets the stream report a pass's changes before the next pass starts. Without it, `drs_outrun` shows what goes wrong.

`VMBridge`'s `Fairness` is weak fairness of the node handler, of each VM's callback steps, and of each node's two reads. The handler and the property collector run on goroutines that never stop. Each caller, such as the `DRSRuler` pass, looks nodes up again on every pass. Renames are bounded, so a running node's hostname eventually stays fixed.

`NodeLabeller`'s `Fairness` is weak fairness of the labeller (the ticker fires every 10 s and `doLabel` runs to its end), of each VM's `runtime.host` report (the property-collector goroutine), and of `ResolveVM` per node (`VMLookup`'s `Resolution`, which `vmb_lookup` shows the bridge provides). Migrations, forgets and failures are bounded, so after the last of them every call succeeds.

## 4. Plan

1. `AffinityClient` and `DRSRuler`, with the runs above. Done.
2. `HostLabelCache` (C2). Done.
3. `NodePodCache` (C3). Done. Its relist of reused names is still to be carried into `DRSRuler`, whose `OnUpdate` (drs_ruler.go:241) has the same exposure.
4. `VMBridge` (C5). Done, with the refinement to `VMLookup`. `DRSRuler`'s `resolved` set follows `VMLookup`: `ResolveVM` is its `Resolve`, `ForgetVM` its `Forget`, and the `VMBridge` refinement run justifies using it in place of the two caches.
5. `Filters` and `Placement` (C1, C8 with C2). Done for the anti-affinity filter. The pod-affinity filter that `main.go` registers first is not in the repository; only its test is.
6. Composition of `Filters` and `DRSRuler`: the rules the reconciler makes agree with the filters' placements.
7. `NodeLabeller` (C11). Done. Two faults are shown by TLC but are not kept as runs, because main.go does not start the labeller:
   - a node whose VM is not resolved yet, including every node on a process's first pass, is labelled `""`, which wipes a correct host label (`[][label[n] \in Hosts => label'[n] # NoHost]_vars` fails);
   - after one failed `RetrieveOne`, `(vmHost[n] = h) ~> (label[n] = h)` fails: the node stays labelled `""` until its VM migrates.
8. An abstract `Reconcile` spec (the cluster jumps to the desired rules), with `DRSRuler` checked against it. It is expected to fail, for the modify-loop reason above, unless the mapping excludes drifted rules.

## 5. Not modelled

- **C9:** JSON decoding and encoding, `LoggingDecorator`, and `ServeHTTP`'s dispatch on the path. `prioritize` and `bind` change no state and answer constants. A body that does not decode is answered 400 like a request without `NodeNames`, so `NilNodes` stands for both.
- **Duplicates and order in `NodeNames`.** Candidates are a set. The filter keeps the input order and duplicates (pod_anti_affinity.go:98-102), and no property depends on either.
- **Logging.**
- **Client bootstrap:** the Kubernetes and vSphere client setup and the cluster lookup in `newAffinityClient`.
- **`nodeUpdater.DeleteLabel`.** It has no caller.
- **Unparsable selectors in `DRSRuler`.** `calculateRules` skips a term whose selector does not parse (drs_ruler.go:162-166), as it skips a term of another topology key. The model's `HostTerms` keeps only host terms; a pod whose only host term is unparsable is the drs_ruler.go:171 case, a rule over every pod's VM. `getSelector` (drs_ruler.go:265-284) has no caller.
- **Test fakes.**
- **`selector.Not`.** It has no caller. It also returns the inner `not` for `Not(Not(s))`, where the spec says `Not(Not(s)) ≡ s`.
- **The pod-affinity filter.** `filters.NewPodAffinity` is called in `main.go`, but its source is not in the repository. `Placement` therefore passes all nodes as candidates to the anti-affinity filter.
- **`GetPodsOnNode`'s lock** (node_pod_cache.go:129 unlocks at once). The function has no caller.
- **A VM's leave in `NodeLabeller`.** Its nodes do not stop; `VMBridge` models leaves for the hostname maps.
- **An empty node hostname.** `OnUpdate` adds an entry for `""` (kube_cache.go:135). The kubelet registers nodes with a hostname address, and `hostnameToKubeNode` has no reader.
- **The unlocked concurrent map access in C7.** It is a process crash in Go, which the model covers with `Restart`. The model computes `desiredRules` atomically.
