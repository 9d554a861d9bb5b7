# Everoute in TLA+

Everoute enforces security policies between the endpoints (VMs, pods) of a
cluster with Open vSwitch. This directory models its control loops, caches and
flow tables in TLA+, checks them with TLC on small instances and proves the
central results with TLAPS. Paths below are relative to the repository;
`PROJECT.json` maps every definition to its lines.

## The system

| Part | State | Operations | Interacts with |
|---|---|---|---|
| Tower plugin (`plugin/tower`) | mirrored Tower objects, policies, endpoints | client, reflector, informer; policy, endpoint and global controllers | Tower, API server |
| Kubernetes controllers (`pkg/controller/k8s`) | ServicePort, SecurityPolicy, Endpoint objects | conversions | API server |
| Webhook (`pkg/webhook`) | certificate, configuration | validation | API server |
| Endpoint controller (`pkg/controller/endpoint`) | interface cache, Endpoint status | AgentInfo events, expiry of IPs, status update | agent monitor, group controller |
| Group generator (`pkg/controller/policy`) | EndpointGroup objects | create/delete a group that policies refer to | policies, group controller |
| Group controller (`pkg/controller/group`) | GroupMembers, GroupMembersPatch objects, work queue | compute members, patch, write, clean up, delete | endpoints, agents |
| Agent group cache (`pkg/agent/controller/policy/cache/group.go`) | membership and patches per group | AddPatch, NextPatch, ApplyPatch, Add/DelGroupMembership | API watches, policy reconciler |
| Agent policy reconciler (`pkg/agent/controller/policy`) | complete rules | ReconcilePolicy, ReconcilePatch, global policy | group cache, datapath |
| Datapath manager (`pkg/agent/datapath/multiBridgeDatapath.go`) | rule table, bridges, rounds, local endpoints | add/remove rule, replay, flush, conntrack cleaning | policy reconciler, vswitchd |
| Bridges (`local`, `policy`, `cls`, `uplink`, `nat`) | flow tables, learned addresses | table set-up, rule and endpoint flows | datapath manager |
| Monitors (`pkg/monitor`) | OVSDB cache, learned IPs | OVSDB events, AgentInfo writes | datapath, endpoint controller |
| Proxy (`pkg/agent/controller/proxy`, `pkg/agent/proxy`) | services, routes | service and node events | nat bridge, kernel |
| CNI and RPC servers, `erctl` | interfaces; none | CmdAdd/Check/Del; queries | kubelet, agent |

A policy takes effect along one path: endpoints are selected into groups; the
group controller publishes a group's members as a GroupMembers object and a
chain of patches, both with revisions; each agent rebuilds the membership in its
group cache, expands policies to complete rules and those to PolicyRules, and
installs them as flows that carry the round number of the agent's run. Tower and
Kubernetes feed the path at one end; the bridges, the kernel and the connection
table carry it out at the other.

What makes it hard: every reader has caches that lag, each at its own pace;
patches and the object they belong to arrive in any order and are deleted; calls
fail or conflict and are retried; controller, agents and vswitchd restart; the
agent keeps its rules up to date incrementally for as long as it lives.

What it has to guarantee: an agent never shows a membership that was not given
out, and reaches the newest one; the rules patched step by step are those of a
fresh expansion; the datapath holds exactly the rules of the policies, with
flows shared among them; after a restart only the flows of the new run remain;
what is at rest is in step with what it mirrors.

## Modules

### Group synchronisation

- `GroupPatch`: memberships, patches and the agent's cache of one group as pure
  operators (`ToGroupMembersPatch`, `AddPatch`, `ApplyPatch`, ...). A member's
  IPs and agents are one value, since the code only compares them; its ports are
  separate, since the code does not compare them.
- `GroupController`: the reconcile of one active group. The GroupMembers object
  and the patches are logs of versions and events (`mLog`, `pLog`); an informer
  cache is a position in a log (`cm`, `cp`). Each API read or write of the
  reconcile is a step, with its conflict and error outcomes; `CallFails` and
  `ControllerRestart` interrupt it anywhere. `hist` is a history variable: the
  membership of each revision.
- `GroupSync`: controller, API server and agents together. Agents see both
  kinds of objects at their own pace, relist, restart, and hold a patch between
  reading and applying it (`held`). `ApplyPatch` ends the process when it meets
  another revision (`dead`). In the model nothing moves the revision of a live
  group in between, so no property is about it: in the code it takes a group that
  is deleted and created again, which is not modelled.
- `MembershipHistory`: the abstract specification. A history of memberships is
  published and every agent moves through it in order. `GroupSync` implements it
  under the mapping `hist`, `gc` to `versions`, `view`.
- `GroupSelector`, `GroupSelection`: which endpoints a group selects, which
  events put it in the queue, the finalizer and the deletion.
- `GroupGenerator`: the groups that exist because a policy refers to them.

### From Tower and Kubernetes to objects

- `TowerInformer`: subscribe, list, watch, start over. `TowerClient`: the same
  over a websocket, its two goroutines and their channels, and the login; it
  implements `TowerInformer`. `SharedInformer`: indexer, listeners that join
  late, resyncs.
- `TowerPolicy`, `TowerEndpoint`, `GlobalPolicy`: the plugin's controllers, which
  write several objects per key from a lister that lags.
- `K8sControllers`, `NetworkPolicies`: the mirrors of pods, NetworkPolicies and
  Endpoints, and what a NetworkPolicy means after conversion, selection and
  expansion.
- `Webhook`, `WebhookCert`: what is accepted, against what the agent can complete;
  and the certificate shared by the instances.
- `EndpointStatus`: a learned address from the port of an agent through
  AgentInfo and the controller's interface cache to the status of its Endpoint.

### Policy rules and datapath

- `CompleteRules`: `completePolicy`, `generateRuleList`, `applyCountMap`,
  `GetPatchPolicyRules` and the others as pure operators over the group cache.
- `PolicyRules`: one policy and its groups in the agent. `ReconcilePolicy` is one
  step (it holds the reconciler lock); `NextPatch` and `ReconcilePatch` are two,
  since the code reads before it takes the lock. A sync of the datapath is the
  change of the set of installed rules; how it is done is `RuleTable`.
- `RuleTable`: the table of rules shared by flow key, with the passes of
  `syncPolicyRulesUntilSuccess`, of which the global policy runs one
  concurrently. A call may fail after it reached some of the VDSs; a pass with
  errors is repeated as a whole; the deadline may end it; vswitchd may restart
  and have everything replayed.
- `FlowRound`: round numbers, the delayed flush, replay and crash. A flow is the
  round in its cookie, and the run that added it.
- `Conntrack`: tiers, modes and priorities of the policy bridge, and the bounded
  channel to the workers that delete connections, filled under the replay mutex.
  A connection is committed under the label of its verdict, a denied one too unless
  it is TCP without SYN. `initCTFlow` drops packets whose label matches the bytes
  `{0x8, 0, ...}`, while `AddMicroSegmentRule` sets bit 127; whether the two are the
  same bit is up to the library's layout of a label. So an entry labelled as denied
  may be dropped at once or be shown to the rules again, and the property is about
  the entries themselves: none outlives the rule it came from, allowed or denied.
- `BridgeChain`, `CniGateway`: the way of a frame through the four bridges of
  each host, and of a pod's packet through the kernel.
- `LocalEndpoint`: OVSDB rows, the goroutines that handle them in any order and
  read the rows as they are by then, the table of endpoints and their flows. An
  update carries the old values of changed columns only, so one of the external-ids
  ends the agent, which reads the old name (`filterEndpointUpdated`). Interfaces in
  `Skipped` (patch ports, the CNI gateway) are in the table and get no flows; their
  rows have no identity of an endpoint, so neither their external-ids nor their tag
  are followed, and their removal dereferences a flow that is not there, which ends
  the agent too. `ArpLearning`: addresses learned from ARP.
- `ServiceProxy`, `NodeRoutes`, `CniServer`: services, routes and nat rules, pods.
- `PortRange`, `IPBlocks`: `FlattenPorts` and `ParseIPBlock` for numbers of `W`
  bits, checked against what a range or a block means.

An `MC...` module puts components that share no state side by side: `part` says
which of them a behaviour is about and the others rest, so one run asks one kind
of question of several components. A definition marked "(Mutant: ...)" is a
variant with a plausible mistake, used to confirm that a property can fail. The
`...Proofs` modules are described under Proofs.

## Runs

| Run | Components | Checks | Shows |
|---|---|---|---|
| `group_sync` | `GroupSync` | `AgentsHoldHistory`, `PatchesReachTop`, `ImplementsHistory` | an agent's membership at a revision is the one given out; the patches up to the newest revision exist; the whole implements `MembershipHistory` |
| `translation` | `PortRange`, `IPBlocks`, `NetworkPolicies`, `Webhook`, `K8sControllers`, `WebhookCert` | `MatchesRanges`, `IPBlockExact`, `NetworkPolicyMeansTheSame`, `AcceptedPoliciesComplete`, `MirrorsFollow`, `CertTrusted` | what is translated means the same, what is accepted can be completed, what mirrors follows |
| `endpoint_status` | `EndpointStatus` | `StatusFollowsHolder` | an address comes to be in the status of the Endpoint that holds it and of no other |
| `datapath` | `FlowRound`, `BridgeChain`, `ServiceProxy`, `Conntrack`, `RuleTable` | `OnlyOwnFlows`, `FramesArriveOnce`, `QuietServicesBalanced`, `ConnectionsAsIntended`, `FlowsFollowRules` | after any crash, failed call, replay or move: exactly the flows, frames and connections there should be |
| `node` | `PolicyRules`, `ArpLearning`, `NodeRoutes`, `CniServer`, `GlobalPolicy`, `CniGateway`, `Conntrack` | `RulesCurrent`, `FlowsMatchRules`, `AddressesNotShared`, `PacketsArrive`, `FlowsConverge`, `AddressesReported`, `PodsReachable`, `NothingLeaks`, `DefaultActionEnforced`, `OperationsReturn` | the agent's incremental state equals what it stands for, and its loops come to rest there |
| `controllers_quiet` | `GroupController`, `GroupSelection`, `TowerPolicy`, `LocalEndpoint`, `SharedInformer` | `QuietInSync`, `QuietMembersSelected`, `QuietPoliciesInSync`, `IsolationKept`, `QuietDBFollowsOVSDB`, `FlowsFollowDB`, `ListenersInStep` | a loop with nothing left to do is in step with what it reads; an isolated VM stays isolated while its policy changes |
| `controllers_follow` | `GroupSync`, `GroupGenerator`, `TowerInformer`, `TowerEndpoint`, `TowerClient` | `CaughtUp`, `AgentsConverge`, `GroupsFollowPolicies`, `EndpointsFollowTower`, `EndpointsKept`, `ImplementsInformer`, `ReflectorResumes` | under fairness the loops come to what they should and stay there; `TowerClient` implements `TowerInformer` |
| `group_reuse` | `GroupController` | `PatchForLatestRevision` | violated: two caches of different age, and an old revision gets a second patch |
| `policy_overlap` | `PolicyRules` | `FlowsMatchRules` | violated: two groups on one side of a rule with one IP |
| `rule_again` | `RuleTable` | `FlowsInstalled` | violated: shared flows and a repeated pass |
| `client_close` | `TowerClient` | `ClosedOnce` | violated: reader and reflector both close the stop channel |
| `port_zero` | `PortRange` | `MatchesRanges` | violated: a range that begins with port 0 |

The violated ones are the "findings" in `PROJECT.json`: places where the code does
not do what a comment, a test or the API documentation says. Most state the
property of a passing run or of a theorem, so that the pair shows where the
boundary lies.

### Bounds

`MaxChanges`, `MaxFaults`, `MaxSyncs`, `MaxRuns` and the like bound what the
environment does; everything the code does in response is unbounded.

- `group_sync`: one endpoint with two addresses; two changes of it, or one and up
  to two faults (`Small`); `LeadBounded` (see Proofs). `Retained` is 1 so that
  patches are cleaned up while an agent is behind.
- `datapath`: `MaxRoundNum` is 3 and there are six runs, so the number wraps
  twice and every round returns. Two endpoints talk and move, a third listens and
  a fourth is in another VLAN. `Tolerated` gives the rule table one of two
  workloads: rules that share flows and no failing call, or rules of one policy
  each and failing calls.
- `node`: a group on each side of a rule, an IP block, named ports, default rules,
  symmetric mode, endpoints that move between local and remote agents; each group
  starts with a member, so the bounded changes are additions, updates and removals
  alike. Three sandboxes compete for two addresses. In "operations" the rules
  change and no packet is sent.
- `controllers_quiet`: two endpoints with one address each and no membership that
  returns; two interfaces, one of
  them a patch port, and five changes of rows, or four and a fault; two
  listeners, one of which joins late.
- `controllers_follow`: one change and one fault for the group; three changes of
  two policies; two changes of a Tower object, or one and a fault; the instances of
  `TowerClient` and `TowerEndpoint` are in `MCFollow`. Interchangeable values are
  told apart only after the first has been used.
- `endpoint_status`: two hosts with a port each and one address; a VM that has
  migrated, one that has taken over the address of another, one found by address.
- `translation`: all pairs of ranges of 4-bit ports and all 4-bit blocks with up
  to three exceptions, enough for every case of the mask computation: unaligned
  starts, blocks cut by the end of the range, the last port.

**Deadlock** is checked in `endpoint_status`, whose environment never comes to an
end. In the others a system that has used up its bounds and has nothing to do
stops.

**Fairness.** `WF` on cache updates, event handlers and the steps of reconciles:
informers deliver what is watched, work queues hand out every key they hold, and
a reconcile that runs gets on; on tickers and resyncs, which the code starts with
a period; on the goroutines of a client and the workers of a channel, which the Go
scheduler runs. `SF` twice: for ARP packets, which an endpoint sends again and
again while the cache entry comes and goes (`processArp`), and for a DEL, which the
kubelet repeats until it succeeds (`Clean`). Nothing is assumed of faults, restarts
or relists after the first. `AgentsConverge` is conditional on `InReach`: an agent
whose patch watch lags behind its GroupMembers watch may miss a patch that is
cleaned up in between, and since it ignores updates of GroupMembers it then stays
behind.

**Assumptions.** One controller is active (leader election). A list returns the
current objects. Endpoint references in a group are unique. An IP block is listed
once per rule. OVS does not give a port number out twice, and an interface has a
MAC address of its own. The kernel, kube-proxy, host-local IPAM, the kubelet,
client-go's DeltaFIFO and Tower are modelled from how the code uses them.

### Where the passing runs stop

Some constants and guards exclude inputs for which the code does not keep the
property. Setting them otherwise reproduces the behaviour.

- `PolicyRules`, `Policies <- IntraPolicies`: a group on both sides of a rule
  violates `FlowsMatchRules`, because the two halves of a patch's rule difference
  overlap. `Shared = TRUE` with `FromOnePolicies`: two members of a group with one
  IP on one agent violate `RulesCurrent`, because the loss of one drops the IP of
  both. `PortSets` with two sets: a change of ports alone is in no patch; when the
  member is removed later, the removal carries its new ports, and the PolicyRule of
  the old named port stays in the datapath. A rule named `a.namedport` shares its
  ids with the named ports of rule `a`.
- `GroupController`: `QuietInSync` needs `NoReturn`. A membership that changes and
  changes back while the caches lag is compared with an old version, and the
  change back is then not published. `ToGroupMembersPatch` does not compare ports,
  so a change of ports alone gives no new revision; the group properties compare
  memberships with `Same`, by addresses.
- `RuleTable`: shared flows with failing calls (`rule_again`); a key whose rule
  changes name and action at once, for which `AddEveroutePolicyRule` does not
  record the reference (excluded by `ActionsAgree`).
- `PortRange`, `Inputs <- EmptyAndRange`: the empty range beside another is not
  taken as all ports.
- `ServiceProxy`: the service cache is set only at the end of an update, so the
  flows of an update that failed half way are forgotten when the service changes
  before the retry (`lost`); a change of a service's ports is not implemented.
- `LocalEndpoint`: a change between no tag and a trunk is not recognised; the loss
  of an ofport is not reported; a new ofport alone passes for an insertion and is
  ignored if the interface had one before, and one set together with the
  external-ids is ignored if it had none. When a goroutine overtakes an earlier one
  of the same interface the table may keep the older row. Both are `missed`, which
  `QuietDBFollowsOVSDB` excepts; `FlowsFollowDB` holds of these too.
- `TowerEndpoint`: `updateVM` returns when the vnics are equal, so a VM that was
  DELETED when it was first seen and comes back with the same vnics (`again`) gets no
  Endpoint until something else queues them: a label of it, or an Endpoint that is
  there. `Follows` excepts an unlabelled one.
- `TowerPolicy`: without `calm` (the policy does not change again while the last
  change is processed, no object is deleted by hand) isolation lapses for a
  moment. Whitelist entries
  that follow labels or groups come with the resync only.
- `EndpointStatus`: the takeover may leave an IP in neither of two AgentInfos until
  it is learned again; the cleaner works from an old cache.
- `BridgeChain`: both learned entries live 300 s; an endpoint that has moved is
  reached again once it has broadcast, and frames before its flows exist go
  untagged.
- `NodeRoutes`: the routes of a removed node are not deleted; `PodsReachable` is
  about the nodes that are there.
- `GroupSelection`: an endpoint event whose Namespace is not cached yet is lost
  (`blind`). `K8sControllers`: a pod replaced under its name keeps the old named
  ports; a mirror changed by hand is not restored. `WebhookCert`: the secret is not
  deleted while it is served. `TowerClient`: a reader may stay blocked on a full
  channel after its subscription has ended.

## Proofs

Every theorem holds for all values of the constants that satisfy the named
assumptions; the runs show the same properties on small instances.

| Theorem | Statement | Inductive invariant |
|---|---|---|
| `GroupControllerProofs.TypeCorrect` | `Spec => []TypeOK` | `TypeOK` |
| `GroupSyncProofs.Invariant` | `BoundedSpec => []IInv` | `IInv` |
| `GroupSyncProofs.AgentsFollow`, `PatchesSuffice` | `BoundedSpec` implies `AgentsHoldHistory`, `PatchesReachTop` | `IInv` |
| `GroupSyncProofs.Refinement` | `BoundedSpec => ImplementsHistory` | `Inv` |
| `GroupSyncProofs.PatchesInOrder` | `BoundedSpec => []PatchForLatestRevision` | `IInv` |
| `GroupSyncProofs.PublishedWhenQuiet` | `SettlingSpec => []QuietInSync` | `Inv /\ QuietInv` |
| `PolicyRulesProofs.PatchedRules` | `Spec => []RulesCurrent`, if `Separated` | `CacheInv(FALSE) /\ RulesInv` |
| `PolicyRulesProofs.PatchedFlows` | `Spec /\ [][PortsSteady]_vars => []FlowsMatchRules`, if `Separated` and every policy is `Clear` | `CacheInv(TRUE) /\ RulesInv /\ FlowsMatchRules` |
| `RuleTableProofs.FlowsFollow` | `TolerableSpec => []FlowsFollowRules` | `TypeOK /\ CalmInv /\ FaultyInv` |
| `DatapathProofs.FlushLeavesOwnFlows` | `Spec => []OnlyOwnFlows` | `IInv` |
| `DatapathProofs.ServicesBalanced` | `ProxySpec => []QuietServicesBalanced` | `ProxyInv` |
| `InterfaceProofs.LocalFlows` | `LocalSpec => []FlowsFollowDB` | `LocalInv` |
| `InterfaceProofs.TableFollowsRows` | `LocalSpec => []QuietDBFollowsOVSDB` | `LocalInv /\ RowsFollowed` |
| `DatapathProofs.PodAddresses` | `CniSpec => []AddressesNotShared` | `CniInv` |
| `InformerProofs.ListenersKeepStep` | `SharedSpec => []ListenersInStep` | `SharedInv` |
| `InformerProofs.StoreCatchesUp` | `InformerSpec(Vals) => []CaughtUp` | `InformerInv(Vals)` |
| `InformerProofs.MembersSelected` | `Spec => []QuietMembersSelected`, if `EndpointsOfNs` and every group is `WellFormed` | `SelectionInv` |
| `InterfaceProofs.EndpointStays` | `Spec => EndpointsKept`, if every VM is an object | `HomeInv` |
| `TowerClientProofs.ClientImplementsInformer` | `Spec => ImplementsInformer`, if `MaxChanges \in Nat` | `ClientInv` |

**Group synchronisation.** `BoundedSpec` restricts `Spec` to steps after which the
newest patch is at most `Retained` revisions ahead of the GroupMembers object
(`LeadBounded`). Without that the `group_reuse` behaviour is possible. The
argument: everything recorded under a revision anywhere (object versions,
patches, the reconcile's variables, the agents' caches) agrees with `hist`. The
hard case is `CreatePatch`: it must extend `hist`, not give an old revision a
second patch. A patch name is free either because the revision is the newest or
because its patch was deleted; the deleted patches lie below the revision of the
cached object and of `w.prev` (`DeletedBelow`), so the second is impossible. That
in turn needs that cleanup works from a revision close to the cached object's,
which is what `LeadBounded` gives. None of the properties is inductive without
these. `Refinement` adds `DiffInv`, the difference a reconcile is about to
publish, and maps every step to a publication, an adoption, an advance by one
version or a stutter. `PatchesInOrder` is the property that `group_reuse` violates
without `LeadBounded`: creates happen at the newest revision and all earlier
patches are below it. `PublishedWhenQuiet` assumes `NoReturn` too: the selected
membership is then the newest one given out or none of them, so an empty
difference means that the newest revision is published. `GroupControllerProofs`
has types, the lemmas about patches and logs, and the controller's steps;
`GroupSyncProofs` the agents' steps and the theorems.

**Rules of a policy.** `Separated`: no address belongs to two members of a group
or to two peers of one side of a rule. `Clear`: rule names are unique in a
direction and no group is on both sides of a rule. `PortsSteady`: a member that
keeps its address keeps its ports. Each excludes a behaviour named above
(`policy_overlap`, `Shared`, `IntraPolicies`, ports), so the hypotheses are where
the code's incremental update is right; the constants of `node` satisfy them.
`CacheInv` says that a history of each group explains the cache: the membership is
the one of its revision, every patch leads from a revision to the next, and a patch
that was read and is not yet applied is still the next one, although it was read
without the lock. `RulesInv` adds that the groups a policy needs are live. The step
is then pointwise: the items a patch adds and deletes replace exactly the group's
items on one side, no other peer has them, and rules have distinct ids, so the
difference of PolicyRules is the difference of two full expansions.

**Rule table.** `TolerableSpec`: names are unique (`WellNamed`), and rules are
either unshared or agree on their action while no call fails. `CalmInv` relates
references, table and flows between passes; `FaultyInv` says how far a pass that
failed on some VDSs has got.

**Datapath.** `FlushLeavesOwnFlows`, for `MaxRoundNum >= 2`: every flow's round is
the persisted one or the next, or 0 or none; initialisation deletes the next
round's flows of earlier runs in each bridge it has passed; the flush deletes the
persisted round's. So when the round is persisted, only the run's flows are left.
With `MaxRoundNum` 1 the two rounds coincide. `ServicesBalanced`: for each service
that is not `lost`, recorded flows exist in every bridge (`RecordedInv`) and the
work in progress accounts for the rest (`SvcInv`), call by call.

**Interfaces.** `LocalInv` ties the table of local endpoints to the flows and to
the callbacks that are still to run, in any order. Assumed: `MaxPort \in Nat`, -1 is
neither a tag nor `Trunk`, and `Skipped` interfaces are interfaces.
`RowsFollowed` says of each interface that is not `missed` that it is `OnCourse`: its
row, the goroutines that have not run, the cached address and the table together
lead to the row. The order of the events is needed, because a goroutine of an
earlier event reads later rows: what is left of a deletion (`Settled` is false until
it has run) will empty the table whatever the others find, and the events `Since` it
are those of the row that is there now (`LeadsTo`); without a deletion the table, or
the callback that will fill it, has the port of the row and a mode that the row has
or that an event still to run brings (`Live`). An update of the external-ids that is
still to run ends the agent, unless the row is gone by then (`Doomed`).

**Pods.** `CniInv`: an address that host-local gave out is held by one sandbox, and
the request under way accounts for what is half done.

**Informers.** `SharedInv`: what a listener was told, followed by what is in its
buffer, leads to the indexer's value; a late joiner takes both under one lock.
`InformerInv`: the store, the listed values and the events received on a
subscription `Leads` to Tower's value, because the subscription precedes the list.
`ClientImplementsInformer`: what a subscription still owes the reflector
(`Pending`) is spread over the response channel, the reader's variable, the
connection and what was lost with it. A step of the reader moves an event from one
to the next and leaves the whole; only `watchHandler` takes from its head and only
a change at Tower adds to its end. For that `ClientInv` needs that an error is the
last thing a reader sends (`SubInv`) and that a subscription the reflector watches
is stopped only by its own reader, in its last step (`Undisturbed`): otherwise a
reader could drop the event it holds. The panic that `client_close` reaches maps to
a restart of the abstract reflector. `MCFollow` states the property over the variables it
shares between its parts, so the run's `ImplementsInformer` is that of the theorem
with `part = "client"`.

**Group members.** `MembersSelected`: out of the queue, the members are those
selected of the *cached* objects (`MembersInv`), and what the caches have not seen
ends at the objects (`CacheChain`); with no event left the two agree. Two things
make it inductive. `LifeInv` orders the versions of the group: a finalizer stays
until there are no members, and nothing but the end follows the mark. `Unseen` is
the exception: an endpoint event whose Namespace is not cached queues nothing, and
the Namespace's own event must do so. `EndpointsOfNs`: the endpoint is in the
modelled namespace. `WellFormed` is what `validateGroupSpec` and `validatePeer`
admit, and that a group names an endpoint of its own namespace only. Specs
that are not `Undisturbed` by lost endpoint events stay excepted, as in the run. `MCQuiet` states the property for
`part = "selection"`.

**Endpoints of vnics.** `EndpointStays`: while the vnic is on a VM (`steady`),
`HomeInv` says that Tower, the store once it has been listed, and every event on its
way agree that it is on that VM. A restart empties the store and unsets `synced`,
and the workers that delete wait for `synced`. `MCFollow` states the property for
`part = "vnic"`.

**Only model-checked.** The provers reach neither liveness under fairness nor
ENABLED, so `AgentsConverge`, `FlowsConverge`, `StatusFollowsHolder`,
`MirrorsFollow`, `CertTrusted`, `AddressesReported`, `PodsReachable`,
`NothingLeaks`, `DefaultActionEnforced`, `OperationsReturn`, `GroupsFollowPolicies`,
`EndpointsFollowTower` and `ReflectorResumes` stay with TLC. What recursive
functions compute for every input needs induction over data (`MatchesRanges`,
`IPBlockExact`). `NetworkPolicyMeansTheSame` and `AcceptedPoliciesComplete` are
about pure functions of one input. Not attempted: `FramesArriveOnce`,
`ConnectionsAsIntended`, `PacketsArrive`, `QuietPoliciesInSync` and `IsolationKept`.

## Not modelled

Every part that is left out is in `PROJECT.json` with the reason: the end-to-end
tests and their task monitor, `erctl` and the agent's RPC queries, process wiring,
the id generator, the conversion of rules field by field, stateless helpers, the
vendored certificate code, the fake Tower server. More than half of the
repository's lines are generated (clientsets, deep copies, OpenAPI, protobuf,
GraphQL); the definitions stand for about a third of the hand-written ones.

Within the modelled parts: transient API errors of the endpoint controller, trunk
ports in the bridge chain, packets of the hosts themselves in `CniGateway`,
`FlowIDToRules`, `EndPort` of NetworkPolicies (not supported by the code), the
fields left out for an older Tower, and the composition of a group's deletion with
agents that are behind. A type that Tower does not have counts as synced with an
empty store (`watchErrorHandler`); in `TowerInformer` Tower has every type.
`TowerPolicy` is about the policies of one Everoute cluster: the filter by
`EverouteCluster.ID` is left out. Of the ingress and egress rules of a Tower
policy it has those of an isolation policy; the rules of a security policy and the
error of parsing them are left out.
