------------------------------ MODULE TowerPolicy ------------------------------
(***************************************************************************)
(* The policy controller of the tower plugin: an isolation policy and a    *)
(* security policy of tower, which refer to a VM, a label and a security   *)
(* group, become SecurityPolicy objects, and so do the system endpoints    *)
(* and the everoute cluster with its controllers and its whitelist of IP   *)
(* blocks.  Tower's objects are those of the informers' stores.  The       *)
(* objects written are read back from an informer cache that lags behind;  *)
(* a write may fail, and objects may be deleted by hand.                   *)
(***************************************************************************)
EXTENDS Integers, Sequences, SequencesExt

CONSTANTS Nics, LabelValues,
          MaxChanges, \* bound: changes of tower's objects
          MaxFaults   \* bound: failed calls, objects deleted by hand

VARIABLES
    kind,     \* the kind of policy there is: the objects, queues and workers of
              \* the four kinds have nothing in common
    vm,       \* the vnics of the VM, or Missing
    label,    \* the value of the label, or "missing"
    group,    \* what the security group refers to: "vm", "label", or "missing"
    iso,      \* the isolation policy of the VM: mode and peer, or NoPolicy
    sec,      \* the security policy: what it applies to, or NoPolicy
    system,   \* the system endpoints: an address or the VM, or "missing"
    cluster,  \* the everoute cluster, or NoCluster
    queue,    \* isolationPolicyQueue, securityPolicyQueue and the other two
    work,     \* applyPoliciesChanges under way, by owner
    api,      \* the SecurityPolicy objects
    lister,   \* crdPolicyLister
    events,   \* changes of the objects the informer has not seen
    guarded,  \* history: the VM is isolated as its policy wants, and has been
    calm,     \* history: no object was deleted by hand, and the policy has not
              \* changed before the objects of its last change were seen
    changes, faults

tower == <<kind, vm, label, group, iso, sec, system, cluster>>
vars == <<tower, queue, work, api, lister, events, guarded, calm, changes, faults>>

Owners == {"iso", "sec", "sys", "cluster"}

NoPolicy == [mode |-> "none", peer |-> "none"]

NoCluster == [exists |-> FALSE, controllers |-> {}, whitelist |-> FALSE]

Idle == [new |-> <<>>, old |-> {}, busy |-> FALSE, second |-> FALSE]

Missing == {"missing"}

Err == <<"err", "">>

------------------------------------------------------------------------------
(* Conversion of a tower policy.                                            *)

vmAsAppliedTo ==
    IF vm = Missing THEN {Err} ELSE {<<"endpoint", n>> : n \in vm}

parseSelectors ==
    IF label = "missing" THEN {Err} ELSE {<<"selector", label>>}

parseSecurityGroup ==
    CASE group = "missing" -> {Err}
      [] group = "vm" -> vmAsAppliedTo
      [] group = "label" -> parseSelectors

Peers(ref) == CASE ref = "label" -> parseSelectors
                [] ref = "group" -> parseSecurityGroup
                [] ref = "none" -> {}

Object(owner, prefix, peers, rules, tier) ==
    [name |-> <<owner, prefix>>, peers |-> peers, rules |-> rules, tier |-> tier]

\* A rule whose peers are empty is dropped, and one without rules isolates.
generateIsolationPolicy(peers, rules) ==
    CASE iso.mode = "all" -> <<Object("iso", "ip", peers, {}, 0)>>
      [] iso.mode = "partial" ->
           <<Object("iso", "ip.ingress", peers, rules, IF rules = {} THEN 0 ELSE 1),
             Object("iso", "ip.egress", peers, {}, 0)>>

\* Objects, or Err when something referred to is missing.
parseIsolationPolicy ==
    LET rules == IF iso.mode = "partial" THEN Peers(iso.peer) ELSE {}
    IN CASE iso = NoPolicy -> [err |-> FALSE, new |-> <<>>]
         [] iso # NoPolicy /\ vmAsAppliedTo = {} -> [err |-> FALSE, new |-> <<>>]
         [] OTHER -> [err |-> Err \in vmAsAppliedTo \cup rules,
                      new |-> generateIsolationPolicy(vmAsAppliedTo, rules)]

parseSecurityPolicyApplys(ref) ==
    CASE ref = "label" -> parseSelectors
      [] ref = "group" -> parseSecurityGroup

\* The policy within what another one applies to, named by the hash of that.
generateIntragroupPolicy(ref, peers) ==
    Object("sec", "sp.communicable-" \o ref, peers, peers, 2)

parseSecurityPolicy ==
    LET peers == parseSecurityPolicyApplys(sec.peer)
        main == Object("sec", "sp", peers, {}, 2)
    IN CASE sec = NoPolicy -> [err |-> FALSE, new |-> <<>>]
         [] sec # NoPolicy /\ peers = {} -> [err |-> FALSE, new |-> <<>>]
         [] OTHER -> [err |-> Err \in peers,
                      new |-> IF sec.mode = "communicable"
                              THEN <<main, generateIntragroupPolicy(sec.peer, peers)>>
                              ELSE <<main>>]

\* The objects of the system endpoints and of the cluster have fixed names.  A VM
\* that is missing is passed over.
Internal(owner, name, peers) ==
    IF peers = {} THEN <<>> ELSE <<Object(owner, name, peers, {<<"all", "">>}, 2)>>

parseSystemEndpointsPolicy ==
    Internal("sys", "system.endpoints",
             CASE system = "missing" -> {}
               [] system = "ip" -> {<<"endpoint", "ip">>}
               [] system = "vm" -> IF vm = Missing THEN {} ELSE vmAsAppliedTo)

parseControllerPolicy ==
    Internal("cluster", "controller", {<<"endpoint", c>> : c \in cluster.controllers})

parseGlobalWhitelistPolicy ==
    Internal("cluster", "whitelist", IF cluster.whitelist THEN {<<"all", "">>} ELSE {})

Parse(o) ==
    CASE o = "iso" -> parseIsolationPolicy
      [] o = "sec" -> parseSecurityPolicy
      [] o = "sys" -> [err |-> FALSE, new |-> parseSystemEndpointsPolicy]
      [] o = "cluster" -> [err |-> FALSE, new |-> parseControllerPolicy]

------------------------------------------------------------------------------
OwnedBy(o, objects) == {x \in objects : x.name[1] = o}

Names(objects) == {x.name : x \in objects}

\* The policy of the VM is in force: one object for all, or two.
Isolated(objects) ==
    \/ \E x \in objects : x.name = <<"iso", "ip">>
    \/ {<<"iso", "ip.ingress">>, <<"iso", "ip.egress">>} \subseteq Names(objects)

VMs == {Missing} \cup SUBSET Nics
Labels == {"missing"} \cup LabelValues
Groups == {"missing", "vm", "label"}
Policies(modes) == {NoPolicy} \cup [mode : modes, peer : {"label", "group"}]
IsolationPolicies == Policies({"partial"}) \cup [mode : {"all"}, peer : {"none"}]
SecurityPolicies == Policies({"apply", "communicable"})
Systems == {"missing", "ip", "vm"}
Clusters == {NoCluster} \cup [exists : {TRUE}, controllers : {{}, {"c1"}}, whitelist : BOOLEAN]

\* The controller starts: the informers list tower's objects.
Init ==
    /\ vm \in VMs /\ label \in Labels /\ group \in Groups
    /\ kind \in Owners
    /\ iso \in IsolationPolicies /\ (kind # "iso" => iso = NoPolicy)
    /\ sec \in SecurityPolicies /\ (kind # "sec" => sec = NoPolicy)
    /\ system \in Systems /\ (kind # "sys" => system = "missing")
    /\ cluster \in Clusters /\ (kind # "cluster" => cluster = NoCluster)
    /\ kind \in {"sys", "cluster"} => label = "missing" /\ group = "missing"
    /\ kind = "cluster" => vm = Missing
    /\ queue = {o \in Owners : \/ o = "iso" /\ iso # NoPolicy
                               \/ o = "sec" /\ sec # NoPolicy
                               \/ o = "sys" /\ system # "missing"
                               \/ o = "cluster" /\ cluster # NoCluster}
    /\ work = [o \in Owners |-> Idle]
    /\ api = {} /\ lister = {} /\ events = <<>>
    /\ guarded = FALSE /\ calm = TRUE
    /\ changes = 0 /\ faults = 0

Rest == <<work, api, lister, events, faults>>

Change == changes < MaxChanges /\ changes' = changes + 1

\* The policies that refer to a label or a VM, themselves or through the group.
ByIndex(ref) ==
    LET via == {ref} \cup (IF group = ref THEN {"group"} ELSE {})
    IN {o \in Owners : o = "iso" /\ iso.mode = "partial" /\ iso.peer \in via}
       \cup {o \in Owners : o = "sec" /\ sec.peer \in via}

handleVM(new) ==
    /\ Change /\ new # vm
    /\ vm' = new
    /\ queue' = queue \cup ByIndex("vm") \cup (IF iso = NoPolicy THEN {} ELSE {"iso"})
                      \cup (IF system = "vm" THEN {"sys"} ELSE {})
    /\ guarded' = FALSE
    /\ UNCHANGED <<kind, label, group, iso, sec, system, cluster, calm, Rest>>

\* (Mutant: policies that use the label through a group are left out.)
handleLabelDirect(new) ==
    /\ Change /\ new # label
    /\ label' = new
    /\ queue' = queue \cup {o \in Owners : o = "iso" /\ iso.peer = "label"}
                      \cup {o \in Owners : o = "sec" /\ sec.peer = "label"}
    /\ UNCHANGED <<kind, vm, group, iso, sec, system, cluster, guarded, calm, Rest>>

handleLabel(new) ==
    /\ Change /\ new # label
    /\ label' = new
    /\ queue' = queue \cup ByIndex("label")
    /\ UNCHANGED <<kind, vm, group, iso, sec, system, cluster, guarded, calm, Rest>>

handleSecurityGroup(new) ==
    /\ Change /\ new # group
    /\ group' = new
    /\ queue' = queue \cup ByIndex("group")
    /\ UNCHANGED <<kind, vm, label, iso, sec, system, cluster, guarded, calm, Rest>>

handleIsolationPolicy(new) ==
    /\ Change /\ kind = "iso" /\ new # iso
    /\ iso' = new
    /\ queue' = queue \cup {"iso"}
    /\ guarded' = (guarded /\ new # NoPolicy)
    /\ calm' = (calm /\ events = <<>> /\ "iso" \notin queue /\ ~work["iso"].busy)
    /\ UNCHANGED <<kind, vm, label, group, sec, system, cluster, Rest>>

handleSecurityPolicy(new) ==
    /\ Change /\ kind = "sec" /\ new # sec
    /\ sec' = new
    /\ queue' = queue \cup {"sec"}
    /\ UNCHANGED <<kind, vm, label, group, iso, system, cluster, guarded, calm, Rest>>

handleSystemEndpoints(new) ==
    /\ Change /\ kind = "sys" /\ new # system
    /\ system' = new
    /\ queue' = queue \cup {"sys"}
    /\ UNCHANGED <<kind, vm, label, group, iso, sec, cluster, guarded, calm, Rest>>

handleEverouteCluster(new) ==
    /\ Change /\ kind = "cluster" /\ new # cluster
    /\ cluster' = new
    /\ queue' = queue \cup {"cluster"}
    /\ UNCHANGED <<kind, vm, label, group, iso, sec, system, guarded, calm, Rest>>

\* The informer of the objects written: events come in their order.
handleCRDPolicy ==
    /\ events # <<>>
    /\ LET e == Head(events) IN
       /\ lister' = {x \in lister : x.name # e.name}
                      \cup (IF e.deleted THEN {} ELSE {e.object})
       /\ queue' = queue \cup {e.name[1]}
    /\ events' = Tail(events)
    /\ UNCHANGED <<tower, work, api, guarded, calm, changes, faults>>

------------------------------------------------------------------------------
\* The objects that may be there of an owner: those in the cache, or the one with
\* the fixed name.
OldKeys(o) ==
    CASE o = "sys" -> {<<"sys", "system.endpoints">>}
      [] o = "cluster" -> {<<"cluster", "controller">>}
      [] OTHER -> Names(OwnedBy(o, lister))

\* syncIsolationPolicy, syncSecurityPolicy, syncSystemEndpointsPolicy and the
\* first half of syncEverouteClusterPolicy: what does not parse is queued again.
syncPolicy(o) ==
    /\ o \in queue /\ ~work[o].busy /\ ~Parse(o).err
    /\ queue' = queue \ {o}
    /\ work' = [work EXCEPT ![o] = [new |-> Parse(o).new, old |-> OldKeys(o), busy |-> TRUE,
                                    second |-> FALSE]]
    /\ UNCHANGED <<tower, api, lister, events, guarded, calm, changes, faults>>

PutObject(x) ==
    /\ api' = {y \in api : y.name # x.name} \cup {x}
    /\ events' = Append(events, [name |-> x.name, deleted |-> FALSE, object |-> x])

DeleteObject(name) ==
    /\ api' = {y \in api : y.name # name}
    /\ events' = IF name \in Names(api)
                 THEN Append(events, [name |-> name, deleted |-> TRUE,
                                      object |-> CHOOSE y \in api : y.name = name])
                 ELSE events

Requeue(o) ==
    /\ work' = [work EXCEPT ![o] = Idle]
    /\ queue' = queue \cup {o}
    /\ UNCHANGED <<api, events>>

\* The next object of applyPoliciesChanges.  An update based on another version
\* than the stored one is refused, as is one of an object that is gone.
ApplyNew(o) ==
    LET x == Head(work[o].new)
        cached == {y \in lister : y.name = x.name}
        next == [work[o] EXCEPT !.new = Tail(@), !.old = @ \ {x.name}]
    IN
    /\ work[o].new # <<>>
    /\ IF x.name \in work[o].old /\ cached # {}
       THEN \/ x \in cached /\ work' = [work EXCEPT ![o] = next] /\ UNCHANGED <<queue, api, events>>
            \/ /\ x \notin cached /\ cached \subseteq api
               /\ PutObject(x) /\ work' = [work EXCEPT ![o] = next] /\ UNCHANGED queue
            \/ x \notin cached /\ ~(cached \subseteq api) /\ Requeue(o)
       ELSE /\ IF x.name \in Names(api) THEN UNCHANGED <<api, events>> ELSE PutObject(x)
            /\ work' = [work EXCEPT ![o] = next] /\ UNCHANGED queue
    /\ guarded' = (guarded \/ (o = "iso" /\ iso # NoPolicy /\ vm \notin {Missing, {}} /\ Isolated(api')))
    /\ UNCHANGED <<tower, lister, calm, changes, faults>>

\* (Mutant: what is not wanted any more is deleted first.)
DeleteOldFirst(o) ==
    /\ \E name \in work[o].old \ {work[o].new[i].name : i \in DOMAIN work[o].new} :
         /\ DeleteObject(name)
         /\ work' = [work EXCEPT ![o].old = @ \ {name}]
    /\ UNCHANGED <<tower, queue, lister, guarded, calm, changes, faults>>

DeleteOld(o) ==
    /\ work[o].new = <<>>
    /\ \E name \in work[o].old :
         /\ DeleteObject(name)
         /\ work' = [work EXCEPT ![o].old = @ \ {name}]
    /\ UNCHANGED <<tower, queue, lister, guarded, calm, changes, faults>>

Applied(o) == work[o].busy /\ work[o].new = <<>> /\ work[o].old = {}

\* The second half: the whitelist, unless the cluster is not found.
syncEverouteClusterPolicy ==
    /\ Applied("cluster") /\ ~work["cluster"].second
    /\ IF cluster.exists
       THEN /\ work' = [work EXCEPT !["cluster"] =
                          [new |-> parseGlobalWhitelistPolicy, busy |-> TRUE, second |-> TRUE,
                           old |-> {<<"cluster", "whitelist">>}]]
            /\ UNCHANGED <<queue, api, events>>
       ELSE Requeue("cluster")
    /\ UNCHANGED <<tower, lister, guarded, calm, changes, faults>>

Done(o) ==
    /\ Applied(o) /\ (o = "cluster" => work[o].second)
    /\ work' = [work EXCEPT ![o] = Idle]
    /\ UNCHANGED <<tower, queue, api, lister, events, guarded, calm, changes, faults>>

\* A call to the API server fails.
Fail(o) ==
    /\ work[o].busy /\ ~Applied(o)
    /\ faults < MaxFaults /\ faults' = faults + 1
    /\ Requeue(o)
    /\ UNCHANGED <<tower, lister, guarded, calm, changes>>

\* An object is deleted by hand.
Meddle(x) ==
    /\ faults < MaxFaults /\ faults' = faults + 1
    /\ DeleteObject(x.name)
    /\ guarded' = FALSE /\ calm' = FALSE
    /\ UNCHANGED <<tower, queue, work, lister, changes>>

Next ==
    \/ \E v \in VMs : handleVM(v)
    \/ \E l \in Labels : handleLabel(l)
    \/ \E g \in Groups : handleSecurityGroup(g)
    \/ \E p \in IsolationPolicies : handleIsolationPolicy(p)
    \/ \E p \in SecurityPolicies : handleSecurityPolicy(p)
    \/ \E x \in Systems : handleSystemEndpoints(x)
    \/ \E c \in Clusters : handleEverouteCluster(c)
    \/ handleCRDPolicy \/ syncEverouteClusterPolicy
    \/ \E o \in Owners : syncPolicy(o) \/ ApplyNew(o) \/ DeleteOld(o) \/ Done(o) \/ Fail(o)
    \/ \E x \in api : Meddle(x)

Spec == Init /\ [][Next]_vars

------------------------------------------------------------------------------
\* When nothing is queued, under way or unseen, the objects of every policy are
\* what it converts to now: a change of the policy, of what it refers to
\* directly or through a group, a stale cache, failed calls and objects deleted
\* by hand are all made good.
QuietPoliciesInSync ==
    \A o \in Owners :
        events = <<>> /\ o \notin queue /\ ~work[o].busy =>
            /\ ~Parse(o).err
            /\ OwnedBy(o, api) = Range(Parse(o).new)
                 \cup (IF o = "cluster" THEN Range(parseGlobalWhitelistPolicy) ELSE {})

\* A VM that has been isolated stays so while its isolation policy exists: a
\* change of mode creates the new objects before it deletes the old, and stops
\* when that fails.  (Unless the mode changes again before the informer has
\* seen the objects of the last change.)
IsolationKept == guarded /\ calm => Isolated(api)
===============================================================================
