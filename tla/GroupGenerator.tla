---------------------------- MODULE GroupGenerator ----------------------------
(***************************************************************************)
(* The group generator of the policy controller: an EndpointGroup exists   *)
(* while some SecurityPolicy refers to it.  Policies and groups are read   *)
(* from informer caches that lag behind.  A group that is deleted stays,   *)
(* marked, until the group controller removes its finalizer.               *)
(***************************************************************************)
EXTENDS Integers, Sequences

CONSTANTS Policies, Peers, MaxChanges, MaxMeddles \* the last two are bounds

VARIABLES
    policies,    \* the peers of each policy: those applied to, ingress and egress
    groups,      \* "none", "live" or "deleting", by group
    policyCache, \* the policies the generator has seen
    groupCache,  \* the groups it has seen
    events,      \* changes not seen yet, of each informer
    queue,
    changes, meddles

vars == <<policies, groups, policyCache, groupCache, events, queue, changes, meddles>>

NoPeers == [appliedTo |-> {}, from |-> {}, to |-> {}, namedPort |-> FALSE]

\* The group of a peer, by the hash of its selector: peers with the same selector
\* share it.  An IP block has none.
PeerAsEndpointGroup(peer) == IF peer = "ipBlock" THEN {} ELSE {peer}

Groups == UNION {PeerAsEndpointGroup(p) : p \in Peers} \cup {"allEpWithNamedPort"}

EndpointGroupIndexSecurityPolicyFunc(policy) ==
    UNION {PeerAsEndpointGroup(p) : p \in policy.appliedTo \cup policy.from \cup policy.to}
    \cup (IF policy.namedPort /\ policy.to = {} THEN {"allEpWithNamedPort"} ELSE {})

Init ==
    /\ policies = [p \in Policies |-> NoPeers]
    /\ groups = [g \in Groups |-> "none"]
    /\ policyCache = policies /\ groupCache = groups
    /\ events = [policy |-> <<>>, group |-> <<>>]
    /\ queue = {}
    /\ changes = 0 /\ meddles = 0

\* A policy is written; one that does not exist has no peers.
WritePolicy(p, new) ==
    /\ changes < MaxChanges /\ changes' = changes + 1
    /\ new # policies[p]
    /\ policies' = [policies EXCEPT ![p] = new]
    /\ events' = [events EXCEPT !.policy = Append(@, <<p, new>>)]
    /\ UNCHANGED <<groups, policyCache, groupCache, queue, meddles>>

WriteGroup(g, state) ==
    /\ groups' = [groups EXCEPT ![g] = state]
    /\ events' = [events EXCEPT !.group = Append(@, <<g, state>>)]

\* addSecurityPolicy, updateSecurityPolicy and deleteSecurityPolicy queue the
\* groups the policy refers to and those it referred to.
\* (Mutant: an update queues the groups of the new policy.)
updateSecurityPolicyNewOnly ==
    /\ events.policy # <<>>
    /\ LET e == Head(events.policy) IN
       /\ policyCache' = [policyCache EXCEPT ![e[1]] = e[2]]
       /\ queue' = queue \cup EndpointGroupIndexSecurityPolicyFunc(e[2])
    /\ events' = [events EXCEPT !.policy = Tail(@)]
    /\ UNCHANGED <<policies, groups, groupCache, changes, meddles>>

updateSecurityPolicy ==
    /\ events.policy # <<>>
    /\ LET e == Head(events.policy) IN
       /\ policyCache' = [policyCache EXCEPT ![e[1]] = e[2]]
       /\ queue' = queue \cup EndpointGroupIndexSecurityPolicyFunc(e[2])
                         \cup EndpointGroupIndexSecurityPolicyFunc(policyCache[e[1]])
    /\ events' = [events EXCEPT !.policy = Tail(@)]
    /\ UNCHANGED <<policies, groups, groupCache, changes, meddles>>

\* Groups are watched too.
EnqueueGroup ==
    /\ events.group # <<>>
    /\ LET e == Head(events.group) IN
       /\ groupCache' = [groupCache EXCEPT ![e[1]] = e[2]]
       /\ queue' = queue \cup {e[1]}
    /\ events' = [events EXCEPT !.group = Tail(@)]
    /\ UNCHANGED <<policies, groups, policyCache, changes, meddles>>

GroupGenerateReconcile(g) ==
    LET users == {p \in Policies : g \in EndpointGroupIndexSecurityPolicyFunc(policyCache[p])}
        exist == groupCache[g] # "none"
    IN
    /\ g \in queue /\ queue' = queue \ {g}
    /\ IF users = {} /\ exist /\ groups[g] = "live" THEN WriteGroup(g, "deleting")
       ELSE IF users # {} /\ ~exist /\ groups[g] = "none" THEN WriteGroup(g, "live")
       ELSE UNCHANGED <<groups, events>>
    /\ UNCHANGED <<policies, policyCache, groupCache, changes, meddles>>

\* Someone deletes a group.
DeleteByHand(g) ==
    /\ meddles < MaxMeddles /\ meddles' = meddles + 1
    /\ groups[g] = "live" /\ WriteGroup(g, "deleting")
    /\ UNCHANGED <<policies, policyCache, groupCache, queue, changes>>

\* The group controller removes its finalizer, and with it the group.
Finalize(g) ==
    /\ groups[g] = "deleting" /\ WriteGroup(g, "none")
    /\ UNCHANGED <<policies, policyCache, groupCache, queue, changes, meddles>>

NewPolicies == {NoPeers} \cup UNION {
    {[NoPeers EXCEPT !.appliedTo = {p}],
     [NoPeers EXCEPT !.from = {p}, !.to = {"ipBlock"}, !.namedPort = TRUE],
     [NoPeers EXCEPT !.appliedTo = {p}, !.namedPort = TRUE],
     [NoPeers EXCEPT !.to = {p}]} : p \in Peers \ {"ipBlock"}}

Next ==
    \/ \E p \in Policies, new \in NewPolicies : WritePolicy(p, new)
    \/ updateSecurityPolicy \/ EnqueueGroup
    \/ \E g \in Groups : GroupGenerateReconcile(g) \/ DeleteByHand(g) \/ Finalize(g)

Fairness ==
    /\ WF_vars(updateSecurityPolicy) /\ WF_vars(EnqueueGroup)
    /\ \A g \in Groups : WF_vars(GroupGenerateReconcile(g)) /\ WF_vars(Finalize(g))

Spec == Init /\ [][Next]_vars /\ Fairness

------------------------------------------------------------------------------
Referenced(g) == \E p \in Policies : g \in EndpointGroupIndexSecurityPolicyFunc(policies[p])

\* A group comes to exist if some policy refers to it, and to be gone if none
\* does: even when it is referred to again while it is being deleted, or while
\* the caches still show what was.
GroupsFollowPolicies ==
    <>[](\A g \in Groups : groups[g] = IF Referenced(g) THEN "live" ELSE "none")
===============================================================================
