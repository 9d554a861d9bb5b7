----------------------------- MODULE GlobalPolicy -----------------------------
(***************************************************************************)
(* The default action of an everoute cluster, from tower to an agent: the  *)
(* plugin's global controller writes it to the GlobalPolicy of the default *)
(* name and removes all others, a webhook refuses to create a second one   *)
(* as far as its cache shows, and an agent enforces the one it sees.       *)
(***************************************************************************)
EXTENDS Integers, Sequences, FiniteSets

CONSTANTS Others,    \* names of GlobalPolicies that users create
          MaxChanges \* bound: changes of the cluster, writes by users

VARIABLES
    cluster,   \* GlobalDefaultAction of the cluster in tower, or "none"
    policies,  \* the GlobalPolicies: action by name, or "none"
    events,    \* changes of GlobalPolicies not seen, by reader
    seen,      \* what each reader has seen of them
    queue,     \* reconcileQueue
    created,   \* reconcileGlobalPolicy has created the policy, and is to update it
    dirty,     \* the agent is to reconcile
    rules,     \* globalRuleCache: the default action the agent enforces, or "none"
    changes

vars == <<cluster, policies, events, seen, queue, created, dirty, rules, changes>>

Actions == {"Allow", "Drop"}

Default == "everoute-global-policy"

Names == {Default} \cup Others

Readers == {"controller", "agent"}

Existing(ps) == {n \in Names : ps[n] # "none"}

Init ==
    /\ cluster \in Actions \cup {"none"}
    /\ policies = [n \in Names |-> "none"]
    /\ events = [r \in Readers |-> <<>>]
    /\ seen = [r \in Readers |-> policies]
    /\ queue = IF cluster = "none" THEN {} ELSE {Default}
    /\ created = FALSE /\ dirty = FALSE /\ rules = "none"
    /\ changes = 0

Put(name, action) ==
    /\ policies' = [policies EXCEPT ![name] = action]
    /\ events' = [r \in Readers |-> IF action = policies[name] THEN events[r]
                                   ELSE Append(events[r], <<name, action>>)]

\* getCurrentGlobalPolicySpec: without the cluster the default is to allow.
getCurrentGlobalPolicySpec == IF cluster = "none" THEN "Allow" ELSE cluster

\* The cluster is added, updated or deleted in tower.
updateEverouteCluster(action) ==
    /\ changes < MaxChanges /\ changes' = changes + 1
    /\ action # cluster /\ cluster' = action
    /\ queue' = queue \cup {Default}
    /\ UNCHANGED <<policies, events, seen, created, dirty, rules>>

handleGlobalPolicy ==
    /\ events["controller"] # <<>>
    /\ LET e == Head(events["controller"]) IN
       /\ queue' = queue \cup {e[1]}
       /\ seen' = [seen EXCEPT !["controller"][e[1]] = e[2]]
    /\ events' = [events EXCEPT !["controller"] = Tail(@)]
    /\ UNCHANGED <<cluster, policies, created, dirty, rules, changes>>

\* A policy of another name is removed.
RemoveOther(n) ==
    /\ n \in queue \ {Default} /\ queue' = queue \ {n}
    /\ IF policies[n] = "none" THEN UNCHANGED <<policies, events>> ELSE Put(n, "none")
    /\ UNCHANGED <<cluster, seen, created, dirty, rules, changes>>

\* createValidate: what the webhook's cache shows decides, which may be current
\* or lag like the others.
createValidate(name) ==
    \E cache \in {policies, seen["controller"], seen["agent"]} :
        Existing(cache) \subseteq {name}

\* reconcileGlobalPolicy, in two calls when the policy is not in the cache.  A
\* create that is refused, or an update that the stored policy does not allow,
\* is tried again.
CreateDefault ==
    /\ Default \in queue /\ ~created
    /\ seen["controller"][Default] = "none"
    /\ policies[Default] = "none" /\ createValidate(Default)
    /\ Put(Default, "Allow")
    /\ created' = TRUE
    /\ UNCHANGED <<cluster, seen, queue, dirty, rules, changes>>

\* (Mutant: the spec is left as the create made it.)
UpdateNotCreated ==
    /\ Default \in queue
    /\ IF created THEN UNCHANGED <<policies, events>>
       ELSE /\ seen["controller"][Default] # "none"
            /\ seen["controller"][Default] = policies[Default]
            /\ Put(Default, getCurrentGlobalPolicySpec)
    /\ created' = FALSE /\ queue' = queue \ {Default}
    /\ UNCHANGED <<cluster, seen, dirty, rules, changes>>

UpdateDefault ==
    /\ Default \in queue
    /\ created \/ (/\ seen["controller"][Default] # "none"
                   /\ seen["controller"][Default] = policies[Default])
    /\ IF policies[Default] = "none" THEN UNCHANGED <<policies, events, queue>>
       ELSE Put(Default, getCurrentGlobalPolicySpec) /\ queue' = queue \ {Default}
    /\ created' = FALSE
    /\ UNCHANGED <<cluster, seen, dirty, rules, changes>>

\* A user creates, changes or deletes a policy.
UserWrites(n, action) ==
    /\ changes < MaxChanges /\ changes' = changes + 1
    /\ policies[n] # action
    /\ policies[n] = "none" => createValidate(n)
    /\ Put(n, action)
    /\ UNCHANGED <<cluster, seen, queue, created, dirty, rules>>

------------------------------------------------------------------------------
AgentSees ==
    /\ events["agent"] # <<>>
    /\ LET e == Head(events["agent"]) IN seen' = [seen EXCEPT !["agent"][e[1]] = e[2]]
    /\ events' = [events EXCEPT !["agent"] = Tail(@)]
    /\ dirty' = TRUE
    /\ UNCHANGED <<cluster, policies, queue, created, rules, changes>>

\* Several policies are an error: the rules stay, and it is tried again.
ReconcileGlobalPolicy ==
    /\ dirty /\ Cardinality(Existing(seen["agent"])) < 2
    /\ dirty' = FALSE
    /\ rules' = IF Existing(seen["agent"]) = {} THEN "none"
                ELSE seen["agent"][CHOOSE n \in Existing(seen["agent"]) : TRUE]
    /\ UNCHANGED <<cluster, policies, events, seen, queue, created, changes>>

Next ==
    \/ \E a \in Actions \cup {"none"} : updateEverouteCluster(a)
    \/ handleGlobalPolicy \/ CreateDefault \/ UpdateDefault
    \/ \E n \in Others : RemoveOther(n)
    \/ \E n \in Names, a \in Actions \cup {"none"} : UserWrites(n, a)
    \/ AgentSees \/ ReconcileGlobalPolicy

Fairness ==
    /\ WF_vars(handleGlobalPolicy) /\ WF_vars(CreateDefault) /\ WF_vars(UpdateDefault)
    /\ \A n \in Others : WF_vars(RemoveOther(n))
    /\ WF_vars(AgentSees) /\ WF_vars(ReconcileGlobalPolicy)

Spec == Init /\ [][Next]_vars /\ Fairness

------------------------------------------------------------------------------
\* Unless there never was a cluster or a policy, agents come to enforce the
\* cluster's default action: two policies that pass the webhook because its
\* cache is stale, which the agents cannot decide between, are reduced to the
\* default one, and what users write to that is undone.
DefaultActionEnforced ==
    <>[](\/ cluster = "none" /\ Existing(policies) = {}
         \/ rules = getCurrentGlobalPolicySpec)
===============================================================================
