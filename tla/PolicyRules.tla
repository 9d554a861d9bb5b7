------------------------------ MODULE PolicyRules ------------------------------
(***************************************************************************)
(* The agent's policy reconciler: one SecurityPolicy, the groups it refers *)
(* to, the cache of complete rules and the PolicyRules in the datapath.    *)
(* A policy is expanded from the group cache once and then kept up to date *)
(* by applying each group's patches to its rules.                          *)
(*                                                                         *)
(* What reaches the group cache is what GroupSync shows: a membership and  *)
(* the patches that lead on from it, in any order relative to the policy   *)
(* and to other groups.                                                    *)
(***************************************************************************)
EXTENDS CompleteRules

CONSTANTS Groups,
          Pool,        \* for each group: the addresses its members may have
          Initial,     \* for each group: its members when the agent starts
          Policies,    \* the specs the policy takes
          Shared,      \* whether two members of a group may have an IP in common
          MaxChanges,  \* bound: membership changes
          MaxUpdates   \* bound: policy changes

ASSUME AllEpsAssumption == AllEps \in Groups

VARIABLES
    gc,      \* the group cache
    latest,  \* the members of each group, as the controller has given out
    policy,  \* the policy in the informer cache, or NoPolicy
    polq,    \* its key is in the policy controller's queue
    pq,      \* groups in the patch controller's queue
    held,    \* what each group's ReconcilePatch has read with NextPatch
    rules,   \* ruleCache
    flows,   \* PolicyRules installed in the datapath
    applied, \* history: the policy that was last expanded
    changes, updates

vars == <<gc, latest, policy, polq, pq, held, rules, flows, applied, changes, updates>>

NoPolicy == [none |-> TRUE]

NoPatch == [rev |-> -1]

Init ==
    /\ gc = [g \in Groups |-> EmptyCache]
    /\ latest = [g \in Groups |-> [rev |-> 1, mem |-> Initial[g]]]
    /\ policy = NoPolicy /\ polq = FALSE
    /\ pq = {} /\ held = [g \in Groups |-> NoPatch]
    /\ rules = {} /\ flows = {}
    /\ applied = NoPolicy
    /\ changes = 0 /\ updates = 0

IPsOf(x) == x.addr.ips

Clash(m) == \E r, s \in DOMAIN m : r # s /\ IPsOf(m[r]) \cap IPsOf(m[s]) # {}

\* The controller publishes a change and the agent's handler adds its patch.
Publish(g, m) ==
    LET patch == ToGroupMembersPatch(latest[g].mem, m) IN
    /\ changes < MaxChanges
    /\ \A r \in DOMAIN m : IPsOf(m[r]) \subseteq Pool[g]
    /\ Shared \/ ~Clash(m)
    /\ ~IsEmptyPatch(patch)
    /\ latest' = [latest EXCEPT ![g] = [rev |-> @.rev + 1, mem |-> m]]
    /\ gc' = [gc EXCEPT ![g] = AddPatch(@, [rev |-> latest[g].rev, patch |-> patch])]
    /\ pq' = pq \cup {g}
    /\ changes' = changes + 1
    /\ UNCHANGED <<policy, polq, held, rules, flows, applied, updates>>

\* The GroupMembers object of the group is seen for the first time.
MembersCreated(g) ==
    /\ ~gc[g].live
    /\ gc' = [gc EXCEPT ![g] = AddGroupMembership(@, latest[g])]
    /\ pq' = pq \cup {g}
    /\ UNCHANGED <<latest, policy, polq, held, rules, flows, applied, changes, updates>>

\* The policy is created, changed or deleted.
PolicyEvent(p) ==
    /\ updates < MaxUpdates
    /\ p # policy
    /\ policy' = p
    /\ polq' = TRUE
    /\ updates' = updates + 1
    /\ UNCHANGED <<gc, latest, pq, held, rules, flows, applied, changes>>

\* (Mutant: a rule in both lists is removed.)
syncPolicyRulesNoCompare(installed, old, new) == (installed \cup new) \ old

\* syncPolicyRulesUntilSuccess: a rule in both lists is left alone.
syncPolicyRules(installed, old, new) ==
    (installed \ (old \ new)) \cup (new \ old)

Installed(rs) == UNION {ListRules(r) : r \in rs}

\* ReconcilePolicy, which holds the reconciler lock throughout.
ReconcilePolicy ==
    /\ polq
    /\ \/ /\ policy = NoPolicy
          /\ rules' = {}
          /\ flows' = syncPolicyRules(flows, Installed(rules), {})
          /\ polq' = FALSE
          /\ applied' = policy
       \/ /\ policy # NoPolicy
          /\ \A g \in NeededGroups(policy) : gc[g].live
          /\ rules' = completePolicy(gc, policy)
          /\ flows' = syncPolicyRules(flows, Installed(rules), Installed(rules'))
          /\ polq' = FALSE
          /\ applied' = policy
    /\ UNCHANGED <<gc, latest, policy, pq, held, changes, updates>>

\* ReconcilePatch reads the patch without the reconciler lock, ...
NextPatch(g) ==
    /\ g \in pq /\ held[g] = NoPatch
    /\ pq' = pq \ {g}
    /\ held' = [held EXCEPT ![g] =
                  IF NextPatches(gc[g]) = {} THEN NoPatch
                  ELSE LET e == CHOOSE x \in NextPatches(gc[g]) : TRUE
                       IN [group |-> g, rev |-> e.rev, add |-> PatchAdd(e),
                           del |-> PatchDel(gc[g], e)]]
    /\ UNCHANGED <<gc, latest, policy, polq, rules, flows, applied, changes, updates>>

\* ... and changes the rules and the group with it.
ReconcilePatch(g) ==
    LET p == held[g]
        hit == {r \in rules : g \in DOMAIN r.srcGroups \cup DOMAIN r.dstGroups}
        diff == [r \in hit |-> GetPatchPolicyRules(r, p)]
    IN
    /\ held[g] # NoPatch
    /\ ~ApplyPatchFatal(gc[g], p.rev)
    /\ flows' = syncPolicyRules(flows, UNION {diff[r].old : r \in hit},
                                UNION {diff[r].new : r \in hit})
    /\ rules' = (rules \ hit) \cup {RuleApplyPatch(r, p) : r \in hit}
    /\ gc' = [gc EXCEPT ![g] = ApplyPatch(@, p.rev)]
    /\ pq' = IF PatchLen(gc'[g]) THEN pq \cup {g} ELSE pq
    /\ held' = [held EXCEPT ![g] = NoPatch]
    /\ UNCHANGED <<latest, policy, polq, applied, changes, updates>>

Next ==
    \/ \E g \in Groups, m \in Members : Publish(g, m)
    \/ \E g \in Groups : MembersCreated(g) \/ NextPatch(g) \/ ReconcilePatch(g)
    \/ \E p \in Policies \cup {NoPolicy} : PolicyEvent(p)
    \/ ReconcilePolicy

Spec == Init /\ [][Next]_vars

\* Work queues hand out what is queued; the watches deliver every group.
Fairness ==
    /\ WF_vars(ReconcilePolicy)
    /\ \A g \in Groups : /\ WF_vars(MembersCreated(g))
                         /\ WF_vars(NextPatch(g))
                         /\ WF_vars(ReconcilePatch(g))

FairSpec == Spec /\ Fairness

------------------------------------------------------------------------------
(* When patching the rules is as good as expanding them again. *)

\* What the addresses of a group's members may be.
Neat(m, g) ==
    /\ \A r \in DOMAIN m : IPsOf(m[r]) \subseteq Pool[g]
    /\ ~Clash(m)

\* The peers of one side of a rule have no address in common.
Apart(peers) ==
    /\ peers.groups \subseteq Groups
    /\ \A g, h \in peers.groups : g # h => Pool[g] \cap Pool[h] = {}
    /\ \A g \in peers.groups : peers.blocks \cap Pool[g] = {}

PeersOf(p) == {p.applied} \cup {r.peers : r \in p.ingress \cup p.egress}

\* No address belongs to two members of a group or to two peers of one side.
Separated ==
    /\ ~Shared
    /\ \A g \in Groups : Initial[g] \in Members /\ Neat(Initial[g], g)
    /\ \A p \in Policies : \A peers \in PeersOf(p) : Apart(peers)

\* A policy whose rules have names of their own and no group on both sides.
Clear(p) ==
    /\ \A r, t \in p.ingress : r.name = t.name => r = t
    /\ \A r, t \in p.egress : r.name = t.name => r = t
    /\ AllEps \notin p.applied.groups
    /\ \A r \in p.ingress \cup p.egress : r.peers.groups \cap p.applied.groups = {}

\* Members that keep their address keep their ports.
Steady(m, n) == \A r \in DOMAIN m \cap DOMAIN n : m[r].addr = n[r].addr => m[r] = n[r]

\* No step changes the ports of a member that keeps its address.
PortsSteady == \A g \in Groups : Steady(latest[g].mem, latest'[g].mem)

------------------------------------------------------------------------------
\* The complete rules, patched step by step, are the ones a full expansion of
\* the policy from the group cache would give.
RulesCurrent ==
    rules = IF applied = NoPolicy THEN {} ELSE completePolicy(gc, applied)

\* The datapath holds exactly the PolicyRules of the complete rules.
FlowsMatchRules == flows = Installed(rules)

\* What the datapath should hold for the policy and the newest memberships.
Expected ==
    IF policy = NoPolicy THEN {}
    ELSE Installed(completePolicy([g \in Groups |-> latest[g]], policy))

\* Once policy and memberships stay as they are, the datapath comes to hold
\* exactly the policy's rules for the newest members, and keeps them.
FlowsConverge == <>[](flows = Expected)
===============================================================================
