------------------------------- MODULE RuleTable -------------------------------
(***************************************************************************)
(* The datapath's rule table: DpManager.Rules, shared by every policy whose*)
(* PolicyRules have the same flow key, and the flows in the policy bridge  *)
(* of each VDS.  syncPolicyRulesUntilSuccess changes it in passes that are *)
(* repeated as a whole until one has no error.                             *)
(*                                                                         *)
(* A PolicyRule is [name, key, action]: the key is GenerateFlowKey, which  *)
(* leaves the action out, and the name is made of the rule's id and key.   *)
(* AddEveroutePolicyRule, RemoveEveroutePolicyRule and a replay hold       *)
(* flowReplayMutex, so each is one step.                                   *)
(***************************************************************************)
EXTENDS Integers

CONSTANTS VDS, Keys,
          Policies, Global, \* Global: the global policy, reconciled on its own
          Workloads,        \* [rules, faults]: the sets of PolicyRules each policy
                            \* may have; bound: failed calls to a switch
          MaxSyncs,         \* bound: policy changes
          MaxTableRestarts  \* bound: restarts of vswitchd

VARIABLES
    load,    \* the workload of this behaviour
    Rules,   \* for each key: NoRule, or PolicyRuleReference and the rule's action
    sw,      \* the action of the flow for a key in each VDS, or NoAction
    fresh,   \* VDSs that hold what was added since their last restart
    cur,     \* the PolicyRules of each policy by the rule caches
    job,     \* the sync in progress: one under reconcilerLock, one global
    gaveUp,  \* history: some sync ended at its deadline
    syncs, faults, tableRestarts

tableVars == <<load, Rules, sw, fresh, cur, job, gaveUp, syncs, faults, tableRestarts>>

NoAction == "none"

NoRule == [refs |-> {}, action |-> NoAction]

Idle == [pol |-> "none"]

\* A sync of a policy: the rules before and after it, the names that this pass
\* still has to deal with, and whether one of its calls has failed.
Job(p, old, new, todo, failed) ==
    [pol |-> p, old |-> old, new |-> new, todo |-> todo, failed |-> failed]

Workers == {"policy", "global"}

Worker(p) == IF p = Global THEN "global" ELSE "policy"

Names(rs) == {r.name : r \in rs}

TableInit ==
    /\ load \in Workloads
    /\ Rules = [k \in Keys |-> NoRule]
    /\ sw = [v \in VDS |-> [k \in Keys |-> NoAction]]
    /\ fresh = VDS
    /\ cur = [p \in Policies |-> {}]
    /\ job = [w \in Workers |-> Idle]
    /\ gaveUp = FALSE
    /\ syncs = 0 /\ faults = 0 /\ tableRestarts = 0

\* A policy is reconciled: its rules are in the cache before the sync starts.
StartSync(p, new) ==
    LET old == cur[p] IN
    /\ job[Worker(p)] = Idle
    /\ syncs < MaxSyncs
    /\ new # old
    /\ cur' = [cur EXCEPT ![p] = new]
    /\ job' = [job EXCEPT ![Worker(p)] =
                Job(p, old, new, Names(old \cup new), FALSE)]
    /\ syncs' = syncs + 1
    /\ UNCHANGED <<Rules, sw, fresh, gaveUp, faults, tableRestarts>>

\* The VDSs in done have the flow (or not) after a loop over BridgeChainMap.
Set(k, done, flow) ==
    [v \in VDS |-> IF v \in done THEN [sw[v] EXCEPT ![k] = flow] ELSE sw[v]]

\* Whether a loop over the VDSs that reaches done gets through.
Reaches(done) ==
    \/ done = VDS /\ UNCHANGED faults
    \/ done # VDS /\ faults < load.faults /\ faults' = faults + 1

AddEveroutePolicyRule(r, done) ==
    \/ /\ Rules[r.key].action = r.action
       /\ done = VDS
       /\ Rules' = [Rules EXCEPT ![r.key].refs = @ \cup {r.name}]
       /\ UNCHANGED <<sw, faults>>
    \/ /\ Rules[r.key].action # r.action
       /\ Reaches(done)
       /\ sw' = Set(r.key, done, r.action)
       /\ Rules' = IF done # VDS THEN Rules
                   ELSE [Rules EXCEPT ![r.key] =
                           [action |-> r.action,
                            refs |-> IF @ = NoRule THEN {r.name} ELSE @.refs]]

\* (Mutant: the last reference is not waited for.)
RemoveEveroutePolicyRuleAny(r, done) ==
    \/ Rules[r.key] = NoRule /\ done = VDS /\ UNCHANGED <<Rules, sw, faults>>
    \/ /\ Rules[r.key] # NoRule
       /\ Reaches(done)
       /\ sw' = Set(r.key, done, NoAction)
       /\ Rules' = IF done = VDS THEN [Rules EXCEPT ![r.key] = NoRule] ELSE Rules

\* The flows go with the last reference; a name that is not among the
\* references removes them too, whatever references there are.
RemoveEveroutePolicyRule(r, done) ==
    LET refs == Rules[r.key].refs
        entry == [Rules[r.key] EXCEPT !.refs = refs \ {r.name}]
    IN
    \/ Rules[r.key] = NoRule /\ done = VDS /\ UNCHANGED <<Rules, sw, faults>>
    \/ /\ Rules[r.key] # NoRule
       /\ \/ /\ r.name \in refs /\ entry.refs # {}
             /\ done = VDS
             /\ UNCHANGED <<sw, faults>>
          \/ /\ r.name \notin refs \/ entry.refs = {}
             /\ Reaches(done)
             /\ sw' = Set(r.key, done, NoAction)
       /\ Rules' = [Rules EXCEPT ![r.key] =
                      IF done = VDS /\ entry.refs = {} THEN NoRule ELSE entry]

\* One rule name of a pass; names come in any order.
Process(w, n, done) ==
    LET j == job[w]
        new == {r \in j.new : r.name = n}
        old == {r \in j.old : r.name = n}
    IN
    /\ j # Idle /\ n \in j.todo
    /\ \/ new # {} /\ new = old /\ done = VDS /\ UNCHANGED <<Rules, sw, faults>>
       \/ \E r \in new : r \notin old /\ AddEveroutePolicyRule(r, done)
       \/ \E r \in old : new = {} /\ RemoveEveroutePolicyRule(r, done)
    /\ job' = [job EXCEPT ![w] =
                Job(j.pol, j.old, j.new, j.todo \ {n}, j.failed \/ done # VDS)]
    /\ UNCHANGED <<fresh, cur, gaveUp, syncs, tableRestarts>>

\* The end of a pass: done, or the whole list again.
EndPass(w) ==
    LET j == job[w] IN
    /\ j # Idle /\ j.todo = {}
    /\ job' = [job EXCEPT ![w] =
                IF j.failed THEN Job(j.pol, j.old, j.new, Names(j.old \cup j.new), FALSE)
                ELSE Idle]
    /\ UNCHANGED <<Rules, sw, fresh, cur, gaveUp, syncs, faults, tableRestarts>>

\* The deadline of five minutes has passed.
GiveUp(w) ==
    /\ job[w] # Idle /\ job[w].todo = {} /\ job[w].failed
    /\ job' = [job EXCEPT ![w] = Idle]
    /\ gaveUp' = TRUE
    /\ UNCHANGED <<Rules, sw, fresh, cur, syncs, faults, tableRestarts>>

\* vswitchd restarts and connects again, with no flows.
SwitchRestart(v) ==
    /\ tableRestarts < MaxTableRestarts
    /\ sw' = [sw EXCEPT ![v] = [k \in Keys |-> NoAction]]
    /\ fresh' = fresh \ {v}
    /\ tableRestarts' = tableRestarts + 1
    /\ UNCHANGED <<Rules, cur, job, gaveUp, syncs, faults>>

\* ReplayVDSMicroSegmentFlow, when the reconnection is noticed.
ReplayRules(v) ==
    /\ v \notin fresh
    /\ sw' = [sw EXCEPT ![v] = [k \in Keys |-> IF Rules[k] = NoRule THEN @[k]
                                               ELSE Rules[k].action]]
    /\ fresh' = fresh \cup {v}
    /\ UNCHANGED <<Rules, cur, job, gaveUp, syncs, faults, tableRestarts>>

TableNext ==
    /\ \/ \E p \in Policies : \E new \in load.rules[p] : StartSync(p, new)
       \/ \E w \in Workers :
             \/ EndPass(w)
             \/ GiveUp(w)
             \/ /\ job[w] # Idle
                /\ \E n \in job[w].todo, done \in SUBSET VDS : Process(w, n, done)
       \/ \E v \in VDS : SwitchRestart(v) \/ ReplayRules(v)
    /\ UNCHANGED load

TableSpec == TableInit /\ [][TableNext]_tableVars

------------------------------------------------------------------------------
(* The workloads for which the table can be relied on.                        *)

RulesOf(l, p) == UNION l.rules[p]

\* The name of a PolicyRule is made of its policy, its rule and its flow key.
WellNamed(l) ==
    /\ \A p \in Policies : \A r \in RulesOf(l, p) :
          /\ r = [name |-> r.name, key |-> r.key, action |-> r.action]
          /\ r.key \in Keys /\ r.action # NoAction
    /\ \A p, q \in Policies : \A r \in RulesOf(l, p), s \in RulesOf(l, q) :
          r.name = s.name => p = q /\ r.key = s.key
    /\ \A p \in Policies : \A rs \in l.rules[p] : \A r, s \in rs :
          r.name = s.name => r = s

\* Rules that share a flow agree on its action, ...
ActionsAgree(l) ==
    \A p, q \in Policies : \A r \in RulesOf(l, p), s \in RulesOf(l, q) :
        r.key = s.key /\ r.name # s.name => r.action = s.action

\* ... or no two share one.
Unshared(l) ==
    \A p, q \in Policies : \A r \in RulesOf(l, p), s \in RulesOf(l, q) :
        r.key = s.key => r.name = s.name

Tolerable(l) ==
    /\ WellNamed(l) /\ l.faults \in Nat
    /\ Unshared(l) \/ (ActionsAgree(l) /\ l.faults = 0)

\* Flows are shared and every call gets through, or calls fail and they are not.
TolerableSpec == TableInit /\ Tolerable(load) /\ [][TableNext]_tableVars

------------------------------------------------------------------------------
Settled(p) == job[Worker(p)].pol # p

\* The rules of a policy that is not being synced have their flow, with their
\* action, in every VDS, whatever is being done for other policies that share
\* the flow.
FlowsInstalled ==
    ~gaveUp => \A p \in Policies, v \in fresh :
                 Settled(p) => \A r \in cur[p] : sw[v][r.key] = r.action

\* Once every sync is through, each flow is there for some policy's rule.
NoStrayFlows ==
    (~gaveUp /\ \A p \in Policies : Settled(p)) =>
        \A v \in fresh, k \in Keys :
            sw[v][k] # NoAction => \E p \in Policies : \E r \in cur[p] : r.key = k

\* The flows of the VDSs are those of the policies' rules.
FlowsFollowRules == FlowsInstalled /\ NoStrayFlows
===============================================================================
