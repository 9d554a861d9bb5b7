------------------------------ MODULE MCDatapath ------------------------------
(* Five parts of the datapath that have no state in common, side by side: a  *)
(* behaviour is one of one of them, the others rest.                         *)
EXTENDS FlowRound, RuleTable, ServiceProxy

CONSTANT Parts  \* those that are checked

VARIABLES part,
          loc, ofport, announced, fwd, cls, normal, moves,
          booted, ctRules, ctFlows, call, ch, batch, ct, missed, calls, switchRestarts, errors

------------------------------------------------------------------------------
\* The bridge chain: two endpoints that talk and move, a third of their VLAN
\* that only listens and one of another VLAN.
Hosts == {"h1", "h2"}

Endpoints == {"a", "b", "silent", "other"}

Chain == INSTANCE BridgeChain WITH
           Bcast <- "bcast", Talkers <- {"a", "b"}, MaxMoves <- 2,
           VlanOf <- [e \in Endpoints |-> IF e = "other" THEN 20 ELSE 10],
           Home <- [e \in Endpoints |-> IF e = "b" THEN "h2" ELSE "h1"]

\* Connections: one in each of two VDSs; a rule that is added, turned from deny
\* to allow and removed, below a rule of tier 1 and beside a monitored one.
Rule(id, tier, mode, prio, action, src, dst, ports) ==
    [id |-> id, dir |-> "in", tier |-> tier, mode |-> mode, prio |-> prio,
     action |-> action, src |-> src, dst |-> dst, ports |-> ports]

Conns ==
    {[vds |-> "v1", dir |-> "in", src |-> "a", dst |-> "b", port |-> 80],
     [vds |-> "v2", dir |-> "in", src |-> "b", dst |-> "a", port |-> 80]}

Pool ==
    {Rule("web", 2, "work", 20, "deny", "a", "b", {80, 81}),
     Rule("web", 2, "work", 20, "allow", "a", "b", {80, 81}),
     Rule("all", 2, "work", 10, "deny", "any", "any", {}),
     Rule("iso", 1, "work", 30, "deny", "any", "a", {}),
     Rule("look", 2, "monitor", 20, "deny", "any", "any", {80})}

Internal == {Rule("internal", 3, "work", 120, "allow", "any", "b", {})}

Track == INSTANCE Conntrack WITH
           Workers <- {"w1", "w2"}, ChanSize <- 1,
           MaxCalls <- 2, MaxRestarts <- 1, MaxErrors <- 1,
           Rules <- ctRules, flows <- ctFlows, lost <- missed, restarts <- switchRestarts

\* Rules: with SharedRules two policies have rules with equal keys, p1 under two
\* names; with OwnRules every key has one name.
R(n, k, a) == [name |-> n, key |-> k, action |-> a]

GlobalRules == {{}, {R("g", "kg", "allow")}, {R("g", "kg", "drop")}}

SharedRules ==
    [p \in Policies |->
        CASE p = "p1" -> {{}, {R("p1a", "k1", "allow"), R("p1b", "k2", "allow")},
                          {R("p1c", "k1", "allow")}}
          [] p = "p2" -> {{}, {R("p2a", "k1", "allow")}}
          [] OTHER -> GlobalRules]

OwnRules ==
    [p \in Policies |->
        CASE p = "p1" -> {{}, {R("p1a", "k1", "allow")},
                          {R("p1a", "k1", "allow"), R("p1b", "k2", "allow")}}
          [] p = "p2" -> {{}}
          [] OTHER -> GlobalRules]

\* Shared flows while every call gets through; calls that fail on unshared ones.
Tolerated == {[rules |-> SharedRules, faults |-> 0], [rules |-> OwnRules, faults |-> 2]}

\* Shared flows and a call that fails.
SharedFaulty == {[rules |-> SharedRules, faults |-> 1]}

------------------------------------------------------------------------------
roundVars == <<persisted, flows, stage, info, left, round, rules, gen, restarts>>
chainVars == <<loc, ofport, announced, fwd, cls, normal, moves>>
trackVars == <<booted, ctRules, ctFlows, call, ch, batch, ct, missed, calls,
               switchRestarts, errors>>

MCInit ==
    /\ part \in Parts
    /\ Init /\ Chain!Init /\ ProxyInit /\ Track!Init /\ TableInit
    /\ part = "table" \/ load = CHOOSE l \in Workloads : TRUE

MCNext ==
    /\ UNCHANGED part
    /\ \/ part = "round" /\ Next
       \/ part # "round" /\ UNCHANGED roundVars
    /\ \/ part = "chain" /\ Chain!Next
       \/ part # "chain" /\ UNCHANGED chainVars
    /\ \/ part = "proxy" /\ ProxyNext
       \/ part # "proxy" /\ UNCHANGED proxyVars
    /\ \/ part = "track" /\ Track!Next
       \/ part # "track" /\ UNCHANGED trackVars
    /\ \/ part = "table" /\ TableNext
       \/ part # "table" /\ UNCHANGED tableVars

MCSpec ==
    /\ MCInit
    /\ [][MCNext]_<<part, roundVars, chainVars, proxyVars, trackVars, tableVars>>

------------------------------------------------------------------------------
\* BridgeChain: a frame sent now would reach whom it is for exactly once, by
\* what the local and cls bridges have learned.
FramesArriveOnce == part = "chain" => Chain!FramesArriveOnce

\* Conntrack: the flows of AddEveroutePolicyRule and of replays decide as the
\* rules say, and no entry outlives the rule it came from.
ConnectionsAsIntended == part = "track" => Track!ConnectionsAsIntended
===============================================================================
