------------------------------- MODULE FlowRound -------------------------------
(***************************************************************************)
(* Rounds: each run of the agent marks its flows with a round number, so   *)
(* that the flows of the previous run can be flushed once the new ones are *)
(* in place.  The round is derived from the one persisted in the local     *)
(* bridge's external-ids.  One VDS; its bridges outlive the agent.         *)
(*                                                                         *)
(* A slot is a flow's match; adding a flow replaces the one in its slot.   *)
(* Base slots are set by BridgeInit, the others as endpoints and policies  *)
(* are reconciled.                                                         *)
(***************************************************************************)
EXTENDS Integers

CONSTANTS Bridges, BaseSlots, RuleSlots,
          MaxRoundNum,
          MaxRuns,     \* bound: starts of the agent
          MaxRestarts  \* bound: restarts of vswitchd

ASSUME MaxRoundAssumption == MaxRoundNum \in Nat \ {0, 1}

VARIABLES
    persisted, \* datapathRestartRound; 0 when it is not set
    flows,     \* the flow in each slot of each bridge, or NoFlow
    stage,     \* of the run: "down", "init", "running", "flushing", "done"
    info,      \* RoundInfo of the run
    left,      \* bridges the current loop has still to reach
    round,     \* the round of each bridge's cookie allocator
    rules,     \* the slots the run has added: local endpoints and rules
    gen,       \* history: the number of the run
    restarts

vars == <<persisted, flows, stage, info, left, round, rules, gen, restarts>>

NoFlow == [round |-> -1, gen |-> 0]

Slots == BaseSlots \cup RuleSlots

Init ==
    /\ persisted = 0
    /\ flows = [b \in Bridges |-> [s \in Slots |-> NoFlow]]
    /\ stage = "down"
    /\ info = [prev |-> 0, cur |-> 1]
    /\ left = {}
    /\ round = [b \in Bridges |-> 0]
    /\ rules = {}
    /\ gen = 0 /\ restarts = 0

getRoundInfo ==
    [prev |-> persisted, cur |-> IF persisted >= MaxRoundNum THEN 1 ELSE persisted + 1]

DeleteFlowByRoundInfo(b, n) ==
    [s \in Slots |-> IF flows[b][s].round = n THEN NoFlow ELSE flows[b][s]]

\* The agent starts.
Start ==
    /\ stage = "down" /\ gen < MaxRuns
    /\ gen' = gen + 1
    /\ info' = getRoundInfo
    /\ stage' = "init" /\ left' = Bridges
    /\ rules' = {}
    /\ UNCHANGED <<persisted, flows, round, restarts>>

\* InitializeVDS, for one bridge: flows of the new round are removed, then
\* BridgeInit adds the base flows.
InitBridge(b) ==
    LET kept == DeleteFlowByRoundInfo(b, info.cur) IN
    /\ stage = "init" /\ b \in left
    /\ flows' = [flows EXCEPT ![b] =
                   [s \in Slots |-> IF s \in BaseSlots THEN [round |-> info.cur, gen |-> gen]
                                    ELSE kept[s]]]
    /\ round' = [round EXCEPT ![b] = info.cur]
    /\ left' = left \ {b}
    /\ stage' = IF left' = {} THEN "running" ELSE "init"
    /\ UNCHANGED <<persisted, info, rules, gen, restarts>>

Serving == stage \in {"running", "flushing", "done"}

\* A flow of an endpoint or a policy rule is added, or removed again.
AddFlow(b, s) ==
    /\ Serving
    /\ flows' = [flows EXCEPT ![b][s] = [round |-> round[b], gen |-> gen]]
    /\ rules' = rules \cup {<<b, s>>}
    /\ UNCHANGED <<persisted, stage, info, left, round, gen, restarts>>

RemoveFlow(b, s) ==
    /\ Serving /\ <<b, s>> \in rules
    /\ flows' = [flows EXCEPT ![b][s] = NoFlow]
    /\ rules' = rules \ {<<b, s>>}
    /\ UNCHANGED <<persisted, stage, info, left, round, gen, restarts>>

\* (Mutant: the round is persisted when the flush begins.)
FlushBeginPersists ==
    /\ stage = "running"
    /\ stage' = "flushing" /\ left' = Bridges
    /\ persisted' = info.cur
    /\ UNCHANGED <<flows, info, round, rules, gen, restarts>>

\* Fifteen seconds later: the previous round is flushed bridge by bridge, ...
FlushBegin ==
    /\ stage = "running"
    /\ stage' = "flushing" /\ left' = Bridges
    /\ UNCHANGED <<persisted, flows, info, round, rules, gen, restarts>>

FlushBridge(b) ==
    /\ stage = "flushing" /\ b \in left
    /\ flows' = [flows EXCEPT ![b] = DeleteFlowByRoundInfo(b, info.prev)]
    /\ left' = left \ {b}
    /\ UNCHANGED <<persisted, stage, info, round, rules, gen, restarts>>

\* ... and the current one persisted.
Persist ==
    /\ stage = "flushing" /\ left = {}
    /\ persisted' = info.cur
    /\ stage' = "done"
    /\ UNCHANGED <<flows, info, left, round, rules, gen, restarts>>

\* replayVDSFlow for a bridge that lost its flows: the round is read again.
Replay(b) ==
    LET n == getRoundInfo.cur IN
    /\ Serving
    /\ restarts < MaxRestarts
    /\ round' = [round EXCEPT ![b] = n]
    /\ flows' = [flows EXCEPT ![b] =
                   [s \in Slots |-> IF s \in BaseSlots \/ <<b, s>> \in rules
                                    THEN [round |-> n, gen |-> gen] ELSE NoFlow]]
    /\ restarts' = restarts + 1
    /\ UNCHANGED <<persisted, stage, info, left, rules, gen>>

\* The agent stops at any point.
Crash ==
    /\ stage # "down"
    /\ stage' = "down" /\ left' = {}
    /\ UNCHANGED <<persisted, flows, info, round, rules, gen, restarts>>

Next ==
    \/ Start \/ FlushBegin \/ Persist \/ Crash
    \/ \E b \in Bridges : \/ InitBridge(b) \/ FlushBridge(b) \/ Replay(b)
                          \/ \E s \in RuleSlots : AddFlow(b, s) \/ RemoveFlow(b, s)

Spec == Init /\ [][Next]_vars

------------------------------------------------------------------------------
\* When a run has flushed and persisted its round, every flow in the bridges is
\* one of its own: nothing of an earlier run is left, whatever crashes,
\* restarts of the switch and wraps of the round number came before.
OnlyOwnFlows ==
    stage = "done" => \A b \in Bridges, s \in Slots : flows[b][s].gen \in {0, gen}
===============================================================================
