----------------------------- MODULE DatapathProofs -----------------------------
(***************************************************************************)
(* Proofs about the datapath: the rounds of flows, the flows of the        *)
(* services and the addresses of pods.                                     *)
(***************************************************************************)
EXTENDS FlowRound, ServiceProxy, CniServer, TLAPS

------------------------------------------------------------------------------
(* FlowRound: OnlyOwnFlows for every set of bridges and slots, every         *)
(* MaxRoundNum above 1 and any number of runs and restarts.  What makes it   *)
(* inductive is that a flow's round is always the persisted one or the next: *)
(* a run deletes the flows of the next round before it adds any, so that     *)
(* what it leaves of earlier runs has the persisted round, which is the one  *)
(* it flushes before it persists its own.                                    *)

Round == 0..MaxRoundNum

Flow == [round : Round \cup {-1}, gen : Nat]

\* The round that follows a persisted one.
After(n) == IF n >= MaxRoundNum THEN 1 ELSE n + 1

TypeOK ==
    /\ persisted \in Round
    /\ flows \in [Bridges -> [Slots -> Flow]]
    /\ stage \in {"down", "init", "running", "flushing", "done"}
    /\ info \in [prev : Round, cur : Round]
    /\ left \subseteq Bridges
    /\ round \in [Bridges -> Round]
    /\ gen \in Nat

\* The round info of a run is the one its persisted round gives.
InfoInv ==
    /\ stage \in {"init", "running", "flushing"} =>
         info.prev = persisted /\ info.cur = After(persisted)
    /\ stage = "done" => persisted = info.cur

\* Every flow is of this run or an earlier one, with a round still in use.
FlowsInv ==
    \A b \in Bridges, s \in Slots :
        flows[b][s] = NoFlow
        \/ /\ flows[b][s].gen \in 1..gen
           /\ flows[b][s].round \in {persisted, After(persisted)}

\* The bridges the run has initialised, and the ones it has flushed.
Ready(b) == stage \in {"running", "flushing"} \/ (stage = "init" /\ b \notin left)

Flushed(b) == stage = "done" \/ (stage = "flushing" /\ b \notin left)

\* On an initialised bridge what is not of this run has the old round.
ReadyInv ==
    \A b \in Bridges : Ready(b) =>
        /\ round[b] = After(persisted)
        /\ \A s \in Slots : \/ flows[b][s].gen \in {0, gen}
                            \/ flows[b][s].round = persisted
        /\ \A s \in Slots : flows[b][s].gen = gen => flows[b][s].round = After(persisted)

FlushedInv ==
    \A b \in Bridges : Flushed(b) =>
        \A s \in Slots : flows[b][s].gen \in {0, gen}

\* In a run that has persisted its round, new flows have it or the next.
DoneInv ==
    stage = "done" =>
        \A b \in Bridges : round[b] \in {persisted, After(persisted)}

\* The run in progress has a number; none of its flows precede it.
RunInv ==
    /\ stage # "down" => gen \in Nat \ {0}
    /\ stage = "init" => \A b \in left, s \in Slots : flows[b][s].gen < gen

IInv == /\ TypeOK /\ InfoInv /\ FlowsInv /\ ReadyInv /\ FlushedInv /\ DoneInv /\ RunInv

------------------------------------------------------------------------------
\* The next round is a round, is not 0, and is another one.
LEMMA NextRound ==
    ASSUME NEW n \in Round
    PROVE  After(n) \in Round /\ After(n) # n /\ After(n) # 0 /\ After(n) # -1 /\ n # -1
BY MaxRoundAssumption DEF After, Round

LEMMA RoundInfo == getRoundInfo = [prev |-> persisted, cur |-> After(persisted)]
BY Zenon DEF getRoundInfo, After

LEMMA InitInv == Init => IInv
<1> SUFFICES ASSUME Init PROVE IInv
  BY Zenon
<1>1. TypeOK
  BY MaxRoundAssumption DEF Init, TypeOK, Round, Flow, NoFlow
<1>2. QED
  BY <1>1, Zenon DEF Init, IInv, InfoInv, FlowsInv, ReadyInv, Ready, FlushedInv, Flushed, DoneInv, RunInv

\* The flows of a bridge without those of a round.
LEMMA Deleted ==
    ASSUME TypeOK, NEW b \in Bridges, NEW n
    PROVE  /\ DeleteFlowByRoundInfo(b, n) \in [Slots -> Flow]
           /\ \A s \in Slots :
                \/ DeleteFlowByRoundInfo(b, n)[s] = NoFlow
                \/ /\ DeleteFlowByRoundInfo(b, n)[s] = flows[b][s]
                   /\ flows[b][s].round # n
<1>1. NoFlow \in Flow
  BY Zenon DEF NoFlow, Flow
<1>2. \A s \in Slots : flows[b][s] \in Flow
  BY Zenon DEF TypeOK
<1>3. QED
  BY <1>1, <1>2, Zenon DEF DeleteFlowByRoundInfo

LEMMA NextInv == IInv /\ [Next]_vars => IInv'
<1> SUFFICES ASSUME IInv, [Next]_vars PROVE IInv'
  BY Zenon
<1> USE DEF IInv
<1>0. /\ persisted \in Round /\ After(persisted) \in Round
      /\ After(persisted) # persisted
      /\ NoFlow \in Flow /\ NoFlow.gen = 0 /\ NoFlow.round = -1
  BY NextRound, Zenon DEF TypeOK, NoFlow, Flow
<1>t. \A b \in Bridges, s \in Slots : flows[b][s] \in Flow
  BY Zenon DEF TypeOK
<1>1. CASE Start
  <2>1. TypeOK'
    BY <1>1, <1>0, RoundInfo DEF Start, TypeOK
  <2>2. InfoInv'
    BY <1>1, RoundInfo, Zenon DEF Start, InfoInv
  <2>3. FlowsInv'
    BY <1>1 DEF Start, FlowsInv, TypeOK
  <2>4. RunInv'
    <3>1. \A b \in Bridges, s \in Slots : flows[b][s].gen < gen + 1
      BY <1>0 DEF FlowsInv, TypeOK
    <3>2. QED
      BY <1>1, <3>1 DEF Start, RunInv, TypeOK
  <2>5. ReadyInv' /\ FlushedInv' /\ DoneInv'
    BY <1>1, Zenon DEF Start, ReadyInv, Ready, FlushedInv, Flushed, DoneInv
  <2>6. QED
    BY <2>1, <2>2, <2>3, <2>4, <2>5, Zenon
<1>2. ASSUME NEW b \in Bridges, InitBridge(b) PROVE IInv'
  <2> DEFINE kept == DeleteFlowByRoundInfo(b, info.cur)
             own == [round |-> info.cur, gen |-> gen]
  <2>0. /\ info.cur = After(persisted) /\ info.prev = persisted
        /\ stage = "init" /\ b \in left /\ gen \in Nat \ {0}
        /\ own \in Flow
    BY <1>2, <1>0, Zenon DEF InitBridge, InfoInv, RunInv, Flow
  <2>1. /\ flows'[b] = [s \in Slots |-> IF s \in BaseSlots THEN own ELSE kept[s]]
        /\ \A c \in Bridges : c # b => flows'[c] = flows[c]
        /\ flows' \in [Bridges -> [Slots -> Flow]]
    BY <1>2, <2>0, Deleted DEF InitBridge, TypeOK
  <2>2. ASSUME NEW s \in Slots
        PROVE  \/ flows'[b][s] = own
               \/ flows'[b][s] = NoFlow
               \/ flows'[b][s] = flows[b][s] /\ flows[b][s].round # info.cur
    <3>1. flows'[b][s] = IF s \in BaseSlots THEN own ELSE kept[s]
      BY <2>1, Zenon
    <3>2. \/ kept[s] = NoFlow
          \/ kept[s] = flows[b][s] /\ flows[b][s].round # info.cur
      BY Deleted
    <3> HIDE DEF own, kept
    <3>3. QED
      BY <3>1, <3>2, Zenon
  <2>3. TypeOK'
    BY <1>2, <2>0, <2>1, Zenon DEF InitBridge, TypeOK
  <2>4. InfoInv'
    BY <1>2, <2>0, Zenon DEF InitBridge, InfoInv
  <2>5. FlowsInv'
    <3>1. \A s \in Slots :
            \/ flows'[b][s] = NoFlow
            \/ /\ flows'[b][s].gen \in 1..gen
               /\ flows'[b][s].round \in {persisted, After(persisted)}
      BY <2>0, <2>2 DEF FlowsInv
    <3>2. QED
      BY <1>2, <2>1, <3>1 DEF InitBridge, FlowsInv
  <2>6. ReadyInv'
    <3>1. \A s \in Slots :
            \/ flows'[b][s].gen \in {0, gen}
            \/ flows'[b][s].round = persisted
      BY <2>0, <2>2, <1>0 DEF FlowsInv
    <3>2. \A s \in Slots : flows'[b][s].gen = gen => flows'[b][s].round = After(persisted)
      <4>1. \A s \in Slots : flows[b][s].gen < gen /\ flows[b][s].gen \in Nat
        BY <2>0, <1>t, Zenon DEF RunInv, Flow
      <4>2. QED
        BY <2>0, <2>2, <4>1, <1>0
    <3>3. round'[b] = After(persisted)
      BY <1>2, <2>0, Zenon DEF InitBridge, TypeOK
    <3>4. \A c \in Bridges : c # b => round'[c] = round[c]
      BY <1>2, Zenon DEF InitBridge, TypeOK
    <3>5. \A c \in Bridges : c # b /\ Ready(c)' => Ready(c)
      BY <1>2, <2>0, Zenon DEF InitBridge, Ready
    <3>6. persisted' = persisted /\ gen' = gen
      BY <1>2, Zenon DEF InitBridge
    <3>7. QED
      BY <2>1, <3>1, <3>2, <3>3, <3>4, <3>5, <3>6 DEF ReadyInv
  <2>7. RunInv'
    <3>1. left' = left \ {b} /\ gen' = gen
      BY <1>2, Zenon DEF InitBridge
    <3>2. \A c \in left' : c \in Bridges /\ c # b /\ c \in left
      BY <3>1, Zenon DEF TypeOK
    <3>3. QED
      BY <2>0, <2>1, <3>1, <3>2, Zenon DEF RunInv
  <2>8. FlushedInv' /\ DoneInv'
    BY <1>2, Zenon DEF InitBridge, FlushedInv, Flushed, DoneInv
  <2>9. QED
    BY <2>3, <2>4, <2>5, <2>6, <2>7, <2>8, Zenon
<1>3. ASSUME NEW b \in Bridges, NEW t \in RuleSlots, AddFlow(b, t) PROVE IInv'
  <2> DEFINE own == [round |-> round[b], gen |-> gen]
  <2>0. /\ stage \in {"running", "flushing", "done"} /\ gen \in Nat \ {0}
        /\ round[b] \in {persisted, After(persisted)} /\ own \in Flow
        /\ stage # "done" => round[b] = After(persisted)
    BY <1>3, <1>0, Zenon DEF AddFlow, Serving, RunInv, ReadyInv, Ready, DoneInv, Flow
  <2>1. /\ t \in Slots
        /\ flows' = [flows EXCEPT ![b][t] = own]
        /\ \A c \in Bridges, s \in Slots :
              flows'[c][s] = IF c = b /\ s = t THEN own ELSE flows[c][s]
        /\ flows' \in [Bridges -> [Slots -> Flow]]
    BY <1>3, <2>0, Zenon DEF AddFlow, TypeOK, Slots
  <2>2. UNCHANGED <<persisted, stage, info, left, round, gen>>
    BY <1>3, Zenon DEF AddFlow
  <2>3. TypeOK' /\ InfoInv' /\ DoneInv'
    BY <2>1, <2>2, Zenon DEF TypeOK, InfoInv, DoneInv
  <2>4. FlowsInv'
    BY <2>0, <2>1, <2>2 DEF FlowsInv
  <2>5. ReadyInv'
    <3>1. stage = "done" => \A c \in Bridges : ~Ready(c)
      BY Zenon DEF Ready
    <3>2. \A c \in Bridges : Ready(c)' <=> Ready(c)
      BY <2>2, Zenon DEF Ready
    <3>3. QED
      BY <2>0, <2>1, <2>2, <3>1, <3>2 DEF ReadyInv
  <2>6. FlushedInv' /\ RunInv'
    BY <2>0, <2>1, <2>2 DEF FlushedInv, Flushed, RunInv
  <2>7. QED
    BY <2>3, <2>4, <2>5, <2>6, Zenon
<1>4. ASSUME NEW b \in Bridges, NEW t \in RuleSlots, RemoveFlow(b, t) PROVE IInv'
  <2>0. stage \in {"running", "flushing", "done"} /\ gen \in Nat \ {0}
    BY <1>4, Zenon DEF RemoveFlow, Serving, RunInv
  <2>1. /\ t \in Slots
        /\ \A c \in Bridges, s \in Slots :
              flows'[c][s] = IF c = b /\ s = t THEN NoFlow ELSE flows[c][s]
        /\ flows' \in [Bridges -> [Slots -> Flow]]
    BY <1>4, <1>0, Zenon DEF RemoveFlow, TypeOK, Slots
  <2>2. UNCHANGED <<persisted, stage, info, left, round, gen>>
    BY <1>4, Zenon DEF RemoveFlow
  <2>3. TypeOK' /\ InfoInv' /\ DoneInv'
    BY <2>1, <2>2, Zenon DEF TypeOK, InfoInv, DoneInv
  <2>4. FlowsInv' /\ FlushedInv' /\ RunInv'
    BY <1>0, <2>0, <2>1, <2>2 DEF FlowsInv, FlushedInv, Flushed, RunInv
  <2>5. ReadyInv'
    <3>1. \A c \in Bridges : Ready(c)' <=> Ready(c)
      BY <2>2, Zenon DEF Ready
    <3>2. QED
      BY <1>0, <2>0, <2>1, <2>2, <3>1 DEF ReadyInv
  <2>6. QED
    BY <2>3, <2>4, <2>5, Zenon
<1>5. CASE FlushBegin
  <2>1. TypeOK' /\ InfoInv' /\ FlowsInv' /\ DoneInv' /\ RunInv'
    BY <1>5, Zenon DEF FlushBegin, TypeOK, InfoInv, FlowsInv, DoneInv, RunInv
  <2>2. ReadyInv' /\ FlushedInv'
    BY <1>5, Zenon DEF FlushBegin, ReadyInv, Ready, FlushedInv, Flushed
  <2>3. QED
    BY <2>1, <2>2, Zenon
<1>6. ASSUME NEW b \in Bridges, FlushBridge(b) PROVE IInv'
  <2> DEFINE kept == DeleteFlowByRoundInfo(b, info.prev)
  <2>0. /\ info.prev = persisted /\ stage = "flushing" /\ gen \in Nat \ {0}
    BY <1>6, Zenon DEF FlushBridge, InfoInv, RunInv
  <2>1. /\ flows'[b] = kept
        /\ \A c \in Bridges : c # b => flows'[c] = flows[c]
        /\ flows' \in [Bridges -> [Slots -> Flow]]
    BY <1>6, Deleted, Zenon DEF FlushBridge, TypeOK
  <2>2. \A s \in Slots :
          \/ flows'[b][s] = NoFlow
          \/ flows'[b][s] = flows[b][s] /\ flows[b][s].round # persisted
    <3>1. \A s \in Slots :
            \/ kept[s] = NoFlow
            \/ kept[s] = flows[b][s] /\ flows[b][s].round # info.prev
      BY Deleted, Zenon
    <3> HIDE DEF kept
    <3>2. QED
      BY <2>0, <2>1, <3>1, Zenon
  <2>3. UNCHANGED <<persisted, stage, info, round, gen>> /\ left' = left \ {b}
    BY <1>6, Zenon DEF FlushBridge
  <2>4. TypeOK' /\ InfoInv' /\ DoneInv' /\ RunInv'
    BY <2>0, <2>1, <2>3, Zenon DEF TypeOK, InfoInv, DoneInv, RunInv
  <2>5. FlowsInv'
    BY <2>1, <2>2, <2>3 DEF FlowsInv
  <2>6. ReadyInv'
    <3>1. \A c \in Bridges : Ready(c)
      BY <2>0, Zenon DEF Ready
    <3>2. QED
      BY <1>0, <2>0, <2>1, <2>2, <2>3, <3>1 DEF ReadyInv
  <2>7. FlushedInv'
    <3>1. \A s \in Slots : flows'[b][s].gen \in {0, gen}
      BY <1>0, <2>0, <2>2, Zenon DEF ReadyInv, Ready
    <3>2. \A c \in Bridges : c # b /\ Flushed(c)' => Flushed(c)
      BY <2>3, Zenon DEF Flushed
    <3>3. QED
      BY <2>1, <2>3, <3>1, <3>2, Zenon DEF FlushedInv
  <2>8. QED
    BY <2>4, <2>5, <2>6, <2>7, Zenon
<1>7. CASE Persist
  <2>0. /\ stage = "flushing" /\ left = {} /\ stage' = "done"
        /\ persisted' = info.cur /\ info.cur = After(persisted)
        /\ UNCHANGED <<flows, info, left, round, gen>>
        /\ gen \in Nat \ {0}
    BY <1>7, Zenon DEF Persist, InfoInv, RunInv
  <2>1. \A b \in Bridges, s \in Slots : flows[b][s].gen \in {0, gen}
    BY <2>0, Zenon DEF FlushedInv, Flushed
  <2>2. \A b \in Bridges, s \in Slots :
          \/ flows[b][s] = NoFlow
          \/ flows[b][s].gen = gen /\ flows[b][s].round = After(persisted)
    <3>1. \A b \in Bridges, s \in Slots :
            flows[b][s].gen = gen => flows[b][s].round = After(persisted)
      BY <2>0, Zenon DEF ReadyInv, Ready
    <3>2. QED
      BY <2>1, <3>1 DEF FlowsInv
  <2>3. TypeOK' /\ InfoInv' /\ RunInv'
    BY <2>0, <1>0, Zenon DEF TypeOK, InfoInv, RunInv
  <2>4. FlowsInv'
    BY <2>0, <2>2, Zenon DEF FlowsInv
  <2>5. FlushedInv' /\ ReadyInv'
    BY <2>0, <2>1, Zenon DEF FlushedInv, ReadyInv, Ready
  <2>6. DoneInv'
    BY <2>0, Zenon DEF DoneInv, ReadyInv, Ready
  <2>7. QED
    BY <2>3, <2>4, <2>5, <2>6, Zenon
<1>8. ASSUME NEW b \in Bridges, Replay(b) PROVE IInv'
  <2> DEFINE own == [round |-> After(persisted), gen |-> gen]
  <2>0. stage \in {"running", "flushing", "done"} /\ gen \in Nat \ {0} /\ own \in Flow
    BY <1>8, <1>0, Zenon DEF Replay, Serving, RunInv, Flow
  <2>1. /\ flows'[b] = [s \in Slots |-> IF s \in BaseSlots \/ <<b, s>> \in rules
                                        THEN own ELSE NoFlow]
        /\ \A c \in Bridges : c # b => flows'[c] = flows[c]
        /\ flows' \in [Bridges -> [Slots -> Flow]]
    BY <1>8, <1>0, <2>0, RoundInfo, Zenon DEF Replay, TypeOK
  <2>2. \A s \in Slots : flows'[b][s] = own \/ flows'[b][s] = NoFlow
    <3> HIDE DEF own
    <3>1. QED
      BY <2>1, Zenon
  <2>a. \A s \in Slots :
          \/ flows'[b][s] = NoFlow /\ flows'[b][s].gen = 0
          \/ flows'[b][s].gen = gen /\ flows'[b][s].round = After(persisted)
    <3>1. own.gen = gen /\ own.round = After(persisted)
      BY Zenon
    <3> HIDE DEF own
    <3>2. QED
      BY <1>0, <2>2, <3>1, Zenon
  <2>3. /\ UNCHANGED <<persisted, stage, info, left, gen>>
        /\ round' = [round EXCEPT ![b] = After(persisted)]
    BY <1>8, RoundInfo, Zenon DEF Replay
  <2>4. TypeOK' /\ InfoInv' /\ DoneInv' /\ RunInv'
    BY <1>0, <2>0, <2>1, <2>3, Zenon DEF TypeOK, InfoInv, DoneInv, RunInv
  <2>5. FlowsInv' /\ FlushedInv'
    <3>1. \A c \in Bridges : Flushed(c)' <=> Flushed(c)
      BY <2>3, Zenon DEF Flushed
    <3>a. \A c \in Bridges : c # b => flows'[c] = flows[c]
      BY <2>1, Zenon
    <3> HIDE DEF own
    <3>2. FlowsInv'
      <4>1. gen \in 1..gen
        BY <2>0
      <4>2. \A c \in Bridges, s \in Slots :
              \/ flows'[c][s] = NoFlow
              \/ /\ flows'[c][s].gen \in 1..gen
                 /\ flows'[c][s].round \in {persisted, After(persisted)}
        BY <2>a, <3>a, <4>1 DEF FlowsInv
      <4>3. QED
        BY <2>3, <4>2, Zenon DEF FlowsInv
    <3>3. FlushedInv'
      BY <2>a, <2>3, <3>a, <3>1, Zenon DEF FlushedInv
    <3>4. QED
      BY <3>2, <3>3, Zenon
  <2>6. ReadyInv'
    <3>1. \A c \in Bridges : Ready(c)' <=> Ready(c)
      BY <2>3, Zenon DEF Ready
    <3>2. round'[b] = After(persisted) /\ \A c \in Bridges : c # b => round'[c] = round[c]
      BY <2>3, Zenon DEF TypeOK
    <3>3. \A c \in Bridges : c # b => flows'[c] = flows[c]
      BY <2>1, Zenon
    <3> HIDE DEF own
    <3>4. ASSUME NEW c \in Bridges, Ready(c), c # b
          PROVE  /\ round'[c] = After(persisted)
                 /\ \A s \in Slots :
                      \/ flows'[c][s].gen \in {0, gen}
                      \/ flows'[c][s].round = persisted
                 /\ \A s \in Slots : flows'[c][s].gen = gen
                                        => flows'[c][s].round = After(persisted)
      BY <3>2, <3>3, <3>4 DEF ReadyInv
    <3>5. /\ \A s \in Slots : flows'[b][s].gen \in {0, gen}
          /\ \A s \in Slots : flows'[b][s].gen = gen
                                 => flows'[b][s].round = After(persisted)
      BY <2>0, <2>a, Zenon
    <3>6. QED
      BY <2>3, <3>1, <3>2, <3>4, <3>5, Zenon DEF ReadyInv
  <2>7. QED
    BY <2>4, <2>5, <2>6, Zenon
<1>9. CASE Crash
  <2>1. TypeOK' /\ InfoInv' /\ FlowsInv' /\ DoneInv' /\ RunInv'
    BY <1>9, Zenon DEF Crash, TypeOK, InfoInv, FlowsInv, DoneInv, RunInv
  <2>2. ReadyInv' /\ FlushedInv'
    BY <1>9, Zenon DEF Crash, ReadyInv, Ready, FlushedInv, Flushed
  <2>3. QED
    BY <2>1, <2>2, Zenon
<1>10. CASE UNCHANGED vars
  BY <1>10 DEF vars, TypeOK, InfoInv, FlowsInv, ReadyInv, Ready, FlushedInv, Flushed,
               DoneInv, RunInv
<1>11. QED
  BY <1>1, <1>2, <1>3, <1>4, <1>5, <1>6, <1>7, <1>8, <1>9, <1>10, Zenon DEF Next

\* A run that has flushed and persisted its round has only its own flows in
\* the bridges, for any number of rounds, runs and replays.
THEOREM FlushLeavesOwnFlows == Spec => []OnlyOwnFlows
<1>1. IInv => OnlyOwnFlows
  BY Zenon DEF IInv, OnlyOwnFlows, FlushedInv, Flushed
<1>2. QED
  BY <1>1, InitInv, NextInv, PTL DEF Spec

------------------------------------------------------------------------------
(* ServiceProxy: a service at rest has exactly the flows of what baseSvcCache *)
(* has of it.  While it is reconciled, or after a failure, its flows are       *)
(* between those and the flows of the Service, which a retry completes as long *)
(* as the Service has not changed.                                             *)

Svcs == [ip : ClusterIPs \cup {NoClusterIP}, ports : SUBSET SvcPorts]

Works == [svc : Svcs, name : Services, add : SUBSET NatBridges, del : SUBSET NatBridges]

AllLBFlows ==
    [svc : Services, ip : ClusterIPs \cup {NoClusterIP}, port : SvcPorts]

ProxyTypeOK ==
    /\ svc \in [Services -> Svcs] /\ cached \in [Services -> Svcs]
    /\ work \in Works \cup {NoWork}
    /\ queue \in SUBSET Services /\ failed \in SUBSET Services /\ lost \in SUBSET Services
    /\ lbMap \in [NatBridges -> SUBSET AllLBFlows]
    /\ lbFlows \in [NatBridges -> SUBSET AllLBFlows]

\* The flows of service s when it is v and baseSvcCache has c.
Balanced(s, v, c) ==
    IF v.ip = NoClusterIP THEN {}
    ELSE LBFlows(s, v.ip, IF c.ip = NoClusterIP THEN v.ports ELSE c.ports)

\* On the way from c to v: every flow of s is one of theirs, those of the address
\* in baseSvcCache are recorded, and complete where v keeps the address.
Between(s, v, c, f, m) ==
    \A b \in NatBridges :
        /\ \A x \in f[b] : x.svc = s => x \in Balanced(s, c, c) \/ x \in Balanced(s, v, c)
        /\ \A x \in f[b] : x.svc = s /\ x.ip = c.ip => x \in m[b]
        /\ v.ip = c.ip => \A x \in Balanced(s, c, c) : x \in m[b]

\* How far the calls of reconcile w have come.
CallsMade(s, w, c, f, m) ==
    /\ w.add # {} => w.svc.ip \notin {NoClusterIP, c.ip}
    /\ w.del # {} => c.ip \notin {NoClusterIP, w.svc.ip}
    /\ w.svc.ip \notin {NoClusterIP, c.ip} =>
         \A b \in NatBridges \ w.add : \A x \in Balanced(s, w.svc, c) : x \in m[b]
    /\ c.ip \notin {NoClusterIP, w.svc.ip} =>
         \A b \in NatBridges \ w.del : \A x \in f[b] : x.svc = s => x.ip # c.ip

WorkInv(s) ==
    /\ s \in queue \/ svc[s] = work.svc
    /\ s \in failed => svc[s] = work.svc /\ work.svc.ip # cached[s].ip
    /\ Between(s, work.svc, cached[s], lbFlows, lbMap)
    /\ CallsMade(s, work, cached[s], lbFlows, lbMap)

FailedInv(s) ==
    /\ s \in queue /\ svc[s].ip # cached[s].ip
    /\ Between(s, svc[s], cached[s], lbFlows, lbMap)

RestInv(s) ==
    /\ s \in queue \/ svc[s].ip = cached[s].ip
    /\ Between(s, cached[s], cached[s], lbFlows, lbMap)

SvcInv(s) ==
    /\ work.name = s => WorkInv(s)
    /\ work.name # s /\ s \in failed => FailedInv(s)
    /\ work.name # s /\ s \notin failed => RestInv(s)

\* What is recorded is installed.
RecordedInv == \A b \in NatBridges : \A x \in lbMap[b] : x \in lbFlows[b]

ProxyInv == ProxyTypeOK /\ RecordedInv /\ \A s \in Services \ lost : SvcInv(s)

LEMMA FlowsOfOne ==
  ASSUME NEW s, NEW v, NEW c
  PROVE  \A x \in Balanced(s, v, c) : x.svc = s /\ x.ip = v.ip /\ v.ip # NoClusterIP
  BY DEF Balanced, LBFlows

\* Flows of other services do not matter.
LEMMA BetweenKept ==
  ASSUME NEW s, NEW v, NEW c, NEW f, NEW m, NEW f2, NEW m2, Between(s, v, c, f, m),
         \A b \in NatBridges : \A x : x.svc = s =>
             (x \in f2[b] <=> x \in f[b]) /\ (x \in m2[b] <=> x \in m[b])
  PROVE  Between(s, v, c, f2, m2)
  <1>1. \A x \in Balanced(s, c, c) : x.svc = s
    BY FlowsOfOne
  <1> SUFFICES ASSUME NEW b \in NatBridges
               PROVE  /\ \A x \in f2[b] : x.svc = s => x \in Balanced(s, c, c) \/ x \in Balanced(s, v, c)
                      /\ \A x \in f2[b] : x.svc = s /\ x.ip = c.ip => x \in m2[b]
                      /\ v.ip = c.ip => \A x \in Balanced(s, c, c) : x \in m2[b]
    BY Zenon DEF Between
  <1> QED
    BY <1>1, Zenon DEF Between

\* Flows of the new address are installed, and some of them recorded.
LEMMA BetweenAdds ==
  ASSUME NEW s, NEW v, NEW c, NEW f, NEW m, NEW f2, NEW m2, Between(s, v, c, f, m),
         v.ip # c.ip,
         \A b \in NatBridges : \A x \in f2[b] : x \in f[b] \/ x \in Balanced(s, v, c),
         \A b \in NatBridges : \A x \in m[b] : x \in m2[b]
  PROVE  Between(s, v, c, f2, m2)
  <1>1. \A x \in Balanced(s, v, c) : x.ip # c.ip
    BY FlowsOfOne
  <1> SUFFICES ASSUME NEW b \in NatBridges
               PROVE  /\ \A x \in f2[b] : x.svc = s => x \in Balanced(s, c, c) \/ x \in Balanced(s, v, c)
                      /\ \A x \in f2[b] : x.svc = s /\ x.ip = c.ip => x \in m2[b]
                      /\ v.ip = c.ip => \A x \in Balanced(s, c, c) : x \in m2[b]
    BY Zenon DEF Between
  <1> QED
    BY <1>1, Zenon DEF Between

\* Flows of the old address are deleted and forgotten.
LEMMA BetweenDeletes ==
  ASSUME NEW s, NEW v, NEW c, NEW f, NEW m, NEW f2, NEW m2, Between(s, v, c, f, m),
         v.ip # c.ip,
         \A b \in NatBridges : \A x \in f2[b] : x \in f[b] /\ (x \in m[b] => x \in m2[b])
  PROVE  Between(s, v, c, f2, m2)
  BY Zenon DEF Between

\* A service that a step does not concern.
LEMMA SvcKept ==
  ASSUME NEW s \in Services, SvcInv(s), work.name # s, work'.name # s,
         svc'[s] = svc[s], cached'[s] = cached[s],
         s \in queue' <=> s \in queue, s \in failed' <=> s \in failed,
         \A b \in NatBridges : \A x : x.svc = s =>
             (x \in lbFlows'[b] <=> x \in lbFlows[b]) /\ (x \in lbMap'[b] <=> x \in lbMap[b])
  PROVE  SvcInv(s)'
  <1>1. CASE s \in failed
    <2>1. FailedInv(s)
      BY <1>1, Zenon DEF SvcInv
    <2>2. FailedInv(s)'
      BY <2>1, BetweenKept DEF FailedInv
    <2> QED
      BY <1>1, <2>2, Zenon DEF SvcInv
  <1>2. CASE s \notin failed
    <2>1. RestInv(s)
      BY <1>2, Zenon DEF SvcInv
    <2>2. RestInv(s)'
      BY <2>1, BetweenKept, ZenonT(60) DEF RestInv
    <2> QED
      BY <1>2, <2>2, Zenon DEF SvcInv
  <1> QED
    BY <1>1, <1>2, Zenon

LEMMA NoWorkIs ==
  NoWork.name = "" /\ NoWork.name \notin Services /\ NoWork.add = {} /\ NoWork.del = {}
  BY ServiceAssumption, Zenon DEF NoWork

LEMMA SetServiceInv ==
  ASSUME ProxyInv, NEW s \in Services, NEW ip \in ClusterIPs \cup {NoClusterIP},
         NEW ps \in SUBSET SvcPorts, SetService(s, ip, ps)
  PROVE  ProxyInv'
  <1>1. /\ svc' \in [Services -> Svcs]
        /\ \A t \in Services : t # s => svc'[t] = svc[t]
    BY Zenon DEF SetService, ProxyInv, ProxyTypeOK, Svcs
  <1>2. /\ queue' = queue \cup {s} /\ lost' = lost \cup ({s} \cap failed)
        /\ UNCHANGED <<work, cached, lbMap, lbFlows, failed>>
    BY Zenon DEF SetService
  <1>3. ProxyTypeOK' /\ RecordedInv'
    BY <1>1, <1>2, Zenon DEF ProxyInv, ProxyTypeOK, RecordedInv
  <1>4. ASSUME NEW t \in Services \ lost' PROVE SvcInv(t)'
    <2>1. SvcInv(t)
      BY <1>2, <1>4, Zenon DEF ProxyInv
    <2>2. CASE t = s
      <3>1. t \notin failed /\ t \in queue' /\ t \notin failed'
        BY <1>2, <1>4, <2>2, Zenon
      <3>2. CASE work.name = t
        BY <1>2, <2>1, <3>1, <3>2, Zenon DEF SvcInv, WorkInv
      <3>3. CASE work.name # t
        BY <1>2, <2>1, <3>1, <3>3, Zenon DEF SvcInv, RestInv
      <3> QED
        BY <3>2, <3>3, Zenon
    <2>3. CASE t # s
      <3>1. svc'[t] = svc[t] /\ (t \in queue' <=> t \in queue)
        BY <1>1, <1>2, <2>3, Zenon
      <3> QED
        BY <1>2, <2>1, <3>1, Zenon DEF SvcInv, WorkInv, FailedInv, RestInv
    <2> QED
      BY <2>2, <2>3, Zenon
  <1> QED
    BY <1>3, <1>4, Zenon DEF ProxyInv

LEMMA ReconcileInv ==
  ASSUME ProxyInv, NEW s \in Services, ReconcileService(s)
  PROVE  ProxyInv'
  <1> DEFINE v == svc[s]
             c == cached[s]
  <1>1. /\ work = NoWork /\ s \in queue /\ queue' = queue \ {s}
        /\ UNCHANGED <<svc, cached, lbMap, lbFlows, failed, lost>>
        /\ work' = DiffClusterIPs(s)
    BY Zenon DEF ReconcileService
  <1>2. v \in Svcs /\ c \in Svcs
    BY Zenon DEF ProxyInv, ProxyTypeOK
  <1>3. /\ work'.svc = v /\ work'.name = s
        /\ work'.add = IF v.ip \in {NoClusterIP, c.ip} THEN {} ELSE NatBridges
        /\ work'.del = IF c.ip \in {NoClusterIP, v.ip} THEN {} ELSE NatBridges
        /\ work' \in Works
    BY <1>1, <1>2, Zenon DEF DiffClusterIPs, Works
  <1>4. ProxyTypeOK' /\ RecordedInv'
    BY <1>1, <1>3, Zenon DEF ProxyInv, ProxyTypeOK, RecordedInv
  <1>5. work.name \notin Services
    BY <1>1, NoWorkIs, Zenon
  <1>6. ASSUME NEW t \in Services \ lost' PROVE SvcInv(t)'
    <2>1. SvcInv(t) /\ work.name # t
      BY <1>1, <1>5, <1>6, Zenon DEF ProxyInv
    <2>2. CASE t # s
      <3>1. t \in queue' <=> t \in queue
        BY <1>1, <2>2, Zenon
      <3> QED
        BY <1>1, <1>3, <2>1, <2>2, <3>1, SvcKept, Zenon
    <2>3. CASE t = s
      <3>1. Between(s, v, c, lbFlows, lbMap)
        <4>1. CASE s \in failed
          BY <2>1, <2>3, <4>1, Zenon DEF SvcInv, FailedInv
        <4>2. CASE s \notin failed
          <5>1. Between(s, c, c, lbFlows, lbMap)
            BY <2>1, <2>3, <4>2, Zenon DEF SvcInv, RestInv
          <5> QED
            BY <5>1, Zenon DEF Between
        <4> QED
          BY <4>1, <4>2, Zenon
      <3>2. CallsMade(s, work', c, lbFlows, lbMap)
        BY <1>3, Zenon DEF CallsMade
      <3>3. s \in failed => v.ip # c.ip
        BY <2>1, <2>3, Zenon DEF SvcInv, FailedInv
      <3>4. WorkInv(s)'
        BY <1>1, <1>3, <3>1, <3>2, <3>3, Zenon DEF WorkInv
      <3> QED
        BY <1>3, <2>3, <3>4, Zenon DEF SvcInv
    <2> QED
      BY <2>2, <2>3, Zenon
  <1> QED
    BY <1>4, <1>6, Zenon DEF ProxyInv

LEMMA AtWork ==
  ASSUME ProxyTypeOK, work # NoWork
  PROVE  /\ work \in Works /\ work.name \in Services /\ work.svc \in Svcs
         /\ work.add \in SUBSET NatBridges /\ work.del \in SUBSET NatBridges
         /\ cached[work.name] \in Svcs /\ svc[work.name] \in Svcs
  <1>1. work \in Works
    BY Zenon DEF ProxyTypeOK
  <1>2. /\ work.name \in Services /\ work.svc \in Svcs
        /\ work.add \in SUBSET NatBridges /\ work.del \in SUBSET NatBridges
    BY <1>1, Zenon DEF Works
  <1> QED
    BY <1>1, <1>2, Zenon DEF ProxyTypeOK

\* A call has failed: the service is queued again, and if it has not changed
\* since, what has been done is between the old and the new one.
LEMMA RetryInv ==
  ASSUME ProxyInv, work # NoWork, Retry(work.name), UNCHANGED <<svc, cached>>,
         work.name \notin lost => work.svc.ip # cached[work.name].ip,
         work.name \notin lost =>
             Between(work.name, work.svc, cached[work.name], lbFlows', lbMap'),
         \A t \in Services \ {work.name} : \A d \in NatBridges : \A x : x.svc = t =>
             (x \in lbFlows'[d] <=> x \in lbFlows[d]) /\ (x \in lbMap'[d] <=> x \in lbMap[d])
  PROVE  \A t \in Services \ lost' : SvcInv(t)'
  <1> DEFINE s == work.name
  <1>1. /\ work' = NoWork /\ queue' = queue \cup {s} /\ failed' = failed \cup {s}
        /\ lost' = IF svc[s] = work.svc THEN lost ELSE lost \cup {s}
    BY Zenon DEF Retry
  <1>2. s \in Services
    BY AtWork, Zenon DEF ProxyInv
  <1>3. work'.name \notin Services
    BY <1>1, NoWorkIs, Zenon
  <1> SUFFICES ASSUME NEW t \in Services \ lost' PROVE SvcInv(t)'
    BY Zenon
  <1>4. t \notin lost /\ SvcInv(t)
    BY <1>1, Zenon DEF ProxyInv
  <1>5. CASE t # s
    <2>1. /\ t \in queue' <=> t \in queue
          /\ t \in failed' <=> t \in failed
      BY <1>1, <1>5, Zenon
    <2>2. work'.name # t /\ svc'[t] = svc[t] /\ cached'[t] = cached[t]
      BY <1>3, Zenon
    <2>3. \A d \in NatBridges : \A x : x.svc = t =>
             (x \in lbFlows'[d] <=> x \in lbFlows[d]) /\ (x \in lbMap'[d] <=> x \in lbMap[d])
      BY <1>5, Zenon
    <2> QED
      BY <1>4, <1>5, <2>1, <2>2, <2>3, SvcKept, Zenon
  <1>6. CASE t = s
    <2>1. t \in queue' /\ t \in failed' /\ svc[t] = work.svc
      BY <1>1, <1>6, Zenon
    <2>2. FailedInv(t)'
      BY <1>4, <1>6, <2>1, Zenon DEF FailedInv
    <2> QED
      BY <1>3, <2>1, <2>2, Zenon DEF SvcInv
  <1> QED
    BY <1>5, <1>6, Zenon

\* A call has succeeded.
LEMMA CallInv ==
  ASSUME ProxyInv, work # NoWork, UNCHANGED <<svc, cached, queue, failed, lost>>,
         work'.name = work.name, work'.svc = work.svc,
         work.name \notin lost =>
             /\ Between(work.name, work.svc, cached[work.name], lbFlows', lbMap')
             /\ CallsMade(work.name, work', cached[work.name], lbFlows', lbMap'),
         \A t \in Services \ {work.name} : \A d \in NatBridges : \A x : x.svc = t =>
             (x \in lbFlows'[d] <=> x \in lbFlows[d]) /\ (x \in lbMap'[d] <=> x \in lbMap[d])
  PROVE  \A t \in Services \ lost' : SvcInv(t)'
  <1> DEFINE s == work.name
  <1> SUFFICES ASSUME NEW t \in Services \ lost' PROVE SvcInv(t)'
    BY Zenon
  <1>1. t \notin lost /\ SvcInv(t)
    BY Zenon DEF ProxyInv
  <1>2. CASE t # s
    <2>1. \A d \in NatBridges : \A x : x.svc = t =>
             (x \in lbFlows'[d] <=> x \in lbFlows[d]) /\ (x \in lbMap'[d] <=> x \in lbMap[d])
      BY <1>2, Zenon
    <2> QED
      BY <1>1, <1>2, <2>1, SvcKept, Zenon
  <1>3. CASE t = s
    <2>1. WorkInv(t)
      BY <1>1, <1>3, Zenon DEF SvcInv
    <2>2. WorkInv(t)'
      BY <1>1, <1>3, <2>1, Zenon DEF WorkInv
    <2> QED
      BY <1>3, <2>2, Zenon DEF SvcInv
  <1> QED
    BY <1>2, <1>3, Zenon

LEMMA NewFlows ==
  ASSUME ProxyTypeOK, work # NoWork,
         NEW x \in LBFlows(work.name, work.svc.ip, PortsToAdd(work.name, work))
  PROVE  /\ x \in AllLBFlows /\ x.svc = work.name
         /\ work.svc.ip # NoClusterIP => x \in Balanced(work.name, work.svc, cached[work.name])
  <1>1. work.name \in Services /\ work.svc \in Svcs /\ cached[work.name] \in Svcs
    BY AtWork, Zenon
  <1>2. PortsToAdd(work.name, work) \in SUBSET SvcPorts
    BY <1>1, Zenon DEF PortsToAdd, Svcs
  <1>3. x \in AllLBFlows /\ x.svc = work.name
    BY <1>1, <1>2 DEF LBFlows, AllLBFlows, Svcs
  <1>4. work.svc.ip # NoClusterIP => x \in Balanced(work.name, work.svc, cached[work.name])
    BY Zenon DEF Balanced, PortsToAdd
  <1> QED
    BY <1>3, <1>4, Zenon

LEMMA AddInv ==
  ASSUME ProxyInv, NEW b \in NatBridges, AddLBIP(b)
  PROVE  ProxyInv'
  <1> DEFINE s == work.name
             v == work.svc
             c == cached[s]
             new == LBFlows(s, v.ip, PortsToAdd(s, work)) \ lbMap[b]
  <1>1. b \in work.add /\ UNCHANGED <<svc, cached>>
    BY Zenon DEF AddLBIP
  <1>2. work # NoWork
    BY <1>1, NoWorkIs, Zenon
  <1>3. /\ work \in Works /\ s \in Services /\ work.add \in SUBSET NatBridges
        /\ work.del \in SUBSET NatBridges
    BY <1>2, AtWork, Zenon DEF ProxyInv
  <1>4. PICK done \in SUBSET new, rec \in SUBSET new :
          /\ rec \subseteq done
          /\ lbFlows' = [lbFlows EXCEPT ![b] = @ \cup done]
          /\ lbMap' = [lbMap EXCEPT ![b] = @ \cup rec]
          /\ \/ /\ done = new /\ rec = new
                /\ work' = [work EXCEPT !.add = @ \ {b}]
                /\ UNCHANGED <<queue, failed, lost>>
             \/ Retry(s)
    <2>1. CASE /\ lbFlows' = [lbFlows EXCEPT ![b] = @ \cup new]
               /\ lbMap' = [lbMap EXCEPT ![b] = @ \cup new]
               /\ work' = [work EXCEPT !.add = @ \ {b}]
               /\ UNCHANGED <<queue, failed, lost>>
      BY <2>1, Zenon
    <2>2. CASE /\ \E done \in SUBSET new : lbFlows' = [lbFlows EXCEPT ![b] = @ \cup done]
               /\ UNCHANGED lbMap /\ Retry(s)
      <3>1. PICK done \in SUBSET new : lbFlows' = [lbFlows EXCEPT ![b] = @ \cup done]
        BY <2>2, Zenon
      <3>2. lbMap' = [lbMap EXCEPT ![b] = @ \cup {}]
        BY <2>2, Zenon DEF ProxyInv, ProxyTypeOK
      <3>3. {} \in SUBSET new /\ {} \subseteq done
        BY Zenon
      <3> HIDE DEF new
      <3> QED
        BY <2>2, <3>1, <3>2, <3>3, ZenonT(60)
    <2> QED
      BY <2>1, <2>2, Zenon DEF AddLBIP
  <1>5. \A x \in new : /\ x \in AllLBFlows /\ x.svc = s
                       /\ v.ip # NoClusterIP => x \in Balanced(s, v, c)
    BY <1>2, NewFlows, Zenon DEF ProxyInv
  <1>6. /\ lbFlows' \in [NatBridges -> SUBSET AllLBFlows]
        /\ lbMap' \in [NatBridges -> SUBSET AllLBFlows]
        /\ \A d \in NatBridges : \A x : x \in lbFlows'[d] <=> x \in lbFlows[d] \/ (d = b /\ x \in done)
        /\ \A d \in NatBridges : \A x : x \in lbMap'[d] <=> x \in lbMap[d] \/ (d = b /\ x \in rec)
    BY <1>4, <1>5, Zenon DEF ProxyInv, ProxyTypeOK
  <1>7. RecordedInv'
    BY <1>4, <1>6, Zenon DEF ProxyInv, RecordedInv
  <1>8. \A t \in Services \ {s} : \A d \in NatBridges : \A x : x.svc = t =>
          (x \in lbFlows'[d] <=> x \in lbFlows[d]) /\ (x \in lbMap'[d] <=> x \in lbMap[d])
    BY <1>4, <1>5, <1>6, Zenon
  <1>9. s \notin lost => /\ v.ip \notin {NoClusterIP, c.ip}
                         /\ Between(s, v, c, lbFlows', lbMap')
    <2> SUFFICES ASSUME s \notin lost
                 PROVE  v.ip \notin {NoClusterIP, c.ip} /\ Between(s, v, c, lbFlows', lbMap')
      BY Zenon
    <2>1. WorkInv(s)
      BY <1>3, Zenon DEF ProxyInv, SvcInv
    <2>2. v.ip # NoClusterIP /\ v.ip # c.ip
      BY <1>1, <2>1, Zenon DEF WorkInv, CallsMade
    <2>3. Between(s, v, c, lbFlows, lbMap)
      BY <2>1, Zenon DEF WorkInv
    <2>4. \A d \in NatBridges : \A x \in lbFlows'[d] : x \in lbFlows[d] \/ x \in Balanced(s, v, c)
      BY <1>4, <1>5, <1>6, <2>2, Zenon
    <2>5. \A d \in NatBridges : \A x \in lbMap[d] : x \in lbMap'[d]
      BY <1>6, Zenon
    <2>6. Between(s, v, c, lbFlows', lbMap')
      BY <2>2, <2>3, <2>4, <2>5, BetweenAdds, Zenon
    <2> QED
      BY <2>2, <2>6, Zenon
  <1>10. CASE Retry(s)
    <2>1. ProxyTypeOK'
      BY <1>1, <1>3, <1>6, <1>10, Zenon DEF Retry, ProxyInv, ProxyTypeOK
    <2>2. \A t \in Services \ lost' : SvcInv(t)'
      BY <1>1, <1>2, <1>8, <1>9, <1>10, RetryInv, Zenon
    <2> QED
      BY <1>7, <2>1, <2>2, Zenon DEF ProxyInv
  <1>11. CASE /\ done = new /\ rec = new /\ work' = [work EXCEPT !.add = @ \ {b}]
              /\ UNCHANGED <<queue, failed, lost>>
    <2>1. /\ work' \in Works /\ work'.name = s /\ work'.svc = v
          /\ work'.add = work.add \ {b} /\ work'.del = work.del
      BY <1>3, <1>11, Zenon DEF Works
    <2>2. ProxyTypeOK'
      BY <1>1, <1>6, <1>11, <2>1, Zenon DEF ProxyInv, ProxyTypeOK
    <2>3. s \notin lost => CallsMade(s, work', c, lbFlows', lbMap')
      <3> SUFFICES ASSUME s \notin lost PROVE CallsMade(s, work', c, lbFlows', lbMap')
        BY Zenon
      <3>1. WorkInv(s)
        BY <1>3, Zenon DEF ProxyInv, SvcInv
      <3>2. CallsMade(s, work, c, lbFlows, lbMap)
        BY <3>1, Zenon DEF WorkInv
      <3>3. \A x \in Balanced(s, v, c) : x \in lbMap'[b]
        BY <1>6, <1>9, <1>11, Zenon DEF Balanced, PortsToAdd
      <3>4. ASSUME NEW d \in NatBridges \ work'.add PROVE \A x \in Balanced(s, v, c) : x \in lbMap'[d]
        BY <1>6, <1>9, <2>1, <3>2, <3>3, <3>4, Zenon DEF CallsMade
      <3>5. ASSUME c.ip \notin {NoClusterIP, v.ip}, NEW d \in NatBridges \ work.del,
                   NEW x \in lbFlows'[d], x.svc = s
            PROVE  x.ip # c.ip
        <4>1. x \in lbFlows[d] \/ x \in Balanced(s, v, c)
          BY <1>5, <1>6, <1>9, <1>11, <3>5, Zenon
        <4> QED
          BY <1>9, <3>2, <3>5, <4>1, FlowsOfOne DEF CallsMade
      <3> QED
        BY <1>9, <2>1, <3>2, <3>4, <3>5, Zenon DEF CallsMade
    <2>4. \A t \in Services \ lost' : SvcInv(t)'
      BY <1>1, <1>2, <1>8, <1>9, <1>11, <2>1, <2>3, CallInv, Zenon
    <2> QED
      BY <1>7, <2>2, <2>4, Zenon DEF ProxyInv
  <1> QED
    BY <1>4, <1>10, <1>11, Zenon

LEMMA DelInv ==
  ASSUME ProxyInv, NEW b \in NatBridges, DelLBIP(b)
  PROVE  ProxyInv'
  <1> DEFINE s == work.name
             v == work.svc
             c == cached[s]
             old == {x \in lbMap[b] : x.svc = s /\ x.ip = c.ip}
  <1>1. work.add = {} /\ b \in work.del /\ UNCHANGED <<svc, cached>>
    BY Zenon DEF DelLBIP
  <1>2. work # NoWork
    BY <1>1, NoWorkIs, Zenon
  <1>3. /\ work \in Works /\ s \in Services /\ work.add \in SUBSET NatBridges
        /\ work.del \in SUBSET NatBridges
    BY <1>2, AtWork, Zenon DEF ProxyInv
  <1>4. PICK done \in SUBSET old :
          /\ lbFlows' = [lbFlows EXCEPT ![b] = @ \ done]
          /\ lbMap' = [lbMap EXCEPT ![b] = @ \ done]
          /\ \/ /\ done = old
                /\ work' = [work EXCEPT !.del = @ \ {b}]
                /\ UNCHANGED <<queue, failed, lost>>
             \/ Retry(s)
    BY Zenon DEF DelLBIP
  <1>5. \A x : x \in old <=> x \in lbMap[b] /\ x.svc = s /\ x.ip = c.ip
    BY Zenon
  <1>6. /\ lbFlows' \in [NatBridges -> SUBSET AllLBFlows]
        /\ lbMap' \in [NatBridges -> SUBSET AllLBFlows]
        /\ \A d \in NatBridges : \A x : x \in lbFlows'[d] <=> x \in lbFlows[d] /\ ~ (d = b /\ x \in done)
        /\ \A d \in NatBridges : \A x : x \in lbMap'[d] <=> x \in lbMap[d] /\ ~ (d = b /\ x \in done)
    BY <1>4, Zenon DEF ProxyInv, ProxyTypeOK
  <1>7. RecordedInv'
    BY <1>6, Zenon DEF ProxyInv, RecordedInv
  <1>8. \A t \in Services \ {s} : \A d \in NatBridges : \A x : x.svc = t =>
          (x \in lbFlows'[d] <=> x \in lbFlows[d]) /\ (x \in lbMap'[d] <=> x \in lbMap[d])
    BY <1>4, <1>5, <1>6, Zenon
  <1>9. s \notin lost => /\ c.ip \notin {NoClusterIP, v.ip}
                         /\ Between(s, v, c, lbFlows', lbMap')
    <2> SUFFICES ASSUME s \notin lost
                 PROVE  c.ip \notin {NoClusterIP, v.ip} /\ Between(s, v, c, lbFlows', lbMap')
      BY Zenon
    <2>1. WorkInv(s)
      BY <1>3, Zenon DEF ProxyInv, SvcInv
    <2>2. c.ip # NoClusterIP /\ v.ip # c.ip
      BY <1>1, <2>1, Zenon DEF WorkInv, CallsMade
    <2>3. Between(s, v, c, lbFlows, lbMap)
      BY <2>1, Zenon DEF WorkInv
    <2>4. \A d \in NatBridges : \A x \in lbFlows'[d] :
            x \in lbFlows[d] /\ (x \in lbMap[d] => x \in lbMap'[d])
      BY <1>6, Zenon
    <2>5. Between(s, v, c, lbFlows', lbMap')
      BY <2>2, <2>3, <2>4, BetweenDeletes, Zenon
    <2> QED
      BY <2>2, <2>5, Zenon
  <1>10. CASE Retry(s)
    <2>1. ProxyTypeOK'
      BY <1>1, <1>3, <1>6, <1>10, Zenon DEF Retry, ProxyInv, ProxyTypeOK
    <2>2. s \notin lost => v.ip # c.ip
      BY <1>9, Zenon
    <2>3. \A t \in Services \ lost' : SvcInv(t)'
      BY <1>1, <1>2, <1>8, <1>9, <1>10, <2>2, RetryInv, Zenon
    <2> QED
      BY <1>7, <2>1, <2>3, Zenon DEF ProxyInv
  <1>11. CASE /\ done = old /\ work' = [work EXCEPT !.del = @ \ {b}]
              /\ UNCHANGED <<queue, failed, lost>>
    <2>1. /\ work' \in Works /\ work'.name = s /\ work'.svc = v
          /\ work'.add = work.add /\ work'.del = work.del \ {b}
      BY <1>3, <1>11, Zenon DEF Works
    <2>2. ProxyTypeOK'
      BY <1>1, <1>6, <1>11, <2>1, Zenon DEF ProxyInv, ProxyTypeOK
    <2>3. s \notin lost => CallsMade(s, work', c, lbFlows', lbMap')
      <3> SUFFICES ASSUME s \notin lost PROVE CallsMade(s, work', c, lbFlows', lbMap')
        BY Zenon
      <3>1. WorkInv(s)
        BY <1>3, Zenon DEF ProxyInv, SvcInv
      <3>2. CallsMade(s, work, c, lbFlows, lbMap) /\ Between(s, v, c, lbFlows, lbMap)
        BY <3>1, Zenon DEF WorkInv
      <3>3. ASSUME v.ip \notin {NoClusterIP, c.ip}, NEW d \in NatBridges \ work.add,
                   NEW x \in Balanced(s, v, c)
            PROVE  x \in lbMap'[d]
        <4>1. x \in lbMap[d]
          BY <3>2, <3>3, Zenon DEF CallsMade
        <4>2. x.ip = v.ip
          BY FlowsOfOne
        <4> QED
          BY <1>4, <1>5, <1>6, <1>9, <4>1, <4>2, Zenon
      <3>4. ASSUME NEW d \in NatBridges \ work'.del, NEW x \in lbFlows'[d], x.svc = s
            PROVE  x.ip # c.ip
        <4>1. CASE d # b
          BY <1>6, <1>9, <2>1, <3>2, <3>4, <4>1, Zenon DEF CallsMade
        <4>2. CASE d = b
          <5>1. x.ip = c.ip => x \in lbMap[b]
            BY <1>6, <3>2, <3>4, <4>2, Zenon DEF Between
          <5> QED
            BY <1>5, <1>6, <1>11, <3>4, <4>2, <5>1, Zenon
        <4> QED
          BY <4>1, <4>2, Zenon
      <3> QED
        BY <1>1, <1>9, <2>1, <3>3, <3>4, Zenon DEF CallsMade
    <2>4. \A t \in Services \ lost' : SvcInv(t)'
      BY <1>1, <1>2, <1>8, <1>9, <1>11, <2>1, <2>3, CallInv, Zenon
    <2> QED
      BY <1>7, <2>2, <2>4, Zenon DEF ProxyInv
  <1> QED
    BY <1>4, <1>10, <1>11, Zenon

LEMMA UpdateCacheInv ==
  ASSUME ProxyInv, UpdateBaseSvcCache
  PROVE  ProxyInv'
  <1> DEFINE s == work.name
             v == work.svc
             c == cached[s]
             c2 == IF v.ip = NoClusterIP THEN NoSvc
                   ELSE [ip |-> v.ip, ports |-> PortsToAdd(s, work)]
  <1>1. /\ work # NoWork /\ work.add = {} /\ work.del = {}
        /\ cached' = [cached EXCEPT ![s] = c2] /\ work' = NoWork /\ failed' = failed \ {s}
        /\ UNCHANGED <<svc, queue, lbMap, lbFlows, lost>>
    BY Zenon DEF UpdateBaseSvcCache
  <1>2. s \in Services /\ v \in Svcs /\ c \in Svcs
    BY <1>1, AtWork, Zenon DEF ProxyInv
  <1>3. c2 \in Svcs /\ c2.ip = v.ip
    BY <1>2, Zenon DEF PortsToAdd, Svcs, NoSvc
  <1>4. /\ cached' \in [Services -> Svcs] /\ cached'[s] = c2
        /\ \A t \in Services : t # s => cached'[t] = cached[t]
    BY <1>1, <1>2, <1>3, Zenon DEF ProxyInv, ProxyTypeOK
  <1>5. ProxyTypeOK' /\ RecordedInv'
    BY <1>1, <1>4, Zenon DEF ProxyInv, ProxyTypeOK, RecordedInv
  <1>6. work'.name \notin Services
    BY <1>1, NoWorkIs, Zenon
  <1>7. ASSUME NEW t \in Services \ lost' PROVE SvcInv(t)'
    <2>1. t \notin lost /\ SvcInv(t)
      BY <1>1, <1>7, Zenon DEF ProxyInv
    <2>2. CASE t # s
      <3>1. t \in failed' <=> t \in failed
        BY <1>1, <2>2, Zenon
      <3> QED
        BY <1>1, <1>4, <1>6, <2>1, <2>2, <3>1, SvcKept, Zenon
    <2>3. CASE t = s
      <3>1. /\ s \in queue \/ svc[s] = v
            /\ Between(s, v, c, lbFlows, lbMap) /\ CallsMade(s, work, c, lbFlows, lbMap)
        BY <2>1, <2>3, Zenon DEF SvcInv, WorkInv
      <3>2. Balanced(s, c2, c2) = Balanced(s, v, c)
        BY <1>3, Zenon DEF Balanced, PortsToAdd
      <3>3. ASSUME NEW d \in NatBridges, NEW x \in lbFlows[d], x.svc = s
            PROVE  x \in Balanced(s, v, c)
        <4>1. x \in Balanced(s, c, c) \/ x \in Balanced(s, v, c)
          BY <3>1, <3>3, Zenon DEF Between
        <4>2. CASE x \in Balanced(s, c, c)
          <5>1. x.ip = c.ip /\ c.ip # NoClusterIP
            BY <4>2, FlowsOfOne
          <5>2. c.ip = v.ip
            BY <1>1, <3>1, <3>3, <5>1, Zenon DEF CallsMade
          <5>3. Balanced(s, c, c) = Balanced(s, v, c)
            BY <5>1, <5>2, Zenon DEF Balanced
          <5> QED
            BY <4>2, <5>3, Zenon
        <4> QED
          BY <4>1, <4>2, Zenon
      <3>4. ASSUME NEW d \in NatBridges, NEW x \in Balanced(s, v, c) PROVE x \in lbMap[d]
        <4>1. v.ip # NoClusterIP
          BY FlowsOfOne
        <4>2. CASE v.ip = c.ip
          <5>1. Balanced(s, c, c) = Balanced(s, v, c)
            BY <4>1, <4>2, Zenon DEF Balanced
          <5> QED
            BY <3>1, <4>2, <5>1, Zenon DEF Between
        <4>3. CASE v.ip # c.ip
          BY <1>1, <3>1, <4>1, <4>3, Zenon DEF CallsMade
        <4> QED
          BY <4>2, <4>3, Zenon
      <3>5. Between(s, c2, c2, lbFlows, lbMap)
        <4>1. ASSUME NEW d \in NatBridges, NEW x \in lbFlows[d], x.svc = s
              PROVE  x \in Balanced(s, c2, c2) /\ x \in lbMap[d]
          BY <3>2, <3>3, <3>4, <4>1, Zenon
        <4>2. ASSUME NEW d \in NatBridges, NEW x \in Balanced(s, c2, c2) PROVE x \in lbMap[d]
          BY <3>2, <3>4, <4>2, Zenon
        <4> HIDE DEF c2
        <4> QED
          BY <4>1, <4>2, Zenon DEF Between
      <3>6. s \in queue \/ svc[s].ip = c2.ip
        BY <1>3, <3>1, Zenon
      <3> HIDE DEF c2
      <3>7. RestInv(t)'
        BY <1>1, <1>4, <2>3, <3>5, <3>6, Zenon DEF RestInv
      <3>8. t \notin failed'
        BY <1>1, <2>3, Zenon
      <3> QED
        BY <1>2, <1>6, <2>3, <3>7, <3>8, Zenon DEF SvcInv
    <2> QED
      BY <2>2, <2>3, Zenon
  <1> QED
    BY <1>5, <1>7, Zenon DEF ProxyInv

LEMMA ProxyInitInv == ProxyInit => ProxyInv
  <1> SUFFICES ASSUME ProxyInit PROVE ProxyInv
    BY Zenon
  <1>1. NoSvc \in Svcs /\ NoSvc.ip = NoClusterIP
    BY Zenon DEF NoSvc, Svcs
  <1>2. ProxyTypeOK /\ RecordedInv
    BY <1>1, Zenon DEF ProxyInit, ProxyTypeOK, RecordedInv
  <1>3. ASSUME NEW s \in Services PROVE SvcInv(s)
    <2>1. Balanced(s, cached[s], cached[s]) = {} /\ \A b \in NatBridges : lbFlows[b] = {}
      BY <1>1, Zenon DEF ProxyInit, Balanced
    <2>2. Between(s, cached[s], cached[s], lbFlows, lbMap)
      BY <2>1, Zenon DEF Between
    <2>3. RestInv(s)
      BY <2>2, Zenon DEF RestInv, ProxyInit
    <2>4. s \notin failed /\ work.name # s
      BY NoWorkIs, Zenon DEF ProxyInit
    <2> QED
      BY <2>3, <2>4, Zenon DEF SvcInv
  <1> QED
    BY <1>2, <1>3, Zenon DEF ProxyInv

LEMMA ProxyInvImplies == ProxyInv => QuietServicesBalanced
  <1> SUFFICES ASSUME ProxyInv, queue = {}, work = NoWork,
                      NEW s \in Services \ lost, NEW b \in NatBridges
               PROVE  /\ cached[s].ip = svc[s].ip
                      /\ {f \in lbFlows[b] : f.svc = s} =
                           IF svc[s].ip = NoClusterIP THEN {}
                           ELSE LBFlows(s, svc[s].ip, cached[s].ports)
    BY Zenon DEF QuietServicesBalanced
  <1> DEFINE c == cached[s]
  <1>1. RestInv(s)
    BY NoWorkIs, Zenon DEF ProxyInv, SvcInv, FailedInv
  <1>2. cached[s].ip = svc[s].ip
    BY <1>1, Zenon DEF RestInv
  <1>3. Balanced(s, c, c) = IF svc[s].ip = NoClusterIP THEN {}
                            ELSE LBFlows(s, svc[s].ip, cached[s].ports)
    BY <1>2, Zenon DEF Balanced
  <1>4. \A x \in lbFlows[b] : x.svc = s => x \in Balanced(s, c, c)
    BY <1>1, Zenon DEF RestInv, Between
  <1>5. \A x \in Balanced(s, c, c) : x \in lbFlows[b] /\ x.svc = s
    <2>1. \A x \in Balanced(s, c, c) : x \in lbMap[b]
      BY <1>1, Zenon DEF RestInv, Between
    <2> QED
      BY <2>1, FlowsOfOne DEF ProxyInv, RecordedInv
  <1>6. {f \in lbFlows[b] : f.svc = s} = Balanced(s, c, c)
    BY <1>4, <1>5, Zenon
  <1> QED
    BY <1>2, <1>3, <1>6, Zenon

\* QuietServicesBalanced: calls to the nat bridges may fail at any flow; once the
\* retries are through, the flows are those of every service's cluster address.
THEOREM ServicesBalanced == ProxySpec => []QuietServicesBalanced
  <1>1. ProxyInv /\ [ProxyNext]_proxyVars => ProxyInv'
    <2> SUFFICES ASSUME ProxyInv, [ProxyNext]_proxyVars PROVE ProxyInv'
      BY Zenon
    <2>1. CASE UNCHANGED proxyVars
      BY <2>1, Zenon DEF proxyVars, ProxyInv, ProxyTypeOK, RecordedInv, SvcInv, WorkInv,
                         FailedInv, RestInv
    <2>2. ASSUME NEW s \in Services, NEW ip \in ClusterIPs \cup {NoClusterIP},
                 NEW ps \in SUBSET SvcPorts,
                 SetService(s, ip, IF ip = NoClusterIP THEN {} ELSE ps)
          PROVE  ProxyInv'
      BY <2>2, SetServiceInv, Zenon
    <2> QED
      BY <2>1, <2>2, ReconcileInv, AddInv, DelInv, UpdateCacheInv, Zenon DEF ProxyNext
  <1> QED
    BY <1>1, ProxyInitInv, ProxyInvImplies, PTL DEF ProxySpec

------------------------------------------------------------------------------
(* CniServer: a sandbox has its address reserved from before its port exists  *)
(* until after it is gone, and host-local gives no address out twice.          *)

Requests ==
    [id : Sandboxes,
     step : {"ExecAdd", "SetupVeth", "CreatePort", "UpdateInterface", "DeletePort", "ExecDel"}]

CniTypeOK ==
    /\ asked \in [Sandboxes -> {"none", "add", "run", "del", "gone"}]
    /\ busy \in Requests \cup {NoRequest}
    /\ reserved \in [Sandboxes -> PodIPs \cup {NoPodIP}]
    /\ uses \in [Sandboxes -> PodIPs \cup {NoPodIP}]
    /\ bridged \in SUBSET Sandboxes

\* host-local gives an address to one sandbox.
GivenOnce ==
    \A s, t \in Sandboxes : s # t /\ reserved[s] # NoPodIP => reserved[s] # reserved[t]

\* How far the request under way has come.
RequestInv ==
    /\ busy # NoRequest => asked[busy.id] \in {"add", "del"}
    /\ busy.step \in {"ExecAdd", "SetupVeth", "CreatePort", "ExecDel"} => busy.id \notin bridged
    /\ busy.step \in {"SetupVeth", "CreatePort"} => reserved[busy.id] # NoPodIP
    /\ busy.step = "CreatePort" => uses[busy.id] = reserved[busy.id]

BridgedInv ==
    /\ \A s \in bridged : uses[s] # NoPodIP /\ reserved[s] = uses[s]
    /\ \A s \in Sandboxes : asked[s] = "none" => s \notin bridged

CniInv == CniTypeOK /\ GivenOnce /\ RequestInv /\ BridgedInv

\* A request under way.
LEMMA UnderWay ==
  ASSUME CniInv, busy # NoRequest
  PROVE  busy \in Requests /\ busy.id \in Sandboxes /\ asked[busy.id] \in {"add", "del"}
  <1>1. busy \in Requests
    BY Zenon DEF CniInv, CniTypeOK
  <1>2. busy.id \in Sandboxes
    BY <1>1, Zenon DEF Requests
  <1> QED
    BY <1>1, <1>2, Zenon DEF CniInv, RequestInv

LEMMA StepNamed ==
  ASSUME busy.step # ""
  PROVE  busy # NoRequest
  <1>1. NoRequest.step = ""
    BY Zenon DEF NoRequest
  <1> QED
    BY <1>1, Zenon

\* A request that ends, for whatever reason, leaves the invariant alone.
LEMMA CniEnds ==
  ASSUME CniInv, busy' = NoRequest, UNCHANGED <<reserved, uses, bridged>>,
         asked' = asked \/ asked' = [asked EXCEPT ![busy.id] = "run"],
         busy # NoRequest
  PROVE  CniInv'
  <1>1. busy.id \in Sandboxes /\ asked[busy.id] # "none"
    BY UnderWay, Zenon
  <1>2. /\ asked' \in [Sandboxes -> {"none", "add", "run", "del", "gone"}]
        /\ \A s \in Sandboxes : asked'[s] = "none" => asked[s] = "none"
    BY <1>1, Zenon DEF CniInv, CniTypeOK
  <1>3. CniTypeOK' /\ GivenOnce' /\ RequestInv' /\ BridgedInv'
    BY <1>2, ZenonT(60) DEF CniInv, CniTypeOK, GivenOnce, RequestInv, BridgedInv, NoRequest
  <1> QED
    BY <1>3, Zenon DEF CniInv

LEMMA CmdInv ==
  ASSUME CniInv, NEW s \in Sandboxes, CmdAdd(s) \/ CmdDel(s)
  PROVE  CniInv'
  <1>1. PICK k \in {"add", "del"} :
          /\ asked' = [asked EXCEPT ![s] = k]
          /\ busy' = [id |-> s, step |-> IF k = "add" THEN "ExecAdd" ELSE "DeletePort"]
          /\ k = "add" => asked[s] = "none"
    BY Zenon DEF CmdAdd, CmdDel
  <1>2. UNCHANGED <<reserved, uses, bridged>>
    BY Zenon DEF CmdAdd, CmdDel
  <1>3. /\ asked' \in [Sandboxes -> {"none", "add", "run", "del", "gone"}]
        /\ asked'[s] = k
        /\ \A t \in Sandboxes : asked'[t] = "none" => asked[t] = "none"
    BY <1>1, Zenon DEF CniInv, CniTypeOK
  <1>4. busy' \in Requests /\ busy'.id = s
        /\ busy'.step = IF k = "add" THEN "ExecAdd" ELSE "DeletePort"
    BY <1>1, Zenon DEF Requests
  <1>5. CniTypeOK' /\ GivenOnce' /\ BridgedInv'
    BY <1>2, <1>3, <1>4, Zenon DEF CniInv, CniTypeOK, GivenOnce, BridgedInv
  <1>6. RequestInv'
    BY <1>1, <1>2, <1>3, <1>4, Zenon DEF CniInv, RequestInv, BridgedInv
  <1> QED
    BY <1>5, <1>6, Zenon DEF CniInv

LEMMA ExecAddInv ==
  ASSUME CniInv, ExecAdd
  PROVE  CniInv'
  <1>1. CASE busy' = NoRequest /\ UNCHANGED reserved
    BY <1>1, CniEnds, StepNamed, Zenon DEF ExecAdd
  <1>2. CASE ~ (busy' = NoRequest /\ UNCHANGED reserved)
    <2> DEFINE i == busy.id
    <2>1. PICK a \in PodIPs \ {reserved[t] : t \in Sandboxes} :
            reserved' = [reserved EXCEPT ![i] = a]
      BY <1>2, Zenon DEF ExecAdd
    <2>2. busy' = [busy EXCEPT !.step = "SetupVeth"] /\ busy.step = "ExecAdd"
      BY <1>2, Zenon DEF ExecAdd, Goes
    <2>3. /\ busy \in Requests /\ i \in Sandboxes /\ i \notin bridged
          /\ asked[i] \in {"add", "del"}
      BY <2>2, UnderWay, StepNamed, Zenon DEF CniInv, RequestInv
    <2>4. busy' \in Requests /\ busy'.id = i /\ busy'.step = "SetupVeth"
      BY <2>2, <2>3, Zenon DEF Requests
    <2>5. UNCHANGED <<asked, uses, bridged>>
      BY Zenon DEF ExecAdd
    <2>6. a \in PodIPs /\ a # NoPodIP /\ \A t \in Sandboxes : reserved[t] # a
      BY CniAssumption, Zenon
    <2>7. /\ reserved' \in [Sandboxes -> PodIPs \cup {NoPodIP}]
          /\ reserved'[i] = a
          /\ \A t \in Sandboxes : t # i => reserved'[t] = reserved[t]
      BY <2>1, <2>3, <2>6, Zenon DEF CniInv, CniTypeOK
    <2>8. CniTypeOK'
      BY <2>4, <2>5, <2>7, Zenon DEF CniInv, CniTypeOK
    <2>9. GivenOnce'
      BY <2>6, <2>7, Zenon DEF CniInv, GivenOnce
    <2>10. RequestInv'
      BY <2>3, <2>4, <2>5, <2>6, <2>7, Zenon DEF CniInv, RequestInv
    <2>11. BridgedInv'
      BY <2>3, <2>5, <2>7, Zenon DEF CniInv, CniTypeOK, BridgedInv
    <2> QED
      BY <2>8, <2>9, <2>10, <2>11, Zenon DEF CniInv
  <1> QED
    BY <1>1, <1>2, Zenon

LEMMA SetupVethInv ==
  ASSUME CniInv, SetupVeth
  PROVE  CniInv'
  <1> DEFINE i == busy.id
  <1>1. busy' = [busy EXCEPT !.step = "CreatePort"] /\ busy.step = "SetupVeth"
    BY Zenon DEF SetupVeth, Goes
  <1>2. /\ busy \in Requests /\ i \in Sandboxes /\ i \notin bridged
        /\ asked[i] \in {"add", "del"} /\ reserved[i] # NoPodIP
    BY <1>1, UnderWay, StepNamed, Zenon DEF CniInv, RequestInv
  <1>3. busy' \in Requests /\ busy'.id = i /\ busy'.step = "CreatePort"
    BY <1>1, <1>2, Zenon DEF Requests
  <1>4. UNCHANGED <<asked, reserved, bridged>>
    BY Zenon DEF SetupVeth
  <1>5. /\ uses' \in [Sandboxes -> PodIPs \cup {NoPodIP}]
        /\ uses'[i] = reserved[i]
        /\ \A t \in Sandboxes : t # i => uses'[t] = uses[t]
    BY <1>2, Zenon DEF SetupVeth, CniInv, CniTypeOK
  <1>6. CniTypeOK' /\ GivenOnce'
    BY <1>3, <1>4, <1>5, Zenon DEF CniInv, CniTypeOK, GivenOnce
  <1>7. RequestInv'
    BY <1>2, <1>3, <1>4, <1>5, Zenon DEF CniInv, RequestInv
  <1>8. BridgedInv'
    BY <1>2, <1>4, <1>5, Zenon DEF CniInv, CniTypeOK, BridgedInv
  <1> QED
    BY <1>6, <1>7, <1>8, Zenon DEF CniInv

LEMMA CreatePortInv ==
  ASSUME CniInv, CreatePort
  PROVE  CniInv'
  <1> DEFINE i == busy.id
  <1>1. busy' = [busy EXCEPT !.step = "UpdateInterface"] /\ busy.step = "CreatePort"
    BY Zenon DEF CreatePort, Goes
  <1>2. /\ busy \in Requests /\ i \in Sandboxes
        /\ asked[i] \in {"add", "del"} /\ reserved[i] # NoPodIP /\ uses[i] = reserved[i]
    BY <1>1, UnderWay, StepNamed, Zenon DEF CniInv, RequestInv
  <1>3. busy' \in Requests /\ busy'.id = i /\ busy'.step = "UpdateInterface"
    BY <1>1, <1>2, Zenon DEF Requests
  <1>4. UNCHANGED <<asked, reserved, uses>> /\ bridged' = bridged \cup {i}
    BY Zenon DEF CreatePort
  <1>5. CniTypeOK' /\ GivenOnce'
    BY <1>2, <1>3, <1>4, Zenon DEF CniInv, CniTypeOK, GivenOnce
  <1>6. RequestInv'
    BY <1>2, <1>3, <1>4, Zenon DEF CniInv, RequestInv
  <1>7. BridgedInv'
    BY <1>2, <1>4, Zenon DEF CniInv, BridgedInv
  <1> QED
    BY <1>5, <1>6, <1>7, Zenon DEF CniInv

LEMMA DeletePortInv ==
  ASSUME CniInv, DeletePort
  PROVE  CniInv'
  <1> DEFINE i == busy.id
  <1>1. busy' = [busy EXCEPT !.step = "ExecDel"] /\ busy.step = "DeletePort"
    BY Zenon DEF DeletePort, Goes
  <1>2. busy \in Requests /\ i \in Sandboxes /\ asked[i] \in {"add", "del"}
    BY <1>1, UnderWay, StepNamed, Zenon DEF CniInv, RequestInv
  <1>3. busy' \in Requests /\ busy'.id = i /\ busy'.step = "ExecDel"
    BY <1>1, <1>2, Zenon DEF Requests
  <1>4. UNCHANGED <<asked, reserved, uses>> /\ bridged' = bridged \ {i}
    BY Zenon DEF DeletePort
  <1>5. CniTypeOK' /\ GivenOnce' /\ BridgedInv'
    BY <1>3, <1>4, Zenon DEF CniInv, CniTypeOK, GivenOnce, BridgedInv
  <1>6. RequestInv'
    BY <1>2, <1>3, <1>4, Zenon DEF CniInv, RequestInv
  <1> QED
    BY <1>5, <1>6, Zenon DEF CniInv

LEMMA ExecDelInv ==
  ASSUME CniInv, ExecDel
  PROVE  CniInv'
  <1> DEFINE i == busy.id
  <1>1. i \in Sandboxes /\ i \notin bridged
    BY UnderWay, StepNamed, Zenon DEF ExecDel, CniInv, RequestInv
  <1>2. UNCHANGED bridged /\ busy' = NoRequest
    BY Zenon DEF ExecDel
  <1>3. /\ reserved' \in [Sandboxes -> PodIPs \cup {NoPodIP}]
        /\ uses' \in [Sandboxes -> PodIPs \cup {NoPodIP}]
        /\ asked' \in [Sandboxes -> {"none", "add", "run", "del", "gone"}]
        /\ reserved'[i] = NoPodIP /\ asked'[i] = "gone"
        /\ \A t \in Sandboxes : t # i => /\ reserved'[t] = reserved[t]
                                         /\ uses'[t] = uses[t] /\ asked'[t] = asked[t]
    BY <1>1, Zenon DEF ExecDel, CniInv, CniTypeOK
  <1>4. CniTypeOK'
    BY <1>2, <1>3, Zenon DEF CniInv, CniTypeOK
  <1>5. GivenOnce'
    BY <1>3 DEF CniInv, GivenOnce
  <1>6. RequestInv'
    BY <1>2, Zenon DEF RequestInv, NoRequest
  <1>7. BridgedInv'
    BY <1>1, <1>2, <1>3 DEF CniInv, CniTypeOK, BridgedInv
  <1> QED
    BY <1>4, <1>5, <1>6, <1>7, Zenon DEF CniInv

\* AddressesNotShared: whatever step of CmdAdd or CmdDel fails, and wherever the
\* agent ends, the address of a port of the bridge is its sandbox's alone.
THEOREM PodAddresses == CniSpec => []AddressesNotShared
  <1>1. CniInit => CniInv
    <2> SUFFICES ASSUME CniInit PROVE CniInv
      BY Zenon
    <2>1. CniTypeOK /\ GivenOnce /\ BridgedInv
      BY Zenon DEF CniInit, CniTypeOK, GivenOnce, BridgedInv
    <2>2. RequestInv
      BY Zenon DEF CniInit, RequestInv, NoRequest
    <2> QED
      BY <2>1, <2>2, Zenon DEF CniInv
  <1>2. CniInv /\ [CniNext]_cniVars => CniInv'
    <2> SUFFICES ASSUME CniInv, [CniNext]_cniVars PROVE CniInv'
      BY Zenon
    <2>1. CASE UNCHANGED cniVars
      BY <2>1, Zenon
         DEF cniVars, CniInv, CniTypeOK, GivenOnce, RequestInv, BridgedInv
    <2>2. CASE Fails
      BY <2>2, CniEnds, Zenon DEF Fails
    <2>3. CASE UpdateInterface
      <3>1. busy # NoRequest
        BY <2>3, StepNamed, Zenon DEF UpdateInterface
      <3> QED
        BY <2>3, <3>1, CniEnds, Zenon DEF UpdateInterface
    <2> QED
      BY <2>1, <2>2, <2>3, CmdInv, ExecAddInv, SetupVethInv, CreatePortInv, DeletePortInv,
         ExecDelInv, Zenon DEF CniNext, Serve
  <1>3. CniInv => AddressesNotShared
    BY Zenon DEF CniInv, CniTypeOK, GivenOnce, BridgedInv, AddressesNotShared
  <1> QED
    BY <1>1, <1>2, <1>3, PTL DEF CniSpec
==============================================================================
