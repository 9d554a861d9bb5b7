------------------------------- MODULE Conntrack -------------------------------
(***************************************************************************)
(* Connections that are established are not shown to the policy tables, so *)
(* a change of a rule is followed by the removal of the connections it     *)
(* matches: AddEveroutePolicyRule and RemoveEveroutePolicyRule send the    *)
(* rule over a bounded channel, under flowReplayMutex, to workers that     *)
(* delete from the kernel's table.                                         *)
(*                                                                         *)
(* The calls to the switches succeed here (RuleTable has those that fail). *)
(* An answer is a packet on an entry; without one, it is the first packet  *)
(* of a connection in the other direction.                                 *)
(***************************************************************************)
EXTENDS Integers, Sequences

(* The policy bridge: the table a rule's flow goes into and the path of a    *)
(* packet through the tables.  A table is <<direction, tier, mode>>.         *)
(*                                                                           *)
(* A rule is [id, dir, tier, mode, prio, action, src, dst, ports]; Any       *)
(* stands for an address it leaves open, {} for any port, and the ports of   *)
(* a value and a mask for the block they match (PortRange).  A connection is *)
(* [dir, src, dst, port].                                                    *)

Any == "any"

Commit == "ctCommitTable"

\* initDirectionSelectionTable and the flows initPolicyTable sets for a miss.
Chain(dir) ==
    << <<dir, 1, "work">>, <<dir, 2, "monitor">>, <<dir, 2, "work">>,
       <<dir, 3, "monitor">>, <<dir, 3, "work">> >>

\* Tier 1 has no monitor table.
GetTierTable(dir, tier, mode) ==
    [policyTable |-> <<dir, tier, mode>>,
     nextTable |-> IF mode = "work" THEN Commit ELSE <<dir, tier, "work">>]

matchIPTuple(r, src, dst, port) ==
    /\ r.src \in {Any, src}
    /\ r.dst \in {Any, dst}
    /\ r.ports = {} \/ port \in r.ports

\* The flow of a rule: a denied packet is marked in reg4.
AddMicroSegmentRule(r) ==
    LET t == GetTierTable(r.dir, r.tier, r.mode)
    IN [id |-> r.id, rule |-> r, table |-> t.policyTable, prio |-> r.prio, next |-> t.nextTable,
        drop |-> r.mode = "work" /\ r.action = "deny"]

\* What may become of the first packet of a connection: of overlapping flows
\* with the same priority either may be taken.
Verdicts(flows, c) ==
    LET at[n \in 1 .. 6] ==
            IF n = 6 THEN {"allow"}
            ELSE LET hits == {f \in flows : /\ f.table = Chain(c.dir)[n]
                                            /\ matchIPTuple(f.rule, c.src, c.dst, c.port)}
                     best == {f \in hits : \A g \in hits : g.prio <= f.prio}
                 IN IF best = {} THEN at[n + 1]
                    ELSE UNION {IF f.next # Commit THEN at[n + 1]
                                ELSE {IF f.drop THEN "deny" ELSE "allow"} : f \in best}
    IN at[1]

\* What the tiers are for: the first tier with a rule at work for the packet
\* decides, by its rules of the highest priority.
Intended(rules, c) ==
    LET hits == {r \in rules : /\ r.mode = "work" /\ r.dir = c.dir
                               /\ matchIPTuple(r, c.src, c.dst, c.port)}
        first == {r \in hits : \A q \in hits : r.tier <= q.tier}
        best == {r \in first : \A q \in first : q.prio <= r.prio}
    IN IF hits = {} THEN {"allow"} ELSE {r.action : r \in best}

------------------------------------------------------------------------------
CONSTANTS VDS, Conns, \* a connection has also the vds it goes through
          Pool,       \* rules that policies may add
          Internal,   \* rules of the internal addresses known at the start,
                      \* before the workers run: they fit into the channel
          Workers,    \* MaxCleanConntrackWorkerNum of them
          ChanSize,   \* MaxCleanConntrackChanSize
          MaxCalls,   \* bound: rules added or removed
          MaxRestarts, \* bound: restarts of vswitchd
          MaxErrors   \* bound: failed deletions

VARIABLES
    booted,  \* InitializeDatapath has started the workers
    Rules,   \* DpManager.Rules
    flows,   \* the flows in the policy bridge of each VDS
    call,    \* the operation that holds flowReplayMutex, or Idle
    ch,      \* cleanConntrackChan
    batch,   \* the ruleList of each worker
    ct,      \* the kernel's entries: "none", "new" and "est" of an allowed
             \* connection, "denied" with the label of a deny rule
    lost,    \* history: a deletion failed
    calls, restarts, errors

vars == <<booted, Rules, flows, call, ch, batch, ct, lost, calls, restarts, errors>>

Idle == [op |-> "idle"]

Init ==
    /\ booted = FALSE
    /\ Rules = {}
    /\ flows = [v \in VDS |-> {}]
    /\ call = Idle
    /\ ch = <<>>
    /\ batch = [w \in Workers |-> {}]
    /\ ct = [c \in Conns |-> "none"]
    /\ lost = FALSE
    /\ calls = 0 /\ restarts = 0 /\ errors = 0

Begin(op, r, left) ==
    /\ call = Idle
    /\ call' = [op |-> op, rule |-> r, left |-> left]
    /\ UNCHANGED <<booted, Rules, flows, ch, batch, ct, lost, restarts, errors>>

\* The rules of the internal addresses come first, ...
addIntenalIP(r) ==
    /\ ~booted /\ r \in Internal \ Rules
    /\ Begin("add", r, VDS)
    /\ UNCHANGED calls

\* ... then the workers start.
InitializeDatapath ==
    /\ ~booted /\ call = Idle /\ Internal \subseteq Rules
    /\ booted' = TRUE
    /\ UNCHANGED <<Rules, flows, call, ch, batch, ct, lost, calls, restarts, errors>>

\* A rule that is there already only gets a further reference.
AddEveroutePolicyRule(r) ==
    /\ booted /\ calls < MaxCalls /\ calls' = calls + 1
    /\ r \in Pool \ Rules
    /\ Begin("add", r, VDS)

RemoveEveroutePolicyRule(r) ==
    /\ booted /\ calls < MaxCalls /\ calls' = calls + 1
    /\ r \in Rules
    /\ Begin("remove", r, VDS)

\* The loop over BridgeChainMap.
SetFlow(v) ==
    LET others == {f \in flows[v] : f.id # call.rule.id} IN
    /\ call.op \in {"add", "remove"} /\ v \in call.left
    /\ flows' = [flows EXCEPT ![v] = IF call.op = "remove" THEN others
                                     ELSE others \cup {AddMicroSegmentRule(call.rule)}]
    /\ call' = [call EXCEPT !.left = @ \ {v}]
    /\ UNCHANGED <<booted, Rules, ch, batch, ct, lost, calls, restarts, errors>>

\* The send blocks with the mutex held; then the table is updated and the
\* mutex released.
cleanConntrackFlow ==
    /\ call.op \in {"add", "remove"} /\ call.left = {}
    /\ Len(ch) < ChanSize
    /\ ch' = Append(ch, call.rule)
    /\ Rules' = {r \in Rules : r.id # call.rule.id} \cup
                IF call.op = "add" THEN {call.rule} ELSE {}
    /\ call' = Idle
    /\ UNCHANGED <<booted, flows, batch, ct, lost, calls, restarts, errors>>

\* vswitchd restarts: BridgeInit sets the default flows again, ...
replayVDSFlow(v) ==
    /\ booted /\ restarts < MaxRestarts /\ restarts' = restarts + 1
    /\ call = Idle
    /\ call' = [op |-> "replay", vds |-> v, left |-> Rules]
    /\ flows' = [flows EXCEPT ![v] = {}]
    /\ UNCHANGED <<booted, Rules, ch, batch, ct, lost, calls, errors>>

\* ... then the rules follow in any order, and what got through is flushed.
ReplayRule(r) ==
    /\ call.op = "replay" /\ r \in call.left
    /\ flows' = [flows EXCEPT ![call.vds] = @ \cup {AddMicroSegmentRule(r)}]
    /\ call' = [call EXCEPT !.left = @ \ {r}]
    /\ UNCHANGED <<booted, Rules, ch, batch, ct, lost, calls, restarts, errors>>

\* (Mutant: nothing is flushed.)
ReplayEndKeeps ==
    /\ call.op = "replay" /\ call.left = {}
    /\ call' = Idle
    /\ UNCHANGED <<booted, Rules, flows, ch, batch, ct, lost, calls, restarts, errors>>

ReplayEnd ==
    /\ call.op = "replay" /\ call.left = {}
    /\ ct' = [c \in Conns |-> "none"]
    /\ call' = Idle
    /\ UNCHANGED <<booted, Rules, flows, ch, batch, lost, calls, restarts, errors>>

------------------------------------------------------------------------------
(* cleanConntrackWorker.                                                    *)

\* (Mutant: a worker looks at the rules under the mutex.)
ReceiveUnderMutex(w, n) ==
    /\ booted /\ batch[w] = {} /\ n <= Len(ch)
    /\ call = Idle
    /\ batch' = [batch EXCEPT ![w] = {ch[k] : k \in 1 .. n}]
    /\ ch' = SubSeq(ch, n + 1, Len(ch))
    /\ UNCHANGED <<booted, Rules, flows, call, ct, lost, calls, restarts, errors>>

\* Rules are read until the channel is empty; other workers read as well.
receiveRuleListFromChan(w, n) ==
    /\ booted /\ batch[w] = {} /\ n <= Len(ch)
    /\ batch' = [batch EXCEPT ![w] = {ch[k] : k \in 1 .. n}]
    /\ ch' = SubSeq(ch, n + 1, Len(ch))
    /\ UNCHANGED <<booted, Rules, flows, call, ct, lost, calls, restarts, errors>>

\* The reverse tuple has the ports exchanged; the port of the client is not 0
\* and in no rule.
MatchConntrackFlow(r, c) ==
    \/ matchIPTuple(r, c.src, c.dst, c.port)
    \/ matchIPTuple(r, c.dst, c.src, -1)

ConntrackDeleteFilter(w) ==
    /\ batch[w] # {}
    /\ ct' = [c \in Conns |-> IF \E r \in batch[w] : MatchConntrackFlow(r, c)
                              THEN "none" ELSE ct[c]]
    /\ batch' = [batch EXCEPT ![w] = {}]
    /\ UNCHANGED <<booted, Rules, flows, call, ch, lost, calls, restarts, errors>>

\* An error is logged and the list forgotten.
DeleteFails(w) ==
    /\ batch[w] # {} /\ errors < MaxErrors
    /\ errors' = errors + 1 /\ lost' = TRUE
    /\ batch' = [batch EXCEPT ![w] = {}]
    /\ UNCHANGED <<booted, Rules, flows, call, ch, ct, calls, restarts>>

------------------------------------------------------------------------------
(* The packets.                                                             *)

\* A packet of a connection not yet established goes through the tables, and
\* ctCommitTable commits it under the label of its verdict, a denied one before
\* it is dropped; only a denied TCP packet without SYN is not committed.  Whether
\* ctDropFilterFlow takes the packets of an entry that is labelled out before
\* that depends on how the library lays its label out: both may happen.
FirstPacket(c, syn) ==
    /\ ct[c] # "est"
    /\ \E verdict \in Verdicts(flows[c.vds], c) :
         ct' = [ct EXCEPT ![c] = CASE verdict = "allow" -> "new"
                                   [] verdict = "deny" /\ syn -> "denied"
                                   [] OTHER -> @]
    /\ UNCHANGED <<booted, Rules, flows, call, ch, batch, lost, calls, restarts, errors>>

\* The answer belongs to the entry, whatever the flows say by then.
Reply(c) ==
    /\ ct[c] = "new"
    /\ ct' = [ct EXCEPT ![c] = "est"]
    /\ UNCHANGED <<booted, Rules, flows, call, ch, batch, lost, calls, restarts, errors>>

\* The connection ends or its entry expires.
Close(c) ==
    /\ ct[c] # "none"
    /\ ct' = [ct EXCEPT ![c] = "none"]
    /\ UNCHANGED <<booted, Rules, flows, call, ch, batch, lost, calls, restarts, errors>>

Serve ==
    \/ \E r \in Internal : addIntenalIP(r)
    \/ InitializeDatapath
    \/ \E v \in VDS : SetFlow(v)
    \/ cleanConntrackFlow
    \/ \E r \in Pool \cup Internal : ReplayRule(r)
    \/ ReplayEnd

Work(w) == (\E n \in 1 .. ChanSize : receiveRuleListFromChan(w, n)) \/ ConntrackDeleteFilter(w)

Next ==
    \/ Serve
    \/ \E r \in Pool \cup Internal : AddEveroutePolicyRule(r) \/ RemoveEveroutePolicyRule(r)
    \/ \E v \in VDS : replayVDSFlow(v)
    \/ \E w \in Workers : Work(w) \/ DeleteFails(w)
    \/ \E c \in Conns : (\E syn \in BOOLEAN : FirstPacket(c, syn)) \/ Reply(c) \/ Close(c)

\* The goroutines that run are scheduled.
Fairness == WF_vars(Serve) /\ \A w \in Workers : WF_vars(Work(w))

Spec == Init /\ [][Next]_vars /\ Fairness

------------------------------------------------------------------------------
Caught == ch = <<>> /\ ~lost /\ \A w \in Workers : batch[w] = {}

\* When no operation holds the mutex, the bridges treat a connection as the
\* tiers intend for the rules in DpManager.Rules: its first packet at once,
\* whatever rules in monitor mode there are and in which order a replay added
\* the rules; one with an entry when the workers have nothing left, unless a
\* deletion failed.  Neither verdict outlives the rule it came from, on whichever
\* side of a change its packets fell: no entry lets through what the rules deny
\* by now, and none is labelled denied that they allow.
ConnectionsAsIntended ==
    call = Idle => \A c \in Conns :
        /\ Verdicts(flows[c.vds], c) = Intended(Rules, c)
        /\ Caught /\ ct[c] # "none" =>
             (IF ct[c] = "denied" THEN "deny" ELSE "allow") \in Intended(Rules, c)

\* An operation on the rules returns: the channel it waits for is emptied,
\* although the sender holds the mutex every other operation needs.
OperationsReturn == call # Idle ~> call = Idle
===============================================================================
