------------------------------- MODULE PortRange -------------------------------
(***************************************************************************)
(* FlattenPorts for the ports of one protocol: the port ranges of a rule   *)
(* are marked in a map of all port numbers, and each run of marked ports   *)
(* is covered by ports with masks.  Port numbers have W bits, 16 in the    *)
(* code; their arithmetic wraps.  A range is a pair of port numbers; Empty *)
(* stands for the empty string.                                            *)
(***************************************************************************)
EXTENDS Integers, FiniteSets

CONSTANTS W, Inputs  \* Inputs: the sets of ranges a rule may list

ASSUME WAssumption == W \in Nat \ {0}

Limit == 2^W

Ports == 0..(Limit - 1)

Empty == <<>>

VARIABLES ranges, portMap, index, begin, rulePortList

vars == <<ranges, portMap, index, begin, rulePortList>>

UnmarshalPortRange(r) == IF r = Empty THEN <<0, 0>> ELSE r

\* The mask that keeps the upper pos bits.
posToMask(pos) == Limit - 2^(W - pos)

\* The position of the lowest bit set in a port number, from the left.
LowestBit(port) ==
    CHOOSE pos \in 1..W : /\ port % 2^(W - pos) = 0
                          /\ (port \div 2^(W - pos)) % 2 = 1

\* Whether the aligned block of position pos at first ends by last.
Fits(first, last, pos) == last >= (first + 2^(W - pos) - 1) % Limit

calPortRangeMask(first, last) ==
    LET block(b) == CHOOSE i \in LowestBit(b)..W :
                        /\ Fits(b, last, i)
                        /\ \A j \in LowestBit(b)..(i - 1) : ~Fits(b, last, j)
        cover[b \in Ports] ==
            IF b > last \/ b = 0 THEN {}
            ELSE LET i == block(b)
                 IN {[port |-> b, mask |-> posToMask(i)]}
                        \cup cover[(b + 2^(W - i)) % Limit]
    IN IF first = 0 /\ last = 0 THEN {[port |-> 0, mask |-> 0]} ELSE cover[first]

Init ==
    /\ ranges \in Inputs
    /\ portMap = {} /\ index = -1 /\ begin = -1 /\ rulePortList = {}

\* FlattenPorts marks the ports of every range.
Mark ==
    /\ index = -1
    /\ portMap' = UNION {LET u == UnmarshalPortRange(r) IN u[1]..u[2] : r \in ranges}
    /\ index' = 0
    /\ UNCHANGED <<ranges, begin, rulePortList>>

\* (Mutant: a run that reaches the last port is not closed.)
ScanOpenEnd ==
    LET first == IF index \in portMap /\ begin = -1 THEN index ELSE begin
        last == IF first # -1 /\ index \notin portMap THEN index - 1 ELSE -1
    IN
    /\ index \in Ports
    /\ begin' = IF last = -1 THEN first ELSE -1
    /\ rulePortList' = IF last = -1 THEN rulePortList
                       ELSE rulePortList \cup calPortRangeMask(first, last)
    /\ index' = index + 1
    /\ UNCHANGED <<ranges, portMap>>

\* One turn of the loop of processFlattenPorts.
Scan ==
    LET first == IF index \in portMap /\ begin = -1 THEN index ELSE begin
        last == IF first = -1 THEN -1
                ELSE IF index \notin portMap THEN index - 1
                ELSE IF index = Limit - 1 THEN index
                ELSE -1
    IN
    /\ index \in Ports
    /\ begin' = IF last = -1 THEN first ELSE -1
    /\ rulePortList' = IF last = -1 THEN rulePortList
                       ELSE rulePortList \cup calPortRangeMask(first, last)
    /\ index' = index + 1
    /\ UNCHANGED <<ranges, portMap>>

Next == Mark \/ Scan

Spec == Init /\ [][Next]_vars

------------------------------------------------------------------------------
\* The ports a RulePort matches; DstPort 0 matches all ports.
MatchedBy(rp) ==
    {x \in Ports : rp.port = 0 \/ x - (x % (Limit - rp.mask)) = rp.port}

\* What the documentation of PortRange says a range matches.
Meaning(r) == IF r = Empty THEN Ports ELSE r[1]..r[2]

\* The flattened ports match exactly the ports that the ranges name, and none
\* twice.
MatchesRanges ==
    /\ index = Limit => UNION {MatchedBy(rp) : rp \in rulePortList}
                          = UNION {Meaning(r) : r \in ranges}
    /\ \A p, q \in rulePortList : p # q => MatchedBy(p) \cap MatchedBy(q) = {}
===============================================================================
