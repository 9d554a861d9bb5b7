------------------------------- MODULE Webhook -------------------------------
(***************************************************************************)
(* The webhook's checks of a SecurityPolicy, and what the agent makes of a *)
(* policy that passes them: the IDs of its rules, the group or the IP      *)
(* block of each peer, and the port numbers it reads.                      *)
(*                                                                         *)
(* A name is the sequence of its parts between dots.  A port range is the  *)
(* sequence of its items between commas, an item the sequence of its       *)
(* numbers between dashes; numbers have at most five digits.               *)
(***************************************************************************)
EXTENDS Integers, Sequences, GroupSelector

CONSTANTS Policies,
          Limit  \* the number of ports, 2^16

VARIABLE policy  \* a set of at most one

IsValid(selector) ==
    \A in \in selector :
        /\ \A key \in DOMAIN in.labels : in.labels[key] # {}
        /\ \A expr \in in.exprs : (expr.values # {}) = (expr.op \in {"In", "NotIn"})

validateAppliedTo(appliedTo) ==
    \A peer \in appliedTo :
        /\ (peer.endpoint = {}) # (peer.endpointSelector = {})
        /\ IsValid(peer.endpointSelector)

\* The fields of a peer that are set.
Fields(peer) ==
    {f \in {"ipBlock", "endpoint", "endpointSelector", "namespaceSelector"} : peer[f] # {}}

\* (Mutant: a peer may have no field set.)
validateRulePeerEmpty(peer) ==
    /\ \A f \in {"ipBlock", "endpoint"} \cap Fields(peer) : Fields(peer) = {f}
    /\ \A b \in peer.ipBlock : b = "valid"
    /\ IsValid(peer.endpointSelector) /\ IsValid(peer.namespaceSelector)

\* An IP block alone, an endpoint alone, or selectors; what is valid of an IP block
\* is in module IPBlocks.
validateRulePeer(peer) ==
    /\ Fields(peer) # {}
    /\ \A f \in {"ipBlock", "endpoint"} \cap Fields(peer) : Fields(peer) = {f}
    /\ \A b \in peer.ipBlock : b = "valid"
    /\ IsValid(peer.endpointSelector) /\ IsValid(peer.namespaceSelector)

validatePortRange(portRange) ==
    \A i \in DOMAIN portRange :
        LET item == portRange[i] IN
        /\ Len(item) \in {1, 2}
        /\ \A j \in DOMAIN item : item[j] < Limit
        /\ item[1] <= item[Len(item)]

validatePort(port) == port.type = "name" \/ validatePortRange(port.range)

validateRule(rule) ==
    /\ \A peer \in rule.peers : validateRulePeer(peer)
    /\ \A port \in rule.ports : validatePort(port)

validateRuleName(rules) ==
    \A i, j \in DOMAIN rules : i # j => rules[i].name # rules[j].name

validatePolicy(p) ==
    /\ p.tier \in {"tier0", "tier1", "tier2"}
    /\ validateAppliedTo(p.appliedTo)
    /\ validateRuleName(p.ingress \o p.egress)
    /\ \A i \in DOMAIN (p.ingress \o p.egress) : validateRule((p.ingress \o p.egress)[i])

Init == policy = {}

\* createValidate and updateValidate make the same check.
Validate ==
    /\ policy = {}
    /\ \E p \in Policies : validatePolicy(p) /\ policy' = {p}

------------------------------------------------------------------------------
(* The agent. *)

Range(s) == {s[i] : i \in DOMAIN s}

NamedPorts(rule) == {port \in rule.ports : port.type = "name"}

\* The RuleIDs that completePolicy gives, without the policy's own name.  An
\* egress rule to everyone is split in two when it has ports of both types.
EgressRuleIDs(rule) ==
    IF rule.peers # {} \/ NamedPorts(rule) = {} THEN <<<<"egress">> \o rule.name>>
    ELSE (IF NamedPorts(rule) = rule.ports THEN <<>> ELSE <<<<"egress">> \o rule.name>>)
         \o <<<<"egress">> \o rule.name \o <<"namedport">>>>

RuleIDs(p) ==
    LET ids[i \in 0..Len(p.egress)] ==
            IF i = 0 THEN [j \in DOMAIN p.ingress |-> <<"ingress">> \o p.ingress[j].name]
            ELSE ids[i - 1] \o EgressRuleIDs(p.egress[i])
    IN ids[Len(p.egress)]

\* UnmarshalPortRange reads numbers into 16 bits: a larger one becomes the largest.
Parse(n) == IF n < Limit THEN n ELSE Limit - 1

UnmarshalPortRange(item) == <<Parse(item[1]), Parse(item[Len(item)])>>

------------------------------------------------------------------------------
Distinct(s) == \A i, j \in DOMAIN s : i # j => s[i] # s[j]

\* No rule's name ends where another one's ID has the suffix of a named port: an
\* egress rule "a" to everyone's named ports has the ID of one named "a.namedport".
PlainNames(p) ==
    \A i \in DOMAIN p.egress : LET n == p.egress[i].name IN n[Len(n)] # "namedport"

\* A policy that the webhook's validatePolicy lets through is one that the agent's
\* completePolicy can complete as it is written: every peer has either an IP block
\* or a group, so that no peer is skipped and no nil group is dereferenced; the
\* group of a peer is looked for by a namespace or by a selector and never by
\* both; each item of a port range is read as the numbers it shows, in order; and
\* rules get IDs of their own, as long as no name ends in ".namedport".
AcceptedPoliciesComplete ==
    \A p \in policy :
        /\ \A rule \in Range(p.ingress \o p.egress) :
             /\ \A peer \in rule.peers :
                  LET group == PeerAsEndpointGroup("ns", peer) IN
                  /\ (peer.ipBlock = {}) = (group # {})
                  /\ \A g \in group : (g.namespace = {}) # (g.namespaceSelector = {})
             /\ \A port \in rule.ports : port.type # "name" =>
                  \A item \in Range(port.range) :
                      LET r == UnmarshalPortRange(item) IN
                      Range(r) = Range(item) /\ r[1] <= r[2]
        /\ \A applied \in p.appliedTo : appliedAsEndpointGroup("ns", applied) # {}
        /\ PlainNames(p) => Distinct(RuleIDs(p))
===============================================================================
