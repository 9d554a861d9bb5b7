---------------------------- MODULE GroupSelector ----------------------------
(***************************************************************************)
(* What an EndpointGroup selects: label selectors, the group of a policy's *)
(* peer, the members that the group controller fetches for a group, and    *)
(* the groups that its event handlers think an event concerns.             *)
(*                                                                         *)
(* A field that may be nil is a set of at most one value.  Labels are a    *)
(* function from keys to sets of values, as AsSet returns them: a label    *)
(* has one value, an extended label may have several.                      *)
(***************************************************************************)

ValuesOf(labelSet, key) == IF key \in DOMAIN labelSet THEN labelSet[key] ELSE {}

\* matchLabels and extendMatchLabels are one field, labels.
EmptySelector == [nothing |-> FALSE, labels |-> [k \in {} |-> {}], exprs |-> {}]

MatchesExpr(expr, labelSet) ==
    LET labelValueSet == ValuesOf(labelSet, expr.key)
    IN CASE expr.op = "In" -> labelValueSet # {} /\ labelValueSet \subseteq expr.values
         [] expr.op = "NotIn" -> labelValueSet \cap expr.values = {}
         [] expr.op = "Exists" -> labelValueSet # {}
         [] expr.op = "DoesNotExist" -> expr.key \notin DOMAIN labelSet

Matches(selector, labelSet) ==
    \E in \in selector :
        /\ ~in.nothing
        /\ \A key \in DOMAIN in.labels : in.labels[key] \subseteq ValuesOf(labelSet, key)
        /\ \A expr \in in.exprs : MatchesExpr(expr, labelSet)

------------------------------------------------------------------------------
(* Groups.  "all" marks the group AllEpWithNamedPort. *)

GetAllEpWithNamedPortGroup ==
    [all |-> TRUE, endpointSelector |-> {EmptySelector}, namespaceSelector |-> {},
     namespace |-> {}, endpoint |-> {}]

\* The group of a peer, named by the hash of its spec; an IP block has none.
PeerAsEndpointGroup(namespace, peer) ==
    IF peer.endpointSelector = {} /\ peer.namespaceSelector = {} /\ peer.endpoint = {} THEN {}
    ELSE {[all |-> FALSE,
           endpointSelector |-> IF peer.namespaceSelector # {} /\ peer.endpointSelector = {}
                                THEN {EmptySelector} ELSE peer.endpointSelector,
           namespaceSelector |-> peer.namespaceSelector,
           namespace |-> IF peer.namespaceSelector # {} THEN {} ELSE {namespace},
           endpoint |-> peer.endpoint]}

\* The group of what a policy applies to.
appliedAsEndpointGroup(namespace, applied) ==
    PeerAsEndpointGroup(namespace,
        [endpointSelector |-> applied.endpointSelector, namespaceSelector |-> {},
         endpoint |-> applied.endpoint])

\* The members of a group, of the endpoints eps in namespaces with the given labels.
fetchCurrGroupMembers(group, eps, namespaces) ==
    LET inNamespace(e) ==
            \/ group.namespace = {} /\ group.namespaceSelector = {}
            \/ eps[e].namespace \in group.namespace
            \/ /\ group.namespace = {}
               /\ eps[e].namespace \in DOMAIN namespaces
               /\ Matches(group.namespaceSelector, namespaces[eps[e].namespace])
    IN {e \in DOMAIN eps :
          /\ \/ e \in group.endpoint
             \/ inNamespace(e) /\ Matches(group.endpointSelector, eps[e].labels)
          /\ eps[e].ips # {}
          /\ group.all => eps[e].ports # {}}

\* Whether an endpoint's event concerns a group; none if its namespace is not cached.
filterEndpointGroupsByEndpoint(group, e, ep, namespaces) ==
    /\ ep.namespace \in DOMAIN namespaces
    /\ IF group.all THEN ep.ports # {}
       ELSE \/ e \in group.endpoint
            \/ /\ group.namespace \subseteq {ep.namespace}
               /\ group.namespaceSelector = {}
                    \/ Matches(group.namespaceSelector, namespaces[ep.namespace])
               /\ Matches(group.endpointSelector, ep.labels)

\* Whether a namespace's event concerns a group.
filterEndpointGroupsByNamespace(group, n, labels) ==
    n \in group.namespace \/ Matches(group.namespaceSelector, labels)
===============================================================================
