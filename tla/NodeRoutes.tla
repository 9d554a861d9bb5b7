------------------------------ MODULE NodeRoutes ------------------------------
(***************************************************************************)
(* Routes and nat rules of one node for the pods of the others.  The Node  *)
(* reconciler and a ticker run UpdateNetwork under a mutex; an operation   *)
(* of the kernel that fails is logged and left to the next time.           *)
(***************************************************************************)
EXTENDS FiniteSets, Integers, Sequences, SequencesExt

CONSTANTS Nodes,      \* the other nodes
          GwIPs, CIDRs,
          MaxChanges, MaxFails \* bounds

VARIABLES
    nodes,  \* InternalIP and PodCIDR of the other nodes, or NoNode
    routes, \* of the kernel: destination and gateway
    chain,  \* EVEROUTE-OUTPUT: the destination of an ACCEPT, or Masquerade
    changes, fails

vars == <<nodes, routes, chain, changes, fails>>

NoNode == [ip |-> "", cidr |-> ""]

Masquerade == "masquerade"

Init ==
    /\ nodes = [n \in Nodes |-> NoNode]
    /\ routes = {} /\ chain = <<>>
    /\ changes = 0 /\ fails = 0

\* Addresses and CIDRs are not shared; both may pass to another node.
SetNode(n, ip, cidr) ==
    /\ changes < MaxChanges /\ changes' = changes + 1
    /\ \A m \in Nodes \ {n} : nodes[m].ip # ip /\ nodes[m].cidr # cidr
    /\ nodes' = [nodes EXCEPT ![n] = [ip |-> ip, cidr |-> cidr]]
    /\ UNCHANGED <<routes, chain, fails>>

RemoveNode(n) ==
    /\ changes < MaxChanges /\ changes' = changes + 1
    /\ nodes' = [nodes EXCEPT ![n] = NoNode]
    /\ UNCHANGED <<routes, chain, fails>>

------------------------------------------------------------------------------
targetRoute ==
    {[dst |-> nodes[n].cidr, gw |-> nodes[n].ip] : n \in {m \in Nodes : nodes[m] # NoNode}}

oldRoute == {r \in routes : \E t \in targetRoute : r.dst = t.dst}

\* (Mutant: a route to the same CIDR by another gateway is left in place.)
UpdateRouteAdds(fail) ==
    LET add == {t \in targetRoute \ oldRoute : \A r \in routes : r.dst # t.dst}
    IN routes' = routes \cup (add \ fail)

\* RouteAdd refuses a second route to the same destination.
UpdateRoute(fail) ==
    LET kept == routes \ ((oldRoute \ targetRoute) \ fail)
        add == {t \in targetRoute \ oldRoute : \A r \in kept : r.dst # t.dst}
    IN routes' = kept \cup (add \ fail)

\* ACCEPT rules are inserted at the head of the chain.
InsertFirst(rules, seq) == rules \o seq

UpdateIptables(fail) ==
    LET masq == IF Masquerade \in Range(chain) \cup fail THEN chain
                ELSE Append(chain, Masquerade)
        accept == {t.dst : t \in targetRoute} \ (Range(chain) \cup fail)
    IN chain' = InsertFirst(SetToSeq(accept), masq)

\* At a change of a node, and every 100 seconds.
UpdateNetwork(badRoutes, badRules) ==
    /\ fails' = fails + Cardinality(badRoutes) + Cardinality(badRules)
    /\ fails' <= MaxFails
    /\ UpdateRoute(badRoutes)
    /\ UpdateIptables(badRules)
    /\ UNCHANGED <<nodes, changes>>

Next ==
    \/ \E n \in Nodes : \/ \E ip \in GwIPs, c \in CIDRs : SetNode(n, ip, c)
                        \/ RemoveNode(n)
    \/ \E badRoutes \in SUBSET (targetRoute \cup oldRoute),
          badRules \in SUBSET ({Masquerade} \cup {t.dst : t \in targetRoute}) :
          UpdateNetwork(badRoutes, badRules)

\* The ticker goes on.
Fairness == WF_vars(UpdateNetwork({}, {}))

Spec == Init /\ [][Next]_vars /\ Fairness

------------------------------------------------------------------------------
\* Once nodes and kernel are left alone, every other node's pods are in the end
\* reached by the one route to their CIDR, through that node, and their
\* traffic is accepted before the rule that masquerades it.
PodsReachable ==
    <>[](\A n \in Nodes : nodes[n] # NoNode =>
            /\ {r \in routes : r.dst = nodes[n].cidr} =
                 {[dst |-> nodes[n].cidr, gw |-> nodes[n].ip]}
            /\ \E j \in 1 .. Len(chain) :
                  /\ chain[j] = nodes[n].cidr
                  /\ \A i \in 1 .. Len(chain) : chain[i] = Masquerade => j < i)

===============================================================================
