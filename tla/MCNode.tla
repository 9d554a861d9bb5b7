-------------------------------- MODULE MCNode --------------------------------
(* Seven parts of the agent that have no state in common, side by side: a      *)
(* behaviour is one of one of them, the others rest.                         *)
EXTENDS PolicyRules, CniServer

CONSTANTS Parts,    \* those that are checked
          MaxEvents \* bound: changes of the members and updates of the policy

VARIABLES part,
          where, learned, ipAddr, chan, reported, moves, arpUpdates,
          nodes, routes, chain, nodeChanges, fails,
          cluster, policies, events, seen, queue, created, dirty, defaults, clusterChanges,
          pkt, at, from, node, nat, client, target, egress, ingress, packets, hops,
          booted, dpRules, dpFlows, call, ch, batch, ct, lost, calls, restarts, errors

------------------------------------------------------------------------------
\* Rules: endpoints that change address, agent or group.
At(ip, agent) == [ips |-> {ip}, agents |-> {agent}]

MCAddrs == {At("i1", "self"), At("i1", "other"), At("i2", "self"),
            At("i3", "self"), At("i3", "other")}

SmallAddrs == {At("i1", "self"), At("i1", "other"), At("i2", "self")}

Rule(n, gs, blocks, ports) ==
    [name |-> n, peers |-> [groups |-> gs, blocks |-> blocks], ports |-> ports]

PolicySpec(to, in, out, drop, sym) ==
    [applied |-> [groups |-> to, blocks |-> {}], ingress |-> in, egress |-> out,
     types |-> {}, drop |-> drop, sym |-> sym]

\* In from g2 and an IP block; out to g2, to everyone, to everyone's named port.
Separate ==
    PolicySpec({"g1"}, {Rule("a", {"g2"}, {"i9"}, {})},
               {Rule("b", {"g2"}, {}, {"num"}), Rule("c", {}, {}, {"num", "name"})},
               TRUE, FALSE)

\* In from g2 in symmetric mode.
Symmetric == PolicySpec({"g1"}, {Rule("a", {"g2"}, {}, {})}, {}, FALSE, TRUE)

MCPolicies == {Separate, Symmetric}

\* Traffic within g1.
IntraPolicies == {PolicySpec({"g1"}, {Rule("a", {"g1"}, {}, {})}, {}, FALSE, TRUE)}

\* From g1, or from g1 and g2, into everyone.
FromOnePolicies == {PolicySpec({}, {Rule("a", {"g1"}, {}, {})}, {}, FALSE, FALSE)}

FromTwoPolicies == {PolicySpec({}, {Rule("a", {"g1", "g2"}, {}, {})}, {}, FALSE, FALSE)}

DisjointPool == [g \in Groups |-> IF g = "g1" THEN {"i1", "i2"} ELSE {"i3"}]

One(ip) == [r \in {"r1"} |-> [addr |-> At(ip, "self"), ports |-> {"p80"}]]

\* Each group has one local member.
OneMember == [g \in Groups |-> One(IF g = "g1" THEN "i1" ELSE "i3")]

BothMember == [g \in Groups |-> One("i1")]

SamePool == [g \in Groups |-> {"i1", "i2"}]

------------------------------------------------------------------------------
Arp == INSTANCE ArpLearning WITH
         IPs <- {"ip1", "ip2"}, Ports <- {"p1", "p2"}, Foreign <- {"ip2"},
         MaxIPAddressLearningFrenquency <- 1, ChanSize <- 2,
         MaxMoves <- 2, MaxUpdates <- 1, updates <- arpUpdates

Routes == INSTANCE NodeRoutes WITH
            Nodes <- {"n1", "n2"}, GwIPs <- {"ip1", "ip2"}, CIDRs <- {"c1", "c2"},
            MaxChanges <- 4, MaxFails <- 2, changes <- nodeChanges

\* The default action, from the tower plugin to the agent.
Global == INSTANCE GlobalPolicy WITH
            Others <- {"mine"}, MaxChanges <- 2, rules <- defaults, changes <- clusterChanges

\* The packets of pods on two nodes, when the CNI is enabled.
Gateway == INSTANCE CniGateway WITH
             Nodes <- {"n1", "n2"}, Pods <- {"a", "b", "c"},
             NodeOf <- [p \in {"a", "b", "c"} |-> IF p = "c" THEN "n2" ELSE "n1"],
             Services <- {"svc"}, LocalGwIP <- "gw", MaxPackets <- 4, MaxHops <- 16

\* The operations on the rules of the datapath, without packets: these change
\* only the connections, which no operation looks at.
DpRule(id, action) ==
    [id |-> id, dir |-> "in", tier |-> 2, mode |-> "work", prio |-> 20, action |-> action,
     src |-> "any", dst |-> "any", ports |-> {}]

Operations == INSTANCE Conntrack WITH
                VDS <- {"v1"}, Conns <- {}, Internal <- {DpRule("internal", "allow")},
                Pool <- {DpRule("web", "deny"), DpRule("web", "allow")},
                Workers <- {"w1", "w2"}, ChanSize <- 1,
                MaxCalls <- 3, MaxRestarts <- 1, MaxErrors <- 1,
                Rules <- dpRules, flows <- dpFlows

ruleVars == <<gc, latest, policy, polq, pq, held, rules, flows, applied, changes, updates>>
arpVars == <<where, learned, ipAddr, chan, reported, moves, arpUpdates>>
routeVars == <<nodes, routes, chain, nodeChanges, fails>>
globalVars == <<cluster, policies, events, seen, queue, created, dirty, defaults, clusterChanges>>
packetVars == <<pkt, at, from, node, nat, client, target, egress, ingress, packets, hops>>
operationVars == <<booted, dpRules, dpFlows, call, ch, batch, ct, lost, calls, restarts, errors>>

\* (The ports of ArpLearning are interchangeable.)
MCInit ==
    /\ part \in Parts
    /\ Init /\ Arp!Init /\ Routes!Init /\ CniInit
    /\ Global!Init /\ cluster \in {"none"} \cup (IF part = "global" THEN {"Drop"} ELSE {})
    /\ where["ip1"] = "p1" /\ (part = "arp" \/ where["ip2"] = "p1")
    /\ Gateway!Init /\ (part = "packet" \/ (client = "a" /\ target = "b"))
    /\ Operations!Init

MCNext ==
    /\ UNCHANGED part
    /\ \/ part = "rules" /\ Next /\ changes' + updates' <= MaxEvents
       \/ part # "rules" /\ UNCHANGED ruleVars
    /\ \/ part = "arp" /\ Arp!Next
       \/ part # "arp" /\ UNCHANGED arpVars
    /\ \/ part = "routes" /\ Routes!Next
       \/ part # "routes" /\ UNCHANGED routeVars
    /\ \/ part = "cni" /\ CniNext
       \/ part # "cni" /\ UNCHANGED cniVars
    /\ \/ part = "global" /\ Global!Next
       \/ part # "global" /\ UNCHANGED globalVars
    /\ \/ part = "packet" /\ Gateway!Next
       \/ part # "packet" /\ UNCHANGED packetVars
    /\ \/ part = "operations" /\ Operations!Next
       \/ part # "operations" /\ UNCHANGED operationVars

\* The fairness of each part, while it is the one that moves.
MCFairness ==
    /\ WF_ruleVars(part = "rules" /\ ReconcilePolicy)
    /\ \A g \in Groups : /\ WF_ruleVars(part = "rules" /\ MembersCreated(g))
                         /\ WF_ruleVars(part = "rules" /\ NextPatch(g))
                         /\ WF_ruleVars(part = "rules" /\ ReconcilePatch(g))
    /\ \A a \in {"ip1", "ip2"} : /\ SF_arpVars(part = "arp" /\ Arp!processArp(a))
                                /\ WF_arpVars(part = "arp" /\ Arp!Age(a))
    /\ WF_arpVars(part = "arp" /\ Arp!handleOfPortIPAddressUpdate)
    /\ WF_arpVars(part = "arp" /\ Arp!cleanLocalIPAddressCache)
    /\ WF_arpVars(part = "arp" /\ Arp!cleanLocalIPAddr)
    /\ WF_routeVars(part = "routes" /\ Routes!UpdateNetwork({}, {}))
    /\ WF_cniVars(part = "cni" /\ Serve)
    /\ \A s \in Sandboxes : SF_cniVars(part = "cni" /\ Clean(s))
    /\ WF_globalVars(part = "global" /\ Global!handleGlobalPolicy)
    /\ WF_globalVars(part = "global" /\ Global!CreateDefault)
    /\ WF_globalVars(part = "global" /\ Global!UpdateDefault)
    /\ WF_globalVars(part = "global" /\ Global!RemoveOther("mine"))
    /\ WF_globalVars(part = "global" /\ Global!AgentSees)
    /\ WF_globalVars(part = "global" /\ Global!ReconcileGlobalPolicy)
    /\ WF_operationVars(part = "operations" /\ Operations!Serve)
    /\ \A w \in {"w1", "w2"} : WF_operationVars(part = "operations" /\ Operations!Work(w))

MCSpec ==
    /\ MCInit
    /\ [][MCNext]_<<part, ruleVars, arpVars, routeVars, cniVars, globalVars, packetVars,
                    operationVars>>
    /\ MCFairness

------------------------------------------------------------------------------
\* ArpLearning: the monitor is in the end told the port an address is behind,
\* although processArp ignores it for a while.
AddressesReported == Arp!AddressesReported

\* NodeRoutes: UpdateNetwork ends up with the one route to each other node's
\* pods, and their traffic is accepted before it is masqueraded.
PodsReachable == Routes!PodsReachable

\* GlobalPolicy: agents come to enforce the cluster's default action, although
\* the webhook lets two GlobalPolicies through.
DefaultActionEnforced == Global!DefaultActionEnforced

\* Conntrack: an operation that holds flowReplayMutex is not stuck on the full
\* cleanConntrackChan.
OperationsReturn == Operations!OperationsReturn

\* CniGateway: the flows of the CNI lead every packet to a pod, answers come from
\* the address the client asked, and the policies see each packet once in each
\* direction, between pods.
PacketsArrive == part = "packet" => Gateway!PacketsArrive
===============================================================================
