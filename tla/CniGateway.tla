------------------------------ MODULE CniGateway ------------------------------
(***************************************************************************)
(* The way of a packet when the CNI is enabled: the flows of               *)
(* initCniRelatedFlow lead it through the kernel, by the port gw-local of  *)
(* the local bridge, where kube-proxy translates the addresses of services.*)
(* A mark on the packet tells the two passages apart: a pod's packet to a  *)
(* service goes to the kernel before the policies, every other one after   *)
(* them.                                                                   *)
(*                                                                         *)
(* Two pods exchange packets of one connection, one at a time, and the     *)
(* policies allow them.  The name of a pod stands for its IP and for its   *)
(* MAC address.  The kernel and kube-proxy are modelled from what the flows*)
(* and the init script of the agent expect of them.                        *)
(***************************************************************************)
EXTENDS Integers, Sequences

CONSTANTS Nodes, Pods,
          NodeOf,     \* the node of each pod
          Services,   \* addresses of ClusterCIDR
          LocalGwIP,  \* the address of gw-local, on every node
          MaxPackets, \* bound: packets of a connection
          MaxHops     \* bound: more tables than a packet can be led through

VARIABLES
    pkt,      \* source and destination, destination MAC, bit 29 of the mark
    at,       \* where it is: a bridge, "kernel", "pod" or "lost"
    from,     \* the port it came in by
    node,     \* and the node
    nat,      \* what the kernel of each node translates
    client,   \* who opened the connection
    target,   \* to which address
    egress,   \* the addresses the egress tables saw since it was sent
    ingress,  \* the same of the ingress tables
    packets, hops

vars == <<pkt, at, from, node, nat, client, target, egress, ingress, packets, hops>>

NoNat == [service |-> "none", backend |-> "none", client |-> "none", seen |-> "none"]

LocalGwMac == "local gateway"
GatewayMac == "gateway"

LocalPod(n, a) == a \in Pods /\ NodeOf[a] = n

\* The MAC address a pod sends to: the pods of the node are on its link, the
\* gateway is on the uplink bridge.
Neighbour(n, dst) == IF LocalPod(n, dst) THEN dst ELSE GatewayMac

Packet(src, dst) ==
    [src |-> src, dst |-> dst, mac |-> Neighbour(NodeOf[src], dst), mark |-> FALSE]

Sends(src, dst) ==
    /\ pkt' = Packet(src, dst)
    /\ at' = "local" /\ from' = "pod" /\ node' = NodeOf[src]
    /\ egress' = <<>> /\ ingress' = <<>> /\ hops' = 0
    /\ packets' = packets + 1

Init ==
    /\ client \in Pods
    /\ target \in (Pods \ {client}) \cup Services
    /\ pkt = Packet(client, target)
    /\ at = "local" /\ from = "pod" /\ node = NodeOf[client]
    /\ nat = [n \in Nodes |-> NoNat]
    /\ egress = <<>> /\ ingress = <<>> /\ hops = 0 /\ packets = 1

------------------------------------------------------------------------------
(* The way of the packet.                                                   *)

Hop(bridge, port) ==
    /\ at' = bridge /\ from' = port
    /\ hops' = hops + 1
    /\ UNCHANGED <<client, target, packets>>

\* The L2 forwarding table of the local bridge: the port of a pod of the node.
L2Forwarding ==
    /\ IF LocalPod(node, pkt.mac) THEN Hop("pod", "local") ELSE Hop("lost", "local")
    /\ UNCHANGED <<pkt, node, nat, egress, ingress>>

\* The redirect table, for a packet of a pod: localToLocalGw marks what is for
\* a service; cniDefaultNoraml commits the rest and goes to the policy bridge.
fromLocalRedirectTable ==
    /\ at = "local" /\ from = "pod"
    /\ IF pkt.dst \in Services
       THEN Hop("kernel", "gw-local") /\ pkt' = [pkt EXCEPT !.mac = LocalGwMac, !.mark = TRUE]
       ELSE Hop("policy", "local") /\ UNCHANGED pkt
    /\ UNCHANGED <<node, nat, egress, ingress>>

outToLocalGw ==
    /\ Hop("kernel", "gw-local") /\ pkt' = [pkt EXCEPT !.mac = LocalGwMac]
    /\ UNCHANGED <<node, nat, egress, ingress>>

\* (Mutant: outToLocalGwBypassLocal is not installed.)
vlanInputNoBypass ==
    /\ at = "local" /\ from = "policy"
    /\ outToLocalGw

\* The VLAN input table, for a packet of the policy bridge: with the mark it has
\* been to the kernel (outToLocalGwBypassLocal), else it goes now (outToLocalGw).
vlanInputFromPolicy ==
    /\ at = "local" /\ from = "policy"
    /\ IF pkt.mark THEN L2Forwarding ELSE outToLocalGw

\* The VLAN input table, for a packet of the kernel: with the mark the policies
\* are yet to see it (localGwToPolicy), else it is delivered (localGwToLocal).
vlanInputFromLocalGw ==
    /\ at = "local" /\ from = "gw-local"
    /\ IF pkt.mark
       THEN Hop("policy", "local") /\ UNCHANGED <<pkt, node, nat, egress, ingress>>
       ELSE L2Forwarding

\* The direction selection table of the policy bridge: from the local bridge the
\* egress tables, from the cls bridge the ingress tables.
PolicyBridge ==
    /\ at = "policy"
    /\ IF from = "local"
       THEN /\ egress' = Append(egress, <<pkt.src, pkt.dst>>)
            /\ Hop("cls", "policy") /\ UNCHANGED ingress
       ELSE /\ ingress' = Append(ingress, <<pkt.src, pkt.dst>>)
            /\ Hop("local", "policy") /\ UNCHANGED egress
    /\ UNCHANGED <<pkt, node, nat>>

\* The cls bridge: hairpinFlow returns what is for gw-local; else the side on
\* which the destination was learned.
ClsBridge ==
    /\ at = "cls"
    /\ IF from = "uplink" \/ pkt.dst = LocalGwIP \/ LocalPod(node, pkt.mac)
       THEN Hop("policy", "cls")
       ELSE Hop("uplink", "cls")
    /\ UNCHANGED <<pkt, node, nat, egress, ingress>>

\* From the gateway of one node over the network to the gateway of the pod's
\* (NodeRoutes), which is on the link of the pod.  The mark stays behind.
Network ==
    /\ at = "uplink"
    /\ IF pkt.mac = GatewayMac /\ pkt.dst \in Pods
       THEN Hop("cls", "uplink") /\ node' = NodeOf[pkt.dst]
       ELSE Hop("lost", "cls") /\ UNCHANGED node
    /\ pkt' = [pkt EXCEPT !.mac = pkt.dst, !.mark = FALSE]
    /\ UNCHANGED <<nat, egress, ingress>>

\* Who answers when the kernel asks for an address on gw-local: the pod, which
\* the question is flooded to, and for all other addresses the flow itself, with
\* the MAC address of the uplink's gateway.
initLocalGwArpFlow(n, dst) == IF LocalPod(n, dst) THEN dst ELSE GatewayMac

\* The table of gw-local sends everything out by gw-local again.
SendsBack(src, dst) ==
    /\ pkt' = [pkt EXCEPT !.src = src, !.dst = dst, !.mac = initLocalGwArpFlow(node, dst)]
    /\ Hop("local", "gw-local")
    /\ UNCHANGED <<node, egress, ingress>>

\* kube-proxy and the kernel's connection tracking: the first packet to a
\* service is given a backend, and the sender's own address is hidden when the
\* backend is the sender; later packets and replies are translated the same way.
Kernel ==
    /\ at = "kernel"
    /\ LET n == nat[node]
       IN \/ /\ pkt.dst \in Services /\ n = NoNat
             /\ \E b \in Pods :
                  LET seen == IF b = pkt.src THEN LocalGwIP ELSE pkt.src
                  IN /\ nat' = [nat EXCEPT ![node] = [service |-> pkt.dst, backend |-> b,
                                                      client |-> pkt.src, seen |-> seen]]
                     /\ SendsBack(seen, b)
          \/ /\ pkt.dst = n.service /\ pkt.src = n.client
             /\ SendsBack(n.seen, n.backend) /\ UNCHANGED nat
          \/ /\ pkt.src = n.backend /\ pkt.dst = n.seen
             /\ SendsBack(n.service, n.client) /\ UNCHANGED nat
          \/ /\ pkt.dst \notin Services /\ (pkt.src # n.backend \/ pkt.dst # n.seen)
             /\ SendsBack(pkt.src, pkt.dst) /\ UNCHANGED nat

\* A pod answers, and the client that was answered sends again.
Answer ==
    /\ at = "pod" /\ packets < MaxPackets
    /\ Sends(pkt.dst, pkt.src)
    /\ UNCHANGED <<nat, client, target>>

Next ==
    \/ hops < MaxHops /\ (\/ fromLocalRedirectTable \/ vlanInputFromPolicy \/ vlanInputFromLocalGw
                          \/ PolicyBridge \/ ClsBridge \/ Network \/ Kernel)
    \/ Answer

Spec == Init /\ [][Next]_vars

------------------------------------------------------------------------------
Answers == packets % 2 = 0

\* The client gets its answers from the address it asked, service or pod: the
\* answers of a backend pass the kernel that translated the request.
AnsweredByTarget == at = "pod" /\ Answers => pkt.src = target /\ pkt.dst = client

\* The policies judge the pods that talk, not services: a delivered packet was
\* seen once by the egress tables and once by the ingress tables, and both saw
\* the addresses of the same two pods (gw-local in place of a pod that talks to
\* itself).
PoliciesSeePods ==
    at = "pod" =>
        /\ Len(egress) = 1 /\ ingress = egress
        /\ \A i \in {1, 2} : egress[1][i] \in Pods \cup {LocalGwIP}
        /\ LocalGwIP \in {egress[1][1], egress[1][2]}
             => \E n \in Nodes : nat[n] # NoNat /\ nat[n].backend = nat[n].client

\* The flows of initCniRelatedFlow lead every packet to a pod: it is neither
\* lost, nor given to the kernel with an address the kernel ignores, nor sent
\* round and round; it comes from the address that was asked, and the policies
\* have judged it between pods, on one node or two, also when a pod is its own
\* backend.
PacketsArrive ==
    /\ at # "lost" /\ hops < MaxHops
    /\ at = "kernel" => pkt.mac = LocalGwMac
    /\ AnsweredByTarget
    /\ PoliciesSeePods
===============================================================================
