--------------------------- MODULE NetworkPolicies ---------------------------
(***************************************************************************)
(* What becomes of a NetworkPolicy on its way to the datapath: converted   *)
(* to a SecurityPolicy, its peers to EndpointGroups, the groups to members *)
(* and the policy to the PolicyRules of an agent, by the operators of the  *)
(* modules GroupSelector and CompleteRules.  The one step is to take a     *)
(* NetworkPolicy.                                                          *)
(***************************************************************************)
EXTENDS CompleteRules, GroupSelector

CONSTANTS Policies,    \* the NetworkPolicies, as records
          Pods,        \* by name: namespace, labels, ips, ports, agents
          Namespaces,  \* labels by name
          Outside,     \* addresses of no pod
          PortNumbers

VARIABLE networkPolicy  \* a set of at most one

\* Ports and peers keep their order in the code; here they are sets.  Kubernetes
\* fills in the policy types.
getSecurityPolicyPeer(peer) ==
    [endpointSelector |-> peer.podSelector, namespaceSelector |-> peer.namespaceSelector,
     endpoint |-> {}, ipBlock |-> peer.ipBlock]

\* The groups and the addresses of the peers of a rule.
RulePeers(namespace, peers) ==
    [groups |-> UNION {PeerAsEndpointGroup(namespace, getSecurityPolicyPeer(p)) : p \in peers},
     blocks |-> UNION {getSecurityPolicyPeer(p).ipBlock : p \in peers}]

getSecurityPolicyRule(namespace, rule) ==
    [name |-> rule.name, ports |-> rule.ports, peers |-> RulePeers(namespace, rule.peers)]

\* (Mutant: the policy types are not copied.)
getSecurityPolicyNoTypes(np) ==
    [applied |-> [groups |-> appliedAsEndpointGroup(np.namespace,
                                 [endpointSelector |-> np.podSelector, endpoint |-> {}]),
                  blocks |-> {}],
     ingress |-> {getSecurityPolicyRule(np.namespace, r) : r \in np.ingress},
     egress |-> {getSecurityPolicyRule(np.namespace, r) : r \in np.egress},
     types |-> {}, drop |-> TRUE, sym |-> FALSE]

getSecurityPolicy(np) ==
    [applied |-> [groups |-> appliedAsEndpointGroup(np.namespace,
                                 [endpointSelector |-> np.podSelector, endpoint |-> {}]),
                  blocks |-> {}],
     ingress |-> {getSecurityPolicyRule(np.namespace, r) : r \in np.ingress},
     egress |-> {getSecurityPolicyRule(np.namespace, r) : r \in np.egress},
     types |-> np.types, drop |-> TRUE, sym |-> FALSE]

\* The agent's cache of the groups it needs, each at its first revision.
GroupsOf(policy) ==
    [g \in NeededGroups(policy) \cup {AllEps} |->
        [rev |-> 0,
         mem |-> [p \in fetchCurrGroupMembers(g, Pods, Namespaces) |->
                    [addr |-> [ips |-> Pods[p].ips, agents |-> Pods[p].agents],
                     ports |-> Pods[p].ports]]]]

PolicyRules(np) ==
    LET policy == getSecurityPolicy(np)
    IN UNION {ListRules(r) : r \in completePolicy(GroupsOf(policy), policy)}

Init == networkPolicy = {}

Take ==
    /\ networkPolicy = {}
    /\ \E np \in Policies : networkPolicy' = {np}

------------------------------------------------------------------------------
(* The traffic that the agent's PolicyRules let through: what an allowing    *)
(* rule matches, and what no default rule drops.                             *)

MatchesTraffic(r, dir, src, dst, port) ==
    /\ r.dir = dir
    /\ r.src \in {AnyIP, src} /\ r.dst \in {AnyIP, dst} /\ r.port \in {"all", port}

RulesAllow(np, dir, src, dst, port) ==
    LET hit == {r \in PolicyRules(np) : MatchesTraffic(r, dir, src, dst, port)}
    IN hit = {} \/ \E r \in hit : r.id[1] # "default"

(* What Kubernetes says of the policy. *)

PodsAt(ip) == {p \in DOMAIN Pods : ip \in Pods[p].ips}

SelectedBy(np, p) ==
    Pods[p].namespace = np.namespace /\ Matches(np.podSelector, Pods[p].labels)

PeerAllows(np, peer, ip) ==
    IF peer.ipBlock # {} THEN ip \in peer.ipBlock
    ELSE \E p \in PodsAt(ip) :
           /\ IF peer.namespaceSelector = {} THEN Pods[p].namespace = np.namespace
              ELSE Matches(peer.namespaceSelector, Namespaces[Pods[p].namespace])
           /\ peer.podSelector = {} \/ Matches(peer.podSelector, Pods[p].labels)

RuleAllows(np, rule, peer, dst, port) ==
    /\ rule.peers = {} \/ \E x \in rule.peers : PeerAllows(np, x, peer)
    /\ \/ rule.ports = {} \/ port \in rule.ports
       \/ "name" \in rule.ports /\ \E p \in PodsAt(dst) : port \in Pods[p].ports

KubernetesAllows(np, dir, src, dst, port) ==
    LET pod == IF dir = "in" THEN dst ELSE src
        peer == IF dir = "in" THEN src ELSE dst
    IN \/ dir \notin np.types
       \/ ~\E p \in PodsAt(pod) : SelectedBy(np, p)
       \/ \E r \in (IF dir = "in" THEN np.ingress ELSE np.egress) :
             RuleAllows(np, r, peer, dst, port)

IPs == UNION {Pods[p].ips : p \in DOMAIN Pods} \cup Outside

\* An agent's rules for a NetworkPolicy let through, to and from the pods of its
\* node, what Kubernetes says the policy allows and nothing else: through the
\* conversion of getSecurityPolicy, PeerAsEndpointGroup, fetchCurrGroupMembers and
\* completePolicy, with selectors that are absent, empty or match nothing, rules
\* without peers or ports, and named ports that differ from pod to pod.
NetworkPolicyMeansTheSame ==
    \A np \in networkPolicy, p \in {x \in DOMAIN Pods : Self \in Pods[x].agents} :
        \A here \in Pods[p].ips, there \in IPs \ Pods[p].ips, port \in PortNumbers :
            /\ RulesAllow(np, "in", there, here, port)
                 = KubernetesAllows(np, "in", there, here, port)
            /\ RulesAllow(np, "out", here, there, port)
                 = KubernetesAllows(np, "out", here, there, port)
===============================================================================
