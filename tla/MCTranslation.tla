---------------------------- MODULE MCTranslation ----------------------------
(* How objects are translated, in six parts that have no state in common:    *)
(* ports to masks, IP blocks to networks, NetworkPolicies to PolicyRules,    *)
(* what the webhook accepts, the objects that mirror Kubernetes' own, and    *)
(* the webhook's certificate.                                                *)
(* A behaviour is one of one of them.                                        *)
EXTENDS PortRange, GroupSelector

VARIABLES part, block, exceptCIDRs, newCIDRs, panicked, networkPolicy, policy,
          kind, src, srcSeen, srcEvents, out, outSeen, outEvents, queued, calls, renewed,
          srcChanges, srcFaults,
          deployed, secret, made, pc, tries, served, leader, webhook, seen, webhookQueued,
          certChanges, certFaults

portVars == <<ranges, portMap, index, begin, rulePortList>>
blockVars == <<block, exceptCIDRs, newCIDRs, panicked>>
mirrorVars == <<kind, src, srcSeen, srcEvents, out, outSeen, outEvents, queued, calls, renewed,
                srcChanges, srcFaults>>
certVars == <<deployed, secret, made, pc, tries, served, leader, webhook, seen, webhookQueued,
              certChanges, certFaults>>
pureVars == <<portVars, blockVars, networkPolicy, policy>>

------------------------------------------------------------------------------
(* Ports. *)

Numbered == {r \in Ports \X Ports : 1 <= r[1] /\ r[1] <= r[2]}

\* Up to two ranges of ports other than 0, or the empty string.
OneOrTwo == {{r, s} : r, s \in Numbered} \cup {{Empty}}

\* Ranges that begin with port 0.
FromZero == {{<<0, n>>} : n \in Ports \ {0}}

------------------------------------------------------------------------------
(* IP blocks: up to three exceptions of four-bit addresses. *)

CIDRs == {c \in [base : 0..15, prefix : 0..4] : c.base % 2^(4 - c.prefix) = 0}

Inside(c) == {d \in CIDRs : d.base \in c.base .. (c.base + 2^(4 - c.prefix) - 1)}

MCBlocks == UNION {{[cidr |-> c, except |-> e] :
                      e \in {{}} \cup {{x, y, z} : x, y, z \in Inside(c)}} : c \in CIDRs}

Blocks == INSTANCE IPBlocks WITH W <- 4, Inputs <- MCBlocks

------------------------------------------------------------------------------
(* NetworkPolicies of namespace x, in a cluster of two namespaces. *)

Label(v) == [k \in {"k"} |-> {v}]

NoLabels == [k \in {} |-> {}]

Labelled(v) == {[EmptySelector EXCEPT !.labels = Label(v)]}

Expr(op, values) ==
    {[EmptySelector EXCEPT !.exprs = {[key |-> "k", op |-> op, values |-> values]}]}

Pod(namespace, labels, ip, ports, agent) ==
    [namespace |-> namespace, labels |-> labels, ips |-> {ip}, ports |-> ports,
     agents |-> {agent}]

Pods == [p \in {"p", "q", "r", "s"} |->
    CASE p = "p" -> Pod("x", Label("a"), "ip1", {"80"}, "self")
      [] p = "q" -> Pod("x", Label("b"), "ip2", {"90"}, "other")
      [] p = "r" -> Pod("y", Label("a"), "ip3", {}, "self")
      [] p = "s" -> Pod("y", NoLabels, "ip4", {"80"}, "other")]

Selectors == {{EmptySelector}, Labelled("a"), Labelled("c"), Expr("NotIn", {"a"}),
              Expr("In", {"a", "b"}), Expr("DoesNotExist", {})}

Peer(pods, namespaces, ips) ==
    [podSelector |-> pods, namespaceSelector |-> namespaces, ipBlock |-> ips]

PeerSets ==
    {{}, {Peer({}, {}, {"out"}), Peer(Labelled("b"), {}, {})},
     {Peer(Labelled("a"), {EmptySelector}, {})}, {Peer(Labelled("a"), Labelled("a"), {})}}
    \cup {{Peer(s, {}, {})} : s \in Selectors} \cup {{Peer({}, s, {})} : s \in Selectors}

Rule(name, peers, ports) == [name |-> name, peers |-> peers, ports |-> ports]

RuleSets ==
    {{}, {Rule("1", {Peer(Labelled("b"), {}, {})}, {"80"}), Rule("2", {}, {"90"})}}
    \cup {{Rule("1", peers, ports)} :
            peers \in PeerSets, ports \in {{}, {"80"}, {"name"}, {"80", "name"}}}

NetworkPolicy(selector, types, ingress, egress) ==
    [namespace |-> "x", podSelector |-> selector, types |-> types,
     ingress |-> ingress, egress |-> egress]

MCPolicies ==
    {NetworkPolicy(s, t, i, {}) : s \in {{EmptySelector}, Labelled("a"), Expr("NotIn", {"a"})},
                                  t \in {{"in"}, {"in", "out"}}, i \in RuleSets}
    \cup {NetworkPolicy(s, t, {}, e) : s \in {{EmptySelector}, Labelled("a"), Expr("NotIn", {"a"})},
                                       t \in {{"out"}, {"in", "out"}}, e \in RuleSets}

K8s == INSTANCE NetworkPolicies WITH
         Refs <- {}, Addrs <- {}, PortSets <- {}, Self <- "self",
         AllEps <- GetAllEpWithNamedPortGroup,
         Policies <- MCPolicies, Outside <- {"out"}, PortNumbers <- {"80", "90"},
         Namespaces <- [n \in {"x", "y"} |-> IF n = "x" THEN Label("a") ELSE NoLabels]

------------------------------------------------------------------------------
(* SecurityPolicies as users may write them. *)

Selector == {{}, {EmptySelector}, Expr("In", {"a"}), Expr("Exists", {"a"})}

UserPeers == [ipBlock : {{}, {"valid"}, {"invalid"}}, endpoint : {{}, {"ep"}},
              endpointSelector : Selector, namespaceSelector : {{}} \cup {Expr("In", {"a"})}]

Number(range) == [type |-> "number", range |-> range]

Name == [type |-> "name", range |-> <<>>]

Items == {<<0>>, <<3>>, <<9>>, <<1, 3>>, <<3, 1>>, <<2, 9>>, <<1, 2, 3>>}

UserPorts == {{}, {Name}, {Name, Number(<<>>)}} \cup {{Number(<<i>>)} : i \in Items}
             \cup {{Number(<<i, j>>)} : i, j \in Items}

Simple == {Rule(n, p, q) : n \in {<<"a">>, <<"a", "namedport">>, <<"b">>},
                           p \in {{}, {[ipBlock |-> {"valid"}, endpoint |-> {},
                                        endpointSelector |-> {}, namespaceSelector |-> {}]}},
                           q \in {{}, {Name}, {Name, Number(<<>>)}}}

Policy(tier, applied, ingress, egress) ==
    [tier |-> tier, appliedTo |-> {applied}, ingress |-> ingress, egress |-> egress]

ToAll == [endpoint |-> {}, endpointSelector |-> {EmptySelector}]

SecurityPolicies ==
    {Policy("tier2", ToAll, <<Rule(<<"a">>, {p}, {})>>, <<>>) : p \in UserPeers}
    \cup {Policy("tier2", ToAll, <<>>, <<Rule(<<"a">>, {}, q)>>) : q \in UserPorts}
    \cup {Policy("tier2", ToAll, <<>>, <<r, s>>) : r, s \in Simple}
    \cup {Policy("tier2", ToAll, <<r>>, <<s>>) : r, s \in Simple}
    \cup {Policy(t, a, <<>>, <<>>) :
            t \in {"tier1", "other"},
            a \in [endpoint : {{}, {"ep"}}, endpointSelector : Selector]}

Hook == INSTANCE Webhook WITH Policies <- SecurityPolicies, Limit <- 8

------------------------------------------------------------------------------
Mirror == INSTANCE K8sControllers WITH
            PortNames <- {"http", "dns"}, Specs <- {"a", "b"}, Ports <- {"p", "q"},
            IPs <- {"none", "ip"}, MaxChanges <- 3, MaxFaults <- 1,
            changes <- srcChanges, faults <- srcFaults

------------------------------------------------------------------------------
Cert == INSTANCE WebhookCert WITH
          Instances <- {"c1", "c2"}, Retries <- 2, MaxChanges <- 2, MaxFaults <- 2,
          queued <- webhookQueued, changes <- certChanges, faults <- certFaults

------------------------------------------------------------------------------
MCInit ==
    /\ part \in {"ports", "blocks", "k8s", "hook", "mirror", "cert"}
    /\ IF part = "ports" THEN Init
       ELSE ranges = {} /\ portMap = {} /\ index = -1 /\ begin = -1 /\ rulePortList = {}
    /\ IF part = "blocks" THEN Blocks!Init
       ELSE block = {} /\ exceptCIDRs = {} /\ newCIDRs = {} /\ panicked = FALSE
    /\ K8s!Init /\ Hook!Init
    /\ Mirror!Init /\ (part = "mirror" \/ kind = "pod")
    /\ Cert!Init /\ (part = "cert" \/ (deployed = {"c1"} /\ secret = 1))

MCNext ==
    /\ UNCHANGED part
    /\ \/ part = "ports" /\ Next /\ UNCHANGED <<blockVars, networkPolicy, policy, mirrorVars, certVars>>
       \/ part = "blocks" /\ Blocks!Next /\ UNCHANGED <<portVars, networkPolicy, policy, mirrorVars, certVars>>
       \/ part = "k8s" /\ K8s!Take /\ UNCHANGED <<portVars, blockVars, policy, mirrorVars, certVars>>
       \/ part = "hook" /\ Hook!Validate /\ UNCHANGED <<portVars, blockVars, networkPolicy, mirrorVars, certVars>>
       \/ part = "mirror" /\ Mirror!Next /\ UNCHANGED <<pureVars, certVars>>
       \/ part = "cert" /\ Cert!Next /\ UNCHANGED <<pureVars, mirrorVars>>

\* The fairness of the parts that go on for ever.
MCFairness ==
    /\ WF_mirrorVars(part = "mirror" /\ Mirror!EnqueueRequestForObject)
    /\ WF_mirrorVars(part = "mirror" /\ Mirror!addMirrored)
    /\ WF_mirrorVars(part = "mirror" /\ Mirror!Reconcile)
    /\ WF_mirrorVars(part = "mirror" /\ Mirror!APICall)
    /\ \A i \in {"c1", "c2"} : /\ WF_certVars(part = "cert" /\ Cert!Start(i))
                               /\ WF_certVars(part = "cert" /\ Cert!setWebhookCert(i))
    /\ WF_certVars(part = "cert" /\ \E i \in {"c1", "c2"} : Cert!Elect(i))
    /\ WF_certVars(part = "cert" /\ Cert!WebhookEvent)
    /\ WF_certVars(part = "cert" /\ Cert!Reconcile)

MCSpec ==
    /\ MCInit /\ [][MCNext]_<<part, pureVars, mirrorVars, certVars>>
    /\ MCFairness

------------------------------------------------------------------------------
\* IPBlocks: ParseIPBlock covers exactly what an accepted IP block leaves.
IPBlockExact == part = "blocks" => Blocks!IPBlockExact

\* NetworkPolicies: the agent's rules let through what Kubernetes says.
NetworkPolicyMeansTheSame == K8s!NetworkPolicyMeansTheSame

\* Webhook: the agent can complete every policy that validatePolicy accepts.
AcceptedPoliciesComplete == Hook!AcceptedPoliciesComplete

\* K8sControllers: what is made of a pod, a network policy or an Endpoints
\* object comes to be what that says.
MirrorsFollow == Mirror!MirrorsFollow

\* WebhookCert: the API server comes to trust every instance.
CertTrusted == <>[](part = "cert" => Cert!Trusted)
===============================================================================
