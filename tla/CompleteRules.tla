----------------------------- MODULE CompleteRules -----------------------------
(***************************************************************************)
(* The agent's CompleteRule: a policy rule with the IP blocks of its       *)
(* groups filled in, how it expands to the PolicyRules of the datapath,    *)
(* and how a group's patch changes it.                                     *)
(*                                                                         *)
(* Addrs are records [ips, agents].  A GroupMember's ports are the numbers *)
(* that the one port name a policy may use stands for on that endpoint.    *)
(* An IPBlockItem that is nil in the code behaves as the empty item.       *)
(***************************************************************************)
EXTENDS Integers, GroupPatch

CONSTANTS Self,    \* utils.CurrentAgentName()
          AllEps   \* the group AllEpWithNamedPort

AnyIP == "any"  \* the empty string: all sources or destinations

NewIPBlockItem == [agents |-> {}, static |-> 0, ports |-> {}]

MatchAll == [ip \in {AnyIP} |-> NewIPBlockItem]

\* The IP blocks of a set of group members.
IPBlocks(members) ==
    [ip \in UNION {x.addr.ips : x \in members} |->
        LET on == {x \in members : ip \in x.addr.ips}
        IN [agents |-> UNION {x.addr.agents : x \in on}, static |-> 0,
            ports |-> UNION {x.ports : x \in on}]]

Values(m) == {m[r] : r \in DOMAIN m}

ListGroupIPBlocks(c) == IPBlocks(Values(c.mem))

\* NextPatch: the blocks that source patch e adds to and deletes from c.
PatchAdd(e) == IPBlocks(Values(e.patch.added) \cup Values(e.patch.updated))

PatchDel(c, e) ==
    IPBlocks({c.mem[r] : r \in DOMAIN e.patch.updated} \cup Values(e.patch.removed))

\* (Mutant: the deletions of a patch are applied last.)
applyCountMapDelLast(count, added, deled) ==
    LET plus == [ip \in DOMAIN count \cup DOMAIN added |->
                    LET old == IF ip \in DOMAIN count THEN count[ip] ELSE NewIPBlockItem
                    IN IF ip \notin DOMAIN added THEN old
                       ELSE [agents |-> old.agents \cup added[ip].agents,
                             static |-> old.static + added[ip].static,
                             ports |-> old.ports \cup added[ip].ports]]
        left == [ip \in DOMAIN plus |->
                    IF ip \in DOMAIN deled
                    THEN [plus[ip] EXCEPT !.agents = @ \ deled[ip].agents]
                    ELSE plus[ip]]
    IN [ip \in {i \in DOMAIN left : i \notin DOMAIN deled \/ left[i].static > 0
                                       \/ left[i].agents # {}} |-> left[ip]]

\* applyCountMap: deletions first, then additions.
applyCountMap(count, added, deled) ==
    LET left == [ip \in DOMAIN count |->
                    IF ip \notin DOMAIN deled THEN count[ip]
                    ELSE [count[ip] EXCEPT
                            !.agents = @ \ deled[ip].agents,
                            !.static = IF @ < deled[ip].static THEN 0
                                       ELSE @ - deled[ip].static]]
        kept == {ip \in DOMAIN left : ip \notin DOMAIN deled
                                        \/ left[ip].static > 0
                                        \/ left[ip].agents # {}}
        base(ip) == IF ip \in kept THEN left[ip] ELSE NewIPBlockItem
    IN [ip \in kept \cup DOMAIN added |->
          IF ip \notin DOMAIN added THEN left[ip]
          ELSE [agents |-> base(ip).agents \cup added[ip].agents,
                static |-> base(ip).static + added[ip].static,
                ports |-> base(ip).ports \cup added[ip].ports]]

hasLocalRule(item) == item.static > 0 \/ item.agents = {} \/ Self \in item.agents

\* The ports a rule's port stands for at a destination.
resolveDstPort(port, item) == IF port = "name" THEN item.ports ELSE {port}

Directions(rule, s, d) ==
    {dir \in IF rule.sym THEN {"in", "out"} ELSE {rule.dir} :
        hasLocalRule(IF dir = "in" THEN d ELSE s)}

\* The PolicyRules from some sources to some destinations.
generateRuleList(rule, srcs, dsts) ==
    UNION {IF s = d /\ s # AnyIP THEN {}
           ELSE {[id |-> rule.id, src |-> s, dst |-> d, dir |-> dir, port |-> n] :
                   dir \in Directions(rule, srcs[s], dsts[d]),
                   n \in UNION {resolveDstPort(p, dsts[d]) : p \in rule.ports}} :
            s \in DOMAIN srcs, d \in DOMAIN dsts}

ListRules(rule) == generateRuleList(rule, rule.src, rule.dst)

\* A patch concerns a side of a rule that holds the group at its revision.
Concerns(groups, p) == p.group \in DOMAIN groups /\ groups[p.group] = p.rev

Patched(groups, blocks, p) ==
    IF Concerns(groups, p) THEN applyCountMap(blocks, p.add, p.del) ELSE blocks

\* The PolicyRules that a patch adds and removes; the destination side sees
\* the sources after the patch.
GetPatchPolicyRules(rule, p) ==
    LET src == Patched(rule.srcGroups, rule.src, p)
        side(on, s, d) == IF on THEN generateRuleList(rule, s, d) ELSE {}
        bySrc == Concerns(rule.srcGroups, p)
        byDst == Concerns(rule.dstGroups, p)
    IN [new |-> side(bySrc, p.add, rule.dst) \cup side(byDst, src, p.add),
        old |-> side(bySrc, p.del, rule.dst) \cup side(byDst, src, p.del)]

Bumped(groups, p) ==
    IF Concerns(groups, p) THEN [groups EXCEPT ![p.group] = p.rev + 1] ELSE groups

RuleApplyPatch(rule, p) ==
    [rule EXCEPT !.src = Patched(rule.srcGroups, rule.src, p),
                 !.dst = Patched(rule.dstGroups, rule.dst, p),
                 !.srcGroups = Bumped(rule.srcGroups, p),
                 !.dstGroups = Bumped(rule.dstGroups, p)]

------------------------------------------------------------------------------
(* completePolicy.  Peers are [groups, blocks]: the groups of the selectors *)
(* and the addresses given as IPBlock.                                      *)

getPeersGroups(gc, peers) == [g \in peers.groups |-> gc[g].rev]

getPeersIPBlocks(gc, peers) ==
    LET b == [g \in peers.groups |-> ListGroupIPBlocks(gc[g])]
        of(ip) == {g \in peers.groups : ip \in DOMAIN b[g]}
    IN [ip \in peers.blocks \cup UNION {DOMAIN b[g] : g \in peers.groups} |->
          [agents |-> UNION {b[g][ip].agents : g \in of(ip)},
           static |-> IF ip \in peers.blocks THEN 1 ELSE 0,
           ports |-> UNION {b[g][ip].ports : g \in of(ip)}]]

Groupless == [g \in {} |-> 0]

NoPeers == [groups |-> {}, blocks |-> {}]

FlattenPorts(ports) == IF ports = {} THEN {"all"} ELSE ports

\* One side of a rule: its groups with their revisions, and its IP blocks.
Side(gc, peers) ==
    IF peers = NoPeers THEN [groups |-> Groupless, blocks |-> MatchAll]
    ELSE [groups |-> getPeersGroups(gc, peers), blocks |-> getPeersIPBlocks(gc, peers)]

Complete(id, dir, sym, ports, s, d) ==
    [id |-> id, dir |-> dir, sym |-> sym, ports |-> ports,
     srcGroups |-> s.groups, src |-> s.blocks, dstGroups |-> d.groups, dst |-> d.blocks]

\* IsEnable: the directions of a policy.
IsEnable(p) ==
    IF p.types # {} THEN p.types
    ELSE {"in"} \cup (IF p.egress = {} THEN {} ELSE {"out"})

IngressRule(gc, p, r, applied) ==
    Complete(<<"ingress", r.name>>, "in", p.sym, FlattenPorts(r.ports),
             Side(gc, r.peers), applied)

\* An egress rule to everyone is split: named ports need the endpoints.
EgressRules(gc, p, r, applied) ==
    LET rule(suffix, ports, peers) ==
            Complete(<<"egress", r.name, suffix>>, "out", p.sym, FlattenPorts(ports),
                     applied, Side(gc, peers))
    IN IF r.peers # NoPeers THEN {rule("", r.ports, r.peers)}
       ELSE {x \in {rule("", r.ports \ {"name"}, NoPeers)} : r.ports # {"name"}}
            \cup {x \in {rule("namedport", {"name"}, [groups |-> {AllEps}, blocks |-> {}])} :
                      "name" \in r.ports}

DefaultRules(gc, p, applied) ==
    {x \in {Complete(<<"default", "in">>, "in", FALSE, {"all"}, Side(gc, NoPeers), applied),
            Complete(<<"default", "out">>, "out", FALSE, {"all"}, applied, Side(gc, NoPeers))} :
        p.drop /\ x.dir \in IsEnable(p)}

completePolicy(gc, p) ==
    LET applied == Side(gc, p.applied)
    IN {IngressRule(gc, p, r, applied) : r \in {x \in p.ingress : "in" \in IsEnable(p)}}
       \cup (UNION {EgressRules(gc, p, r, applied) :
                       r \in {x \in p.egress : "out" \in IsEnable(p)}})
       \cup DefaultRules(gc, p, applied)

\* The groups whose members completePolicy asks for.
NeededGroups(p) ==
    p.applied.groups
    \cup (UNION {r.peers.groups : r \in {x \in p.ingress : "in" \in IsEnable(p)}})
    \cup (UNION {IF r.peers = NoPeers /\ "name" \in r.ports THEN {AllEps}
                 ELSE r.peers.groups : r \in {x \in p.egress : "out" \in IsEnable(p)}})
===============================================================================
