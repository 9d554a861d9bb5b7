--------------------------- MODULE PolicyRulesProofs ---------------------------
(***************************************************************************)
(* Proofs about PolicyRules.                                               *)
(***************************************************************************)
EXTENDS PolicyRules, TLAPS

------------------------------------------------------------------------------
(* Memberships. *)

LEMMA MembersDef ==
    ASSUME NEW m
    PROVE  m \in Members <=> \E S \in SUBSET Refs : m \in [S -> Member]
BY Zenon DEF Members

\* Neatness is about addresses only.
LEMMA NeatSame ==
    ASSUME NEW m, NEW n, NEW g, Same(m, n), Neat(n, g)
    PROVE  Neat(m, g)
BY Zenon DEF Neat, Same, Clash, IPsOf

\* What a patch does to a membership that has the addresses it starts from.
LEMMA ApplyFacts ==
    ASSUME NEW m, NEW n, NEW k, NEW P, Same(m, n), P = ToGroupMembersPatch(n, k)
    PROVE  LET q == applyGroupMembersPatch(m, P)
           IN /\ DOMAIN q = DOMAIN k
              /\ \A r \in DOMAIN k : q[r].addr = k[r].addr
              /\ DOMAIN P.added = DOMAIN k \ DOMAIN m
              /\ \A r \in DOMAIN P.added : P.added[r] = k[r] /\ q[r] = k[r]
              /\ DOMAIN P.updated = {r \in DOMAIN k \cap DOMAIN m : k[r].addr # m[r].addr}
              /\ \A r \in DOMAIN P.updated : P.updated[r] = k[r] /\ q[r] = k[r]
              /\ DOMAIN P.removed = DOMAIN m \ DOMAIN k
              /\ \A r \in DOMAIN P.removed : P.removed[r] = n[r]
              /\ \A r \in DOMAIN k \ (DOMAIN P.added \cup DOMAIN P.updated) :
                    r \in DOMAIN m /\ q[r] = m[r]
<1> DEFINE q == applyGroupMembersPatch(m, P)
<1>1. DOMAIN n = DOMAIN m /\ \A r \in DOMAIN m : m[r].addr = n[r].addr
  BY Zenon DEF Same
<1>2. /\ P.added = [r \in DOMAIN k \ DOMAIN m |-> k[r]]
      /\ P.updated = [r \in Changed(n, k) |-> k[r]]
      /\ P.removed = [r \in DOMAIN m \ DOMAIN k |-> n[r]]
  BY <1>1, Zenon DEF ToGroupMembersPatch, Only
<1>3. Changed(n, k) = {r \in DOMAIN k \cap DOMAIN m : k[r].addr # m[r].addr}
  BY <1>1, Zenon DEF Changed
<1>4. q = [r \in (DOMAIN m \cup DOMAIN P.added \cup DOMAIN P.updated) \ DOMAIN P.removed |->
              IF r \in DOMAIN P.updated THEN P.updated[r]
              ELSE IF r \in DOMAIN P.added THEN P.added[r] ELSE m[r]]
  BY Zenon DEF applyGroupMembersPatch
<1> HIDE DEF q
<1>5. /\ DOMAIN P.added = DOMAIN k \ DOMAIN m
      /\ DOMAIN P.updated = {r \in DOMAIN k \cap DOMAIN m : k[r].addr # m[r].addr}
      /\ DOMAIN P.removed = DOMAIN m \ DOMAIN k
  BY <1>2, <1>3, Zenon
<1>6. DOMAIN q = DOMAIN k
  BY <1>4, <1>5, Zenon
<1>7. /\ \A r \in DOMAIN P.added : P.added[r] = k[r] /\ q[r] = k[r]
      /\ \A r \in DOMAIN P.updated : P.updated[r] = k[r] /\ q[r] = k[r]
      /\ \A r \in DOMAIN P.removed : P.removed[r] = n[r]
  BY <1>2, <1>4, <1>5, <1>6
<1>8. \A r \in DOMAIN k \ (DOMAIN P.added \cup DOMAIN P.updated) :
         r \in DOMAIN m /\ q[r] = m[r]
  BY <1>4, <1>5, <1>6, Zenon
<1>9. \A r \in DOMAIN k : q[r].addr = k[r].addr
  <2> TAKE r \in DOMAIN k
  <2>1. CASE r \in DOMAIN P.added \cup DOMAIN P.updated
    BY <1>7, <2>1, Zenon
  <2>2. CASE r \notin DOMAIN P.added \cup DOMAIN P.updated
    BY <1>5, <1>8, <2>2, Zenon
  <2> QED
    BY <2>1, <2>2, Zenon
<1> QED
  BY <1>5, <1>6, <1>7, <1>8, <1>9, Zenon DEF q

------------------------------------------------------------------------------
(* IP blocks. *)

Item(x) == [agents |-> x.addr.agents, static |-> 0, ports |-> x.ports]

LEMMA BlocksDomain ==
    ASSUME NEW M, NEW ip
    PROVE  ip \in DOMAIN IPBlocks(M) <=> \E x \in M : ip \in x.addr.ips
BY Zenon DEF IPBlocks

\* An address that one member has gets that member's item.
LEMMA BlocksItem ==
    ASSUME NEW M, NEW x \in M, NEW ip \in x.addr.ips,
           \A y \in M : ip \in y.addr.ips => y = x
    PROVE  ip \in DOMAIN IPBlocks(M) /\ IPBlocks(M)[ip] = Item(x)
<1>1. ip \in UNION {y.addr.ips : y \in M}
  BY Zenon
<1>2. {y \in M : ip \in y.addr.ips} = {x}
  BY Zenon
<1>3. UNION {y.addr.agents : y \in {x}} = x.addr.agents /\ UNION {y.ports : y \in {x}} = x.ports
  BY Zenon
<1>4. IPBlocks(M)[ip] = [agents |-> UNION {y.addr.agents : y \in {x}}, static |-> 0,
                         ports |-> UNION {y.ports : y \in {x}}]
  BY <1>1, <1>2, Zenon DEF IPBlocks
<1> QED
  BY <1>1, <1>3, <1>4, BlocksDomain, Zenon DEF Item

LEMMA ValuesItem ==
    ASSUME NEW m, NEW r \in DOMAIN m, NEW ip \in m[r].addr.ips, ~Clash(m)
    PROVE  ip \in DOMAIN IPBlocks(Values(m)) /\ IPBlocks(Values(m))[ip] = Item(m[r])
<1>1. m[r] \in Values(m)
  BY Zenon DEF Values
<1>2. \A y \in Values(m) : ip \in y.addr.ips => y = m[r]
  BY Zenon DEF Values, Clash, IPsOf
<1> QED
  BY <1>1, <1>2, BlocksItem, Zenon

LEMMA ValuesDomain ==
    ASSUME NEW m, NEW ip
    PROVE  ip \in DOMAIN IPBlocks(Values(m)) <=> \E r \in DOMAIN m : ip \in m[r].addr.ips
<1>1. (\E x \in Values(m) : ip \in x.addr.ips) <=> \E r \in DOMAIN m : ip \in m[r].addr.ips
  BY Zenon DEF Values
<1> QED
  BY <1>1, BlocksDomain, Zenon

------------------------------------------------------------------------------
(* What a group's next patch adds and deletes, for the group itself. *)

\* B2 is B with the items of del replaced by the items of add.
Replaced(B, add, del, B2) ==
    /\ DOMAIN del \subseteq DOMAIN B
    /\ DOMAIN B2 = (DOMAIN B \ DOMAIN del) \cup DOMAIN add
    /\ (DOMAIN B \ DOMAIN del) \cap DOMAIN add = {}
    /\ \A ip \in DOMAIN add : B2[ip] = add[ip]
    /\ \A ip \in DOMAIN B \ DOMAIN del : B2[ip] = B[ip]
    /\ \A ip \in DOMAIN del : B[ip].static = 0 /\ B[ip].agents = del[ip].agents
                              /\ del[ip].static = 0
    /\ \A ip \in DOMAIN add : add[ip].static = 0

\* Source patch e, read at c and leading on from membership n, does so to c's blocks.
GroupPatched(c, n, e, g) ==
    LET q == applyGroupMembersPatch(c.mem, e.patch)
    IN /\ Replaced(IPBlocks(Values(c.mem)), PatchAdd(e), PatchDel(c, e), IPBlocks(Values(q)))
       /\ DOMAIN PatchAdd(e) \cup DOMAIN PatchDel(c, e) \subseteq Pool[g]
       /\ n = c.mem => \A ip \in DOMAIN PatchDel(c, e) :
                          IPBlocks(Values(c.mem))[ip] = PatchDel(c, e)[ip]

LEMMA GroupReplaced ==
    ASSUME NEW c, NEW n, NEW k, NEW e, NEW g,
           Same(c.mem, n), Neat(n, g), Neat(k, g),
           e.patch = ToGroupMembersPatch(n, k)
    PROVE  GroupPatched(c, n, e, g)
<1> DEFINE P == e.patch
           m == c.mem
           q == applyGroupMembersPatch(m, P)
           B == IPBlocks(Values(m))
           B2 == IPBlocks(Values(q))
           A == Values(P.added) \cup Values(P.updated)
           D == {m[r] : r \in DOMAIN P.updated} \cup Values(P.removed)
           Touched == DOMAIN P.added \cup DOMAIN P.updated
           Left == DOMAIN P.updated \cup DOMAIN P.removed
<1>1. /\ DOMAIN q = DOMAIN k
      /\ \A r \in DOMAIN k : q[r].addr = k[r].addr
      /\ DOMAIN P.added = DOMAIN k \ DOMAIN m
      /\ \A r \in DOMAIN P.added : P.added[r] = k[r] /\ q[r] = k[r]
      /\ DOMAIN P.updated = {r \in DOMAIN k \cap DOMAIN m : k[r].addr # m[r].addr}
      /\ \A r \in DOMAIN P.updated : P.updated[r] = k[r] /\ q[r] = k[r]
      /\ DOMAIN P.removed = DOMAIN m \ DOMAIN k
      /\ \A r \in DOMAIN P.removed : P.removed[r] = n[r]
      /\ \A r \in DOMAIN k \ (DOMAIN P.added \cup DOMAIN P.updated) :
            r \in DOMAIN m /\ q[r] = m[r]
  <2>1. Same(m, n) /\ P = ToGroupMembersPatch(n, k)
    BY Zenon
  <2> HIDE DEF m, P
  <2> QED
    BY <2>1, ApplyFacts
<1>2. \A r \in DOMAIN m : r \in DOMAIN n /\ m[r].addr = n[r].addr
  BY Zenon DEF Same
<1>3. Same(q, k)
  BY <1>1, Zenon DEF Same
<1>4. Neat(m, g) /\ Neat(q, g)
  BY <1>3, NeatSame, Zenon
<1>5. PatchAdd(e) = IPBlocks(A) /\ PatchDel(c, e) = IPBlocks(D)
  BY Zenon DEF PatchAdd, PatchDel
<1> HIDE DEF P, m, q, B, B2
\* The members added, by reference.
<1>6. \A x : x \in A <=> \E r \in Touched : x = q[r]
  BY <1>1 DEF Values
<1>7. Touched \subseteq DOMAIN q
  BY <1>1, Zenon
\* The members deleted, by reference.
<1>8. \A x \in D : \E r \in Left : x.addr = m[r].addr /\ (n = m => x = m[r])
  <2> TAKE x \in D
  <2>1. CASE \E r \in DOMAIN P.updated : x = m[r]
    BY <2>1, Zenon
  <2>2. CASE x \in Values(P.removed)
    <3>1. PICK r \in DOMAIN P.removed : x = n[r]
      BY <1>1, <2>2 DEF Values
    <3> QED
      BY <1>1, <1>2, <3>1, Zenon
  <2> QED
    BY <2>1, <2>2, Zenon
<1>9. \A r \in Left : \E x \in D : x.addr = m[r].addr
  <2> TAKE r \in Left
  <2>1. CASE r \in DOMAIN P.updated
    BY <2>1, Zenon
  <2>2. CASE r \in DOMAIN P.removed
    <3>1. n[r] \in Values(P.removed)
      BY <1>1, <2>2, Zenon DEF Values
    <3> QED
      BY <1>1, <1>2, <2>2, <3>1, Zenon
  <2> QED
    BY <2>1, <2>2, Zenon
<1>10. Left \subseteq DOMAIN m /\ DOMAIN m \ Left = DOMAIN q \ Touched
       /\ \A r \in DOMAIN q \ Touched : q[r] = m[r]
  BY <1>1, Zenon
<1> HIDE DEF A, D, Touched, Left
\* Which addresses each has.
<1>11. \A ip : ip \in DOMAIN IPBlocks(A) <=> \E r \in Touched : ip \in q[r].addr.ips
  <2> TAKE ip
  <2>1. ip \in DOMAIN IPBlocks(A) <=> \E x \in A : ip \in x.addr.ips
    BY BlocksDomain, Zenon
  <2> QED
    BY <1>6, <2>1, Zenon
<1>12. \A ip : ip \in DOMAIN IPBlocks(D) <=> \E r \in Left : ip \in m[r].addr.ips
  <2> TAKE ip
  <2>1. ip \in DOMAIN IPBlocks(D) <=> \E x \in D : ip \in x.addr.ips
    BY BlocksDomain, Zenon
  <2> QED
    BY <1>8, <1>9, <2>1, Zenon
<1>13. \A ip : ip \in DOMAIN B <=> \E r \in DOMAIN m : ip \in m[r].addr.ips
  BY ValuesDomain, Zenon DEF B
<1>14. \A ip : ip \in DOMAIN B2 <=> \E r \in DOMAIN q : ip \in q[r].addr.ips
  BY ValuesDomain, Zenon DEF B2
\* No two members have an address in common.
<1>15. \A r, t \in DOMAIN m : \A ip : ip \in m[r].addr.ips /\ ip \in m[t].addr.ips => r = t
  BY <1>4, Zenon DEF Neat, Clash, IPsOf
<1>16. \A r, t \in DOMAIN q : \A ip : ip \in q[r].addr.ips /\ ip \in q[t].addr.ips => r = t
  BY <1>4, Zenon DEF Neat, Clash, IPsOf
\* The items.
<1>17. \A r \in DOMAIN m : \A ip \in m[r].addr.ips : B[ip] = Item(m[r])
  BY <1>4, ValuesItem, Zenon DEF B, Neat
<1>18. \A r \in DOMAIN q : \A ip \in q[r].addr.ips : B2[ip] = Item(q[r])
  BY <1>4, ValuesItem, Zenon DEF B2, Neat
<1>19. \A r \in Touched : \A ip \in q[r].addr.ips : IPBlocks(A)[ip] = Item(q[r])
  <2> TAKE r \in Touched
  <2> TAKE ip \in q[r].addr.ips
  <2>1. q[r] \in A
    BY <1>6, Zenon
  <2>2. \A y \in A : ip \in y.addr.ips => y = q[r]
    BY <1>6, <1>7, <1>16, ZenonT(60)
  <2> QED
    BY <2>1, <2>2, BlocksItem
<1>20. \A ip \in DOMAIN IPBlocks(D) :
         /\ IPBlocks(D)[ip].static = 0
         /\ B[ip].static = 0
         /\ B[ip].agents = IPBlocks(D)[ip].agents
         /\ n = m => B[ip] = IPBlocks(D)[ip]
  <2> TAKE ip \in DOMAIN IPBlocks(D)
  <2>1. PICK r \in Left : ip \in m[r].addr.ips
    BY <1>12, Zenon
  <2>2. PICK x \in D : ip \in x.addr.ips
    BY BlocksDomain, Zenon
  <2>3. \A y \in D : ip \in y.addr.ips => y.addr = m[r].addr /\ (n = m => y = m[r])
    BY <1>8, <1>10, <1>15, <2>1, ZenonT(60)
  <2>4. B[ip] = Item(m[r])
    BY <1>10, <1>17, <2>1, Zenon
  <2> DEFINE on == {y \in D : ip \in y.addr.ips}
  <2>5. IPBlocks(D)[ip] = [agents |-> UNION {y.addr.agents : y \in on}, static |-> 0,
                           ports |-> UNION {y.ports : y \in on}]
    <3>1. ip \in UNION {y.addr.ips : y \in D}
      BY <2>2, Zenon
    <3> QED
      BY <3>1, Zenon DEF IPBlocks
  <2>6. UNION {y.addr.agents : y \in on} = m[r].addr.agents
    <3>1. x \in on /\ \A y \in on : y.addr = m[r].addr
      BY <2>2, <2>3, Zenon
    <3> HIDE DEF on
    <3> QED
      BY <3>1, Zenon
  <2>7. ASSUME n = m PROVE IPBlocks(D)[ip] = Item(m[r])
    <3>1. x = m[r] /\ \A y \in D : ip \in y.addr.ips => y = x
      BY <2>2, <2>3, <2>7, Zenon
    <3> QED
      BY <2>2, <3>1, BlocksItem
  <2> HIDE DEF on
  <2>8. /\ IPBlocks(D)[ip].static = 0
        /\ B[ip].static = 0
        /\ B[ip].agents = IPBlocks(D)[ip].agents
    BY <2>4, <2>5, <2>6 DEF Item
  <2> QED
    BY <2>4, <2>7, <2>8, Zenon
\* Together.
<1>21. DOMAIN IPBlocks(D) \subseteq DOMAIN B
  BY <1>10, <1>12, <1>13, Zenon
<1>22. \A ip : ip \in DOMAIN B \ DOMAIN IPBlocks(D)
                 <=> \E r \in DOMAIN m \ Left : ip \in m[r].addr.ips
  <2> TAKE ip
  <2>1. ASSUME ip \in DOMAIN B, ip \notin DOMAIN IPBlocks(D)
        PROVE  \E r \in DOMAIN m \ Left : ip \in m[r].addr.ips
    BY <1>12, <1>13, <2>1, Zenon
  <2>2. ASSUME NEW r \in DOMAIN m \ Left, ip \in m[r].addr.ips
        PROVE  ip \in DOMAIN B /\ ip \notin DOMAIN IPBlocks(D)
    <3>1. ip \in DOMAIN B
      BY <1>13, <2>2, Zenon
    <3>2. \A t \in Left : ip \in m[t].addr.ips => t = r
      BY <1>10, <1>15, <2>2, Zenon
    <3> QED
      BY <1>12, <2>2, <3>1, <3>2, Zenon
  <2> QED
    BY <2>1, <2>2, Zenon
<1>23. \A ip \in DOMAIN B \ DOMAIN IPBlocks(D) : ip \notin DOMAIN IPBlocks(A) /\ B2[ip] = B[ip]
  <2> TAKE ip \in DOMAIN B \ DOMAIN IPBlocks(D)
  <2>1. PICK r \in DOMAIN m \ Left : ip \in m[r].addr.ips
    BY <1>22, Zenon
  <2>2. r \in DOMAIN q \ Touched /\ q[r] = m[r]
    BY <1>10, Zenon
  <2>3. ip \notin DOMAIN IPBlocks(A)
    BY <1>7, <1>11, <1>16, <2>1, <2>2, Zenon
  <2> QED
    BY <1>17, <1>18, <2>1, <2>2, <2>3, ZenonT(60)
<1>24. \A ip : ip \in DOMAIN B2 <=> ip \in DOMAIN B \ DOMAIN IPBlocks(D) \/ ip \in DOMAIN IPBlocks(A)
  <2> TAKE ip
  <2>1. (\E r \in DOMAIN q : ip \in q[r].addr.ips)
          <=> \/ \E r \in DOMAIN m \ Left : ip \in m[r].addr.ips
              \/ \E r \in Touched : ip \in q[r].addr.ips
    BY <1>7, <1>10, Zenon
  <2> QED
    BY <1>11, <1>14, <1>22, <2>1, Zenon
<1>25. \A ip \in DOMAIN IPBlocks(A) : B2[ip] = IPBlocks(A)[ip] /\ IPBlocks(A)[ip].static = 0
  <2> TAKE ip \in DOMAIN IPBlocks(A)
  <2>1. PICK r \in Touched : ip \in q[r].addr.ips
    BY <1>11, Zenon
  <2>2. B2[ip] = Item(q[r]) /\ IPBlocks(A)[ip] = Item(q[r])
    BY <1>7, <1>18, <1>19, <2>1, Zenon
  <2> QED
    BY <2>2 DEF Item
<1>26. Replaced(B, IPBlocks(A), IPBlocks(D), B2)
  <2>1. DOMAIN B2 = (DOMAIN B \ DOMAIN IPBlocks(D)) \cup DOMAIN IPBlocks(A)
    BY <1>24, Zenon
  <2>2. (DOMAIN B \ DOMAIN IPBlocks(D)) \cap DOMAIN IPBlocks(A) = {}
    BY <1>23, Zenon
  <2> QED
    BY <1>20, <1>21, <1>23, <1>25, <2>1, <2>2, Zenon DEF Replaced
<1>27. DOMAIN IPBlocks(A) \cup DOMAIN IPBlocks(D) \subseteq Pool[g]
  <2>1. \A r \in DOMAIN m : m[r].addr.ips \subseteq Pool[g]
    BY <1>4, Zenon DEF Neat, IPsOf
  <2>2. \A r \in DOMAIN q : q[r].addr.ips \subseteq Pool[g]
    BY <1>4, Zenon DEF Neat, IPsOf
  <2> QED
    BY <1>7, <1>10, <1>11, <1>12, <2>1, <2>2, Zenon
<1> QED
  BY <1>5, <1>20, <1>26, <1>27, Zenon DEF GroupPatched, P, m, q, B, B2

------------------------------------------------------------------------------
(* The same for the peers of one side of a rule. *)

\* The addresses of the groups' members are in their pools.
Owned(G, groups) ==
    \A h \in groups : \A r \in DOMAIN G[h].mem : IPsOf(G[h].mem[r]) \subseteq Pool[h]

LEMMA OwnedBlocks ==
    ASSUME NEW G, NEW groups, Owned(G, groups), NEW h \in groups
    PROVE  DOMAIN ListGroupIPBlocks(G[h]) \subseteq Pool[h]
<1>1. \A ip \in DOMAIN ListGroupIPBlocks(G[h]) :
         \E r \in DOMAIN G[h].mem : ip \in G[h].mem[r].addr.ips
  BY ValuesDomain, Zenon DEF ListGroupIPBlocks
<1> QED
  BY <1>1, Zenon DEF Owned, IPsOf

Of(G, peers, ip) == {h \in peers.groups : ip \in DOMAIN ListGroupIPBlocks(G[h])}

LEMMA PeersDomain ==
    ASSUME NEW G, NEW peers, NEW ip
    PROVE  ip \in DOMAIN getPeersIPBlocks(G, peers)
             <=> ip \in peers.blocks \/ Of(G, peers, ip) # {}
<1> DEFINE b == [h \in peers.groups |-> ListGroupIPBlocks(G[h])]
<1>1. DOMAIN getPeersIPBlocks(G, peers) = peers.blocks \cup UNION {DOMAIN b[h] : h \in peers.groups}
  BY Zenon DEF getPeersIPBlocks
<1>2. \A h \in peers.groups : b[h] = ListGroupIPBlocks(G[h])
  BY Zenon
<1> HIDE DEF b
<1>3. ip \in UNION {DOMAIN b[h] : h \in peers.groups}
        <=> \E h \in peers.groups : ip \in DOMAIN ListGroupIPBlocks(G[h])
  BY <1>2, Zenon
<1> QED
  BY <1>1, <1>3, Zenon DEF Of

AgentsAt(G, peers, ip) ==
    UNION {ListGroupIPBlocks(G[h])[ip].agents : h \in Of(G, peers, ip)}

PortsAt(G, peers, ip) ==
    UNION {ListGroupIPBlocks(G[h])[ip].ports : h \in Of(G, peers, ip)}

ItemAt(G, peers, ip) ==
    [agents |-> AgentsAt(G, peers, ip), static |-> IF ip \in peers.blocks THEN 1 ELSE 0,
     ports |-> PortsAt(G, peers, ip)]

\* (The body of getPeersIPBlocks.)
Joined(b, peers) ==
    LET of(ip) == {g \in peers.groups : ip \in DOMAIN b[g]}
    IN [ip \in peers.blocks \cup UNION {DOMAIN b[g] : g \in peers.groups} |->
          [agents |-> UNION {b[g][ip].agents : g \in of(ip)},
           static |-> IF ip \in peers.blocks THEN 1 ELSE 0,
           ports |-> UNION {b[g][ip].ports : g \in of(ip)}]]

\* The IP blocks of some peers depend on the members of their groups.
LEMMA BlocksFrame ==
    ASSUME NEW G, NEW G2, NEW peers, \A h \in peers.groups : G2[h].mem = G[h].mem
    PROVE  getPeersIPBlocks(G2, peers) = getPeersIPBlocks(G, peers)
<1>1. [h \in peers.groups |-> ListGroupIPBlocks(G2[h])]
        = [h \in peers.groups |-> ListGroupIPBlocks(G[h])]
  <2>1. \A h \in peers.groups : ListGroupIPBlocks(G2[h]) = ListGroupIPBlocks(G[h])
    BY Zenon DEF ListGroupIPBlocks
  <2> QED
    BY <2>1, Zenon
<1>2. /\ getPeersIPBlocks(G, peers) = Joined([h \in peers.groups |-> ListGroupIPBlocks(G[h])], peers)
      /\ getPeersIPBlocks(G2, peers) = Joined([h \in peers.groups |-> ListGroupIPBlocks(G2[h])], peers)
  BY Zenon DEF getPeersIPBlocks, Joined
<1> QED
  BY <1>1, <1>2, Zenon

LEMMA PeersItem ==
    ASSUME NEW G, NEW peers, NEW ip, ip \in DOMAIN getPeersIPBlocks(G, peers)
    PROVE  getPeersIPBlocks(G, peers)[ip] = ItemAt(G, peers, ip)
<1> DEFINE b == [h \in peers.groups |-> ListGroupIPBlocks(G[h])]
           of(i) == {h \in peers.groups : i \in DOMAIN b[h]}
<1>1. getPeersIPBlocks(G, peers) =
        [i \in peers.blocks \cup UNION {DOMAIN b[h] : h \in peers.groups} |->
          [agents |-> UNION {b[h][i].agents : h \in of(i)},
           static |-> IF i \in peers.blocks THEN 1 ELSE 0,
           ports |-> UNION {b[h][i].ports : h \in of(i)}]]
  BY Zenon DEF getPeersIPBlocks
<1>2. \A h \in peers.groups : b[h] = ListGroupIPBlocks(G[h])
  BY Zenon
<1> HIDE DEF b
<1>3. ip \in peers.blocks \cup UNION {DOMAIN b[h] : h \in peers.groups}
  BY <1>1, Zenon
<1>4. getPeersIPBlocks(G, peers)[ip] =
          [agents |-> UNION {b[h][ip].agents : h \in of(ip)},
           static |-> IF ip \in peers.blocks THEN 1 ELSE 0,
           ports |-> UNION {b[h][ip].ports : h \in of(ip)}]
  BY <1>1, <1>3, Zenon
<1>5. of(ip) = Of(G, peers, ip)
  BY <1>2, Zenon DEF Of
<1>6. UNION {b[h][ip].agents : h \in of(ip)} = AgentsAt(G, peers, ip)
  BY <1>2, <1>5, Zenon DEF Of, AgentsAt
<1>7. UNION {b[h][ip].ports : h \in of(ip)} = PortsAt(G, peers, ip)
  BY <1>2, <1>5, Zenon DEF Of, PortsAt
<1> HIDE DEF of
<1> QED
  BY <1>4, <1>6, <1>7, Zenon DEF ItemAt

\* An address of a group's pool has the item the group gives it.
LEMMA PeersOwn ==
    ASSUME NEW G, NEW peers, Apart(peers), Owned(G, peers.groups),
           NEW g \in peers.groups, NEW ip \in Pool[g]
    PROVE  /\ ip \in DOMAIN getPeersIPBlocks(G, peers)
                <=> ip \in DOMAIN ListGroupIPBlocks(G[g])
           /\ ip \in DOMAIN ListGroupIPBlocks(G[g])
                => getPeersIPBlocks(G, peers)[ip] = ListGroupIPBlocks(G[g])[ip]
<1>1. ip \notin peers.blocks
  BY Zenon DEF Apart
<1>2. \A h \in peers.groups : ip \in DOMAIN ListGroupIPBlocks(G[h]) => h = g
  BY OwnedBlocks, Zenon DEF Apart
<1>3. ip \in DOMAIN getPeersIPBlocks(G, peers) <=> ip \in DOMAIN ListGroupIPBlocks(G[g])
  <2>1. (\E h \in peers.groups : ip \in DOMAIN ListGroupIPBlocks(G[h]))
          <=> ip \in DOMAIN ListGroupIPBlocks(G[g])
    BY <1>2, Zenon
  <2>2. Of(G, peers, ip) # {} <=> \E h \in peers.groups : ip \in DOMAIN ListGroupIPBlocks(G[h])
    BY Zenon DEF Of
  <2> QED
    BY <1>1, <2>1, <2>2, PeersDomain, Zenon
<1>4. ASSUME ip \in DOMAIN ListGroupIPBlocks(G[g])
      PROVE  getPeersIPBlocks(G, peers)[ip] = ListGroupIPBlocks(G[g])[ip]
  <2> DEFINE L == ListGroupIPBlocks(G[g])
             M == Values(G[g].mem)
             on == {x \in M : ip \in x.addr.ips}
  <2>1. Of(G, peers, ip) = {g}
    BY <1>2, <1>4, Zenon DEF Of
  <2>2. getPeersIPBlocks(G, peers)[ip] = ItemAt(G, peers, ip)
    BY <1>3, <1>4, PeersItem, Zenon
  <2>3. AgentsAt(G, peers, ip) = L[ip].agents /\ PortsAt(G, peers, ip) = L[ip].ports
    BY <2>1, Zenon DEF AgentsAt, PortsAt
  <2>4. L[ip] = [agents |-> UNION {x.addr.agents : x \in on}, static |-> 0,
                 ports |-> UNION {x.ports : x \in on}]
    BY <1>4, Zenon DEF ListGroupIPBlocks, IPBlocks
  <2> HIDE DEF L, on
  <2>5. L[ip] = [agents |-> L[ip].agents, static |-> 0, ports |-> L[ip].ports]
    BY <2>4
  <2> QED
    BY <1>1, <2>2, <2>3, <2>5, Zenon DEF L, ItemAt
<1> QED
  BY <1>3, <1>4, Zenon

PeersChanged(G, G2, peers, g, add, del) ==
    /\ Replaced(getPeersIPBlocks(G, peers), add, del, getPeersIPBlocks(G2, peers))
    /\ \A ip \in DOMAIN del : getPeersIPBlocks(G, peers)[ip] = ListGroupIPBlocks(G[g])[ip]

LEMMA PeersReplaced ==
    ASSUME NEW G, NEW G2, NEW peers, Apart(peers),
           Owned(G, peers.groups), Owned(G2, peers.groups),
           NEW g \in peers.groups,
           \A h \in peers.groups : h # g => G2[h].mem = G[h].mem,
           NEW add, NEW del, DOMAIN add \cup DOMAIN del \subseteq Pool[g],
           Replaced(ListGroupIPBlocks(G[g]), add, del, ListGroupIPBlocks(G2[g]))
    PROVE  PeersChanged(G, G2, peers, g, add, del)
<1> DEFINE B == getPeersIPBlocks(G, peers)
           B2 == getPeersIPBlocks(G2, peers)
           L == ListGroupIPBlocks(G[g])
           L2 == ListGroupIPBlocks(G2[g])
<1>1. DOMAIN L \subseteq Pool[g] /\ DOMAIN L2 \subseteq Pool[g]
  BY OwnedBlocks, Zenon
<1>2. \A ip \in Pool[g] : /\ ip \in DOMAIN B <=> ip \in DOMAIN L
                          /\ ip \in DOMAIN L => B[ip] = L[ip]
  <2> TAKE ip \in Pool[g]
  <2> QED
    BY PeersOwn
<1>3. \A ip \in Pool[g] : /\ ip \in DOMAIN B2 <=> ip \in DOMAIN L2
                          /\ ip \in DOMAIN L2 => B2[ip] = L2[ip]
  <2> TAKE ip \in Pool[g]
  <2> QED
    BY PeersOwn
<1>4. \A ip : ip \notin Pool[g] => /\ ip \in DOMAIN B <=> ip \in DOMAIN B2
                                   /\ ip \in DOMAIN B => B2[ip] = B[ip]
  <2> SUFFICES ASSUME NEW ip, ip \notin Pool[g]
               PROVE  /\ ip \in DOMAIN B <=> ip \in DOMAIN B2
                      /\ ip \in DOMAIN B => B2[ip] = B[ip]
    BY Zenon
  <2>1. \A h \in peers.groups : h # g => ListGroupIPBlocks(G2[h]) = ListGroupIPBlocks(G[h])
    BY Zenon DEF ListGroupIPBlocks
  <2>2. Of(G, peers, ip) = Of(G2, peers, ip) /\ g \notin Of(G, peers, ip)
    BY <1>1, <2>1, Zenon DEF Of
  <2>3. ip \in DOMAIN B <=> ip \in DOMAIN B2
    BY <2>2, PeersDomain, Zenon
  <2>4. \A h \in Of(G, peers, ip) : ListGroupIPBlocks(G2[h]) = ListGroupIPBlocks(G[h])
    BY <2>1, <2>2, Zenon DEF Of
  <2>5. AgentsAt(G2, peers, ip) = AgentsAt(G, peers, ip)
    BY <2>2, <2>4, Zenon DEF AgentsAt
  <2>6. PortsAt(G2, peers, ip) = PortsAt(G, peers, ip)
    BY <2>2, <2>4, Zenon DEF PortsAt
  <2>7. ItemAt(G2, peers, ip) = ItemAt(G, peers, ip)
    BY <2>5, <2>6, Zenon DEF ItemAt
  <2> QED
    <3>1. ip \in DOMAIN B => B[ip] = ItemAt(G, peers, ip)
      BY PeersItem, Zenon
    <3>2. ip \in DOMAIN B2 => B2[ip] = ItemAt(G2, peers, ip)
      BY PeersItem, Zenon
    <3> QED
      BY <2>3, <2>7, <3>1, <3>2, Zenon
<1> HIDE DEF B, B2, L, L2
<1>5. Replaced(L, add, del, L2)
  BY Zenon DEF L, L2
<1>6. Replaced(B, add, del, B2)
  <2>1. DOMAIN del \subseteq DOMAIN B
    BY <1>1, <1>2, <1>5, Zenon DEF Replaced
  <2>2. \A ip \in Pool[g] : ip \in DOMAIN B2 <=> ip \in (DOMAIN B \ DOMAIN del) \cup DOMAIN add
    BY <1>2, <1>3, <1>5, Zenon DEF Replaced
  <2>3. \A ip : ip \notin Pool[g] =>
                  (ip \in DOMAIN B2 <=> ip \in (DOMAIN B \ DOMAIN del) \cup DOMAIN add)
    BY <1>4, Zenon
  <2>4. DOMAIN B2 = (DOMAIN B \ DOMAIN del) \cup DOMAIN add
    BY <2>2, <2>3, Zenon
  <2>5. (DOMAIN B \ DOMAIN del) \cap DOMAIN add = {}
    BY <1>2, <1>5, Zenon DEF Replaced
  <2>6. \A ip \in DOMAIN add : B2[ip] = add[ip]
    BY <1>3, <1>5, Zenon DEF Replaced
  <2>7. \A ip \in DOMAIN B \ DOMAIN del : B2[ip] = B[ip]
    BY <1>2, <1>3, <1>4, <1>5, Zenon DEF Replaced
  <2>8. \A ip \in DOMAIN del : B[ip] = L[ip]
    BY <1>2, <1>5, Zenon DEF Replaced
  <2> QED
    BY <1>5, <2>1, <2>4, <2>5, <2>6, <2>7, <2>8, Zenon DEF Replaced
<1>7. \A ip \in DOMAIN del : B[ip] = L[ip]
  BY <1>2, <1>5, Zenon DEF Replaced
<1> QED
  BY <1>6, <1>7, Zenon DEF PeersChanged, B, B2, L

LEMMA ItemLess ==
    ASSUME NEW x, NEW da, NEW dn, "agents" \in DOMAIN x, "static" \in DOMAIN x
    PROVE  LET y == [x EXCEPT !.agents = @ \ da, !.static = IF @ < dn THEN 0 ELSE @ - dn]
           IN /\ y.agents = x.agents \ da
              /\ y.static = IF x.static < dn THEN 0 ELSE x.static - dn
BY Zenon

\* The values of B are items, those of add without a static count.
AreItems(B) ==
    /\ B = [ip \in DOMAIN B |-> B[ip]]
    /\ \A ip \in DOMAIN B : B[ip] = [agents |-> B[ip].agents, static |-> B[ip].static,
                                     ports |-> B[ip].ports]

LEMMA PeersAreItems ==
    ASSUME NEW G, NEW peers
    PROVE  AreItems(getPeersIPBlocks(G, peers))
<1> DEFINE B == getPeersIPBlocks(G, peers)
<1>1. B = [ip \in DOMAIN B |-> B[ip]]
  BY Zenon DEF getPeersIPBlocks
<1>2. ASSUME NEW ip \in DOMAIN B
      PROVE  B[ip] = [agents |-> B[ip].agents, static |-> B[ip].static, ports |-> B[ip].ports]
  <2>1. B[ip] = ItemAt(G, peers, ip)
    BY PeersItem, Zenon
  <2> HIDE DEF B
  <2> QED
    BY <2>1, Zenon DEF ItemAt
<1> QED
  BY <1>1, <1>2, Zenon DEF AreItems

\* Applying a patch to the IP blocks of one side replaces the items.
LEMMA CountMap ==
    ASSUME NEW B, NEW add, NEW del, NEW B2, Replaced(B, add, del, B2),
           AreItems(B), AreItems(B2), AreItems(add)
    PROVE  applyCountMap(B, add, del) = B2
<1> DEFINE left == [ip \in DOMAIN B |->
                     IF ip \notin DOMAIN del THEN B[ip]
                     ELSE [B[ip] EXCEPT
                             !.agents = @ \ del[ip].agents,
                             !.static = IF @ < del[ip].static THEN 0
                                        ELSE @ - del[ip].static]]
           kept == {ip \in DOMAIN left : ip \notin DOMAIN del
                                         \/ left[ip].static > 0
                                         \/ left[ip].agents # {}}
           base(ip) == IF ip \in kept THEN left[ip] ELSE NewIPBlockItem
           f == [ip \in kept \cup DOMAIN add |->
                  IF ip \notin DOMAIN add THEN left[ip]
                  ELSE [agents |-> base(ip).agents \cup add[ip].agents,
                        static |-> base(ip).static + add[ip].static,
                        ports |-> base(ip).ports \cup add[ip].ports]]
<1>1. applyCountMap(B, add, del) = f
  BY Zenon DEF applyCountMap
<1>2. DOMAIN left = DOMAIN B /\ \A ip \in DOMAIN B \ DOMAIN del : left[ip] = B[ip]
  BY Zenon
<1>3. \A ip \in DOMAIN del : ip \in DOMAIN B => ~(left[ip].static > 0) /\ left[ip].agents = {}
  <2> SUFFICES ASSUME NEW ip \in DOMAIN del, ip \in DOMAIN B
               PROVE  ~(left[ip].static > 0) /\ left[ip].agents = {}
    BY Zenon
  <2>1. B[ip].static = 0 /\ B[ip].agents = del[ip].agents /\ del[ip].static = 0
    BY Zenon DEF Replaced
  <2>2. left[ip] = [B[ip] EXCEPT !.agents = @ \ del[ip].agents,
                                 !.static = IF @ < del[ip].static THEN 0
                                            ELSE @ - del[ip].static]
    BY Zenon
  <2> HIDE DEF left
  <2>3. "agents" \in DOMAIN B[ip] /\ "static" \in DOMAIN B[ip]
    BY DEF AreItems
  <2>4. /\ left[ip].agents = B[ip].agents \ del[ip].agents
        /\ left[ip].static = IF B[ip].static < del[ip].static THEN 0
                             ELSE B[ip].static - del[ip].static
    BY <2>2, <2>3, ItemLess, Zenon
  <2> QED
    BY <2>1, <2>4
<1> HIDE DEF left
<1>4. kept = DOMAIN B \ DOMAIN del
  BY <1>2, <1>3, Zenon
<1> HIDE DEF kept
<1>5. DOMAIN f = DOMAIN B2
  BY <1>4, Zenon DEF Replaced
<1>6. ASSUME NEW ip \in DOMAIN B2 PROVE f[ip] = B2[ip]
  <2>1. CASE ip \notin DOMAIN add
    <3>1. ip \in DOMAIN B \ DOMAIN del
      BY <1>6, <2>1, Zenon DEF Replaced
    <3>2. f[ip] = left[ip]
      BY <1>4, <2>1, <3>1, Zenon
    <3> QED
      BY <1>2, <3>1, <3>2, Zenon DEF Replaced
  <2>2. CASE ip \in DOMAIN add
    <3>1. ip \notin kept
      BY <1>4, <2>2, Zenon DEF Replaced
    <3>2. f[ip] = [agents |-> base(ip).agents \cup add[ip].agents,
                   static |-> base(ip).static + add[ip].static,
                   ports |-> base(ip).ports \cup add[ip].ports]
      BY <2>2, Zenon
    <3>3. base(ip) = NewIPBlockItem
      BY <3>1, Zenon
    <3>4. f[ip] = [agents |-> add[ip].agents, static |-> 0, ports |-> add[ip].ports]
      <4>1. add[ip].static = 0
        BY <2>2, Zenon DEF Replaced
      <4> HIDE DEF base, f
      <4> QED
        BY <3>2, <3>3, <4>1 DEF NewIPBlockItem
    <3>5. add[ip] = [agents |-> add[ip].agents, static |-> 0, ports |-> add[ip].ports]
      BY <2>2, Zenon DEF AreItems, Replaced
    <3> QED
      BY <2>2, <3>4, <3>5, Zenon DEF Replaced
  <2> QED
    BY <2>1, <2>2, Zenon
<1>7. f = [ip \in DOMAIN B2 |-> B2[ip]]
  <2>1. f = [ip \in DOMAIN B2 |-> f[ip]]
    BY <1>5, Zenon
  <2> QED
    BY <1>6, <2>1, Zenon
<1> QED
  BY <1>1, <1>7, Zenon DEF AreItems

\* p is what NextPatch has read of group g, in G, and G2 is the cache after it.
Patches(p, g, G, G2) ==
    /\ p.group = g
    /\ p.rev = G[g].rev
    /\ G2[g].rev = p.rev + 1
    /\ \A h \in Groups : h # g => G2[h] = G[h]
    /\ DOMAIN p.add \cup DOMAIN p.del \subseteq Pool[g]
    /\ Replaced(ListGroupIPBlocks(G[g]), p.add, p.del, ListGroupIPBlocks(G2[g]))
    /\ AreItems(p.add)

\* One side of a rule after a patch is the side for the new cache.
LEMMA SidePatched ==
    ASSUME NEW p, NEW g, NEW G, NEW G2, Patches(p, g, G, G2), NEW peers, Apart(peers),
           Owned(G, peers.groups), Owned(G2, peers.groups)
    PROVE  LET s == Side(G, peers)
               t == Side(G2, peers)
           IN /\ Patched(s.groups, s.blocks, p) = t.blocks
              /\ Bumped(s.groups, p) = t.groups
<1> DEFINE s == Side(G, peers)
           t == Side(G2, peers)
<1>1. CASE peers = NoPeers
  <2>1. s = t /\ s.groups = Groupless
    BY <1>1, Zenon DEF Side
  <2>2. ~Concerns(s.groups, p)
    BY <2>1, Zenon DEF Concerns, Groupless
  <2> HIDE DEF s, t
  <2> QED
    BY <2>1, <2>2, Zenon DEF Patched, Bumped, s, t
<1>2. CASE peers # NoPeers /\ g \notin peers.groups
  <2>1. s.groups = getPeersGroups(G, peers) /\ s.blocks = getPeersIPBlocks(G, peers)
    BY <1>2, Zenon DEF Side
  <2>2. t.groups = getPeersGroups(G2, peers) /\ t.blocks = getPeersIPBlocks(G2, peers)
    BY <1>2, Zenon DEF Side
  <2>3. \A h \in peers.groups : G2[h] = G[h]
    BY <1>2, Zenon DEF Apart, Patches
  <2>4. t.groups = s.groups
    BY <2>1, <2>2, <2>3, Zenon DEF getPeersGroups
  <2>5. t.blocks = s.blocks
    BY <2>1, <2>2, <2>3, BlocksFrame, Zenon
  <2>6. ~Concerns(s.groups, p)
    BY <1>2, <2>1, Zenon DEF Concerns, getPeersGroups, Patches
  <2> HIDE DEF s, t
  <2> QED
    BY <2>4, <2>5, <2>6, Zenon DEF Patched, Bumped, s, t
<1>3. CASE peers # NoPeers /\ g \in peers.groups
  <2>1. s.groups = getPeersGroups(G, peers) /\ s.blocks = getPeersIPBlocks(G, peers)
    BY <1>3, Zenon DEF Side
  <2>2. t.groups = getPeersGroups(G2, peers) /\ t.blocks = getPeersIPBlocks(G2, peers)
    BY <1>3, Zenon DEF Side
  <2>3. Concerns(s.groups, p)
    BY <1>3, <2>1, Zenon DEF Concerns, getPeersGroups, Patches
  <2>4. Bumped(s.groups, p) = t.groups
    <3>1. Bumped(s.groups, p) = [getPeersGroups(G, peers) EXCEPT ![g] = p.rev + 1]
      BY <2>1, <2>3, Zenon DEF Bumped, Patches
    <3>2. G2[g].rev = p.rev + 1 /\ \A h \in peers.groups : h # g => G2[h] = G[h]
      BY Zenon DEF Patches, Apart
    <3>3. [getPeersGroups(G, peers) EXCEPT ![g] = p.rev + 1]
            = [h \in peers.groups |-> IF h = g THEN p.rev + 1 ELSE G[h].rev]
      BY <1>3, Zenon DEF getPeersGroups
    <3>4. [h \in peers.groups |-> IF h = g THEN p.rev + 1 ELSE G[h].rev]
            = [h \in peers.groups |-> G2[h].rev]
      BY <3>2, Zenon
    <3> QED
      BY <2>2, <3>1, <3>3, <3>4, Zenon DEF getPeersGroups
  <2>5. \A h \in peers.groups : h # g => G2[h].mem = G[h].mem
    BY Zenon DEF Patches, Apart
  <2>6. Replaced(getPeersIPBlocks(G, peers), p.add, p.del, getPeersIPBlocks(G2, peers))
    <3>1. PeersChanged(G, G2, peers, g, p.add, p.del)
      BY <1>3, <2>5, PeersReplaced, Zenon DEF Patches
    <3> QED
      BY <3>1, Zenon DEF PeersChanged
  <2>7. applyCountMap(getPeersIPBlocks(G, peers), p.add, p.del) = getPeersIPBlocks(G2, peers)
    <3>1. AreItems(getPeersIPBlocks(G, peers)) /\ AreItems(getPeersIPBlocks(G2, peers))
      BY PeersAreItems, Zenon
    <3> QED
      BY <2>6, <3>1, CountMap, Zenon DEF Patches
  <2> HIDE DEF s, t
  <2> QED
    BY <2>1, <2>2, <2>3, <2>4, <2>7, Zenon DEF Patched, s, t
<1> QED
  BY <1>1, <1>2, <1>3, Zenon

------------------------------------------------------------------------------
(* The rules of a policy: what does not depend on the group cache, and the  *)
(* two sides, which do.                                                     *)

Shape(id, dir, sym, ports, src, dst) ==
    [id |-> id, dir |-> dir, sym |-> sym, ports |-> ports, src |-> src, dst |-> dst]

Expand(G, t) == Complete(t.id, t.dir, t.sym, t.ports, Side(G, t.src), Side(G, t.dst))

Everyone == [groups |-> {AllEps}, blocks |-> {}]

IngressShape(p, r) ==
    Shape(<<"ingress", r.name>>, "in", p.sym, FlattenPorts(r.ports), r.peers, p.applied)

EgressShape(p, r, suffix, ports, peers) ==
    Shape(<<"egress", r.name, suffix>>, "out", p.sym, FlattenPorts(ports), p.applied, peers)

EgressShapes(p, r) ==
    IF r.peers # NoPeers THEN {EgressShape(p, r, "", r.ports, r.peers)}
    ELSE {x \in {EgressShape(p, r, "", r.ports \ {"name"}, NoPeers)} : r.ports # {"name"}}
         \cup {x \in {EgressShape(p, r, "namedport", {"name"}, Everyone)} : "name" \in r.ports}

DefaultShapes(p) ==
    {x \in {Shape(<<"default", "in">>, "in", FALSE, {"all"}, NoPeers, p.applied),
            Shape(<<"default", "out">>, "out", FALSE, {"all"}, p.applied, NoPeers)} :
        p.drop /\ x.dir \in IsEnable(p)}

Shapes(p) ==
    {IngressShape(p, r) : r \in {x \in p.ingress : "in" \in IsEnable(p)}}
    \cup (UNION {EgressShapes(p, r) : r \in {x \in p.egress : "out" \in IsEnable(p)}})
    \cup DefaultShapes(p)

LEMMA IngressExpansion ==
    ASSUME NEW G, NEW p, NEW r
    PROVE  IngressRule(G, p, r, Side(G, p.applied)) = Expand(G, IngressShape(p, r))
BY Zenon DEF IngressRule, IngressShape, Shape, Expand

LEMMA EgressExpansion ==
    ASSUME NEW G, NEW p, NEW r
    PROVE  EgressRules(G, p, r, Side(G, p.applied)) = {Expand(G, t) : t \in EgressShapes(p, r)}
<1> DEFINE Rule(suffix, ports, peers) ==
             Complete(<<"egress", r.name, suffix>>, "out", p.sym, FlattenPorts(ports),
                      Side(G, p.applied), Side(G, peers))
<1>1. /\ Expand(G, EgressShape(p, r, "", r.ports, r.peers)) = Rule("", r.ports, r.peers)
      /\ Expand(G, EgressShape(p, r, "", r.ports \ {"name"}, NoPeers))
           = Rule("", r.ports \ {"name"}, NoPeers)
      /\ Expand(G, EgressShape(p, r, "namedport", {"name"}, Everyone))
           = Rule("namedport", {"name"}, Everyone)
  BY Zenon DEF EgressShape, Shape, Expand
<1>2. CASE r.peers # NoPeers
  <2>1. EgressRules(G, p, r, Side(G, p.applied)) = {Rule("", r.ports, r.peers)}
    BY <1>2, Zenon DEF EgressRules
  <2>2. EgressShapes(p, r) = {EgressShape(p, r, "", r.ports, r.peers)}
    BY <1>2, Zenon DEF EgressShapes
  <2> HIDE DEF Rule
  <2> QED
    BY <1>1, <2>1, <2>2, Zenon
<1>3. CASE r.peers = NoPeers
  <2>1. EgressRules(G, p, r, Side(G, p.applied)) =
           {x \in {Rule("", r.ports \ {"name"}, NoPeers)} : r.ports # {"name"}}
           \cup {x \in {Rule("namedport", {"name"}, Everyone)} : "name" \in r.ports}
    BY <1>3, Zenon DEF EgressRules, Everyone
  <2>2. EgressShapes(p, r) =
           {x \in {EgressShape(p, r, "", r.ports \ {"name"}, NoPeers)} : r.ports # {"name"}}
           \cup {x \in {EgressShape(p, r, "namedport", {"name"}, Everyone)} : "name" \in r.ports}
    BY <1>3, Zenon DEF EgressShapes
  <2> HIDE DEF Rule
  <2> QED
    BY <1>1, <2>1, <2>2
<1> QED
  BY <1>2, <1>3, Zenon

LEMMA DefaultExpansion ==
    ASSUME NEW G, NEW p
    PROVE  DefaultRules(G, p, Side(G, p.applied)) = {Expand(G, t) : t \in DefaultShapes(p)}
<1> DEFINE in == Shape(<<"default", "in">>, "in", FALSE, {"all"}, NoPeers, p.applied)
           out == Shape(<<"default", "out">>, "out", FALSE, {"all"}, p.applied, NoPeers)
<1>1. /\ Expand(G, in) = Complete(<<"default", "in">>, "in", FALSE, {"all"},
                                  Side(G, NoPeers), Side(G, p.applied))
      /\ Expand(G, out) = Complete(<<"default", "out">>, "out", FALSE, {"all"},
                                   Side(G, p.applied), Side(G, NoPeers))
      /\ Expand(G, in).dir = in.dir /\ Expand(G, out).dir = out.dir
  BY Zenon DEF Shape, Expand, Complete
<1> HIDE DEF in, out
<1>2. DefaultRules(G, p, Side(G, p.applied))
        = {x \in {Expand(G, in), Expand(G, out)} : p.drop /\ x.dir \in IsEnable(p)}
  BY <1>1, Zenon DEF DefaultRules
<1>3. DefaultShapes(p) = {x \in {in, out} : p.drop /\ x.dir \in IsEnable(p)}
  BY Zenon DEF DefaultShapes, in, out
<1> QED
  BY <1>1, <1>2, <1>3, Zenon

LEMMA ShapesDef ==
    ASSUME NEW p, NEW t
    PROVE  t \in Shapes(p) <=>
             \/ \E r \in {x \in p.ingress : "in" \in IsEnable(p)} : t = IngressShape(p, r)
             \/ \E r \in {x \in p.egress : "out" \in IsEnable(p)} : t \in EgressShapes(p, r)
             \/ t \in DefaultShapes(p)
<1> DEFINE I == {x \in p.ingress : "in" \in IsEnable(p)}
           O == {x \in p.egress : "out" \in IsEnable(p)}
<1> DEFINE A == {IngressShape(p, r) : r \in I}
           B == UNION {EgressShapes(p, r) : r \in O}
<1>1. Shapes(p) = A \cup B \cup DefaultShapes(p)
  BY Zenon DEF Shapes
<1> HIDE DEF I, O
<1>2. t \in A <=> \E r \in I : t = IngressShape(p, r)
  BY Zenon
<1>3. t \in B <=> \E r \in O : t \in EgressShapes(p, r)
  BY Zenon
<1> HIDE DEF A, B
<1>4. t \in Shapes(p) <=> t \in A \/ t \in B \/ t \in DefaultShapes(p)
  BY <1>1, Zenon
<1>5. t \in Shapes(p) <=> \/ \E r \in I : t = IngressShape(p, r)
                          \/ \E r \in O : t \in EgressShapes(p, r)
                          \/ t \in DefaultShapes(p)
  BY <1>2, <1>3, <1>4, Zenon
<1> QED
  BY <1>5, Zenon DEF I, O

LEMMA Expansion ==
    ASSUME NEW G, NEW p
    PROVE  completePolicy(G, p) = {Expand(G, t) : t \in Shapes(p)}
<1> DEFINE I == {x \in p.ingress : "in" \in IsEnable(p)}
           O == {x \in p.egress : "out" \in IsEnable(p)}
           a == Side(G, p.applied)
<1> DEFINE A == {IngressRule(G, p, r, a) : r \in I}
           B == UNION {EgressRules(G, p, r, a) : r \in O}
<1>1. completePolicy(G, p) = A \cup B \cup DefaultRules(G, p, a)
  BY Zenon DEF completePolicy
<1>3. \A r : IngressRule(G, p, r, a) = Expand(G, IngressShape(p, r))
  BY IngressExpansion, Zenon
<1>4. \A r : EgressRules(G, p, r, a) = {Expand(G, t) : t \in EgressShapes(p, r)}
  BY EgressExpansion, Zenon
<1>5. DefaultRules(G, p, a) = {Expand(G, t) : t \in DefaultShapes(p)}
  BY DefaultExpansion, Zenon
<1> HIDE DEF I, O, a
<1>6. \A x : x \in completePolicy(G, p) <=> \E t \in Shapes(p) : x = Expand(G, t)
  <2> TAKE x
  <2>1. x \in completePolicy(G, p) <=> \/ \E r \in I : x = IngressRule(G, p, r, a)
                                       \/ \E r \in O : x \in EgressRules(G, p, r, a)
                                       \/ x \in DefaultRules(G, p, a)
    <3>1. x \in A <=> \E r \in I : x = IngressRule(G, p, r, a)
      BY Zenon
    <3>2. x \in B <=> \E r \in O : x \in EgressRules(G, p, r, a)
      BY Zenon
    <3> HIDE DEF A, B
    <3>3. x \in completePolicy(G, p) <=> x \in A \/ x \in B \/ x \in DefaultRules(G, p, a)
      BY <1>1, Zenon
    <3> QED
      BY <3>1, <3>2, <3>3, Zenon
  <2>2. \A t : t \in Shapes(p) <=> \/ \E r \in I : t = IngressShape(p, r)
                                   \/ \E r \in O : t \in EgressShapes(p, r)
                                   \/ t \in DefaultShapes(p)
    BY ShapesDef, Zenon DEF I, O
  <2>3. \A r : x \in EgressRules(G, p, r, a) <=> \E t \in EgressShapes(p, r) : x = Expand(G, t)
    BY <1>4
  <2>4. x \in DefaultRules(G, p, a) <=> \E t \in DefaultShapes(p) : x = Expand(G, t)
    BY <1>5, Zenon
  <2> QED
    BY <1>3, <2>1, <2>2, <2>3, <2>4, Zenon
<1> QED
  BY <1>6, Zenon

\* The groups and addresses of the shapes are those of the policy.
LEMMA ShapePeers ==
    ASSUME NEW p, NEW t \in Shapes(p), \A peers \in PeersOf(p) : Apart(peers)
    PROVE  /\ Apart(t.src) /\ Apart(t.dst)
           /\ t.src.groups \subseteq NeededGroups(p)
           /\ t.dst.groups \subseteq NeededGroups(p)
<1> DEFINE I == {x \in p.ingress : "in" \in IsEnable(p)}
           O == {x \in p.egress : "out" \in IsEnable(p)}
           Asked(r) == IF r.peers = NoPeers /\ "name" \in r.ports THEN {AllEps}
                       ELSE r.peers.groups
<1>1. NoPeers.groups = {} /\ NoPeers.blocks = {} /\ Everyone.groups = {AllEps} /\ Everyone.blocks = {}
  BY Zenon DEF NoPeers, Everyone
<1>2. Apart(NoPeers) /\ Apart(Everyone)
  BY <1>1, AllEpsAssumption, Zenon DEF Apart
<1>3. Apart(p.applied) /\ p.applied.groups \subseteq NeededGroups(p)
  BY Zenon DEF PeersOf, NeededGroups
<1>4. \A r \in I : Apart(r.peers) /\ r.peers.groups \subseteq NeededGroups(p)
  BY Zenon DEF PeersOf, NeededGroups
<1>5. \A r \in O : Apart(r.peers) /\ Asked(r) \subseteq NeededGroups(p)
  <2> TAKE r \in O
  <2>1. Apart(r.peers)
    BY Zenon DEF PeersOf
  <2> DEFINE A == UNION {x.peers.groups : x \in I}
             B == UNION {Asked(x) : x \in O}
  <2>2. Asked(r) \subseteq B
    BY Zenon
  <2>3. B \subseteq NeededGroups(p)
    <3>1. NeededGroups(p) = p.applied.groups \cup A \cup B
      BY Zenon DEF NeededGroups
    <3> HIDE DEF A, B
    <3> QED
      BY <3>1, Zenon
  <2> QED
    BY <2>1, <2>2, <2>3, Zenon
<1>6. CASE \E r \in I : t = IngressShape(p, r)
  <2>1. PICK r \in I : t = IngressShape(p, r)
    BY <1>6, Zenon
  <2>2. t.src = r.peers /\ t.dst = p.applied
    BY <2>1, Zenon DEF IngressShape, Shape
  <2> QED
    BY <1>3, <1>4, <2>2, Zenon
<1>7. CASE \E r \in O : t \in EgressShapes(p, r)
  <2>1. PICK r \in O : t \in EgressShapes(p, r)
    BY <1>7, Zenon
  <2>2. CASE r.peers # NoPeers
    <3>1. t = EgressShape(p, r, "", r.ports, r.peers)
      BY <2>1, <2>2, Zenon DEF EgressShapes
    <3>2. t.src = p.applied /\ t.dst = r.peers
      BY <3>1, Zenon DEF EgressShape, Shape
    <3> QED
      BY <1>3, <1>5, <2>2, <3>2, Zenon
  <2>3. CASE r.peers = NoPeers
    <3>1. \/ t = EgressShape(p, r, "", r.ports \ {"name"}, NoPeers)
          \/ t = EgressShape(p, r, "namedport", {"name"}, Everyone) /\ "name" \in r.ports
      BY <2>1, <2>3, Zenon DEF EgressShapes
    <3>2. /\ EgressShape(p, r, "", r.ports \ {"name"}, NoPeers).src = p.applied
          /\ EgressShape(p, r, "", r.ports \ {"name"}, NoPeers).dst = NoPeers
          /\ EgressShape(p, r, "namedport", {"name"}, Everyone).src = p.applied
          /\ EgressShape(p, r, "namedport", {"name"}, Everyone).dst = Everyone
      BY Zenon DEF EgressShape, Shape
    <3>3. "name" \in r.ports => {AllEps} \subseteq NeededGroups(p)
      BY <1>5, <2>3, Zenon
    <3> QED
      BY <1>1, <1>2, <1>3, <3>1, <3>2, <3>3, Zenon
  <2> QED
    BY <2>2, <2>3, Zenon
<1>8. CASE t \in DefaultShapes(p)
  <2> DEFINE in == Shape(<<"default", "in">>, "in", FALSE, {"all"}, NoPeers, p.applied)
             out == Shape(<<"default", "out">>, "out", FALSE, {"all"}, p.applied, NoPeers)
  <2>1. t = in \/ t = out
    BY <1>8, Zenon DEF DefaultShapes
  <2>2. in.src = NoPeers /\ in.dst = p.applied /\ out.src = p.applied /\ out.dst = NoPeers
    BY Zenon DEF Shape
  <2> HIDE DEF in, out
  <2> QED
    BY <1>1, <1>2, <1>3, <2>1, <2>2, Zenon
<1> QED
  BY <1>6, <1>7, <1>8, ShapesDef, Zenon

\* A rule after a patch is the rule for the new cache.
LEMMA CompleteExcept ==
    ASSUME NEW id, NEW dir, NEW sym, NEW ports, NEW sg, NEW sb, NEW dg, NEW db,
           NEW sg2, NEW sb2, NEW dg2, NEW db2
    PROVE  [[id |-> id, dir |-> dir, sym |-> sym, ports |-> ports,
             srcGroups |-> sg, src |-> sb, dstGroups |-> dg, dst |-> db]
               EXCEPT !.src = sb2, !.dst = db2, !.srcGroups = sg2, !.dstGroups = dg2]
             = [id |-> id, dir |-> dir, sym |-> sym, ports |-> ports,
                srcGroups |-> sg2, src |-> sb2, dstGroups |-> dg2, dst |-> db2]
<1> DEFINE R(a, b, c, d) == [id |-> id, dir |-> dir, sym |-> sym, ports |-> ports,
                             srcGroups |-> a, src |-> b, dstGroups |-> c, dst |-> d]
<1>1. [R(sg, sb, dg, db) EXCEPT !.src = sb2] = R(sg, sb2, dg, db)
  OBVIOUS
<1>2. [R(sg, sb2, dg, db) EXCEPT !.dst = db2] = R(sg, sb2, dg, db2)
  OBVIOUS
<1>3. [R(sg, sb2, dg, db2) EXCEPT !.srcGroups = sg2] = R(sg2, sb2, dg, db2)
  OBVIOUS
<1>4. [R(sg2, sb2, dg, db2) EXCEPT !.dstGroups = dg2] = R(sg2, sb2, dg2, db2)
  OBVIOUS
<1> HIDE DEF R
<1>5. [R(sg, sb, dg, db) EXCEPT !.src = sb2, !.dst = db2, !.srcGroups = sg2, !.dstGroups = dg2]
        = [[[[R(sg, sb, dg, db) EXCEPT !.src = sb2] EXCEPT !.dst = db2]
             EXCEPT !.srcGroups = sg2] EXCEPT !.dstGroups = dg2]
  BY Zenon
<1>6. [R(sg, sb, dg, db) EXCEPT !.src = sb2, !.dst = db2, !.srcGroups = sg2, !.dstGroups = dg2]
        = R(sg2, sb2, dg2, db2)
  BY <1>1, <1>2, <1>3, <1>4, <1>5, Zenon
<1> QED
  BY <1>6, Zenon DEF R

LEMMA RulePatched ==
    ASSUME NEW p, NEW g, NEW G, NEW G2, Patches(p, g, G, G2), NEW t,
           Apart(t.src), Owned(G, t.src.groups), Owned(G2, t.src.groups),
           Apart(t.dst), Owned(G, t.dst.groups), Owned(G2, t.dst.groups)
    PROVE  RuleApplyPatch(Expand(G, t), p) = Expand(G2, t)
<1> DEFINE s == Side(G, t.src)
           d == Side(G, t.dst)
           s2 == Side(G2, t.src)
           d2 == Side(G2, t.dst)
           r == Expand(G, t)
<1>1. Patched(s.groups, s.blocks, p) = s2.blocks /\ Bumped(s.groups, p) = s2.groups
  BY SidePatched
<1>2. Patched(d.groups, d.blocks, p) = d2.blocks /\ Bumped(d.groups, p) = d2.groups
  BY SidePatched
<1>3. r = [id |-> t.id, dir |-> t.dir, sym |-> t.sym, ports |-> t.ports,
           srcGroups |-> s.groups, src |-> s.blocks,
           dstGroups |-> d.groups, dst |-> d.blocks]
  BY Zenon DEF Expand, Complete
<1>4. Expand(G2, t) = [id |-> t.id, dir |-> t.dir, sym |-> t.sym, ports |-> t.ports,
                       srcGroups |-> s2.groups, src |-> s2.blocks,
                       dstGroups |-> d2.groups, dst |-> d2.blocks]
  BY Zenon DEF Expand, Complete
<1> HIDE DEF s, d, s2, d2, r
<1>5. r.srcGroups = s.groups /\ r.src = s.blocks /\ r.dstGroups = d.groups /\ r.dst = d.blocks
  BY <1>3, Zenon
<1>6. RuleApplyPatch(r, p) = [r EXCEPT !.src = s2.blocks, !.dst = d2.blocks,
                                       !.srcGroups = s2.groups, !.dstGroups = d2.groups]
  BY <1>1, <1>2, <1>5, Zenon DEF RuleApplyPatch
<1>7. RuleApplyPatch(r, p) = Expand(G2, t)
  BY <1>3, <1>4, <1>6, CompleteExcept, Zenon
<1> QED
  BY <1>7, Zenon DEF r

\* The groups of a side are those of its peers.
LEMMA SideGroups ==
    ASSUME NEW G, NEW peers, NEW g
    PROVE  g \in DOMAIN Side(G, peers).groups => g \in peers.groups
BY Zenon DEF Side, Groupless, getPeersGroups

\* R are the rules of the policy, and hit those with the group of the patch.
Hits(p, g, G, G2, pol, R, hit) ==
    /\ Patches(p, g, G, G2)
    /\ \A peers \in PeersOf(pol) : Apart(peers)
    /\ Owned(G, NeededGroups(pol)) /\ Owned(G2, NeededGroups(pol))
    /\ R = completePolicy(G, pol)
    /\ hit = {r \in R : g \in DOMAIN r.srcGroups \cup DOMAIN r.dstGroups}

\* The rules of a policy, patched where the group occurs, are those of the new cache.
LEMMA PolicyPatched ==
    ASSUME NEW p, NEW g, NEW G, NEW G2, NEW pol, NEW R, NEW hit,
           Hits(p, g, G, G2, pol, R, hit)
    PROVE  (R \ hit) \cup {RuleApplyPatch(r, p) : r \in hit} = completePolicy(G2, pol)
<1> USE DEF Hits
<1>1. \A t \in Shapes(pol) : RuleApplyPatch(Expand(G, t), p) = Expand(G2, t)
  <2> TAKE t \in Shapes(pol)
  <2>1. /\ Apart(t.src) /\ Apart(t.dst)
        /\ t.src.groups \subseteq NeededGroups(pol)
        /\ t.dst.groups \subseteq NeededGroups(pol)
    BY ShapePeers, Zenon
  <2>2. /\ Owned(G, t.src.groups) /\ Owned(G2, t.src.groups)
        /\ Owned(G, t.dst.groups) /\ Owned(G2, t.dst.groups)
    BY <2>1, Zenon DEF Owned
  <2> QED
    BY <2>1, <2>2, RulePatched
<1>2. \A t \in Shapes(pol) : Expand(G, t) \notin hit => Expand(G2, t) = Expand(G, t)
  <2> SUFFICES ASSUME NEW t \in Shapes(pol), Expand(G, t) \notin hit
               PROVE  Expand(G2, t) = Expand(G, t)
    BY Zenon
  <2> DEFINE r == Expand(G, t)
  <2>1. r \in R
    BY Expansion, Zenon
  <2>2. g \notin DOMAIN r.srcGroups /\ g \notin DOMAIN r.dstGroups
    BY <2>1, Zenon
  <2>3. r = [id |-> t.id, dir |-> t.dir, sym |-> t.sym, ports |-> t.ports,
             srcGroups |-> r.srcGroups, src |-> r.src,
             dstGroups |-> r.dstGroups, dst |-> r.dst]
    BY Zenon DEF Expand, Complete
  <2> HIDE DEF r
  <2>4. p.group = g
    BY Zenon DEF Patches
  <2>5. /\ Patched(r.srcGroups, r.src, p) = r.src /\ Bumped(r.srcGroups, p) = r.srcGroups
        /\ Patched(r.dstGroups, r.dst, p) = r.dst /\ Bumped(r.dstGroups, p) = r.dstGroups
    BY <2>2, <2>4, Zenon DEF Patched, Bumped, Concerns
  <2>6. RuleApplyPatch(r, p) = [r EXCEPT !.src = r.src, !.dst = r.dst,
                                         !.srcGroups = r.srcGroups, !.dstGroups = r.dstGroups]
    BY <2>5, Zenon DEF RuleApplyPatch
  <2>7. RuleApplyPatch(r, p) = r
    BY <2>3, <2>6, CompleteExcept, Zenon
  <2> QED
    BY <1>1, <2>7, Zenon DEF r
<1>3. \A x : x \in R <=> \E t \in Shapes(pol) : x = Expand(G, t)
  BY Expansion, Zenon
<1>4. \A x : x \in completePolicy(G2, pol) <=> \E t \in Shapes(pol) : x = Expand(G2, t)
  BY Expansion, Zenon
<1>5. hit \subseteq R
  BY Zenon
<1> DEFINE T == {RuleApplyPatch(r, p) : r \in hit}
<1>6. \A x : x \in T <=> \E r \in hit : x = RuleApplyPatch(r, p)
  BY Zenon
<1> HIDE DEF T
<1>7. ASSUME NEW x \in R, x \notin hit PROVE x \in completePolicy(G2, pol)
  BY <1>2, <1>3, <1>4, <1>7, Zenon
<1>8. ASSUME NEW x \in T PROVE x \in completePolicy(G2, pol)
  <2>1. PICK r \in hit : x = RuleApplyPatch(r, p)
    BY <1>6, <1>8, Zenon
  <2>2. PICK t \in Shapes(pol) : r = Expand(G, t)
    BY <1>3, <1>5, Zenon
  <2> QED
    BY <1>1, <1>4, <2>1, <2>2, Zenon
<1>9. ASSUME NEW x \in completePolicy(G2, pol) PROVE (x \in R /\ x \notin hit) \/ x \in T
  <2>1. PICK t \in Shapes(pol) : x = Expand(G2, t)
    BY <1>4, <1>9, Zenon
  <2>2. Expand(G, t) \in R
    BY <1>3, Zenon
  <2> QED
    BY <1>1, <1>2, <1>6, <2>1, <2>2, Zenon
<1>10. (R \ hit) \cup T = completePolicy(G2, pol)
  BY <1>7, <1>8, <1>9, Zenon
<1> QED
  BY <1>10, Zenon DEF T

\* The expansion depends on the revisions and members of the needed groups.
LEMMA PolicyFrame ==
    ASSUME NEW G, NEW G2, NEW pol, \A peers \in PeersOf(pol) : Apart(peers),
           \A h \in NeededGroups(pol) : G2[h].rev = G[h].rev /\ G2[h].mem = G[h].mem
    PROVE  completePolicy(G2, pol) = completePolicy(G, pol)
<1>1. ASSUME NEW peers, peers.groups \subseteq NeededGroups(pol)
      PROVE  Side(G2, peers) = Side(G, peers)
  <2>1. getPeersIPBlocks(G2, peers) = getPeersIPBlocks(G, peers)
    BY <1>1, BlocksFrame, Zenon
  <2>2. getPeersGroups(G2, peers) = getPeersGroups(G, peers)
    BY <1>1, Zenon DEF getPeersGroups
  <2> QED
    BY <2>1, <2>2, Zenon DEF Side
<1>2. \A t \in Shapes(pol) : Expand(G2, t) = Expand(G, t)
  <2> TAKE t \in Shapes(pol)
  <2>1. t.src.groups \subseteq NeededGroups(pol) /\ t.dst.groups \subseteq NeededGroups(pol)
    BY ShapePeers, Zenon
  <2>2. Side(G2, t.src) = Side(G, t.src)
    BY <1>1, <2>1, Zenon
  <2>3. Side(G2, t.dst) = Side(G, t.dst)
    BY <1>1, <2>1, Zenon
  <2> QED
    BY <2>2, <2>3, Zenon DEF Expand
<1>3. \A x : x \in completePolicy(G, pol) <=> \E t \in Shapes(pol) : x = Expand(G, t)
  BY Expansion, Zenon
<1>4. \A x : x \in completePolicy(G2, pol) <=> \E t \in Shapes(pol) : x = Expand(G2, t)
  BY Expansion, Zenon
<1> QED
  BY <1>2, <1>3, <1>4

------------------------------------------------------------------------------
(* The group cache: the patches lead from the cached members to the newest. *)

\* h is a history of group g that explains the cache: every patch leads from one
\* of its memberships to the next, and the cached one has the addresses (if exact,
\* also the ports) of the membership at its revision.
IsChain(h, g, exact) ==
    /\ h \in [Nat -> Members]
    /\ \A n \in Nat : Neat(h[n], g) /\ (exact => Steady(h[n], h[n + 1]))
    /\ h[latest[g].rev] = latest[g].mem
    /\ \A x \in gc[g].patches :
          /\ x.rev \in Nat /\ x.rev < latest[g].rev
          /\ x = [rev |-> x.rev, patch |-> ToGroupMembersPatch(h[x.rev], h[x.rev + 1])]
    /\ gc[g].live => /\ gc[g].rev \in Nat /\ gc[g].rev <= latest[g].rev
                     /\ Same(gc[g].mem, h[gc[g].rev])
                     /\ exact => gc[g].mem = h[gc[g].rev]

\* A patch that has been read and not applied is the next one.
HeldInv(g) ==
    held[g] # NoPatch =>
        \E e \in NextPatches(gc[g]) :
            held[g] = [group |-> g, rev |-> e.rev, add |-> PatchAdd(e), del |-> PatchDel(gc[g], e)]

CacheInv(exact) ==
    /\ DOMAIN gc = Groups /\ DOMAIN latest = Groups /\ DOMAIN held = Groups
    /\ \A g \in Groups : /\ {"live", "rev", "mem", "patches"} \subseteq DOMAIN gc[g]
                         /\ latest[g].rev \in Nat
                         /\ \E h : IsChain(h, g, exact)
                         /\ HeldInv(g)

LEMMA SameReflexive ==
    ASSUME NEW m
    PROVE  Same(m, m)
BY Zenon DEF Same

LEMMA InitCache ==
    ASSUME Separated, Init, NEW exact
    PROVE  CacheInv(exact)
<1>1. gc = [g \in Groups |-> EmptyCache]
      /\ latest = [g \in Groups |-> [rev |-> 1, mem |-> Initial[g]]]
      /\ held = [g \in Groups |-> NoPatch]
  BY Zenon DEF Init
<1>2. DOMAIN gc = Groups /\ DOMAIN latest = Groups /\ DOMAIN held = Groups
  BY <1>1, Zenon
<1> SUFFICES ASSUME NEW g \in Groups
             PROVE  /\ {"live", "rev", "mem", "patches"} \subseteq DOMAIN gc[g]
                    /\ latest[g].rev \in Nat
                    /\ \E h : IsChain(h, g, exact)
                    /\ HeldInv(g)
  BY <1>2, Zenon DEF CacheInv
<1>3. gc[g] = EmptyCache /\ latest[g] = [rev |-> 1, mem |-> Initial[g]] /\ held[g] = NoPatch
  BY <1>1, Zenon
<1>4. {"live", "rev", "mem", "patches"} \subseteq DOMAIN gc[g]
      /\ gc[g].patches = {} /\ gc[g].live = FALSE
  BY <1>3 DEF EmptyCache
<1>5. latest[g].rev = 1 /\ latest[g].rev \in Nat /\ latest[g].mem = Initial[g]
  BY <1>3
<1>6. Initial[g] \in Members /\ Neat(Initial[g], g)
  BY Zenon DEF Separated
<1>7. PICK h : h = [n \in Nat |-> Initial[g]]
  BY Zenon
<1>8. \A n \in Nat : h[n] = Initial[g] /\ h[n + 1] = Initial[g]
  BY <1>7
<1>9. IsChain(h, g, exact)
  <2>1. h \in [Nat -> Members]
    BY <1>6, <1>7, Zenon
  <2>2. \A n \in Nat : Neat(h[n], g) /\ Steady(h[n], h[n + 1])
    BY <1>6, <1>8, Zenon DEF Steady
  <2>3. h[latest[g].rev] = latest[g].mem
    BY <1>5, <1>8, Zenon
  <2> QED
    BY <1>4, <2>1, <2>2, <2>3, Zenon DEF IsChain
<1> QED
  BY <1>3, <1>4, <1>5, <1>9, Zenon DEF HeldInv

\* What a group's invariant is about.
LEMMA ChainFrame ==
    ASSUME NEW h, NEW g, NEW exact, IsChain(h, g, exact),
           gc'[g] = gc[g], latest'[g] = latest[g]
    PROVE  IsChain(h, g, exact)'
BY Zenon DEF IsChain

LEMMA HeldFrame ==
    ASSUME NEW g, HeldInv(g), gc'[g] = gc[g], held'[g] = held[g]
    PROVE  HeldInv(g)'
BY Zenon DEF HeldInv

GroupInv(g, exact) ==
    /\ {"live", "rev", "mem", "patches"} \subseteq DOMAIN gc[g]
    /\ latest[g].rev \in Nat
    /\ \E h : IsChain(h, g, exact)
    /\ HeldInv(g)

LEMMA GroupFrame ==
    ASSUME NEW g, NEW exact, GroupInv(g, exact),
           gc'[g] = gc[g], latest'[g] = latest[g], held'[g] = held[g]
    PROVE  GroupInv(g, exact)'
<1>1. PICK h : IsChain(h, g, exact)
  BY Zenon DEF GroupInv
<1>2. IsChain(h, g, exact)'
  BY <1>1, ChainFrame, Zenon
<1>3. HeldInv(g)'
  BY HeldFrame, Zenon DEF GroupInv
<1> QED
  BY <1>2, <1>3, Zenon DEF GroupInv

\* The members of the newest revision are changed and the patch is added.
LEMMA PublishGroup ==
    ASSUME NEW g \in Groups, NEW exact, CacheInv(exact), ~Shared, NEW m \in Members,
           Publish(g, m), exact => PortsSteady
    PROVE  GroupInv(g, exact)'
<1> DEFINE c == gc[g]
           e == [rev |-> latest[g].rev, patch |-> ToGroupMembersPatch(latest[g].mem, m)]
<1>1. {"live", "rev", "mem", "patches"} \subseteq DOMAIN c /\ latest[g].rev \in Nat /\ HeldInv(g)
      /\ g \in DOMAIN gc /\ g \in DOMAIN latest
  BY Zenon DEF CacheInv
<1>2. PICK h0 : IsChain(h0, g, exact)
  BY Zenon DEF CacheInv
<1>3. latest'[g] = [rev |-> latest[g].rev + 1, mem |-> m] /\ gc'[g] = AddPatch(c, e)
      /\ held' = held
  BY <1>1, Zenon DEF Publish
<1>4. latest'[g].rev = latest[g].rev + 1 /\ latest'[g].mem = m
  BY <1>3
<1>5. Neat(m, g)
  BY Zenon DEF Publish, Neat
<1>6. exact => Steady(latest[g].mem, m)
  BY <1>4, Zenon DEF PortsSteady
<1>7. c.live => c.rev \in Nat /\ c.rev <= latest[g].rev
  BY <1>2, Zenon DEF IsChain
<1>8. gc'[g] = [c EXCEPT !.patches = {x \in @ : x.rev # e.rev} \cup {e}]
  <2>1. ~(c.live /\ e.rev < c.rev)
    BY <1>1, <1>7
  <2> HIDE DEF e, c
  <2> QED
    BY <1>3, <2>1, Zenon DEF AddPatch
<1>9. /\ gc'[g].live = c.live /\ gc'[g].rev = c.rev /\ gc'[g].mem = c.mem
      /\ gc'[g].patches = {x \in c.patches : x.rev # e.rev} \cup {e}
      /\ DOMAIN gc'[g] = DOMAIN c
  <2> HIDE DEF e, c
  <2> QED
    BY <1>1, <1>8, Zenon DEF c
<1>10. PICK h : h = [n \in Nat |-> IF n <= latest[g].rev THEN h0[n] ELSE m]
  BY Zenon
<1>11. /\ h0 \in [Nat -> Members]
       /\ \A n \in Nat : Neat(h0[n], g) /\ (exact => Steady(h0[n], h0[n + 1]))
       /\ h0[latest[g].rev] = latest[g].mem
  BY <1>2, Zenon DEF IsChain
<1>12. h \in [Nat -> Members]
  BY <1>10, <1>11, Zenon
<1>13. \A n \in Nat : n <= latest[g].rev => h[n] = h0[n]
  BY <1>10, Zenon
<1>14. \A n \in Nat : ~(n <= latest[g].rev) => h[n] = m
  BY <1>10, Zenon
<1>15. \A n \in Nat : Neat(h[n], g)
  BY <1>5, <1>11, <1>13, <1>14, Zenon
<1>16. ASSUME exact, NEW n \in Nat PROVE Steady(h[n], h[n + 1])
  <2>1. CASE n < latest[g].rev
    <3>1. n <= latest[g].rev /\ n + 1 \in Nat /\ n + 1 <= latest[g].rev
      BY <1>1, <2>1
    <3> QED
      BY <1>11, <1>13, <1>16, <3>1, Zenon
  <2>2. CASE n = latest[g].rev
    <3>1. n <= latest[g].rev /\ n + 1 \in Nat /\ ~(n + 1 <= latest[g].rev)
      BY <1>1, <2>2
    <3>2. h[n] = latest[g].mem /\ h[n + 1] = m
      BY <1>11, <1>13, <1>14, <2>2, <3>1, Zenon
    <3> QED
      BY <1>6, <1>16, <3>2, Zenon
  <2>3. CASE n > latest[g].rev
    <3>1. ~(n <= latest[g].rev) /\ n + 1 \in Nat /\ ~(n + 1 <= latest[g].rev)
      BY <1>1, <2>3
    <3>2. h[n] = m /\ h[n + 1] = m
      BY <1>14, <3>1, Zenon
    <3> QED
      BY <3>2, Zenon DEF Steady
  <2> QED
    BY <1>1, <2>1, <2>2, <2>3
<1>17. h[latest'[g].rev] = latest'[g].mem
  <2>1. latest'[g].rev \in Nat /\ ~(latest'[g].rev <= latest[g].rev)
    BY <1>1, <1>4
  <2> QED
    BY <1>4, <1>14, <2>1, Zenon
<1>18. \A x \in c.patches :
          /\ x.rev \in Nat /\ x.rev < latest[g].rev
          /\ x = [rev |-> x.rev, patch |-> ToGroupMembersPatch(h[x.rev], h[x.rev + 1])]
  <2> TAKE x \in c.patches
  <2>1. /\ x.rev \in Nat /\ x.rev < latest[g].rev
        /\ x = [rev |-> x.rev, patch |-> ToGroupMembersPatch(h0[x.rev], h0[x.rev + 1])]
    BY <1>2, Zenon DEF IsChain
  <2>2. x.rev <= latest[g].rev /\ x.rev + 1 \in Nat /\ x.rev + 1 <= latest[g].rev
    BY <1>1, <2>1
  <2>3. h[x.rev] = h0[x.rev] /\ h[x.rev + 1] = h0[x.rev + 1]
    BY <1>13, <2>1, <2>2, Zenon
  <2> QED
    BY <2>1, <2>3, Zenon
<1>19. \A x \in gc'[g].patches :
          /\ x.rev \in Nat /\ x.rev < latest'[g].rev
          /\ x = [rev |-> x.rev, patch |-> ToGroupMembersPatch(h[x.rev], h[x.rev + 1])]
  <2> TAKE x \in gc'[g].patches
  <2>1. CASE x \in c.patches
    <3>1. x.rev < latest'[g].rev
      BY <1>1, <1>4, <1>18, <2>1
    <3> QED
      BY <1>18, <2>1, <3>1, Zenon
  <2>2. CASE x = e
    <3>1. x.rev = latest[g].rev /\ x.patch = ToGroupMembersPatch(latest[g].mem, m)
      BY <2>2, Zenon
    <3>2. x.rev \in Nat /\ x.rev < latest'[g].rev /\ x.rev + 1 = latest'[g].rev
          /\ x.rev <= latest[g].rev
      BY <1>1, <1>4, <3>1
    <3>3. h[x.rev] = latest[g].mem /\ h[x.rev + 1] = m
      BY <1>4, <1>11, <1>13, <1>17, <3>1, <3>2, Zenon
    <3>4. x = [rev |-> x.rev, patch |-> ToGroupMembersPatch(h[x.rev], h[x.rev + 1])]
      BY <2>2, <3>1, <3>3, Zenon
    <3> QED
      BY <3>2, <3>4, Zenon
  <2> HIDE DEF e, c
  <2> QED
    BY <1>9, <2>1, <2>2, Zenon
<1>20. gc'[g].live => /\ gc'[g].rev \in Nat /\ gc'[g].rev <= latest'[g].rev
                      /\ Same(gc'[g].mem, h[gc'[g].rev])
                      /\ exact => gc'[g].mem = h[gc'[g].rev]
  <2> SUFFICES ASSUME gc'[g].live
               PROVE  /\ gc'[g].rev \in Nat /\ gc'[g].rev <= latest'[g].rev
                      /\ Same(gc'[g].mem, h[gc'[g].rev])
                      /\ exact => gc'[g].mem = h[gc'[g].rev]
    BY Zenon
  <2>1. /\ c.rev \in Nat /\ c.rev <= latest[g].rev
        /\ Same(c.mem, h0[c.rev]) /\ (exact => c.mem = h0[c.rev])
    BY <1>2, <1>9, Zenon DEF IsChain
  <2>2. h[c.rev] = h0[c.rev]
    BY <1>13, <2>1, Zenon
  <2>3. c.rev <= latest'[g].rev
    BY <1>1, <1>4, <2>1
  <2> QED
    BY <1>9, <2>1, <2>2, <2>3, Zenon
<1>21. IsChain(h, g, exact)'
  BY <1>12, <1>15, <1>16, <1>17, <1>19, <1>20, Zenon DEF IsChain
<1>22. HeldInv(g)'
  <2> SUFFICES ASSUME held[g] # NoPatch
               PROVE  \E x \in NextPatches(gc'[g]) :
                         held[g] = [group |-> g, rev |-> x.rev, add |-> PatchAdd(x),
                                    del |-> PatchDel(gc'[g], x)]
    BY <1>3, Zenon DEF HeldInv
  <2>1. PICK x \in NextPatches(c) :
               held[g] = [group |-> g, rev |-> x.rev, add |-> PatchAdd(x), del |-> PatchDel(c, x)]
    BY <1>1, Zenon DEF HeldInv
  <2>2. x \in c.patches /\ c.live /\ x.rev = c.rev
    BY <2>1, Zenon DEF NextPatches
  <2>3. x.rev # latest[g].rev
    BY <1>1, <1>18, <2>2
  <2>4. x \in gc'[g].patches
    BY <1>9, <2>2, <2>3, Zenon
  <2>5. x \in NextPatches(gc'[g])
    BY <1>9, <2>2, <2>4, Zenon DEF NextPatches
  <2>6. PatchDel(gc'[g], x) = PatchDel(c, x)
    BY <1>9, Zenon DEF PatchDel
  <2> QED
    BY <2>1, <2>5, <2>6, Zenon
<1>23. {"live", "rev", "mem", "patches"} \subseteq DOMAIN gc'[g] /\ latest'[g].rev \in Nat
  BY <1>1, <1>4, <1>9
<1> QED
  BY <1>21, <1>22, <1>23, Zenon DEF GroupInv

\* The next patch of a group, the memberships it leads between, and its effect.
LeadsOn(h, g, exact, e) ==
    /\ gc[g].live /\ e.rev = gc[g].rev /\ gc[g].rev \in Nat
    /\ e.patch = ToGroupMembersPatch(h[gc[g].rev], h[gc[g].rev + 1])
    /\ \A x \in NextPatches(gc[g]) : x = e
    /\ e.rev < latest[g].rev
    /\ Same(gc[g].mem, h[gc[g].rev])
    /\ exact => gc[g].mem = h[gc[g].rev]
    /\ Neat(h[gc[g].rev], g) /\ Neat(h[gc[g].rev + 1], g)
    /\ exact => Steady(h[gc[g].rev], h[gc[g].rev + 1])
    /\ LET d == ApplyPatch(gc[g], e.rev)
       IN /\ d.live = gc[g].live /\ d.rev = gc[g].rev + 1
          /\ d.mem = applyGroupMembersPatch(gc[g].mem, e.patch)
          /\ d.patches = {x \in gc[g].patches : x.rev # e.rev}
          /\ DOMAIN d = DOMAIN gc[g]

LEMMA NextFacts ==
    ASSUME NEW g, NEW h, NEW exact, IsChain(h, g, exact),
           {"live", "rev", "mem", "patches"} \subseteq DOMAIN gc[g],
           latest[g].rev \in Nat, NEW e \in NextPatches(gc[g])
    PROVE  LeadsOn(h, g, exact, e)
<1> DEFINE c == gc[g]
<1>1. e \in c.patches /\ c.live /\ e.rev = c.rev
  BY Zenon DEF NextPatches
<1>2. \A x \in NextPatches(c) : x \in c.patches /\ x.rev = c.rev
  BY Zenon DEF NextPatches
<1>3. \A x \in c.patches : x.rev \in Nat /\ x.rev < latest[g].rev
         /\ x = [rev |-> x.rev, patch |-> ToGroupMembersPatch(h[x.rev], h[x.rev + 1])]
  BY Zenon DEF IsChain
<1>4. \A x \in NextPatches(c) : x = e
  BY <1>1, <1>2, <1>3, Zenon
<1>5. e.patch = ToGroupMembersPatch(h[e.rev], h[e.rev + 1])
  BY <1>1, <1>3
<1>6. /\ c.rev \in Nat /\ c.rev <= latest[g].rev /\ Same(c.mem, h[c.rev])
      /\ (exact => c.mem = h[c.rev])
  BY <1>1, Zenon DEF IsChain
<1>7. c.rev + 1 \in Nat
  BY <1>6
<1>8. Neat(h[c.rev], g) /\ Neat(h[c.rev + 1], g) /\ (exact => Steady(h[c.rev], h[c.rev + 1]))
  BY <1>6, <1>7, Zenon DEF IsChain
<1>9. (CHOOSE x \in NextPatches(c) : TRUE) = e
  BY <1>4, Zenon
<1>10. ApplyPatch(c, e.rev) = [c EXCEPT !.mem = applyGroupMembersPatch(@, e.patch),
                                        !.rev = e.rev + 1,
                                        !.patches = {x \in @ : x.rev # e.rev}]
  <2>1. ~(NextPatches(c) = {} \/ e.rev # c.rev)
    BY <1>1, Zenon
  <2> QED
    BY <1>9, <2>1, Zenon DEF ApplyPatch
<1> HIDE DEF c
<1>11. LET d == ApplyPatch(c, e.rev)
       IN /\ d.live = c.live /\ d.rev = c.rev + 1
          /\ d.mem = applyGroupMembersPatch(c.mem, e.patch)
          /\ d.patches = {x \in c.patches : x.rev # e.rev}
          /\ DOMAIN d = DOMAIN c
  <2>1. {"live", "rev", "mem", "patches"} \subseteq DOMAIN c
    BY Zenon DEF c
  <2> QED
    BY <1>1, <1>10, <2>1, Zenon
<1> QED
  BY <1>1, <1>3, <1>4, <1>5, <1>6, <1>8, <1>11, Zenon DEF LeadsOn, c

\* In the exact case the result of a patch is the next membership itself.
LEMMA ExactApply ==
    ASSUME NEW n \in Members, NEW k \in Members, Steady(n, k)
    PROVE  applyGroupMembersPatch(n, ToGroupMembersPatch(n, k)) = k
<1> DEFINE P == ToGroupMembersPatch(n, k)
           q == applyGroupMembersPatch(n, P)
<1>1. /\ DOMAIN q = DOMAIN k
      /\ \A r \in DOMAIN P.added : q[r] = k[r]
      /\ DOMAIN P.updated = {r \in DOMAIN k \cap DOMAIN n : k[r].addr # n[r].addr}
      /\ \A r \in DOMAIN P.updated : q[r] = k[r]
      /\ \A r \in DOMAIN k \ (DOMAIN P.added \cup DOMAIN P.updated) :
            r \in DOMAIN n /\ q[r] = n[r]
  <2>1. Same(n, n)
    BY SameReflexive, Zenon
  <2>2. P = ToGroupMembersPatch(n, k)
    BY Zenon
  <2> HIDE DEF P
  <2> QED
    BY <2>1, <2>2, ApplyFacts
<1>2. q = [r \in DOMAIN q |-> q[r]]
  BY Zenon DEF applyGroupMembersPatch
<1>3. k = [r \in DOMAIN k |-> k[r]]
  BY Zenon DEF Members
<1> HIDE DEF q, P
<1>4. \A r \in DOMAIN k : q[r] = k[r]
  BY <1>1, Zenon DEF Steady
<1>5. q = k
  BY <1>1, <1>2, <1>3, <1>4, Zenon
<1> QED
  BY <1>5, Zenon DEF q, P

LEMMA PatchGroup ==
    ASSUME NEW g \in Groups, NEW exact, CacheInv(exact), ReconcilePatch(g)
    PROVE  GroupInv(g, exact)'
<1> DEFINE c == gc[g]
<1>1. /\ {"live", "rev", "mem", "patches"} \subseteq DOMAIN c /\ latest[g].rev \in Nat
      /\ HeldInv(g) /\ g \in DOMAIN gc /\ g \in DOMAIN held
  BY Zenon DEF CacheInv
<1>2. PICK h : IsChain(h, g, exact)
  BY Zenon DEF CacheInv
<1>3. held[g] # NoPatch /\ gc' = [gc EXCEPT ![g] = ApplyPatch(@, held[g].rev)]
      /\ held' = [held EXCEPT ![g] = NoPatch] /\ latest' = latest
  BY Zenon DEF ReconcilePatch
<1>4. PICK e \in NextPatches(c) :
         held[g] = [group |-> g, rev |-> e.rev, add |-> PatchAdd(e), del |-> PatchDel(c, e)]
  BY <1>1, <1>3, Zenon DEF HeldInv
<1>5. held[g].rev = e.rev
  BY <1>4
<1>6. gc'[g] = ApplyPatch(c, e.rev) /\ held'[g] = NoPatch /\ latest'[g] = latest[g]
  BY <1>1, <1>3, <1>5, Zenon
<1>7. /\ c.live /\ e.rev = c.rev /\ c.rev \in Nat
      /\ e.patch = ToGroupMembersPatch(h[c.rev], h[c.rev + 1])
      /\ e.rev < latest[g].rev
      /\ Same(c.mem, h[c.rev])
      /\ exact => c.mem = h[c.rev]
      /\ exact => Steady(h[c.rev], h[c.rev + 1])
      /\ gc'[g].rev = c.rev + 1
      /\ gc'[g].mem = applyGroupMembersPatch(c.mem, e.patch)
      /\ gc'[g].patches = {x \in c.patches : x.rev # e.rev}
      /\ DOMAIN gc'[g] = DOMAIN c
  <2>1. LeadsOn(h, g, exact, e)
    BY <1>1, <1>2, NextFacts, Zenon
  <2> QED
    BY <1>6, <2>1, Zenon DEF LeadsOn
<1> HIDE DEF c
<1>8. c.rev + 1 \in Nat /\ c.rev + 1 <= latest[g].rev
  BY <1>1, <1>7
<1>9. h[c.rev] \in Members /\ h[c.rev + 1] \in Members
  BY <1>2, <1>7, <1>8, Zenon DEF IsChain
<1>10. Same(gc'[g].mem, h[c.rev + 1])
  <2>1. LET q == applyGroupMembersPatch(c.mem, e.patch)
        IN /\ DOMAIN q = DOMAIN h[c.rev + 1]
           /\ \A r \in DOMAIN h[c.rev + 1] : q[r].addr = h[c.rev + 1][r].addr
    BY <1>7, ApplyFacts
  <2> QED
    BY <1>7, <2>1, Zenon DEF Same
<1>11. exact => gc'[g].mem = h[c.rev + 1]
  <2> DEFINE n == h[c.rev]
             k == h[c.rev + 1]
  <2> HIDE DEF n, k
  <2>1. n \in Members /\ k \in Members
    BY <1>9, Zenon DEF n, k
  <2>2. Steady(n, k) => applyGroupMembersPatch(n, ToGroupMembersPatch(n, k)) = k
    BY <2>1, ExactApply, Zenon
  <2> QED
    BY <1>7, <2>2, Zenon DEF n, k
<1>12. IsChain(h, g, exact)'
  <2>1. \A x \in gc'[g].patches : x \in c.patches
    BY <1>7, Zenon
  <2> QED
    BY <1>2, <1>6, <1>7, <1>8, <1>10, <1>11, <2>1, Zenon DEF IsChain, c
<1>13. HeldInv(g)'
  BY <1>6, Zenon DEF HeldInv
<1> QED
  BY <1>1, <1>6, <1>7, <1>12, <1>13, Zenon DEF GroupInv

LEMMA CreateGroup ==
    ASSUME NEW g \in Groups, NEW exact, CacheInv(exact), MembersCreated(g)
    PROVE  GroupInv(g, exact)'
<1> DEFINE c == gc[g]
<1>1. /\ latest[g].rev \in Nat /\ HeldInv(g) /\ g \in DOMAIN gc
  BY Zenon DEF CacheInv
<1>2. PICK h : IsChain(h, g, exact)
  BY Zenon DEF CacheInv
<1>3. ~c.live /\ gc' = [gc EXCEPT ![g] = AddGroupMembership(@, latest[g])]
      /\ held' = held /\ latest' = latest
  BY Zenon DEF MembersCreated
<1>4. gc'[g] = [live |-> TRUE, rev |-> latest[g].rev, mem |-> latest[g].mem,
                patches |-> {x \in c.patches : x.rev >= latest[g].rev}]
  BY <1>1, <1>3, Zenon DEF AddGroupMembership
<1>5. \A x \in c.patches : x.rev \in Nat /\ x.rev < latest[g].rev
  BY <1>2, Zenon DEF IsChain
<1>6. {x \in c.patches : x.rev >= latest[g].rev} = {}
  BY <1>1, <1>5
<1>7. /\ {"live", "rev", "mem", "patches"} \subseteq DOMAIN gc'[g]
      /\ gc'[g].rev = latest[g].rev /\ gc'[g].mem = latest[g].mem /\ gc'[g].patches = {}
  BY <1>4, <1>6
<1>8. latest[g].rev <= latest[g].rev
  BY <1>1
<1>9. IsChain(h, g, exact)'
  <2>1. Same(latest[g].mem, h[latest[g].rev]) /\ latest[g].mem = h[latest[g].rev]
    BY <1>2, SameReflexive, Zenon DEF IsChain
  <2>2. latest'[g] = latest[g]
    BY <1>3, Zenon
  <2>3. /\ h \in [Nat -> Members]
        /\ \A n \in Nat : Neat(h[n], g) /\ (exact => Steady(h[n], h[n + 1]))
    BY <1>2, Zenon DEF IsChain
  <2>4. \A x \in gc'[g].patches : FALSE
    BY <1>7, Zenon
  <2> QED
    BY <1>1, <1>7, <1>8, <2>1, <2>2, <2>3, <2>4, Zenon DEF IsChain
<1>10. held[g] = NoPatch
  BY <1>1, <1>3, Zenon DEF HeldInv, NextPatches
<1>11. HeldInv(g)'
  BY <1>3, <1>10, Zenon DEF HeldInv
<1> QED
  BY <1>1, <1>3, <1>7, <1>9, <1>11, Zenon DEF GroupInv

LEMMA NextGroup ==
    ASSUME NEW g \in Groups, NEW exact, CacheInv(exact), NextPatch(g)
    PROVE  GroupInv(g, exact)'
<1> DEFINE c == gc[g]
           e == CHOOSE x \in NextPatches(c) : TRUE
<1>1. GroupInv(g, exact) /\ g \in DOMAIN held
  BY Zenon DEF CacheInv, GroupInv
<1>2. gc' = gc /\ latest' = latest
      /\ held'[g] = IF NextPatches(c) = {} THEN NoPatch
                    ELSE [group |-> g, rev |-> e.rev, add |-> PatchAdd(e), del |-> PatchDel(c, e)]
  BY <1>1, Zenon DEF NextPatch
<1>3. NextPatches(c) # {} => e \in NextPatches(c)
  BY Zenon
<1>4. HeldInv(g)'
  <2> HIDE DEF e, c
  <2>1. held'[g] # NoPatch => \E x \in NextPatches(c) :
           held'[g] = [group |-> g, rev |-> x.rev, add |-> PatchAdd(x), del |-> PatchDel(c, x)]
    BY <1>2, <1>3, Zenon
  <2> QED
    BY <1>2, <2>1, Zenon DEF HeldInv, c
<1>5. PICK h : IsChain(h, g, exact)
  BY <1>1, Zenon DEF GroupInv
<1>6. IsChain(h, g, exact)'
  BY <1>2, <1>5, ChainFrame, Zenon
<1> QED
  BY <1>1, <1>2, <1>4, <1>6, Zenon DEF GroupInv

\* What a step does to the groups it is not about.
LEMMA CacheKept ==
    ASSUME Separated, NEW exact, CacheInv(exact), [Next]_vars, exact => PortsSteady
    PROVE  CacheInv(exact)'
<1>1. DOMAIN gc = Groups /\ DOMAIN latest = Groups /\ DOMAIN held = Groups
      /\ \A g \in Groups : GroupInv(g, exact)
  BY Zenon DEF CacheInv, GroupInv
<1>2. ASSUME NEW g \in Groups, DOMAIN gc' = Groups, DOMAIN latest' = Groups, DOMAIN held' = Groups,
             GroupInv(g, exact)',
             \A k \in Groups : k # g => gc'[k] = gc[k] /\ latest'[k] = latest[k]
                                        /\ held'[k] = held[k]
      PROVE  CacheInv(exact)'
  <2>1. \A k \in Groups : k # g => GroupInv(k, exact)'
    BY <1>1, <1>2, GroupFrame, Zenon
  <2>2. \A k \in Groups : GroupInv(k, exact)'
    BY <1>2, <2>1, Zenon
  <2> QED
    BY <1>2, <2>2, Zenon DEF CacheInv, GroupInv
<1>3. CASE \E g \in Groups, m \in Members : Publish(g, m)
  <2>1. PICK g \in Groups, m \in Members : Publish(g, m)
    BY <1>3, Zenon
  <2>2. GroupInv(g, exact)'
    BY <2>1, PublishGroup, Zenon DEF Separated
  <2>3. /\ DOMAIN gc' = Groups /\ DOMAIN latest' = Groups /\ DOMAIN held' = Groups
        /\ \A k \in Groups : k # g => gc'[k] = gc[k] /\ latest'[k] = latest[k]
                                      /\ held'[k] = held[k]
    BY <1>1, <2>1, Zenon DEF Publish
  <2> QED
    BY <1>2, <2>2, <2>3, Zenon
<1>4. CASE \E g \in Groups : MembersCreated(g)
  <2>1. PICK g \in Groups : MembersCreated(g)
    BY <1>4, Zenon
  <2>2. GroupInv(g, exact)'
    BY <2>1, CreateGroup, Zenon
  <2>3. /\ DOMAIN gc' = Groups /\ DOMAIN latest' = Groups /\ DOMAIN held' = Groups
        /\ \A k \in Groups : k # g => gc'[k] = gc[k] /\ latest'[k] = latest[k]
                                      /\ held'[k] = held[k]
    BY <1>1, <2>1, Zenon DEF MembersCreated
  <2> QED
    BY <1>2, <2>2, <2>3, Zenon
<1>5. CASE \E g \in Groups : NextPatch(g)
  <2>1. PICK g \in Groups : NextPatch(g)
    BY <1>5, Zenon
  <2>2. GroupInv(g, exact)'
    BY <2>1, NextGroup, Zenon
  <2>3. /\ DOMAIN gc' = Groups /\ DOMAIN latest' = Groups /\ DOMAIN held' = Groups
        /\ \A k \in Groups : k # g => gc'[k] = gc[k] /\ latest'[k] = latest[k]
                                      /\ held'[k] = held[k]
    BY <1>1, <2>1, Zenon DEF NextPatch
  <2> QED
    BY <1>2, <2>2, <2>3, Zenon
<1>6. CASE \E g \in Groups : ReconcilePatch(g)
  <2>1. PICK g \in Groups : ReconcilePatch(g)
    BY <1>6, Zenon
  <2>2. GroupInv(g, exact)'
    BY <2>1, PatchGroup, Zenon
  <2>3. /\ DOMAIN gc' = Groups /\ DOMAIN latest' = Groups /\ DOMAIN held' = Groups
        /\ \A k \in Groups : k # g => gc'[k] = gc[k] /\ latest'[k] = latest[k]
                                      /\ held'[k] = held[k]
    BY <1>1, <2>1, Zenon DEF ReconcilePatch
  <2> QED
    BY <1>2, <2>2, <2>3, Zenon
<1>7. CASE UNCHANGED <<gc, latest, held>>
  <2>1. gc' = gc /\ latest' = latest /\ held' = held
    BY <1>7, Zenon
  <2>2. \A k \in Groups : GroupInv(k, exact)'
    BY <1>1, <2>1, GroupFrame, Zenon
  <2> QED
    BY <1>1, <2>1, <2>2, Zenon DEF CacheInv, GroupInv
<1> QED
  <2>1. (\E p \in Policies \cup {NoPolicy} : PolicyEvent(p)) \/ ReconcilePolicy \/ UNCHANGED vars
           => UNCHANGED <<gc, latest, held>>
    BY Zenon DEF PolicyEvent, ReconcilePolicy, vars
  <2> QED
    BY <1>3, <1>4, <1>5, <1>6, <1>7, <2>1, Zenon DEF Next

LEMMA BlocksAreItems ==
    ASSUME NEW M
    PROVE  AreItems(IPBlocks(M))
<1> DEFINE B == IPBlocks(M)
           F(ip) == [agents |-> UNION {x.addr.agents : x \in {y \in M : ip \in y.addr.ips}},
                     static |-> 0,
                     ports |-> UNION {x.ports : x \in {y \in M : ip \in y.addr.ips}}]
<1>1. B = [ip \in UNION {x.addr.ips : x \in M} |-> F(ip)]
  BY Zenon DEF IPBlocks
<1>2. B = [ip \in DOMAIN B |-> B[ip]]
  BY Zenon DEF IPBlocks
<1>3. \A ip \in DOMAIN B : B[ip] = F(ip)
  BY <1>1, Zenon
<1>4. \A ip \in DOMAIN B : B[ip] = [agents |-> B[ip].agents, static |-> B[ip].static,
                                    ports |-> B[ip].ports]
  <2> TAKE ip \in DOMAIN B
  <2>1. PICK a, b : F(ip) = [agents |-> a, static |-> 0, ports |-> b]
    BY Zenon
  <2>2. B[ip] = [agents |-> a, static |-> 0, ports |-> b]
    BY <1>3, <2>1, Zenon
  <2> HIDE DEF B, F
  <2> QED
    BY <2>2, Zenon
<1> HIDE DEF B
<1> QED
  BY <1>2, <1>4, Zenon DEF AreItems, B

\* What ReconcilePatch applies to the rules is what it does to the group.
LEMMA PatchFacts ==
    ASSUME NEW g \in Groups, NEW exact, CacheInv(exact), ReconcilePatch(g)
    PROVE  /\ Patches(held[g], g, gc, gc')
           /\ exact => \A ip \in DOMAIN held[g].del :
                          ListGroupIPBlocks(gc[g])[ip] = held[g].del[ip]
<1> DEFINE c == gc[g]
<1>1. /\ {"live", "rev", "mem", "patches"} \subseteq DOMAIN c /\ latest[g].rev \in Nat
      /\ HeldInv(g) /\ g \in DOMAIN gc
  BY Zenon DEF CacheInv
<1>2. PICK h : IsChain(h, g, exact)
  BY Zenon DEF CacheInv
<1>3. held[g] # NoPatch /\ gc' = [gc EXCEPT ![g] = ApplyPatch(@, held[g].rev)]
  BY Zenon DEF ReconcilePatch
<1>4. PICK e \in NextPatches(c) :
         held[g] = [group |-> g, rev |-> e.rev, add |-> PatchAdd(e), del |-> PatchDel(c, e)]
  BY <1>1, <1>3, Zenon DEF HeldInv
<1>5. /\ held[g].group = g /\ held[g].rev = e.rev
      /\ held[g].add = PatchAdd(e) /\ held[g].del = PatchDel(c, e)
  BY <1>4
<1>6. gc'[g] = ApplyPatch(c, e.rev)
  BY <1>1, <1>3, <1>5, Zenon
<1>7. /\ e.rev = c.rev
      /\ e.patch = ToGroupMembersPatch(h[c.rev], h[c.rev + 1])
      /\ Same(c.mem, h[c.rev])
      /\ Neat(h[c.rev], g) /\ Neat(h[c.rev + 1], g)
      /\ exact => c.mem = h[c.rev]
      /\ gc'[g].rev = c.rev + 1
      /\ gc'[g].mem = applyGroupMembersPatch(c.mem, e.patch)
  <2>1. LeadsOn(h, g, exact, e)
    BY <1>1, <1>2, NextFacts, Zenon
  <2> QED
    BY <1>6, <2>1, Zenon DEF LeadsOn
<1>8. \A k \in Groups : k # g => gc'[k] = gc[k]
  BY <1>3, Zenon DEF CacheInv
<1> HIDE DEF c
<1>9. GroupPatched(c, h[c.rev], e, g)
  BY <1>7, GroupReplaced, Zenon
<1>10. AreItems(PatchAdd(e))
  BY BlocksAreItems, Zenon DEF PatchAdd
<1>11. /\ Replaced(ListGroupIPBlocks(c), held[g].add, held[g].del, ListGroupIPBlocks(gc'[g]))
       /\ DOMAIN held[g].add \cup DOMAIN held[g].del \subseteq Pool[g]
  BY <1>5, <1>7, <1>9, Zenon DEF ListGroupIPBlocks, GroupPatched
<1>12. exact => \A ip \in DOMAIN held[g].del : ListGroupIPBlocks(c)[ip] = held[g].del[ip]
  BY <1>5, <1>7, <1>9, Zenon DEF ListGroupIPBlocks, GroupPatched
<1> QED
  BY <1>5, <1>7, <1>8, <1>10, <1>11, <1>12, Zenon DEF Patches, c

------------------------------------------------------------------------------
(* The rules. *)

\* The groups of the policy that is expanded are cached, and the rules are current.
RulesInv ==
    /\ policy \in Policies \cup {NoPolicy} /\ applied \in Policies \cup {NoPolicy}
    /\ applied # NoPolicy => \A g \in NeededGroups(applied) : gc[g].live
    /\ RulesCurrent

LEMMA NeededAreGroups ==
    ASSUME NEW p, \A peers \in PeersOf(p) : Apart(peers), NEW g \in NeededGroups(p)
    PROVE  g \in Groups
<1>1. \A r \in p.ingress \cup p.egress : r.peers \in PeersOf(p)
  BY Zenon DEF PeersOf
<1>2. p.applied \in PeersOf(p)
  BY Zenon DEF PeersOf
<1>3. \A peers \in PeersOf(p) : peers.groups \subseteq Groups
  BY Zenon DEF Apart
<1>4. \/ g \in p.applied.groups
      \/ \E r \in p.ingress : g \in r.peers.groups
      \/ \E r \in p.egress : g \in {AllEps} \/ g \in r.peers.groups
  BY Zenon DEF NeededGroups
<1> QED
  BY <1>1, <1>2, <1>3, <1>4, AllEpsAssumption, Zenon

LEMMA PatchKeepsLive ==
    ASSUME NEW exact, CacheInv(exact), NEW g \in Groups, ReconcilePatch(g), NEW k \in Groups,
           gc[k].live
    PROVE  gc'[k].live
<1>1. gc' = [gc EXCEPT ![g] = ApplyPatch(@, held[g].rev)] /\ g \in DOMAIN gc
  BY Zenon DEF ReconcilePatch, CacheInv
<1>2. k # g => gc'[k] = gc[k]
  BY <1>1, Zenon DEF CacheInv
<1>3. gc'[g] = ApplyPatch(gc[g], held[g].rev)
  BY <1>1, Zenon
<1>4. {"live", "rev", "mem", "patches"} \subseteq DOMAIN gc[g]
  BY Zenon DEF CacheInv
<1>5. gc'[g].live = gc[g].live
  BY <1>3, <1>4 DEF ApplyPatch
<1> QED
  BY <1>2, <1>5, Zenon

LEMMA LiveOwned ==
    ASSUME NEW exact, CacheInv(exact), NEW groups, groups \subseteq Groups,
           \A g \in groups : gc[g].live
    PROVE  Owned(gc, groups)
<1> SUFFICES ASSUME NEW g \in groups
             PROVE  \A r \in DOMAIN gc[g].mem : IPsOf(gc[g].mem[r]) \subseteq Pool[g]
  BY Zenon DEF Owned
<1>1. g \in Groups /\ gc[g].live
  BY Zenon
<1>2. PICK h : IsChain(h, g, exact)
  BY <1>1, Zenon DEF CacheInv
<1>3. gc[g].rev \in Nat /\ Same(gc[g].mem, h[gc[g].rev])
  BY <1>1, <1>2, Zenon DEF IsChain
<1>4. Neat(h[gc[g].rev], g)
  BY <1>2, <1>3, Zenon DEF IsChain
<1>5. Neat(gc[g].mem, g)
  BY <1>3, <1>4, NeatSame, Zenon
<1> QED
  BY <1>5, Zenon DEF Neat

LEMMA LiveOwnedNext ==
    ASSUME NEW exact, CacheInv(exact)', NEW groups, groups \subseteq Groups,
           \A g \in groups : gc'[g].live
    PROVE  Owned(gc', groups)
<1> SUFFICES ASSUME NEW g \in groups
             PROVE  \A r \in DOMAIN gc'[g].mem : IPsOf(gc'[g].mem[r]) \subseteq Pool[g]
  BY Zenon DEF Owned
<1>1. g \in Groups /\ gc'[g].live
  BY Zenon
<1>2. PICK h : IsChain(h, g, exact)'
  BY <1>1, Zenon DEF CacheInv
<1>3. gc'[g].rev \in Nat /\ Same(gc'[g].mem, h[gc'[g].rev])
  BY <1>1, <1>2, Zenon DEF IsChain
<1>4. Neat(h[gc'[g].rev], g)
  BY <1>2, <1>3, Zenon DEF IsChain
<1>5. Neat(gc'[g].mem, g)
  BY <1>3, <1>4, NeatSame, Zenon
<1> QED
  BY <1>5, Zenon DEF Neat

LEMMA InitRules ==
    ASSUME Init
    PROVE  RulesInv
BY Zenon DEF Init, RulesInv, RulesCurrent

\* A step that keeps the rules, and the revision and members of the cached groups.
LEMMA RulesFrame ==
    ASSUME Separated, RulesInv, policy' \in Policies \cup {NoPolicy},
           applied' = applied, rules' = rules,
           \A g \in Groups : gc[g].live =>
              gc'[g].live /\ gc'[g].rev = gc[g].rev /\ gc'[g].mem = gc[g].mem
    PROVE  RulesInv'
<1>1. CASE applied = NoPolicy
  BY <1>1, Zenon DEF RulesInv, RulesCurrent
<1>2. CASE applied # NoPolicy
  <2>1. applied \in Policies /\ rules = completePolicy(gc, applied)
        /\ \A g \in NeededGroups(applied) : gc[g].live
    BY <1>2, Zenon DEF RulesInv, RulesCurrent
  <2>2. \A peers \in PeersOf(applied) : Apart(peers)
    BY <2>1, Zenon DEF Separated
  <2>3. \A g \in NeededGroups(applied) : g \in Groups
    BY <2>2, NeededAreGroups, Zenon
  <2>4. \A g \in NeededGroups(applied) : gc'[g].live /\ gc'[g].rev = gc[g].rev
                                         /\ gc'[g].mem = gc[g].mem
    BY <2>1, <2>3, Zenon
  <2>5. completePolicy(gc', applied) = completePolicy(gc, applied)
    BY <2>2, <2>4, PolicyFrame, Zenon
  <2> QED
    BY <1>2, <2>1, <2>4, <2>5, Zenon DEF RulesInv, RulesCurrent
<1> QED
  BY <1>1, <1>2, Zenon

LEMMA RulesKept ==
    ASSUME Separated, NEW exact, CacheInv(exact), CacheInv(exact)', RulesInv, [Next]_vars
    PROVE  RulesInv'
<1>1. policy \in Policies \cup {NoPolicy} /\ DOMAIN gc = Groups
      /\ \A g \in Groups : {"live", "rev", "mem", "patches"} \subseteq DOMAIN gc[g]
  BY Zenon DEF RulesInv, CacheInv
<1>2. ASSUME NEW g \in Groups, NEW m \in Members, Publish(g, m)
      PROVE  RulesInv'
  <2>1. /\ policy' = policy /\ applied' = applied /\ rules' = rules
        /\ gc' = [gc EXCEPT ![g] = AddPatch(@, [rev |-> latest[g].rev,
                     patch |-> ToGroupMembersPatch(latest[g].mem, m)])]
    BY <1>2, Zenon DEF Publish
  <2>2. PICK e : gc' = [gc EXCEPT ![g] = AddPatch(@, e)]
    BY <2>1, Zenon
  <2>3. gc'[g] = AddPatch(gc[g], e) /\ \A k \in Groups : k # g => gc'[k] = gc[k]
    BY <1>1, <2>2, Zenon
  <2>4. gc'[g].live = gc[g].live /\ gc'[g].rev = gc[g].rev /\ gc'[g].mem = gc[g].mem
    BY <1>1, <2>3, Zenon DEF AddPatch
  <2>5. \A k \in Groups : gc[k].live =>
           gc'[k].live /\ gc'[k].rev = gc[k].rev /\ gc'[k].mem = gc[k].mem
    BY <2>3, <2>4, Zenon
  <2> QED
    BY <1>1, <2>1, <2>5, RulesFrame, Zenon
<1>3. ASSUME NEW g \in Groups, MembersCreated(g)
      PROVE  RulesInv'
  <2>1. /\ policy' = policy /\ applied' = applied /\ rules' = rules /\ ~gc[g].live
        /\ \A k \in Groups : k # g => gc'[k] = gc[k]
    BY <1>1, <1>3, Zenon DEF MembersCreated
  <2>2. \A k \in Groups : gc[k].live =>
           gc'[k].live /\ gc'[k].rev = gc[k].rev /\ gc'[k].mem = gc[k].mem
    BY <2>1, Zenon
  <2> QED
    BY <1>1, <2>1, <2>2, RulesFrame, Zenon
<1>4. ASSUME policy' \in Policies \cup {NoPolicy}, UNCHANGED <<gc, rules, applied>>
      PROVE  RulesInv'
  <2>1. gc' = gc /\ rules' = rules /\ applied' = applied
    BY <1>4, Zenon
  <2> QED
    BY <1>4, <2>1, RulesFrame, Zenon
<1>5. CASE ReconcilePolicy
  <2>1. applied' = policy /\ policy' = policy /\ gc' = gc
        /\ (policy = NoPolicy => rules' = {})
        /\ (policy # NoPolicy => rules' = completePolicy(gc, policy)
                                 /\ \A g \in NeededGroups(policy) : gc[g].live)
    BY <1>5, Zenon DEF ReconcilePolicy
  <2> QED
    BY <1>1, <2>1, Zenon DEF RulesInv, RulesCurrent
<1>6. ASSUME NEW g \in Groups, ReconcilePatch(g)
      PROVE  RulesInv'
  <2> DEFINE hit == {r \in rules : g \in DOMAIN r.srcGroups \cup DOMAIN r.dstGroups}
  <2>1. /\ policy' = policy /\ applied' = applied
        /\ rules' = (rules \ hit) \cup {RuleApplyPatch(r, held[g]) : r \in hit}
    BY <1>6, Zenon DEF ReconcilePatch
  <2>2. Patches(held[g], g, gc, gc')
    BY <1>6, PatchFacts, Zenon
  <2>3. \A k \in Groups : gc[k].live => gc'[k].live
    BY <1>1, <1>6, PatchKeepsLive, Zenon
  <2>4. CASE applied = NoPolicy
    <3>1. rules = {}
      BY <2>4, Zenon DEF RulesInv, RulesCurrent
    <3>2. rules' = {}
      BY <2>1, <3>1, Zenon
    <3> QED
      BY <1>1, <2>1, <2>4, <3>2, Zenon DEF RulesInv, RulesCurrent
  <2>5. CASE applied # NoPolicy
    <3>1. applied \in Policies /\ rules = completePolicy(gc, applied)
          /\ \A k \in NeededGroups(applied) : gc[k].live
      BY <2>5, Zenon DEF RulesInv, RulesCurrent
    <3>2. \A peers \in PeersOf(applied) : Apart(peers)
      BY <3>1, Zenon DEF Separated
    <3>3. NeededGroups(applied) \subseteq Groups
      BY <3>2, NeededAreGroups, Zenon
    <3>4. \A k \in NeededGroups(applied) : gc'[k].live
      BY <2>3, <3>1, <3>3, Zenon
    <3>5. Owned(gc, NeededGroups(applied))
      BY <3>1, <3>3, LiveOwned, Zenon
    <3>6. Owned(gc', NeededGroups(applied))
      BY <3>3, <3>4, LiveOwnedNext, Zenon
    <3>7. (rules \ hit) \cup {RuleApplyPatch(r, held[g]) : r \in hit}
             = completePolicy(gc', applied)
      <4>1. hit = {r \in rules : g \in DOMAIN r.srcGroups \cup DOMAIN r.dstGroups}
        BY Zenon
      <4> HIDE DEF hit
      <4> QED
        <5>1. Hits(held[g], g, gc, gc', applied, rules, hit)
          BY <2>2, <3>1, <3>2, <3>5, <3>6, <4>1, Zenon DEF Hits
        <5> QED
          BY <5>1, PolicyPatched
    <3> QED
      BY <1>1, <2>1, <3>4, <3>7, Zenon DEF RulesInv, RulesCurrent
  <2> QED
    BY <2>4, <2>5, Zenon
<1> QED
  <2>1. ASSUME NEW p \in Policies \cup {NoPolicy}, PolicyEvent(p)
        PROVE  policy' \in Policies \cup {NoPolicy} /\ UNCHANGED <<gc, rules, applied>>
    BY <2>1, Zenon DEF PolicyEvent
  <2>2. ASSUME NEW g \in Groups, NextPatch(g)
        PROVE  policy' \in Policies \cup {NoPolicy} /\ UNCHANGED <<gc, rules, applied>>
    BY <1>1, <2>2, Zenon DEF NextPatch
  <2>3. UNCHANGED vars => policy' \in Policies \cup {NoPolicy} /\ UNCHANGED <<gc, rules, applied>>
    BY <1>1, Zenon DEF vars
  <2> QED
    BY <1>2, <1>3, <1>4, <1>5, <1>6, <2>1, <2>2, <2>3, Zenon DEF Next

\* The complete rules that the agent keeps by applying every group's patches to
\* them (ReconcilePatch and RuleApplyPatch) are always the ones a full expansion of
\* the policy from the group cache would give (completePolicy), whatever the order
\* of patches, group events and policy changes, if no address belongs to two
\* members of a group or to two peers of one side of a rule.
THEOREM PatchedRules == ASSUME Separated PROVE Spec => []RulesCurrent
<1>1. Init => CacheInv(FALSE) /\ RulesInv
  BY InitCache, InitRules, Zenon
<1>2. CacheInv(FALSE) /\ RulesInv /\ [Next]_vars => (CacheInv(FALSE) /\ RulesInv)'
  <2> SUFFICES ASSUME CacheInv(FALSE), RulesInv, [Next]_vars
               PROVE  CacheInv(FALSE)' /\ RulesInv'
    BY Zenon
  <2>1. CacheInv(FALSE)'
    BY CacheKept, Zenon
  <2>2. RulesInv'
    BY <2>1, RulesKept, Zenon
  <2> QED
    BY <2>1, <2>2, Zenon
<1>3. CacheInv(FALSE) /\ RulesInv => RulesCurrent
  BY Zenon DEF RulesInv
<1> QED
  BY <1>1, <1>2, <1>3, PTL DEF Spec

------------------------------------------------------------------------------
(* The PolicyRules of the datapath. *)

PortsFor(rule, d) == UNION {resolveDstPort(n, d) : n \in rule.ports}

\* q is a PolicyRule of the rule for items s and d of its source and destination.
Fits(rule, q, s, d) ==
    /\ q.src # q.dst \/ q.src = AnyIP
    /\ q = [id |-> rule.id, src |-> q.src, dst |-> q.dst, dir |-> q.dir, port |-> q.port]
    /\ q.dir \in Directions(rule, s, d)
    /\ q.port \in PortsFor(rule, d)

Cell(rule, srcs, dsts, s, d) ==
    IF s = d /\ s # AnyIP THEN {}
    ELSE {[id |-> rule.id, src |-> s, dst |-> d, dir |-> dir, port |-> n] :
            dir \in Directions(rule, srcs[s], dsts[d]), n \in PortsFor(rule, dsts[d])}

LEMMA InCell ==
    ASSUME NEW rule, NEW srcs, NEW dsts, NEW s, NEW d, NEW q
    PROVE  q \in Cell(rule, srcs, dsts, s, d)
             <=> q.src = s /\ q.dst = d /\ Fits(rule, q, srcs[s], dsts[d])
<1>1. q \in Cell(rule, srcs, dsts, s, d)
        <=> /\ s # d \/ s = AnyIP
            /\ \E dir \in Directions(rule, srcs[s], dsts[d]), n \in PortsFor(rule, dsts[d]) :
                  q = [id |-> rule.id, src |-> s, dst |-> d, dir |-> dir, port |-> n]
  BY DEF Cell
<1>2. ASSUME NEW dir, NEW n, q = [id |-> rule.id, src |-> s, dst |-> d, dir |-> dir, port |-> n]
      PROVE  q.src = s /\ q.dst = d /\ q.dir = dir /\ q.port = n
  BY <1>2, Zenon
<1>3. ASSUME q \in Cell(rule, srcs, dsts, s, d)
      PROVE  q.src = s /\ q.dst = d /\ Fits(rule, q, srcs[s], dsts[d])
  BY <1>1, <1>2, <1>3, Zenon DEF Fits
<1>4. ASSUME q.src = s, q.dst = d, Fits(rule, q, srcs[s], dsts[d])
      PROVE  q \in Cell(rule, srcs, dsts, s, d)
  BY <1>1, <1>4, Zenon DEF Fits
<1> QED
  BY <1>3, <1>4, Zenon

LEMMA Generated ==
    ASSUME NEW rule, NEW srcs, NEW dsts, NEW q
    PROVE  q \in generateRuleList(rule, srcs, dsts)
             <=> q.src \in DOMAIN srcs /\ q.dst \in DOMAIN dsts
                 /\ Fits(rule, q, srcs[q.src], dsts[q.dst])
<1>1. generateRuleList(rule, srcs, dsts)
        = UNION {Cell(rule, srcs, dsts, s, d) : s \in DOMAIN srcs, d \in DOMAIN dsts}
  BY DEF generateRuleList, Cell, PortsFor
<1>2. q \in generateRuleList(rule, srcs, dsts)
        <=> \E s \in DOMAIN srcs, d \in DOMAIN dsts : q \in Cell(rule, srcs, dsts, s, d)
  BY <1>1
<1> QED
  BY <1>2, InCell, SMTT(20)

\* What the patch of a group means for one side of a rule.
SideChanged(p, g, peers, b, b2) ==
    /\ g \in peers.groups => /\ Replaced(b, p.add, p.del, b2)
                             /\ \A ip \in DOMAIN p.del : b[ip] = p.del[ip]
    /\ g \notin peers.groups => b2 = b

LEMMA SideReplaced ==
    ASSUME NEW p, NEW g, NEW G, NEW G2, Patches(p, g, G, G2), NEW peers, Apart(peers),
           Owned(G, peers.groups), Owned(G2, peers.groups),
           \A ip \in DOMAIN p.del : ListGroupIPBlocks(G[g])[ip] = p.del[ip]
    PROVE  /\ Concerns(Side(G, peers).groups, p) <=> g \in peers.groups
           /\ SideChanged(p, g, peers, Side(G, peers).blocks, Side(G2, peers).blocks)
<1> DEFINE s == Side(G, peers)
           t == Side(G2, peers)
<1>1. CASE peers = NoPeers
  <2>1. s = t /\ s.groups = Groupless
    BY <1>1, Zenon DEF Side
  <2>2. ~Concerns(s.groups, p)
    BY <2>1, Zenon DEF Concerns, Groupless
  <2>3. peers.groups = {}
    BY <1>1, Zenon DEF NoPeers
  <2> HIDE DEF s, t
  <2> QED
    BY <2>1, <2>2, <2>3, Zenon DEF SideChanged, s, t
<1>2. CASE peers # NoPeers
  <2>1. s.groups = getPeersGroups(G, peers) /\ s.blocks = getPeersIPBlocks(G, peers)
    BY <1>2, Zenon DEF Side
  <2>2. t.blocks = getPeersIPBlocks(G2, peers)
    BY <1>2, Zenon DEF Side
  <2>3. Concerns(s.groups, p) <=> g \in peers.groups
    BY <2>1, Zenon DEF Concerns, getPeersGroups, Patches
  <2>4. ASSUME g \notin peers.groups PROVE t.blocks = s.blocks
    <3>1. \A h \in peers.groups : G2[h].mem = G[h].mem
      BY <2>4, Zenon DEF Apart, Patches
    <3> QED
      BY <2>1, <2>2, <3>1, BlocksFrame, Zenon
  <2>5. ASSUME g \in peers.groups
        PROVE  /\ Replaced(s.blocks, p.add, p.del, t.blocks)
               /\ \A ip \in DOMAIN p.del : s.blocks[ip] = p.del[ip]
    <3>1. \A h \in peers.groups : h # g => G2[h].mem = G[h].mem
      BY Zenon DEF Patches, Apart
    <3>2. /\ Replaced(getPeersIPBlocks(G, peers), p.add, p.del, getPeersIPBlocks(G2, peers))
          /\ \A ip \in DOMAIN p.del :
                getPeersIPBlocks(G, peers)[ip] = ListGroupIPBlocks(G[g])[ip]
      <4>1. PeersChanged(G, G2, peers, g, p.add, p.del)
        BY <2>5, <3>1, PeersReplaced, Zenon DEF Patches
      <4> QED
        BY <4>1, Zenon DEF PeersChanged
    <3> QED
      BY <2>1, <2>2, <3>2, Zenon
  <2> HIDE DEF s, t
  <2> QED
    BY <2>3, <2>4, <2>5, Zenon DEF SideChanged, s, t
<1> QED
  BY <1>1, <1>2, Zenon

\* q after a change from the rules of one list to those of another.
Synced(q, installed, old, new) == (q \in installed /\ ~(q \in old /\ q \notin new))
                                  \/ (q \in new /\ q \notin old)

\* A change of one side changes the PolicyRules as the lists say.
LEMMA SourceSynced ==
    ASSUME NEW rule, NEW B, NEW add, NEW del, NEW B2, Replaced(B, add, del, B2),
           \A ip \in DOMAIN del : B[ip] = del[ip], NEW D, NEW q
    PROVE  q \in generateRuleList(rule, B2, D)
             <=> Synced(q, generateRuleList(rule, B, D), generateRuleList(rule, del, D),
                        generateRuleList(rule, add, D))
<1>1. /\ q.src \in DOMAIN add => q.src \in DOMAIN B2 /\ B2[q.src] = add[q.src]
      /\ q.src \in DOMAIN del => q.src \in DOMAIN B /\ B[q.src] = del[q.src]
      /\ q.src \in DOMAIN B /\ q.src \notin DOMAIN del
            => q.src \in DOMAIN B2 /\ B2[q.src] = B[q.src] /\ q.src \notin DOMAIN add
      /\ q.src \in DOMAIN B2 /\ q.src \notin DOMAIN add
            => q.src \in DOMAIN B /\ q.src \notin DOMAIN del
  BY Zenon DEF Replaced
<1>2. \A b : q \in generateRuleList(rule, b, D)
               <=> q.src \in DOMAIN b /\ q.dst \in DOMAIN D /\ Fits(rule, q, b[q.src], D[q.dst])
  BY Generated, Zenon
<1>3. CASE q.src \in DOMAIN add
  BY <1>1, <1>2, <1>3, Zenon DEF Synced
<1>4. CASE q.src \notin DOMAIN add
  BY <1>1, <1>2, <1>4, Zenon DEF Synced
<1> QED
  BY <1>3, <1>4, Zenon

LEMMA DestinationSynced ==
    ASSUME NEW rule, NEW B, NEW add, NEW del, NEW B2, Replaced(B, add, del, B2),
           \A ip \in DOMAIN del : B[ip] = del[ip], NEW S, NEW q
    PROVE  q \in generateRuleList(rule, S, B2)
             <=> Synced(q, generateRuleList(rule, S, B), generateRuleList(rule, S, del),
                        generateRuleList(rule, S, add))
<1>1. /\ q.dst \in DOMAIN add => q.dst \in DOMAIN B2 /\ B2[q.dst] = add[q.dst]
      /\ q.dst \in DOMAIN del => q.dst \in DOMAIN B /\ B[q.dst] = del[q.dst]
      /\ q.dst \in DOMAIN B /\ q.dst \notin DOMAIN del
            => q.dst \in DOMAIN B2 /\ B2[q.dst] = B[q.dst] /\ q.dst \notin DOMAIN add
      /\ q.dst \in DOMAIN B2 /\ q.dst \notin DOMAIN add
            => q.dst \in DOMAIN B /\ q.dst \notin DOMAIN del
  BY Zenon DEF Replaced
<1>2. \A b : q \in generateRuleList(rule, S, b)
               <=> q.src \in DOMAIN S /\ q.dst \in DOMAIN b /\ Fits(rule, q, S[q.src], b[q.dst])
  BY Generated, Zenon
<1>3. CASE q.dst \in DOMAIN add
  BY <1>1, <1>2, <1>3, Zenon DEF Synced
<1>4. CASE q.dst \notin DOMAIN add
  BY <1>1, <1>2, <1>4, Zenon DEF Synced
<1> QED
  BY <1>3, <1>4, Zenon

\* The fields of a rule that its PolicyRules depend on.
LEMMA SameList ==
    ASSUME NEW r, NEW r2, r.id = r2.id, r.dir = r2.dir, r.sym = r2.sym, r.ports = r2.ports,
           NEW srcs, NEW dsts
    PROVE  generateRuleList(r, srcs, dsts) = generateRuleList(r2, srcs, dsts)
<1>1. \A q, s, d : Fits(r, q, s, d) <=> Fits(r2, q, s, d)
  BY Zenon DEF Fits, Directions, PortsFor
<1>2. \A q : q \in generateRuleList(r, srcs, dsts) <=> q \in generateRuleList(r2, srcs, dsts)
  BY <1>1, Generated, Zenon
<1> QED
  BY <1>2, Zenon

\* The PolicyRules of one rule, before and after a patch.
OneSynced(p, g, G, G2, t, q) ==
    LET r == Expand(G, t)
        d == GetPatchPolicyRules(r, p)
    IN /\ q \in ListRules(Expand(G2, t)) <=> Synced(q, ListRules(r), d.old, d.new)
       /\ g \notin DOMAIN r.srcGroups \cup DOMAIN r.dstGroups => d.old = {} /\ d.new = {}
       /\ q \in d.old \/ q \in d.new \/ q \in ListRules(r) \/ q \in ListRules(Expand(G2, t))
             => q.id = t.id

LEMMA RuleSynced ==
    ASSUME NEW p, NEW g, NEW G, NEW G2, Patches(p, g, G, G2), NEW t,
           Apart(t.src), Owned(G, t.src.groups), Owned(G2, t.src.groups),
           Apart(t.dst), Owned(G, t.dst.groups), Owned(G2, t.dst.groups),
           t.src.groups \cap t.dst.groups = {},
           \A ip \in DOMAIN p.del : ListGroupIPBlocks(G[g])[ip] = p.del[ip], NEW q
    PROVE  OneSynced(p, g, G, G2, t, q)
<1> DEFINE r == Expand(G, t)
           r2 == Expand(G2, t)
           s == Side(G, t.src)
           d == Side(G, t.dst)
           s2 == Side(G2, t.src)
           d2 == Side(G2, t.dst)
           x == GetPatchPolicyRules(r, p)
<1>1. /\ Concerns(s.groups, p) <=> g \in t.src.groups
      /\ SideChanged(p, g, t.src, s.blocks, s2.blocks)
  BY SideReplaced, Zenon
<1>2. /\ Concerns(d.groups, p) <=> g \in t.dst.groups
      /\ SideChanged(p, g, t.dst, d.blocks, d2.blocks)
  BY SideReplaced, Zenon
<1>3. Patched(s.groups, s.blocks, p) = s2.blocks
  BY SidePatched
<1>4. /\ r = [id |-> t.id, dir |-> t.dir, sym |-> t.sym, ports |-> t.ports,
              srcGroups |-> s.groups, src |-> s.blocks, dstGroups |-> d.groups, dst |-> d.blocks]
      /\ r2 = [id |-> t.id, dir |-> t.dir, sym |-> t.sym, ports |-> t.ports,
               srcGroups |-> s2.groups, src |-> s2.blocks,
               dstGroups |-> d2.groups, dst |-> d2.blocks]
  BY Zenon DEF Expand, Complete
<1> HIDE DEF s, d, s2, d2, r, r2
<1>5. /\ r.id = t.id /\ r.dir = t.dir /\ r.sym = t.sym /\ r.ports = t.ports
      /\ r.srcGroups = s.groups /\ r.src = s.blocks /\ r.dstGroups = d.groups /\ r.dst = d.blocks
  BY <1>4, Zenon
<1>6. /\ r2.id = t.id /\ r2.dir = t.dir /\ r2.sym = t.sym /\ r2.ports = t.ports
      /\ r2.src = s2.blocks /\ r2.dst = d2.blocks
  BY <1>4, Zenon
<1>7. ListRules(r) = generateRuleList(r, s.blocks, d.blocks)
  BY <1>5, Zenon DEF ListRules
<1>8. ListRules(r2) = generateRuleList(r, s2.blocks, d2.blocks)
  <2>1. r.id = r2.id /\ r.dir = r2.dir /\ r.sym = r2.sym /\ r.ports = r2.ports
    BY <1>5, <1>6, Zenon
  <2>2. generateRuleList(r, s2.blocks, d2.blocks) = generateRuleList(r2, s2.blocks, d2.blocks)
    BY <2>1, SameList
  <2> QED
    BY <1>6, <2>2, Zenon DEF ListRules
<1>9. /\ x.new = (IF g \in t.src.groups THEN generateRuleList(r, p.add, d.blocks) ELSE {})
                 \cup (IF g \in t.dst.groups THEN generateRuleList(r, s2.blocks, p.add) ELSE {})
      /\ x.old = (IF g \in t.src.groups THEN generateRuleList(r, p.del, d.blocks) ELSE {})
                 \cup (IF g \in t.dst.groups THEN generateRuleList(r, s2.blocks, p.del) ELSE {})
  BY <1>1, <1>2, <1>3, <1>5, Zenon DEF GetPatchPolicyRules
<1>10. p.group = g
  BY Zenon DEF Patches
<1>11. g \notin DOMAIN r.srcGroups \cup DOMAIN r.dstGroups
         => g \notin t.src.groups /\ g \notin t.dst.groups
  BY <1>1, <1>2, <1>5, <1>10, Zenon DEF Concerns
<1> HIDE DEF x
<1>12. \A S, D : q \in generateRuleList(r, S, D) => q.id = t.id
  <2>1. \A a, b : Fits(r, q, a, b) => q.id = t.id
    BY <1>5 DEF Fits
  <2> QED
    BY <2>1, Generated, Zenon
<1>13. q \in ListRules(r2) <=> Synced(q, ListRules(r), x.old, x.new)
  <2>1. CASE g \in t.src.groups
    <3>1. g \notin t.dst.groups
      BY <2>1, Zenon
    <3>2. d2.blocks = d.blocks /\ Replaced(s.blocks, p.add, p.del, s2.blocks)
          /\ \A ip \in DOMAIN p.del : s.blocks[ip] = p.del[ip]
      BY <1>1, <1>2, <2>1, <3>1, Zenon DEF SideChanged
    <3>3. x.new = generateRuleList(r, p.add, d.blocks) /\ x.old = generateRuleList(r, p.del, d.blocks)
      BY <1>9, <2>1, <3>1, Zenon
    <3>4. q \in generateRuleList(r, s2.blocks, d.blocks)
            <=> Synced(q, generateRuleList(r, s.blocks, d.blocks),
                       generateRuleList(r, p.del, d.blocks), generateRuleList(r, p.add, d.blocks))
      BY <3>2, SourceSynced, Zenon
    <3> QED
      BY <1>7, <1>8, <3>2, <3>3, <3>4, Zenon
  <2>2. CASE g \notin t.src.groups /\ g \in t.dst.groups
    <3>1. s2.blocks = s.blocks /\ Replaced(d.blocks, p.add, p.del, d2.blocks)
          /\ \A ip \in DOMAIN p.del : d.blocks[ip] = p.del[ip]
      BY <1>1, <1>2, <2>2, Zenon DEF SideChanged
    <3>2. x.new = generateRuleList(r, s.blocks, p.add) /\ x.old = generateRuleList(r, s.blocks, p.del)
      BY <1>9, <2>2, <3>1, Zenon
    <3>3. q \in generateRuleList(r, s.blocks, d2.blocks)
            <=> Synced(q, generateRuleList(r, s.blocks, d.blocks),
                       generateRuleList(r, s.blocks, p.del), generateRuleList(r, s.blocks, p.add))
      BY <3>1, DestinationSynced, Zenon
    <3> QED
      BY <1>7, <1>8, <3>1, <3>2, <3>3, Zenon
  <2>3. CASE g \notin t.src.groups /\ g \notin t.dst.groups
    <3>1. s2.blocks = s.blocks /\ d2.blocks = d.blocks
      BY <1>1, <1>2, <2>3, Zenon DEF SideChanged
    <3>2. x.new = {} /\ x.old = {}
      BY <1>9, <2>3, Zenon
    <3> QED
      BY <1>7, <1>8, <3>1, <3>2, Zenon DEF Synced
  <2> QED
    BY <2>1, <2>2, <2>3, Zenon
<1>14. g \notin DOMAIN r.srcGroups \cup DOMAIN r.dstGroups => x.old = {} /\ x.new = {}
  BY <1>9, <1>11, Zenon
<1>15. q \in x.old \/ q \in x.new \/ q \in ListRules(r) \/ q \in ListRules(r2) => q.id = t.id
  BY <1>7, <1>8, <1>9, <1>12, Zenon
<1> QED
  BY <1>13, <1>14, <1>15, Zenon DEF OneSynced, r, r2, x

\* What the shapes of a clear policy have.
LEMMA EgressShapeFacts ==
    ASSUME NEW p, NEW r, NEW t \in EgressShapes(p, r)
    PROVE  /\ t.src = p.applied
           /\ t.dst = r.peers \/ t.dst = NoPeers \/ t.dst = Everyone
           /\ \/ t = EgressShape(p, r, "", r.ports, r.peers) /\ r.peers # NoPeers
              \/ t = EgressShape(p, r, "", r.ports \ {"name"}, NoPeers) /\ r.peers = NoPeers
              \/ t = EgressShape(p, r, "namedport", {"name"}, Everyone) /\ r.peers = NoPeers
<1>1. \/ t = EgressShape(p, r, "", r.ports, r.peers) /\ r.peers # NoPeers
      \/ t = EgressShape(p, r, "", r.ports \ {"name"}, NoPeers) /\ r.peers = NoPeers
      \/ t = EgressShape(p, r, "namedport", {"name"}, Everyone) /\ r.peers = NoPeers
  BY Zenon DEF EgressShapes
<1>2. t.src = p.applied /\ (t.dst = r.peers \/ t.dst = NoPeers \/ t.dst = Everyone)
  <2>1. PICK u, v, w : t = EgressShape(p, r, u, v, w)
                       /\ (w = r.peers \/ w = NoPeers \/ w = Everyone)
    BY <1>1, Zenon
  <2>2. t.src = p.applied /\ t.dst = w
    BY <2>1, Zenon DEF EgressShape, Shape
  <2> QED
    BY <2>1, <2>2, Zenon
<1> QED
  BY <1>1, <1>2, Zenon

LEMMA ShapeSides ==
    ASSUME NEW p, Clear(p), NEW t \in Shapes(p)
    PROVE  t.src.groups \cap t.dst.groups = {}
<1>1. NoPeers.groups = {} /\ Everyone.groups = {AllEps}
  BY Zenon DEF NoPeers, Everyone
<1>2. CASE \E r \in {x \in p.ingress : "in" \in IsEnable(p)} : t = IngressShape(p, r)
  <2>1. PICK r \in p.ingress : t = IngressShape(p, r)
    BY <1>2, Zenon
  <2>2. t.src = r.peers /\ t.dst = p.applied
    BY <2>1, Zenon DEF IngressShape, Shape
  <2>3. r.peers.groups \cap p.applied.groups = {}
    BY Zenon DEF Clear
  <2> QED
    BY <2>2, <2>3, Zenon
<1>3. CASE \E r \in {x \in p.egress : "out" \in IsEnable(p)} : t \in EgressShapes(p, r)
  <2>1. PICK r \in p.egress : t \in EgressShapes(p, r)
    BY <1>3, Zenon
  <2>2. t.src = p.applied /\ (t.dst = r.peers \/ t.dst = NoPeers \/ t.dst = Everyone)
    BY <2>1, EgressShapeFacts, Zenon
  <2>3. r.peers.groups \cap p.applied.groups = {} /\ AllEps \notin p.applied.groups
    BY Zenon DEF Clear
  <2> QED
    BY <1>1, <2>2, <2>3, Zenon
<1>4. CASE t \in DefaultShapes(p)
  <2>1. t.src = NoPeers \/ t.dst = NoPeers
    BY <1>4 DEF DefaultShapes, Shape
  <2> QED
    BY <1>1, <2>1, Zenon
<1> QED
  BY <1>2, <1>3, <1>4, ShapesDef, Zenon

\* The rules of a clear policy have different names.
LEMMA ShapeIds ==
    ASSUME NEW p, Clear(p), NEW t \in Shapes(p), NEW u \in Shapes(p), t.id = u.id
    PROVE  t = u
<1> DEFINE In(x) == \E r \in p.ingress : x = IngressShape(p, r)
           Out(x) == \E r \in p.egress : x \in EgressShapes(p, r)
           Def(x) == x \in DefaultShapes(p)
           Plain(r) == IF r.peers # NoPeers THEN EgressShape(p, r, "", r.ports, r.peers)
                       ELSE EgressShape(p, r, "", r.ports \ {"name"}, NoPeers)
           Named(r) == EgressShape(p, r, "namedport", {"name"}, Everyone)
           DefIn == Shape(<<"default", "in">>, "in", FALSE, {"all"}, NoPeers, p.applied)
           DefOut == Shape(<<"default", "out">>, "out", FALSE, {"all"}, p.applied, NoPeers)
<1>1. (In(t) \/ Out(t) \/ Def(t)) /\ (In(u) \/ Out(u) \/ Def(u))
  BY ShapesDef, Zenon
<1>2. ASSUME NEW x, In(x)
      PROVE  \E r \in p.ingress : x = IngressShape(p, r) /\ x.id[1] = "ingress" /\ x.id[2] = r.name
  <2>1. \A r : IngressShape(p, r).id[1] = "ingress" /\ IngressShape(p, r).id[2] = r.name
    BY Zenon DEF IngressShape, Shape
  <2> QED
    BY <1>2, <2>1, Zenon
<1>3. ASSUME NEW x, Out(x)
      PROVE  \E r \in p.egress :
                /\ x \in EgressShapes(p, r)
                /\ \/ /\ x.id[1] = "egress" /\ x.id[2] = r.name /\ x.id[3] = ""
                      /\ x = Plain(r)
                   \/ /\ x.id[1] = "egress" /\ x.id[2] = r.name /\ x.id[3] = "namedport"
                      /\ x = Named(r)
  <2>2. PICK r \in p.egress : x \in EgressShapes(p, r)
    BY <1>3, Zenon
  <2>3. \/ x = EgressShape(p, r, "", r.ports, r.peers) /\ r.peers # NoPeers
        \/ x = EgressShape(p, r, "", r.ports \ {"name"}, NoPeers) /\ r.peers = NoPeers
        \/ x = EgressShape(p, r, "namedport", {"name"}, Everyone) /\ r.peers = NoPeers
    BY <2>2, EgressShapeFacts, Zenon
  <2>4. x = Plain(r) \/ x = Named(r)
    BY <2>3, Zenon
  <2>5. /\ Plain(r).id[1] = "egress" /\ Plain(r).id[2] = r.name /\ Plain(r).id[3] = ""
        /\ Named(r).id[1] = "egress" /\ Named(r).id[2] = r.name /\ Named(r).id[3] = "namedport"
    <3> DEFINE a == ""
    <3>1. PICK b, c : Plain(r) = EgressShape(p, r, a, b, c)
      BY Zenon
    <3>2. PICK e, f : Named(r) = EgressShape(p, r, "namedport", e, f)
      BY Zenon
    <3> HIDE DEF Plain, Named, a
    <3>3. Plain(r).id[1] = "egress" /\ Plain(r).id[2] = r.name /\ Plain(r).id[3] = a
      BY <3>1 DEF EgressShape, Shape
    <3>4. Named(r).id[1] = "egress" /\ Named(r).id[2] = r.name /\ Named(r).id[3] = "namedport"
      BY <3>2 DEF EgressShape, Shape
    <3> QED
      BY <3>3, <3>4, Zenon DEF a
  <2> HIDE DEF Plain, Named
  <2> QED
    BY <2>2, <2>4, <2>5, Zenon
<1>4. ASSUME NEW x, Def(x)
      PROVE  \/ /\ x.id[1] = "default" /\ x.id[2] = "in"
                /\ x = DefIn
             \/ /\ x.id[1] = "default" /\ x.id[2] = "out"
                /\ x = DefOut
  BY <1>4 DEF DefaultShapes, Shape
<1> HIDE DEF In, Out, Def, Plain, Named, DefIn, DefOut
<1>5. t.id[1] = u.id[1] /\ t.id[2] = u.id[2] /\ t.id[3] = u.id[3]
  BY Zenon
<1>6. "ingress" # "egress" /\ "ingress" # "default" /\ "egress" # "default"
      /\ "" # "namedport" /\ "in" # "out"
  BY Zenon
<1>7. CASE In(t)
  <2>1. PICK r \in p.ingress : t = IngressShape(p, r) /\ t.id[1] = "ingress" /\ t.id[2] = r.name
    BY <1>2, <1>7, Zenon
  <2>2. ~Out(u)
    BY <1>3, <1>5, <1>6, <2>1, Zenon
  <2>3. ~Def(u)
    BY <1>4, <1>5, <1>6, <2>1, Zenon
  <2>4. PICK v \in p.ingress : u = IngressShape(p, v) /\ u.id[1] = "ingress" /\ u.id[2] = v.name
    BY <1>1, <1>2, <2>2, <2>3, Zenon
  <2>5. r = v
    BY <1>5, <2>1, <2>4, Zenon DEF Clear
  <2> QED
    BY <2>1, <2>4, <2>5, Zenon
<1>8. CASE Out(t)
  <2>1. PICK r \in p.egress :
                /\ \/ /\ t.id[1] = "egress" /\ t.id[2] = r.name /\ t.id[3] = ""
                      /\ t = Plain(r)
                   \/ /\ t.id[1] = "egress" /\ t.id[2] = r.name /\ t.id[3] = "namedport"
                      /\ t = Named(r)
    BY <1>3, <1>8, Zenon
  <2>2. ~In(u)
    BY <1>2, <1>5, <1>6, <2>1, Zenon
  <2>3. ~Def(u)
    BY <1>4, <1>5, <1>6, <2>1, Zenon
  <2>4. PICK v \in p.egress :
                /\ \/ /\ u.id[1] = "egress" /\ u.id[2] = v.name /\ u.id[3] = ""
                      /\ u = Plain(v)
                   \/ /\ u.id[1] = "egress" /\ u.id[2] = v.name /\ u.id[3] = "namedport"
                      /\ u = Named(v)
    BY <1>1, <1>3, <2>2, <2>3, Zenon
  <2>5. r.name = v.name
    BY <1>5, <2>1, <2>4, Zenon
  <2>6. r = v
    BY <2>5, Zenon DEF Clear
  <2> QED
    BY <1>5, <1>6, <2>1, <2>4, <2>6, Zenon
<1>9. CASE Def(t)
  <2>1. ~In(u)
    BY <1>2, <1>4, <1>5, <1>6, <1>9, Zenon
  <2>2. ~Out(u)
    BY <1>3, <1>4, <1>5, <1>6, <1>9, Zenon
  <2> QED
    BY <1>1, <1>4, <1>5, <1>6, <1>9, <2>1, <2>2
<1> QED
  BY <1>1, <1>7, <1>8, <1>9, Zenon

\* The datapath after a patch of the rules in hit.
PatchFlows(R, hit, p) ==
    syncPolicyRules(Installed(R), UNION {GetPatchPolicyRules(r, p).old : r \in hit},
                    UNION {GetPatchPolicyRules(r, p).new : r \in hit})

\* It holds the PolicyRules of the patched rules.
LEMMA FlowsPatched ==
    ASSUME NEW p, NEW g, NEW G, NEW G2, NEW pol, NEW R, NEW hit,
           Hits(p, g, G, G2, pol, R, hit), Clear(pol),
           \A ip \in DOMAIN p.del : ListGroupIPBlocks(G[g])[ip] = p.del[ip]
    PROVE  PatchFlows(R, hit, p) = Installed(completePolicy(G2, pol))
<1> USE DEF Hits
<1> DEFINE O(t) == GetPatchPolicyRules(Expand(G, t), p).old
           N(t) == GetPatchPolicyRules(Expand(G, t), p).new
           L(t) == ListRules(Expand(G, t))
           L2(t) == ListRules(Expand(G2, t))
           old == UNION {GetPatchPolicyRules(r, p).old : r \in hit}
           new == UNION {GetPatchPolicyRules(r, p).new : r \in hit}
           F == Installed(R)
           F2 == Installed(completePolicy(G2, pol))
<1>1. ASSUME NEW t \in Shapes(pol), NEW q
      PROVE  OneSynced(p, g, G, G2, t, q)
  <2>1. /\ Apart(t.src) /\ Apart(t.dst)
        /\ t.src.groups \subseteq NeededGroups(pol)
        /\ t.dst.groups \subseteq NeededGroups(pol)
    BY ShapePeers, Zenon
  <2>2. /\ Owned(G, t.src.groups) /\ Owned(G2, t.src.groups)
        /\ Owned(G, t.dst.groups) /\ Owned(G2, t.dst.groups)
    BY <2>1, Zenon DEF Owned
  <2>3. t.src.groups \cap t.dst.groups = {}
    BY ShapeSides, Zenon
  <2> QED
    BY <2>1, <2>2, <2>3, RuleSynced, Zenon
<1>2. \A x : x \in R <=> \E t \in Shapes(pol) : x = Expand(G, t)
  BY Expansion, Zenon
<1>3. \A x : x \in completePolicy(G2, pol) <=> \E t \in Shapes(pol) : x = Expand(G2, t)
  BY Expansion, Zenon
<1>4. hit \subseteq R /\ \A r \in R : r \notin hit => g \notin DOMAIN r.srcGroups \cup DOMAIN r.dstGroups
  BY Zenon
<1>5. \A t \in Shapes(pol) : \A q : q \in L2(t) <=> Synced(q, L(t), O(t), N(t))
  BY <1>1, Zenon DEF OneSynced
<1>6. \A t \in Shapes(pol) : Expand(G, t) \notin hit => O(t) = {} /\ N(t) = {}
  <2> SUFFICES ASSUME NEW t \in Shapes(pol), Expand(G, t) \notin hit
               PROVE  O(t) = {} /\ N(t) = {}
    BY Zenon
  <2>1. Expand(G, t) \in R
    BY <1>2, Zenon
  <2>2. g \notin DOMAIN Expand(G, t).srcGroups \cup DOMAIN Expand(G, t).dstGroups
    BY <1>4, <2>1, Zenon
  <2>3. OneSynced(p, g, G, G2, t, {})
    BY <1>1, Zenon
  <2> QED
    BY <2>2, <2>3, Zenon DEF OneSynced
<1>7. \A t \in Shapes(pol) : \A q : q \in O(t) \/ q \in N(t) \/ q \in L(t) \/ q \in L2(t)
                                      => q.id = t.id
  BY <1>1, Zenon DEF OneSynced
<1>8. \A q : /\ q \in old <=> \E r \in hit : q \in GetPatchPolicyRules(r, p).old
             /\ q \in new <=> \E r \in hit : q \in GetPatchPolicyRules(r, p).new
             /\ q \in F <=> \E r \in R : q \in ListRules(r)
             /\ q \in F2 <=> \E r \in completePolicy(G2, pol) : q \in ListRules(r)
  BY Zenon DEF Installed
<1> HIDE DEF old, new, F, F2
<1>9. ASSUME NEW q
      PROVE  q \in F2 <=> Synced(q, F, old, new)
  <2>1. q \in old <=> \E t \in Shapes(pol) : q \in O(t)
    <3>1. ASSUME NEW r \in hit, q \in GetPatchPolicyRules(r, p).old
          PROVE  \E t \in Shapes(pol) : q \in O(t)
      BY <1>2, <1>4, <3>1, Zenon
    <3>2. ASSUME NEW t \in Shapes(pol), q \in O(t)
          PROVE  Expand(G, t) \in hit
      BY <1>6, <3>2, Zenon
    <3> QED
      BY <1>8, <3>1, <3>2, Zenon
  <2>2. q \in new <=> \E t \in Shapes(pol) : q \in N(t)
    <3>1. ASSUME NEW r \in hit, q \in GetPatchPolicyRules(r, p).new
          PROVE  \E t \in Shapes(pol) : q \in N(t)
      BY <1>2, <1>4, <3>1, Zenon
    <3>2. ASSUME NEW t \in Shapes(pol), q \in N(t)
          PROVE  Expand(G, t) \in hit
      BY <1>6, <3>2, Zenon
    <3> QED
      BY <1>8, <3>1, <3>2, Zenon
  <2>3. /\ q \in F <=> \E t \in Shapes(pol) : q \in L(t)
        /\ q \in F2 <=> \E t \in Shapes(pol) : q \in L2(t)
    BY <1>2, <1>3, <1>8, ZenonT(60)
  <2> HIDE DEF O, N, L, L2
  <2>4. CASE \E t \in Shapes(pol) : q.id = t.id
    <3>1. PICK t \in Shapes(pol) : q.id = t.id
      BY <2>4, Zenon
    <3>2. \A u \in Shapes(pol) : q.id = u.id => u = t
      BY <3>1, ShapeIds, Zenon
    <3>3. \A u \in Shapes(pol) : q \in O(u) \/ q \in N(u) \/ q \in L(u) \/ q \in L2(u) => u = t
      BY <1>7, <3>2, Zenon
    <3>4. /\ q \in old <=> q \in O(t)
          /\ q \in new <=> q \in N(t)
          /\ q \in F <=> q \in L(t)
          /\ q \in F2 <=> q \in L2(t)
      BY <2>1, <2>2, <2>3, <3>3, Zenon
    <3> QED
      BY <1>5, <3>4, Zenon DEF Synced
  <2>5. CASE ~\E t \in Shapes(pol) : q.id = t.id
    <3>1. q \notin old /\ q \notin new /\ q \notin F /\ q \notin F2
      BY <1>7, <2>1, <2>2, <2>3, <2>5, Zenon
    <3> QED
      BY <3>1, Zenon DEF Synced
  <2> QED
    BY <2>4, <2>5, Zenon
<1>10. \A q : q \in syncPolicyRules(F, old, new) <=> Synced(q, F, old, new)
  BY Zenon DEF syncPolicyRules, Synced
<1>11. syncPolicyRules(F, old, new) = F2
  BY <1>9, <1>10, Zenon
<1> QED
  BY <1>11, Zenon DEF PatchFlows, F, F2, old, new

LEMMA FlowsKept ==
    ASSUME Separated, \A p \in Policies : Clear(p), CacheInv(TRUE), CacheInv(TRUE)',
           RulesInv, RulesInv', FlowsMatchRules, [Next]_vars
    PROVE  FlowsMatchRules'
<1>1. ASSUME UNCHANGED <<rules, flows>> PROVE FlowsMatchRules'
  BY <1>1, Zenon DEF FlowsMatchRules
<1>2. CASE ReconcilePolicy
  <2>1. Installed({}) = {}
    BY Zenon DEF Installed
  <2>2. flows' = syncPolicyRules(flows, Installed(rules), Installed(rules'))
    BY <1>2, <2>1, Zenon DEF ReconcilePolicy
  <2>3. flows = Installed(rules)
    BY Zenon DEF FlowsMatchRules
  <2>4. \A A, B : syncPolicyRules(A, A, B) = B
    BY Zenon DEF syncPolicyRules
  <2>5. flows' = Installed(rules')
    BY <2>2, <2>3, <2>4, Zenon
  <2> QED
    BY <2>5, Zenon DEF FlowsMatchRules, Installed
<1>3. ASSUME NEW g \in Groups, ReconcilePatch(g)
      PROVE  FlowsMatchRules'
  <2> DEFINE hit == {r \in rules : g \in DOMAIN r.srcGroups \cup DOMAIN r.dstGroups}
             p == held[g]
             diff == [r \in hit |-> GetPatchPolicyRules(r, p)]
             old == UNION {GetPatchPolicyRules(r, p).old : r \in hit}
             new == UNION {GetPatchPolicyRules(r, p).new : r \in hit}
  <2>1. flows' = syncPolicyRules(flows, UNION {diff[r].old : r \in hit},
                                 UNION {diff[r].new : r \in hit})
    BY <1>3, Zenon DEF ReconcilePatch
  <2>2. UNION {diff[r].old : r \in hit} = old /\ UNION {diff[r].new : r \in hit} = new
    <3>1. \A r \in hit : diff[r] = GetPatchPolicyRules(r, p)
      BY Zenon
    <3> HIDE DEF diff, hit, p
    <3> QED
      BY <3>1, Zenon
  <2>3. flows' = syncPolicyRules(Installed(rules), old, new)
    BY <2>1, <2>2, Zenon DEF FlowsMatchRules
  <2>4. /\ rules' = (rules \ hit) \cup {RuleApplyPatch(r, p) : r \in hit}
        /\ applied' = applied
    BY <1>3, Zenon DEF ReconcilePatch
  <2>5. CASE applied = NoPolicy
    <3>1. rules = {} /\ rules' = {}
      BY <2>4, <2>5, Zenon DEF RulesInv, RulesCurrent
    <3>2. hit = {}
      BY <3>1, Zenon
    <3>3. old = {} /\ new = {}
      <4> HIDE DEF hit, p
      <4> QED
        BY <3>2, Zenon
    <3>4. \A A : syncPolicyRules(A, {}, {}) = A
      BY Zenon DEF syncPolicyRules
    <3>5. flows' = Installed(rules')
      BY <2>3, <3>1, <3>3, <3>4, Zenon
    <3> QED
      BY <3>5, Zenon DEF FlowsMatchRules, Installed
  <2>6. CASE applied # NoPolicy
    <3>1. applied \in Policies /\ rules = completePolicy(gc, applied)
          /\ rules' = completePolicy(gc', applied)
          /\ (\A k \in NeededGroups(applied) : gc[k].live)
          /\ \A k \in NeededGroups(applied) : gc'[k].live
      BY <2>4, <2>6, Zenon DEF RulesInv, RulesCurrent
    <3>2. (\A peers \in PeersOf(applied) : Apart(peers)) /\ Clear(applied)
      BY <3>1, Zenon DEF Separated
    <3>3. NeededGroups(applied) \subseteq Groups
      BY <3>2, NeededAreGroups, Zenon
    <3>4. Owned(gc, NeededGroups(applied))
      BY <3>1, <3>3, LiveOwned, Zenon
    <3>5. Owned(gc', NeededGroups(applied))
      BY <3>1, <3>3, LiveOwnedNext, Zenon
    <3>6. Patches(p, g, gc, gc')
          /\ \A ip \in DOMAIN p.del : ListGroupIPBlocks(gc[g])[ip] = p.del[ip]
      BY <1>3, PatchFacts, Zenon
    <3>7. PatchFlows(rules, hit, p) = Installed(completePolicy(gc', applied))
      <4>1. hit = {r \in rules : g \in DOMAIN r.srcGroups \cup DOMAIN r.dstGroups}
        BY Zenon
      <4> HIDE DEF hit, p
      <4> QED
        <5>1. Hits(p, g, gc, gc', applied, rules, hit)
          BY <3>1, <3>2, <3>4, <3>5, <3>6, <4>1, Zenon DEF Hits
        <5> QED
          BY <3>2, <3>6, <5>1, FlowsPatched
    <3>8. flows' = Installed(rules')
      BY <2>3, <3>1, <3>7, Zenon DEF PatchFlows
    <3> QED
      BY <3>8, Zenon DEF FlowsMatchRules, Installed
  <2> QED
    BY <2>5, <2>6, Zenon
<1>4. ASSUME NEW g \in Groups, NEW m \in Members, Publish(g, m)
      PROVE  UNCHANGED <<rules, flows>>
  BY <1>4, Zenon DEF Publish
<1>5. ASSUME NEW g \in Groups, MembersCreated(g) \/ NextPatch(g)
      PROVE  UNCHANGED <<rules, flows>>
  BY <1>5, Zenon DEF MembersCreated, NextPatch
<1>6. ASSUME NEW p \in Policies \cup {NoPolicy}, PolicyEvent(p)
      PROVE  UNCHANGED <<rules, flows>>
  BY <1>6, Zenon DEF PolicyEvent
<1>7. UNCHANGED vars => UNCHANGED <<rules, flows>>
  BY Zenon DEF vars
<1> QED
  BY <1>1, <1>2, <1>3, <1>4, <1>5, <1>6, <1>7, Zenon DEF Next

\* The PolicyRules in the datapath are always exactly those of the complete rules,
\* though ReconcilePatch installs and removes only what GetPatchPolicyRules lists
\* (new and old against each other in syncPolicyRulesUntilSuccess).  Beyond
\* Separated it takes rules with names of their own, no group on both sides of a
\* rule, and members that keep their ports while they keep their address: the
\* policy_overlap run shows what happens where two groups share an address.
THEOREM PatchedFlows ==
    ASSUME Separated, \A p \in Policies : Clear(p)
    PROVE  Spec /\ [][PortsSteady]_vars => []FlowsMatchRules
<1> DEFINE I == CacheInv(TRUE) /\ RulesInv /\ FlowsMatchRules
<1>1. Init => I
  <2> SUFFICES ASSUME Init PROVE I
    BY Zenon
  <2>1. FlowsMatchRules
    BY Zenon DEF Init, FlowsMatchRules, Installed
  <2> QED
    BY <2>1, InitCache, InitRules, Zenon
<1>2. I /\ [Next]_vars /\ [PortsSteady]_vars => I'
  <2> SUFFICES ASSUME I, [Next]_vars, [PortsSteady]_vars
               PROVE  I'
    BY Zenon
  <2>1. PortsSteady
    <3>1. ASSUME UNCHANGED vars PROVE PortsSteady
      <4>1. latest' = latest
        BY <3>1, Zenon DEF vars
      <4> QED
        BY <4>1, Zenon DEF PortsSteady, Steady
    <3> QED
      BY <3>1, Zenon
  <2>2. CacheInv(TRUE)'
    BY <2>1, CacheKept, Zenon
  <2>3. RulesInv'
    BY <2>2, RulesKept, Zenon
  <2>4. FlowsMatchRules'
    BY <2>2, <2>3, FlowsKept, Zenon
  <2> QED
    BY <2>2, <2>3, <2>4, Zenon
<1>3. I => FlowsMatchRules
  BY Zenon
<1> HIDE DEF I
<1> QED
  BY <1>1, <1>2, <1>3, PTL DEF Spec

===============================================================================
