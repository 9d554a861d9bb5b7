------------------------------ MODULE BridgeChain ------------------------------
(***************************************************************************)
(* Frames through the bridge chain of each host: local bridge, policy      *)
(* bridge, cls bridge, uplink bridge.  Every frame of a local endpoint goes*)
(* up to the cls bridge, which sends it back down, to the uplink, or both; *)
(* the tables that decide are filled by the learn actions of the flows.    *)
(*                                                                         *)
(* Endpoints are on access ports, their flows are in the local bridge of   *)
(* their host and nowhere else (LocalEndpoint), and the policies allow     *)
(* what they send (Conntrack).       A frame is <<source, destination>>;   *)
(* its VLAN is the source's.  The network between the hosts floods.        *)
(***************************************************************************)
EXTENDS Integers

CONSTANTS Hosts, Endpoints, Bcast,
          VlanOf,    \* the VLAN of each endpoint
          Talkers,   \* the endpoints that send
          Home,      \* the hosts the endpoints start on
          MaxMoves   \* bound: migrations

VARIABLES
    loc,       \* the host of each endpoint
    ofport,    \* the number of its port: a new one at each migration
    announced, \* it has sent a broadcast since
    fwd,       \* L2_FORWARDING_TABLE, what was learned: port by host and address
    cls,       \* CLSBRIDGE_FORWARDING_TABLE: "policy", "uplink" or "none"
    normal,    \* the table of the NORMAL action in the local bridge: a port,
               \* Patch for local-to-policy, or None
    moves

vars == <<loc, ofport, announced, fwd, cls, normal, moves>>

None == -1

Patch == 0

Init ==
    /\ loc = Home
    /\ ofport = [e \in Endpoints |-> 1]
    /\ announced = [e \in Endpoints |-> TRUE]
    /\ fwd = [h \in Hosts |-> [e \in Talkers |-> None]]
    /\ cls = [h \in Hosts |-> [e \in Talkers |-> "none"]]
    /\ normal = [h \in Hosts |-> [e \in Talkers |-> None]]
    /\ moves = 0

------------------------------------------------------------------------------
(* The way of a frame.                                                      *)

SameVlan(e, f) == VlanOf[e] = VlanOf[f]

\* What a table holds for the frame's destination; a broadcast is in none.
Lookup(table, src, dst, none) ==
    IF dst \in Talkers /\ SameVlan(src, dst) THEN table[dst] ELSE none

Nobody == [e \in Endpoints |-> 0]

\* An output to port p of h, where dst was learned: the port may be gone.
ToPort(h, p, dst) ==
    [e \in Endpoints |-> IF e = dst /\ loc[e] = h /\ ofport[e] = p THEN 1 ELSE 0]

\* The NORMAL action: the ports of the VLAN without the one the frame has come
\* from; local-to-policy is set no-flood.
Flood(h, src, back) ==
    [e \in Endpoints |-> IF loc[e] = h /\ SameVlan(src, e) /\ ~(back /\ e = src)
                         THEN 1 ELSE 0]

\* The flow of AddLocalEndpoint by source address and VLAN: the in_port becomes
\* the endpoint's.
FromLocalEndpoint(h, src) == loc[src] = h

\* A frame from the policy bridge, by initVlanInputTable in the L2 forwarding
\* table: learned, of a local endpoint, or neither.
FromPolicy(h, src, dst) ==
    LET learned == Lookup(fwd[h], src, dst, None)
        back == FromLocalEndpoint(h, src)
        known == Lookup(normal[h], src, dst, None)
        inPort == IF back THEN ofport[src] ELSE Patch
    IN IF learned # None
       THEN [got |-> ToPort(h, learned, dst), loop |-> FALSE, normal |-> normal[h]]
       ELSE [got |-> CASE known = None -> Flood(h, src, back)
                       [] known > 0 -> ToPort(h, known, dst)
                       [] OTHER -> Nobody,
             loop |-> known = Patch /\ back,
             normal |-> [normal[h] EXCEPT ![src] = inPort]]

\* (Mutant: an address that is not learned is sent to the uplink only.)
OutputUplinkOnly(h, src, dst) ==
    LET reg0 == Lookup(cls[h], src, dst, "none")
    IN IF reg0 = "none" THEN {"uplink"} ELSE {reg0}

\* The output table of the cls bridge: reg0 is 0 for a broadcast and for what
\* was not learned.
ClsOutput(h, src, dst) ==
    LET reg0 == Lookup(cls[h], src, dst, "none")
    IN IF reg0 = "none" THEN {"policy", "uplink"} ELSE {reg0}

\* The hosts whose local bridge gets the frame from its policy bridge.
Reaches(src, dst) ==
    LET out == ClsOutput(loc[src], src, dst)
    IN {h \in Hosts : IF h = loc[src] THEN "policy" \in out ELSE "uplink" \in out}

Got(src, dst) ==
    [e \in Endpoints |->
        IF loc[e] \in Reaches(src, dst) THEN FromPolicy(loc[e], src, dst).got[e] ELSE 0]

\* Which side of h the source is on, once its frame has been to hosts.
ClsLearn(h, src, hosts) ==
    [cls[h] EXCEPT ![src] = CASE h = loc[src] -> "policy"
                              [] h \in hosts -> "uplink"
                              [] OTHER -> @]

Loops(src, dst) == \E h \in Reaches(src, dst) : FromPolicy(h, src, dst).loop

------------------------------------------------------------------------------
\* From the local bridge every frame goes to the policy bridge, its source
\* learned on the way; the cls bridges learn on which side it is.
Send(src, dst) ==
    LET home == loc[src]
        hosts == Reaches(src, dst)
    IN
    /\ src # dst
    /\ fwd' = [fwd EXCEPT ![home][src] = ofport[src]]
    /\ cls' = [h \in Hosts |-> ClsLearn(h, src, hosts)]
    /\ normal' = [h \in Hosts |->
                    IF h \in hosts THEN FromPolicy(h, src, dst).normal ELSE normal[h]]
    /\ announced' = [announced EXCEPT ![src] = @ \/ dst = Bcast]
    /\ UNCHANGED <<loc, ofport, moves>>

\* NORMAL forgets the addresses of a port that is removed, the learned flows
\* stay.
Move(e, h) ==
    /\ moves < MaxMoves /\ moves' = moves + 1
    /\ h # loc[e]
    /\ loc' = [loc EXCEPT ![e] = h]
    /\ ofport' = [ofport EXCEPT ![e] = @ + 1]
    /\ announced' = [announced EXCEPT ![e] = FALSE]
    /\ normal' = [normal EXCEPT ![loc[e]][e] = IF @ > 0 THEN None ELSE @]
    /\ UNCHANGED <<fwd, cls>>

\* Learned flows and addresses last 300 seconds.  What NORMAL learns on
\* local-to-policy has renewed the cls bridge's flow too, and is gone first.
ExpireLearned(h, e) ==
    \/ /\ fwd' = [fwd EXCEPT ![h][e] = None]
       /\ UNCHANGED <<cls, normal, loc, ofport, announced, moves>>
    \/ /\ normal[h][e] # Patch
       /\ cls' = [cls EXCEPT ![h][e] = "none"]
       /\ UNCHANGED <<fwd, normal, loc, ofport, announced, moves>>
    \/ /\ normal' = [normal EXCEPT ![h][e] = None]
       /\ UNCHANGED <<fwd, cls, loc, ofport, announced, moves>>

Next ==
    \/ \E src \in Talkers : \/ \E dst \in Endpoints \cup {Bcast} : Send(src, dst)
                            \/ \E h \in Hosts : Move(src, h)
    \/ \E h \in Hosts, e \in Talkers : ExpireLearned(h, e)

Spec == Init /\ [][Next]_vars

------------------------------------------------------------------------------
Peers(src) == {e \in Endpoints \ {src} : SameVlan(src, e)}

\* A frame sent now would reach whom it is for exactly once: every endpoint of
\* the VLAN if it is a broadcast, its destination if that is in the VLAN and
\* has announced itself since it moved.  It leaves its VLAN never, and then
\* neither comes back to its sender nor runs through a host's bridges again.
FramesArriveOnce ==
    \A src \in Talkers :
        /\ \A e \in Peers(src) : /\ Got(src, Bcast)[e] = 1
                                 /\ announced[e] => Got(src, e)[e] = 1
        /\ \A dst \in (Endpoints \ {src}) \cup {Bcast} :
              /\ \A e \in Endpoints \ Peers(src) : Got(src, dst)[e] = 0
              /\ (IF dst = Bcast THEN TRUE ELSE announced[dst]) => ~Loops(src, dst)
===============================================================================
