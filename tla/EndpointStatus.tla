---------------------------- MODULE EndpointStatus -----------------------------
(***************************************************************************)
(* How the address of a VM gets into the status of its Endpoint.  The      *)
(* datapath learns it at an OpenFlow port, the agent's monitor merges it   *)
(* into the AgentInfo object, the endpoint controller's handler for        *)
(* AgentInfo events keeps a cache of interfaces, takes the address off the *)
(* other interfaces that have it, and Reconcile writes the status.  A      *)
(* cleaner removes addresses that were not refreshed.                      *)
(*                                                                         *)
(* The AgentInfo writes reach the controller as one stream: the first nc   *)
(* of evs are in the informer's cache, none has been handled.  An update   *)
(* with an old resourceVersion is refused.  The agent reads its AgentInfo  *)
(* from a cache too, so a refused sync leaves everything as it was and is  *)
(* a stuttering step here.                                                 *)
(*                                                                         *)
(* One integration bridge per agent.  An interface is identified by its    *)
(* external ID, which also fixes its name and MAC; Ports are OpenFlow      *)
(* ports.                                                                  *)
(***************************************************************************)
EXTENDS Naturals, FiniteSets, Sequences, SequencesExt

CONSTANTS Agents, Ports, Exts, IPs,
          Timeout     \* ifaceIPAddrTimeout

CONSTANTS Endpoints,   \* the interfaces there is an Endpoint object for
          Layouts,     \* what a behaviour may start with: the types of the Endpoints,
                       \* the interfaces last reported and there now, the IPs' users
          MaxChanges,  \* bound: changes of the environment
          MaxPending   \* bound: AgentInfo writes on their way to the handler

------------------------------------------------------------------------------
(* AgentInfo objects: what an agent reports of its OVS interfaces, and what  *)
(* the controller computes from the reports it has cached.  An IPMap is a    *)
(* function from IPs to the time of the last update, 0 where the IP is not   *)
(* in the map.                                                               *)

None == "none"

NoIPs == [i \in IPs |-> 0]

NoIface == [ext |-> None, ips |-> NoIPs]

Absent == [time |-> 0, ifs |-> [p \in Ports |-> NoIface]]

InMap(m) == {i \in IPs : m[i] # 0}

Without(m, gone) == [i \in IPs |-> IF i \in gone THEN 0 ELSE m[i]]

\* The interface of ovs on each port, with the addresses learned there.
getAgentInfo(ovs, ipCache, now) ==
    [time |-> now,
     ifs |-> [p \in Ports |-> IF ovs[p] = None THEN NoIface
                              ELSE [ext |-> ovs[p], ips |-> ipCache[p]]]]

\* (Mutant: only what was learned since the last sync is reported.)
MergeNothing(local, cp) == local

\* The addresses of the interface the API server has at the same ofport are
\* kept, whichever interface that was.
mergeAgentInfo(local, cp) ==
    [local EXCEPT !.ifs =
        [p \in Ports |->
            IF None \in {local.ifs[p].ext, cp.ifs[p].ext} THEN local.ifs[p]
            ELSE [local.ifs[p] EXCEPT !.ips =
                    [i \in IPs |-> IF @[i] # 0 THEN @[i] ELSE cp.ifs[p].ips[i]]]]]

\* The interfaces of a cache of AgentInfos.
Ifaces(infos) == {<<a, p>> \in Agents \X Ports : infos[a].ifs[p] # NoIface}

At(infos, f) == infos[f[1]].ifs[f[2]]

fetchEndpointStatusFromAgentInfo(infos, e) ==
    LET found == {f \in Ifaces(infos) : At(infos, f).ext = e}
        known == {f \in found : At(infos, f).ips # NoIPs} IN
    [ips |-> UNION {InMap(At(infos, f).ips) : f \in known},
     agents |-> {f[1] : f \in known},
     mac |-> found # {}]

fetchEndpointStatusByIP(infos, ips) ==
    [ips |-> ips,
     agents |-> {f[1] : f \in {g \in Ifaces(infos) :
                                 InMap(At(infos, g).ips) \cap ips # {}}},
     mac |-> FALSE]

computeInterfaceExpiredIPs(info, p) ==
    {i \in InMap(info.ifs[p].ips) : info.time > info.ifs[p].ips[i] + Timeout}

\* The addresses of interface f that another interface of the AgentInfo now
\* has: those of the first such interface only.
getDeletedIP(infos, f, a, now) ==
    LET others == {p \in Ports : now.ifs[p] # NoIface /\ ~(a = f[1] /\ now.ifs[p].ext = At(infos, f).ext)}
        shared(p) == InMap(now.ifs[p].ips) \cap InMap(At(infos, f).ips) IN
    {shared(p) : p \in {q \in others : shared(q) # {}}}

------------------------------------------------------------------------------
VARIABLES
    type,      \* the type of each Endpoint
    ovs,       \* the interface on each port of each agent, or None
    holder,    \* the interface whose VM uses each IP
    ipCache,   \* AgentMonitor.ipCache
    ai,        \* the AgentInfo objects of the API server
    evs, nc,   \* AgentInfo writes the handler has not seen; those cached
    seen,      \* ifaceCache: the AgentInfo last handled, of each agent
    st, cst,   \* status of the Endpoints: at the API server, in the cache
    queue,     \* Endpoints in the workqueue
    expired,   \* expiredIPMap between the two halves of the cleaner
    changes

agentVars == <<type, ovs, holder, ipCache, changes>>
epVars == <<st, cst>>
vars == <<type, ovs, holder, ipCache, ai, evs, nc, seen, st, cst, queue, expired, changes>>

\* Two moments: an address of the first is overdue in a report of the second.
Earlier == 1
Now == Earlier + Timeout + 1

\* The status Reconcile expects, for an Endpoint with these addresses.
StatusFrom(infos, e, ips) ==
    IF type[e] = "static-ip" THEN fetchEndpointStatusByIP(infos, ips)
    ELSE fetchEndpointStatusFromAgentInfo(infos, e)

NoExpired == [e \in Exts |-> {}]

Init ==
    /\ \E l \in Layouts :
        /\ type = l.type /\ ovs = l.ovs /\ holder = l.holder
        /\ ai \in [Agents -> {Absent}] \cup
                 {[a \in Agents |-> getAgentInfo(l.was[a], old[a], Now)] :
                    old \in [Agents -> [Ports -> [IPs -> {0, Earlier}]]]}
    /\ ipCache = [a \in Agents |-> [p \in Ports |-> NoIPs]]
    /\ evs = <<>> /\ nc = 0
    /\ seen = ai
    /\ st = [e \in Endpoints |-> StatusFrom(ai, e, IPs)]
    /\ cst = st
    /\ queue = {}
    /\ expired = NoExpired
    /\ changes = 0

--------------------------------------------------------------------------------
(* Writes to AgentInfo objects. *)

Written(a, info) == [agent |-> a, info |-> info]

\* The informer's cache: the last write of each agent it has received.
Cached(a) ==
    LET mine == {n \in 1..nc : evs[n].agent = a} IN
    IF mine = {} THEN seen[a] ELSE evs[CHOOSE n \in mine : \A k \in mine : k <= n].info

IsCached(a) == \A n \in nc + 1..Len(evs) : evs[n].agent # a

\* The events of the updates of the agents in dom to what infos says; an
\* unchanged object is not written.
Writes(dom, infos) ==
    LET new == SetToSeq({a \in dom : infos[a] # ai[a]}) IN
    [n \in DOMAIN new |-> Written(new[n], infos[new[n]])]

Updated(dom, infos) == [a \in Agents |-> IF a \in dom THEN infos[a] ELSE ai[a]]

--------------------------------------------------------------------------------
(* The VMs and the hosts. *)

Change == changes < MaxChanges /\ changes' = changes + 1

\* An interface comes up on a port, goes away, or gives its port to another.
Plug(a, p, e) ==
    /\ Change
    /\ ovs[a][p] # e
    /\ ovs' = [ovs EXCEPT ![a][p] = e]
    /\ UNCHANGED <<type, holder, ipCache, ai, evs, nc, seen, epVars, queue, expired>>

\* An IP is given to another VM.
Assign(i, e) ==
    /\ Change
    /\ holder[i] # e
    /\ holder' = [holder EXCEPT ![i] = e]
    /\ UNCHANGED <<type, ovs, ipCache, ai, evs, nc, seen, epVars, queue, expired>>

\* Someone deletes an AgentInfo object.
DeleteAgentInfo(a) ==
    /\ Change
    /\ ai[a] # Absent
    /\ Len(evs) < MaxPending
    /\ ai' = [ai EXCEPT ![a] = Absent]
    /\ evs' = Append(evs, Written(a, Absent))
    /\ UNCHANGED <<type, ovs, holder, ipCache, nc, seen, epVars, queue, expired>>

--------------------------------------------------------------------------------
(* The agent's monitor. *)

\* An ARP packet of the VM on the port: the port's entry is replaced.
updateOfPortIPAddress(a, p, i) ==
    /\ ovs[a][p] = holder[i]
    /\ ipCache[a][p] # [NoIPs EXCEPT ![i] = Now]
    /\ ipCache' = [ipCache EXCEPT ![a][p] = [NoIPs EXCEPT ![i] = Now]]
    /\ UNCHANGED <<type, ovs, holder, ai, evs, nc, seen, epVars, queue, expired, changes>>

\* A sync, for a new address or by the ticker: every sync has a new heartbeat
\* time and is an event.  (Bound: one heartbeat without news is under way at a
\* time.)  A created object leaves ipCache as it is.
syncAgentInfo(a) ==
    LET local == getAgentInfo(ovs[a], ipCache[a], Now)
        info == IF ai[a] = Absent THEN local ELSE mergeAgentInfo(local, ai[a]) IN
    /\ IF info = ai[a] THEN evs = <<>> ELSE Len(evs) < MaxPending
    /\ ai' = [ai EXCEPT ![a] = info]
    /\ evs' = Append(evs, Written(a, info))
    /\ ipCache' = IF ai[a] = Absent THEN ipCache
                  ELSE [ipCache EXCEPT ![a] = [p \in Ports |-> NoIPs]]
    /\ UNCHANGED <<type, ovs, holder, nc, seen, epVars, queue, expired, changes>>

--------------------------------------------------------------------------------
(* The endpoint controller. *)

CacheAgentInfo ==
    /\ nc < Len(evs)
    /\ nc' = nc + 1
    /\ UNCHANGED <<agentVars, ai, evs, seen, epVars, queue, expired>>

\* The endpoints with an interface of the agent in the cache.
enqueueEndpointsOnAgent(a, info) ==
    LET ifs == {info.ifs[p] : p \in Ports} \ {NoIface} IN
    {e \in Endpoints : \E f \in ifs :
        \/ f.ext = e
        \/ type[e] = "static-ip" /\ InMap(f.ips) \cap cst[e].ips # {}}

\* What updateCachedAgentInfo wants to write: of each AgentInfo in the cache,
\* the interfaces without the addresses that are now elsewhere.
toUpdatedAgentInfo(a, info, cached) ==
    LET gone(b, p) == IF cached[b].ifs[p] = NoIface THEN {}
                      ELSE getDeletedIP(cached, <<b, p>>, a, info)
        next(b) == [cached[b] EXCEPT !.ifs = [p \in Ports |->
                       IF gone(b, p) = {} THEN @[p]
                       ELSE [@[p] EXCEPT !.ips =
                               Without(@, CHOOSE s \in gone(b, p) : TRUE)]]] IN
    [b \in Agents |-> next(b)]

\* addAgentInfo, updateAgentInfo or deleteAgentInfo for the oldest event.  A
\* refused update of another agent's AgentInfo is only logged.
HandleAgentInfo ==
    LET a == Head(evs).agent
        info == Head(evs).info
        cached == [b \in Agents |-> Cached(b)]
        infos == toUpdatedAgentInfo(a, info, cached)
        dom == IF Absent \in {info, seen[a]} THEN {}
               ELSE {b \in Agents : infos[b] # cached[b] /\ IsCached(b)} IN
    /\ nc > 0
    /\ nc' = nc - 1
    /\ queue' = queue \cup enqueueEndpointsOnAgent(a, seen[a])
                      \cup enqueueEndpointsOnAgent(a, info)
    /\ seen' = [seen EXCEPT ![a] = info]
    /\ ai' = Updated(dom, infos)
    /\ evs' = Tail(evs) \o Writes(dom, infos)
    /\ UNCHANGED <<agentVars, epVars, expired>>

\* The first half of cleanExpiredIPFromAgentInfo, under the lock.  Of two
\* interfaces with one ID, one determines the entry.
CleanerScan ==
    LET old(f) == computeInterfaceExpiredIPs(seen[f[1]], f[2])
        due == {f \in Ifaces(seen) : old(f) # {}} IN
    /\ expired = NoExpired
    /\ due # {}
    /\ \E pick \in [{At(seen, f).ext : f \in due} -> due] :
        /\ \A e \in DOMAIN pick : At(seen, pick[e]).ext = e
        /\ expired' = [e \in Exts |-> IF e \in DOMAIN pick THEN old(pick[e]) ELSE {}]
    /\ UNCHANGED <<agentVars, ai, evs, nc, seen, epVars, queue>>

\* The second half: the updates end at the first that is refused, so that any
\* of those that would be accepted may be left out.
updateExpiredIface ==
    LET infos == [b \in Agents |-> [Cached(b) EXCEPT !.ifs = [p \in Ports |->
                    IF @[p] = NoIface THEN NoIface
                    ELSE [@[p] EXCEPT !.ips = Without(@, expired[Cached(b).ifs[p].ext])]]]] IN
    /\ expired # NoExpired
    /\ Len(evs) < MaxPending
    /\ expired' = NoExpired
    /\ \E dom \in SUBSET {b \in Agents : IsCached(b)} :
        ai' = Updated(dom, infos) /\ evs' = evs \o Writes(dom, infos)
    /\ UNCHANGED <<agentVars, nc, seen, epVars, queue>>

\* The event of a status update.
CacheEndpoint(e) ==
    /\ cst[e] # st[e]
    /\ cst' = [cst EXCEPT ![e] = st[e]]
    /\ queue' = queue \cup {e}
    /\ UNCHANGED <<agentVars, ai, evs, nc, seen, st, expired>>

Expected(e) == StatusFrom(seen, e, cst[e].ips)

\* A Reconcile returns early when the cached status is the expected one; its
\* update is refused, and the Endpoint requeued, when the cached one is old.
Reconcile(e) ==
    /\ e \in queue
    /\ IF Expected(e) # cst[e] /\ cst[e] = st[e]
       THEN st' = [st EXCEPT ![e] = Expected(e)] ELSE UNCHANGED st
    /\ queue' = IF Expected(e) # cst[e] /\ cst[e] # st[e] THEN queue ELSE queue \ {e}
    /\ UNCHANGED <<agentVars, ai, evs, nc, seen, cst, expired>>

--------------------------------------------------------------------------------

Environment ==
    \/ \E a \in Agents, p \in Ports, e \in Exts \cup {None} : Plug(a, p, e)
    \/ \E i \in IPs, e \in Exts : Assign(i, e)
    \/ \E a \in Agents : DeleteAgentInfo(a)

Next ==
    \/ Environment
    \/ \E a \in Agents, p \in Ports, i \in IPs : updateOfPortIPAddress(a, p, i)
    \/ \E a \in Agents : syncAgentInfo(a)
    \/ CacheAgentInfo \/ HandleAgentInfo
    \/ CleanerScan \/ updateExpiredIface
    \/ \E e \in Endpoints : CacheEndpoint(e) \/ Reconcile(e)

\* The monitor's ticker, the controller's workers and a VM that keeps sending
\* ARP packets all go on; the environment need not change.
Fairness ==
    /\ \A a \in Agents : WF_vars(syncAgentInfo(a))
    /\ \A a \in Agents, p \in Ports, i \in IPs : WF_vars(updateOfPortIPAddress(a, p, i))
    /\ WF_vars(CacheAgentInfo) /\ WF_vars(HandleAgentInfo)
    /\ \A e \in Endpoints : WF_vars(CacheEndpoint(e)) /\ WF_vars(Reconcile(e))

Spec == Init /\ [][Next]_vars /\ Fairness

--------------------------------------------------------------------------------

Dynamic == {e \in Endpoints : type[e] = "dynamic"}

\* The only port that a VM using the address is on.
Place(i) == {f \in Agents \X Ports : ovs[f[1]][f[2]] = holder[i]}

Right ==
    \A i \in IPs : Cardinality(Place(i)) = 1 =>
        LET here == {f[1] : f \in Place(i)} IN
        /\ holder[i] \in Dynamic =>
            i \in st[holder[i]].ips /\ st[holder[i]].agents = here
        /\ \A e \in Dynamic \ {holder[i]} : i \notin st[e].ips
        /\ \A e \in Endpoints \ Dynamic : st[e].agents \cap here # {}

\* A VM that goes on using its address on one port gets it, with its agent, into
\* the status of its Endpoint for good, and no other dynamic Endpoint keeps it:
\* however the report was merged, refused, taken over or cleaned on the way.
StatusFollowsHolder == <>[]Right
================================================================================
