----------------------------- MODULE ServiceProxy -----------------------------
(***************************************************************************)
(* The service controller of the agent: the cluster address of a Service   *)
(* gets one load-balancing flow per port in the nat bridge of every VDS.   *)
(* One worker; a call to a switch may fail at any flow, and the service is *)
(* then queued again.                                                      *)
(***************************************************************************)
EXTENDS Integers

CONSTANTS Services, NatBridges, ClusterIPs, SvcPorts,
          NoClusterIP,                 \* headless or externalName
          MaxSvcChanges, MaxSvcFails   \* bounds

\* A Service has a name.
ASSUME ServiceAssumption == "" \notin Services

VARIABLES
    svc,      \* the Service object, or NoSvc
    queue,    \* services to reconcile
    work,     \* the reconcile under way: the calls to make, in two rounds
    cached,   \* baseSvcCache
    lbMap,    \* svcIndexCache: the flows a nat bridge has recorded
    lbFlows,  \* the flows of the ServiceLB table
    failed,   \* history: the services whose last reconcile has failed
    lost,     \* history: the services that have changed before the retry
    svcChanges, svcFails

proxyVars == <<svc, queue, work, cached, lbMap, lbFlows, failed, lost, svcChanges, svcFails>>

NoSvc == [ip |-> NoClusterIP, ports |-> {}]

NoWork == [svc |-> NoSvc, name |-> "", add |-> {}, del |-> {}]

ProxyInit ==
    /\ svc = [s \in Services |-> NoSvc]
    /\ queue = {} /\ work = NoWork
    /\ cached = svc
    /\ lbMap = [b \in NatBridges |-> {}]
    /\ lbFlows = lbMap
    /\ failed = {} /\ lost = {}
    /\ svcChanges = 0 /\ svcFails = 0

\* A service is created, deleted, or re-created between two reconciles.
SetService(s, ip, ports) ==
    /\ svcChanges < MaxSvcChanges /\ svcChanges' = svcChanges + 1
    /\ svc' = [svc EXCEPT ![s] = [ip |-> ip, ports |-> ports]]
    /\ svc' # svc
    /\ queue' = queue \cup {s}
    /\ lost' = lost \cup ({s} \cap failed)
    /\ UNCHANGED <<work, cached, lbMap, lbFlows, failed, svcFails>>

------------------------------------------------------------------------------
LBFlows(s, ip, ports) == {[svc |-> s, ip |-> ip, port |-> p] : p \in ports}

\* (Mutant: the addresses that are gone are left alone.)
DiffAddOnly(s) ==
    [svc |-> svc[s], name |-> s,
     add |-> IF svc[s].ip \in {NoClusterIP, cached[s].ip} THEN {} ELSE NatBridges,
     del |-> IF svc[s].ip = NoClusterIP /\ cached[s].ip # NoClusterIP THEN NatBridges ELSE {}]

\* Which nat bridges updateService and deleteService call: an address that is
\* new is added, one that is gone deleted.
DiffClusterIPs(s) ==
    [svc |-> svc[s], name |-> s,
     add |-> IF svc[s].ip \in {NoClusterIP, cached[s].ip} THEN {} ELSE NatBridges,
     del |-> IF cached[s].ip \in {NoClusterIP, svc[s].ip} THEN {} ELSE NatBridges]

ReconcileService(s) ==
    /\ work = NoWork /\ s \in queue
    /\ queue' = queue \ {s}
    /\ work' = DiffClusterIPs(s)
    /\ UNCHANGED <<svc, cached, lbMap, lbFlows, failed, lost, svcChanges, svcFails>>

\* An address is added with the ports of the service as it was first seen.
PortsToAdd(s, w) == IF cached[s].ip = NoClusterIP THEN w.svc.ports ELSE cached[s].ports

Retry(s) ==
    /\ svcFails < MaxSvcFails /\ svcFails' = svcFails + 1
    /\ work' = NoWork
    /\ queue' = queue \cup {s}
    /\ failed' = failed \cup {s}
    /\ lost' = IF svc[s] = work.svc THEN lost ELSE lost \cup {s}

\* The flows of a call are recorded together once all are installed.
AddLBIP(b) ==
    LET s == work.name
        new == LBFlows(s, work.svc.ip, PortsToAdd(s, work)) \ lbMap[b]
    IN
    /\ b \in work.add
    /\ \/ /\ lbFlows' = [lbFlows EXCEPT ![b] = @ \cup new]
          /\ lbMap' = [lbMap EXCEPT ![b] = @ \cup new]
          /\ work' = [work EXCEPT !.add = @ \ {b}]
          /\ UNCHANGED <<queue, failed, lost, svcFails>>
       \/ /\ \E done \in SUBSET new :
               /\ done # new
               /\ lbFlows' = [lbFlows EXCEPT ![b] = @ \cup done]
          /\ UNCHANGED lbMap
          /\ Retry(s)
    /\ UNCHANGED <<svc, cached, svcChanges>>

\* A flow is forgotten as soon as it is deleted.
DelLBIP(b) ==
    LET s == work.name
        old == {f \in lbMap[b] : f.svc = s /\ f.ip = cached[s].ip}
    IN
    /\ work.add = {} /\ b \in work.del
    /\ \E done \in SUBSET old :
         /\ lbFlows' = [lbFlows EXCEPT ![b] = @ \ done]
         /\ lbMap' = [lbMap EXCEPT ![b] = @ \ done]
         /\ IF done = old
            THEN /\ work' = [work EXCEPT !.del = @ \ {b}]
                 /\ UNCHANGED <<queue, failed, lost, svcFails>>
            ELSE Retry(s)
    /\ UNCHANGED <<svc, cached, svcChanges>>

\* The end of processServiceAdd, processServiceUpdate and deleteService: the
\* ports stay those of the first time.
UpdateBaseSvcCache ==
    LET s == work.name IN
    /\ work # NoWork /\ work.add = {} /\ work.del = {}
    /\ cached' = [cached EXCEPT ![s] =
                    IF work.svc.ip = NoClusterIP THEN NoSvc
                    ELSE [ip |-> work.svc.ip, ports |-> PortsToAdd(s, work)]]
    /\ work' = NoWork
    /\ failed' = failed \ {s}
    /\ UNCHANGED <<svc, queue, lbMap, lbFlows, lost, svcChanges, svcFails>>

ProxyNext ==
    \/ \E s \in Services : \/ \E ip \in ClusterIPs \cup {NoClusterIP}, ps \in SUBSET SvcPorts \ {{}} :
                                SetService(s, ip, IF ip = NoClusterIP THEN {} ELSE ps)
                           \/ ReconcileService(s)
    \/ \E b \in NatBridges : AddLBIP(b) \/ DelLBIP(b)
    \/ UpdateBaseSvcCache

ProxySpec == ProxyInit /\ [][ProxyNext]_proxyVars

------------------------------------------------------------------------------
\* When nothing is left to reconcile, every nat bridge has exactly the flows of
\* every service's cluster address, for the ports it was first seen with,
\* whatever calls have failed on the way; except for a service that has changed
\* between a failure and its retry, as baseSvcCache is only set at the end.
QuietServicesBalanced ==
    queue = {} /\ work = NoWork =>
        \A s \in Services \ lost, b \in NatBridges :
            /\ cached[s].ip = svc[s].ip
            /\ {f \in lbFlows[b] : f.svc = s} =
                 IF svc[s].ip = NoClusterIP THEN {} ELSE LBFlows(s, svc[s].ip, cached[s].ports)
===============================================================================
