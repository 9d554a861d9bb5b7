------------------------------- MODULE MCFollow -------------------------------
(* Controllers that keep one thing like another, side by side: a behaviour   *)
(* is one of one of them, the others rest.                                   *)
EXTENDS Integers, TowerInformer

VARIABLES part,
          matched, mLog, pLog, cm, cp, syncQueued, pc, w, hist, syncChanges, faults,
          am, ap, gc, pq, held, dead,
          secPolicies, groups, policyCache, groupCache, genEvents, genQueue, genChanges, deletions,
          epQueue, eps, lister, epEvents, steady,
          towerChanges, towerFaults,
          object, token, subs, reflector, objectStore, objectSynced, panicked, objectChanges,
          clientFaults

Sync == INSTANCE GroupSync WITH
          Refs <- {"r1"}, Addrs <- {"x", "y"}, PortSets <- {"p"}, Retained <- 1,
          MaxChanges <- 1, MaxFaults <- 1, Agents <- {"a1"},
          queued <- syncQueued, changes <- syncChanges

Generator == INSTANCE GroupGenerator WITH
               Policies <- {"p", "q"}, Peers <- {"web", "ipBlock"}, MaxChanges <- 3,
               MaxMeddles <- 1, policies <- secPolicies, events <- genEvents,
               queue <- genQueue, changes <- genChanges, meddles <- deletions

VnicObjects == {<<"vm", "v1">>, <<"vm", "v2">>, <<"label", "l">>}

AllObjects == VnicObjects \cup {<<"system", "s">>, <<"cluster", "c">>}

\* Two VMs with a vnic and a label between them, a system endpoint, or the
\* controller of a cluster.
Vnic == INSTANCE TowerEndpoint WITH
          Objects <- VnicObjects,
          VMs <- {"v1", "v2"}, IPs <- {}, CtrlIP <- "none",
          MaxChanges <- 2, MaxFaults <- 1,
          queue <- epQueue, changes <- towerChanges, faults <- towerFaults

Static == INSTANCE TowerEndpoint WITH
            Objects <- {<<"system", "s">>},
            VMs <- {}, IPs <- {"ip1", "ip2"}, CtrlIP <- "none",
            MaxChanges <- 2, MaxFaults <- 2,
            queue <- epQueue, changes <- towerChanges, faults <- towerFaults

Ctrl == INSTANCE TowerEndpoint WITH
          Objects <- {<<"cluster", "c">>},
          VMs <- {}, IPs <- {}, CtrlIP <- "ip3",
          MaxChanges <- 2, MaxFaults <- 2,
          queue <- epQueue, changes <- towerChanges, faults <- towerFaults

Client == INSTANCE TowerClient WITH
            responseChanLenth <- 1, MaxChanges <- 2, MaxFaults <- 2,
            tower <- object, store <- objectStore, synced <- objectSynced,
            changes <- objectChanges, faults <- clientFaults

------------------------------------------------------------------------------
controllerVars == <<matched, mLog, pLog, cm, cp, syncQueued, pc, w, hist, syncChanges, faults>>
agentVars == <<am, ap, gc, pq, held, dead>>
syncVars == <<controllerVars, agentVars>>
genVars == <<secPolicies, groups, policyCache, groupCache, genEvents, genQueue, genChanges,
             deletions>>
towerVars == <<tower, watch, chan, store, synced, epQueue, eps, lister, epEvents, steady,
               towerChanges, towerFaults>>
clientVars == <<object, token, subs, reflector, objectStore, objectSynced, panicked,
                objectChanges, clientFaults>>

\* Of initial states that differ in the names of the VMs only, one.
OneOfSwapped ==
    LET v(n) == tower[<<"vm", n>>] IN
    /\ v("v1") = NoObject => v("v2") = NoObject
    /\ v("v2") = "nic" => v("v1") = "nic"
    /\ v("v1") = v("v2") => tower[<<"label", "l">>] # "v2"

\* The same for the addresses: x comes first; and of the policies p.
XFirst(m) == \A r \in DOMAIN m : m[r].addr = "x"

\* Bound: two changes of tower's objects, or one and a fault.
TwoEvents == towerChanges + towerFaults <= 2

Init ==
    /\ part \in {"sync", "generator", "vnic", "static", "ctrl", "client"}
    /\ Sync!Init /\ XFirst(matched) /\ (part = "sync" \/ matched = [r \in {} |-> {}])
    /\ Generator!Init
    /\ CASE part = "vnic" -> Vnic!Init /\ OneOfSwapped
         [] part = "ctrl" -> Ctrl!Init
         [] OTHER -> Static!Init /\ (part = "static" \/ tower = [o \in DOMAIN tower |-> NoObject])
    /\ Client!Init

Next ==
    /\ UNCHANGED part
    /\ \/ part = "sync" /\ Sync!Next /\ Sync!NoReturn /\ (DOMAIN matched = {} => XFirst(matched'))
       \/ part # "sync" /\ UNCHANGED syncVars
    /\ \/ part = "generator" /\ Generator!Next
          /\ (genChanges = 0 => secPolicies'["q"] = secPolicies["q"])
       \/ part # "generator" /\ UNCHANGED genVars
    /\ \/ part = "vnic" /\ Vnic!Next /\ TwoEvents'
       \/ part = "static" /\ Static!Next
       \/ part = "ctrl" /\ Ctrl!Next
       \/ part \notin {"vnic", "static", "ctrl"} /\ UNCHANGED towerVars
    /\ \/ part = "client" /\ Client!Next
       \/ part # "client" /\ UNCHANGED clientVars

------------------------------------------------------------------------------
\* The fairness of each part, while it is the one that moves.
SyncFairness ==
    /\ WF_syncVars(part = "sync" /\ Sync!CacheMembers /\ UNCHANGED agentVars)
    /\ WF_syncVars(part = "sync" /\ Sync!CachePatches /\ UNCHANGED agentVars)
    /\ WF_syncVars(part = "sync" /\ Sync!Reconcile /\ UNCHANGED agentVars)
    /\ WF_syncVars(part = "sync" /\ Sync!WatchMembers("a1") /\ UNCHANGED controllerVars)
    /\ WF_syncVars(part = "sync" /\ Sync!WatchPatches("a1") /\ UNCHANGED controllerVars)
    /\ WF_syncVars(part = "sync" /\ Sync!PatchWorker("a1") /\ UNCHANGED controllerVars)

GeneratorFairness ==
    /\ WF_genVars(part = "generator" /\ Generator!updateSecurityPolicy)
    /\ WF_genVars(part = "generator" /\ Generator!EnqueueGroup)
    /\ \A g \in Generator!Groups :
          /\ WF_genVars(part = "generator" /\ Generator!GroupGenerateReconcile(g))
          /\ WF_genVars(part = "generator" /\ Generator!Finalize(g))

VnicFairness ==
    /\ \A t \in {"vm", "label"} : WF_towerVars(part = "vnic" /\ Vnic!listAndWatch(t))
    /\ WF_towerVars(part = "vnic" /\ Vnic!syncEndpoint)
    /\ WF_towerVars(part = "vnic" /\ Vnic!EndpointEvent)
    /\ WF_towerVars(part = "vnic" /\ Vnic!Resync)

StaticFairness ==
    /\ WF_towerVars(\/ part = "static" /\ Static!listAndWatch("system")
                    \/ part = "ctrl" /\ Ctrl!listAndWatch("cluster"))
    /\ WF_towerVars(\/ part = "static" /\ Static!syncStaticEndpoint("static")
                    \/ part = "ctrl" /\ Ctrl!syncStaticEndpoint("ctrl"))
    /\ WF_towerVars(\/ part = "static" /\ Static!EndpointEvent
                    \/ part = "ctrl" /\ Ctrl!EndpointEvent)
    /\ WF_towerVars(\/ part = "static" /\ Static!Resync
                    \/ part = "ctrl" /\ Ctrl!Resync)

ClientFairness ==
    /\ WF_clientVars(part = "client" /\ Client!reflectWorker)
    /\ \A s \in 1 .. 3 :
          /\ WF_clientVars(part = "client" /\ s \in DOMAIN subs /\ Client!Reader(s))
          /\ WF_clientVars(part = "client" /\ s \in DOMAIN subs /\ Client!loopReadMessage(s))

Spec ==
    /\ Init
    /\ [][Next]_<<part, syncVars, genVars, towerVars, clientVars>>
    /\ SyncFairness /\ GeneratorFairness /\ VnicFairness /\ StaticFairness
    /\ ClientFairness

------------------------------------------------------------------------------
\* GroupSync: agents come to enforce the addresses the selector matches, unless
\* cleanupOldPatches took a patch they had still to see.
AgentsConverge ==
    <>[](part = "sync" /\ Sync!InReach("a1") => Sync!Converged("a1"))

\* GroupGenerator: a group comes to exist if some policy refers to it, and to be
\* gone if none does.
GroupsFollowPolicies == Generator!GroupsFollowPolicies

\* TowerEndpoint: Endpoints come to follow tower's objects, whatever the
\* informers and the workers missed.
EndpointsFollowTower ==
    <>[](/\ part = "vnic" => Vnic!Follows("vnic")
         /\ part = "static" => Static!Follows("static")
         /\ part = "ctrl" => Ctrl!Follows("ctrl"))

\* TowerEndpoint: the Endpoint of a vnic that stays on its VM is not deleted.
EndpointsKept == [][part = "vnic" => Vnic!KeepsEndpoint]_towerVars

\* TowerClient: the reflector over websocket and goroutines does what the
\* abstract reflector of TowerInformer does.
ImplementsInformer ==
    Client!InformerStart /\ [][part = "client" => Client!InformerStep]_clientVars

\* TowerClient: the reflector holds what tower holds in the end, after a broken
\* connection, an expired token, a failed list or a panic, and no subscription
\* that listAndWatch left keeps its connection, nor its reader unless that is
\* stuck on a full response channel.
ReflectorResumes ==
    <>[](part = "client" => objectSynced /\ objectStore = object /\ Client!LeftBehind)
===============================================================================
