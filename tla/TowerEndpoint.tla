----------------------------- MODULE TowerEndpoint -----------------------------
(***************************************************************************)
(* The endpoint controller of the tower plugin: vnics of VMs, with the     *)
(* labels of their VM, become Endpoints, and so do the addresses of system *)
(* endpoints and of the controllers of everoute clusters.  Key "vnic"      *)
(* stands for one vnic, "static" for one system endpoint, "ctrl" for the   *)
(* controller with address CtrlIP, which is in its key.  A VM's value is   *)
(* "bare" without the vnic, "noif" with it but without an interface ID,    *)
(* "nic" with both, "dead" once its status is DELETED, and "again" when it *)
(* is back from there; a label's value is the VM it is on.                 *)
(***************************************************************************)
EXTENDS Integers, TowerInformer

CONSTANTS VMs, IPs, CtrlIP,
          MaxChanges, \* bound: changes of tower's objects
          MaxFaults   \* bound: broken subscriptions, restarts, Endpoints deleted by hand

VARIABLES
    queue,     \* endpointQueue and staticEndpointQueue
    eps,       \* the Endpoints in the API server
    lister,    \* endpointLister
    epEvents,  \* changes of Endpoints the informer has not seen
    steady,    \* history: the vnic has been on its VM since it was first
    changes, faults

epVars == <<queue, eps, lister, epEvents>>
bounds == <<changes, faults>>
vars == <<informerVars, epVars, steady, bounds>>

Label == <<"label", "l">>
System == <<"system", "s">>
Cluster == <<"cluster", "c">>
VM(v) == <<"vm", v>>

StaticKeys == {k \in {"static", "ctrl"} : (IF k = "static" THEN System ELSE Cluster) \in Objects}

Keys == (IF VMs = {} THEN {} ELSE {"vnic"}) \cup StaticKeys

Choices(o) ==
    CASE o[1] = "vm" -> {NoObject, "bare", "noif", "nic", "dead", "again"}
      [] o[1] = "label" -> {NoObject, "unused"} \cup VMs
      [] o[1] = "system" -> {NoObject, "empty"} \cup IPs
      [] o[1] = "cluster" -> {NoObject, "empty", CtrlIP}

NoIP == "none"

\* The status of the VM is not that of its vnics.
SameVMNics == {"nic", "dead", "again"}

HasNic(value) == value \in {"noif"} \cup SameVMNics

------------------------------------------------------------------------------
(* The informers' handlers: the keys queued when an object's value changes  *)
(* from old to new; nilNode when the handler of a deletion is given an      *)
(* object with an id only.                                                  *)

enqueueVMNics(value) == IF HasNic(value) THEN {"vnic"} ELSE {}

\* A VM that is DELETED, and one with the vnics it had, are left out.
VMHandler(old, new, nilNode) ==
    IF \/ new = "dead" \/ old = new
       \/ {old, new} \subseteq SameVMNics
       \/ new = NoObject /\ nilNode
    THEN {} ELSE enqueueVMNics(old) \cup enqueueVMNics(new)

enqueueVMNicsByVMReference(value) ==
    IF value \in VMs THEN enqueueVMNics(store[VM(value)]) ELSE {}

LabelHandler(old, new, nilNode) ==
    IF new = NoObject /\ nilNode THEN {}
    ELSE enqueueVMNicsByVMReference(old) \cup enqueueVMNicsByVMReference(new)

SystemHandler(old, new, nilNode) ==
    IF old = new \/ (new = NoObject /\ nilNode) \/ {old, new} \cap IPs = {} THEN {}
    ELSE {"static"}

ClusterHandler(old, new, nilNode) ==
    IF old = new \/ (new = NoObject /\ nilNode) \/ CtrlIP \notin {old, new} THEN {}
    ELSE {"ctrl"}

Handler(o, old, new, nilNode) ==
    CASE o[1] = "vm" -> VMHandler(old, new, nilNode)
      [] o[1] = "label" -> LabelHandler(old, new, nilNode)
      [] o[1] = "system" -> SystemHandler(old, new, nilNode)
      [] o[1] = "cluster" -> ClusterHandler(old, new, nilNode)

\* A list queues for every object, absent ones with the object last seen.
List(t) ==
    /\ syncWith(t)
    /\ queue' = queue \cup UNION {Handler(o, store[o], tower[o], FALSE) :
                                    o \in {x \in Objects : x[1] = t}}
    /\ UNCHANGED <<eps, lister, epEvents, steady, bounds>>

Watch(t) ==
    /\ eventHandler(t)
    /\ LET e == Head(chan[t])
       IN queue' = queue \cup Handler(e.object, store[e.object], e.value, e.nilNode)
    /\ UNCHANGED <<eps, lister, epEvents, steady, bounds>>

Subscribe(t) == Subscription(t) /\ UNCHANGED <<epVars, steady, bounds>>

listAndWatch(t) == Subscribe(t) \/ List(t) \/ Watch(t)

Break(t) ==
    /\ faults < MaxFaults /\ faults' = faults + 1
    /\ watchErrorHandler(t)
    /\ UNCHANGED <<epVars, steady, changes>>

Change(o, value, nilNode) ==
    /\ changes < MaxChanges /\ changes' = changes + 1
    /\ Write(o, value, nilNode)
    /\ nilNode => value = NoObject
    /\ value = "again" <=> value \in {"nic", "again"} /\ tower[o] \in {"dead", "again"}
    /\ steady' = (steady /\ ~(o[1] = "vm" /\ (HasNic(value) # HasNic(tower[o]))))
    /\ UNCHANGED <<epVars, faults>>

------------------------------------------------------------------------------
(* Workers.                                                                 *)

Put(k, value) ==
    /\ eps' = [eps EXCEPT ![k] = value]
    /\ epEvents' = Append(epEvents, <<k, value>>)

\* processEndpointDelete; an Endpoint not in the cache is thought deleted.
processEndpointDelete(k) ==
    IF lister[k] = "none" \/ eps[k] = "none" THEN UNCHANGED <<eps, epEvents>>
    ELSE Put(k, "none")

getVMLabels(v) == IF store[Label] = v THEN "labelled" ELSE "plain"

\* The Endpoint in the cache is to be changed to ep.
setEndpoint(ep) == lister["vnic"] # ep

\* Create of an Endpoint that exists, and Update of another version than the
\* stored one, are errors: the key is queued again.
processEndpointUpdate(v) ==
    LET ep == getVMLabels(v) IN
    IF store[VM(v)] = "noif" \/ ~setEndpoint(ep)
    THEN queue' = queue \ {"vnic"} /\ UNCHANGED <<eps, epEvents>>
    ELSE IF lister["vnic"] = eps["vnic"]
         THEN queue' = queue \ {"vnic"} /\ Put("vnic", ep)
         ELSE UNCHANGED <<queue, eps, epEvents>>

\* Run starts the workers when every informer has its list.
\* (Mutant: they start at once.)
WorkersAlways == TRUE

Workers == \A t \in Types : synced[t]

syncEndpoint ==
    LET vms == {v \in VMs : HasNic(store[VM(v)])} IN
    /\ Workers /\ "vnic" \in queue
    /\ \/ vms = {} /\ processEndpointDelete("vnic") /\ queue' = queue \ {"vnic"}
       \/ \E v \in VMs : vms = {v} /\ processEndpointUpdate(v)
    /\ UNCHANGED <<informerVars, lister, steady, bounds>>

\* The address for key k among objects, or NoIP.
getStaticIP(objects, k) ==
    LET value == objects[IF k = "static" THEN System ELSE Cluster]
    IN IF value \in {NoObject, "empty"} THEN NoIP ELSE value

\* The address is in the status, which a create does not store: it is written
\* when the created Endpoint is in the cache.
processStaticEndpointUpdate(k, ip) ==
    \/ /\ lister[k] = "none"
       /\ IF eps[k] = "none"
          THEN Put(k, "created") /\ UNCHANGED queue
          ELSE queue' = queue \ {k} /\ UNCHANGED <<eps, epEvents>>
    \/ /\ lister[k] = ip
       /\ queue' = queue \ {k} /\ UNCHANGED <<eps, epEvents>>
    \/ /\ lister[k] \notin {"none", ip}
       /\ lister[k] = eps[k]
       /\ Put(k, ip) /\ queue' = queue \ {k}

syncStaticEndpoint(k) ==
    LET ip == getStaticIP(store, k) IN
    /\ Workers /\ k \in queue
    /\ \/ ip = NoIP /\ processEndpointDelete(k) /\ queue' = queue \ {k}
       \/ ip # NoIP /\ processStaticEndpointUpdate(k, ip)
    /\ UNCHANGED <<informerVars, lister, steady, bounds>>

\* The Endpoint informer: add, update and delete queue the Endpoint.
EndpointEvent ==
    /\ epEvents # <<>>
    /\ lister' = [lister EXCEPT ![Head(epEvents)[1]] = Head(epEvents)[2]]
    /\ queue' = queue \cup {Head(epEvents)[1]}
    /\ epEvents' = Tail(epEvents)
    /\ UNCHANGED <<informerVars, eps, steady, bounds>>

\* Every resyncPeriod the informer updates each Endpoint with itself, each label
\* too; a VM or a system endpoint updated with itself is left out.
\* (Mutant: an Endpoint updated with itself is left out too.)
ResyncLabelsOnly ==
    /\ queue' = queue \cup UNION {enqueueVMNicsByVMReference(store[o]) : o \in Objects \cap {Label}}
    /\ UNCHANGED <<informerVars, eps, lister, epEvents, steady, bounds>>

Resync ==
    /\ queue' = queue \cup {k \in Keys : lister[k] # "none"}
                      \cup UNION {enqueueVMNicsByVMReference(store[o]) : o \in Objects \cap {Label}}
    /\ UNCHANGED <<informerVars, eps, lister, epEvents, steady, bounds>>

\* The Endpoint is deleted by hand.
Meddle(k) ==
    /\ faults < MaxFaults /\ faults' = faults + 1
    /\ eps[k] # "none" /\ Put(k, "none")
    /\ steady' = FALSE
    /\ UNCHANGED <<informerVars, queue, lister, changes>>

Restart ==
    /\ faults < MaxFaults /\ faults' = faults + 1
    /\ InformerRestart
    /\ lister' = eps /\ epEvents' = <<>>
    /\ queue' = {k \in Keys : eps[k] # "none"}
    /\ UNCHANGED <<eps, steady, changes>>

------------------------------------------------------------------------------
Init ==
    /\ tower \in {f \in [Objects -> {NoObject, "bare", "nic", CtrlIP} \cup VMs \cup IPs] :
                    \A o \in Objects : f[o] \in Choices(o)}
    /\ InformerInit
    /\ queue = {} /\ epEvents = <<>>
    /\ eps = [k \in Keys |-> "none"] /\ lister = eps
    /\ steady = (\E v \in VMs : \A w \in VMs : HasNic(tower[VM(w)]) <=> w = v)
    /\ changes = 0 /\ faults = 0

Next ==
    \/ \E o \in Objects : \E x \in Choices(o), b \in BOOLEAN : Change(o, x, b)
    \/ \E t \in Types : listAndWatch(t) \/ Break(t)
    \/ syncEndpoint \/ EndpointEvent \/ Resync
    \/ \E k \in StaticKeys : syncStaticEndpoint(k)
    \/ \E k \in Keys : Meddle(k)
    \/ Restart

\* The informers, the workers and the timer of the resync run on.
Fairness ==
    /\ \A t \in Types : WF_vars(listAndWatch(t))
    /\ WF_vars(syncEndpoint) /\ \A k \in StaticKeys : WF_vars(syncStaticEndpoint(k))
    /\ WF_vars(EndpointEvent) /\ WF_vars(Resync)

Spec == Init /\ [][Next]_vars /\ Fairness

------------------------------------------------------------------------------
\* Endpoint k is what tower's objects call for.  (A vnic on two VMs is an error,
\* one without an interface ID or of a VM being deleted is left as it is; so is
\* one that was first seen on a VM being deleted, even if that comes back, until
\* it has a label.)
Follows(k) ==
    LET vms == {v \in VMs : HasNic(tower[VM(v)])} IN
    IF k \in StaticKeys THEN eps[k] = getStaticIP(tower, k)
    ELSE /\ vms = {} => eps[k] = "none"
         /\ \A v \in VMs : vms = {v} /\ tower[VM(v)] \in {"nic", "again"} =>
              \/ eps[k] = IF tower[Label] = v THEN "labelled" ELSE "plain"
              \/ tower[VM(v)] = "again" /\ tower[Label] # v /\ eps[k] = "none"

\* The Endpoints come to follow tower: whatever is lost between them - changes
\* while a subscription is down or the controller is restarting, the vnics of a
\* VM or a label that is deleted by an event with its id only, an Endpoint
\* deleted by hand - is found again by the list or by the resync of Endpoints.
EndpointsFollowTower == <>[](\A k \in Keys : Follows(k))

KeepsEndpoint == steady' => (eps["vnic"] # "none" => eps'["vnic"] # "none")

\* The Endpoint of a vnic that stays on its VM is never deleted: not by a
\* restart, when the stores are empty, nor by a broken subscription or by what
\* else changes in tower.
EndpointsKept == [][KeepsEndpoint]_vars
===============================================================================
