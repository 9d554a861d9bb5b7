---------------------------- MODULE K8sControllers ----------------------------
(***************************************************************************)
(* The controllers that mirror Kubernetes objects: a NetworkPolicy as a    *)
(* SecurityPolicy, a Pod as an Endpoint, and the Endpoints of a service as *)
(* ServicePorts, one for each port name.  Each is about one source object  *)
(* and what is made of it, read from caches that lag behind.               *)
(***************************************************************************)
EXTENDS Integers, Sequences, SequencesExt

CONSTANTS PortNames, Specs, Ports, IPs,
          MaxChanges, \* bound: changes of the source
          MaxFaults   \* bound: failed calls, restarts

VARIABLES
    kind,      \* which of the controllers this is
    src,       \* the source object: whether it exists, and its parts
    srcSeen,   \* as the cache shows it
    srcEvents, \* changes the cache has not seen
    out,       \* the mirrored objects, or None
    outSeen, outEvents,
    queued,    \* the source's key is queued
    calls,     \* calls to the API server left in the reconcile under way
    renewed,   \* history: a pod was replaced by one of the same name
    changes, faults

vars == <<kind, src, srcSeen, srcEvents, out, outSeen, outEvents, queued, calls,
          renewed, changes, faults>>

Kinds == {"networkPolicy", "pod", "endpoints"}

\* A part of an object: what its spec or labels are converted to, the named ports
\* of a pod, and the address in its status.
Part(spec, ports, ip) == [spec |-> spec, ports |-> ports, ip |-> ip]

None == Part("none", "none", "none")

Slots == IF kind = "endpoints" THEN PortNames ELSE {"object"}

NoSource == [exists |-> FALSE, parts |-> [s \in Slots |-> None]]

Sources ==
    CASE kind = "networkPolicy" ->
           {[exists |-> TRUE, parts |-> [s \in Slots |-> Part(x, "none", "none")]] : x \in Specs}
      [] kind = "pod" ->
           {[exists |-> TRUE, parts |-> [s \in Slots |-> Part(x, p, i)]] :
              x \in Specs, p \in Ports, i \in IPs}
      [] kind = "endpoints" ->
           {[exists |-> TRUE, parts |-> f] :
              f \in [Slots -> {None} \cup {Part(x, "none", "none") : x \in Specs}]}

Init ==
    /\ kind \in Kinds
    /\ src = NoSource /\ srcSeen = NoSource /\ srcEvents = <<>>
    /\ out = [s \in Slots |-> None] /\ outSeen = out /\ outEvents = <<>>
    /\ queued = FALSE /\ calls = <<>> /\ renewed = FALSE
    /\ changes = 0 /\ faults = 0

WriteSource(new) ==
    /\ changes < MaxChanges /\ changes' = changes + 1
    /\ new # src
    /\ \* the containers of a pod do not change
       kind = "pod" /\ new.exists /\ src.exists =>
         new.parts["object"].ports = src.parts["object"].ports
    /\ src' = new
    /\ srcEvents' = Append(srcEvents, new)
    /\ renewed' = (renewed \/ (kind = "pod" /\ ~new.exists))
    /\ UNCHANGED <<kind, srcSeen, out, outSeen, outEvents, queued, calls, faults>>

EnqueueRequestForObject ==
    /\ srcEvents # <<>>
    /\ srcSeen' = Head(srcEvents) /\ srcEvents' = Tail(srcEvents)
    /\ queued' = TRUE
    /\ UNCHANGED <<kind, src, out, outSeen, outEvents, calls, renewed, changes, faults>>

\* addSecurityPolicy, addEndpoint and addServicePort: an object that is created
\* queues its source, a ServicePort only when that is gone.
\* (Mutant: it does not.)
addMirroredNot ==
    /\ outEvents # <<>>
    /\ LET e == Head(outEvents) IN outSeen' = [outSeen EXCEPT ![e[1]] = e[2]]
    /\ outEvents' = Tail(outEvents)
    /\ UNCHANGED <<kind, src, srcSeen, srcEvents, out, queued, calls, renewed, changes, faults>>

addMirrored ==
    /\ outEvents # <<>>
    /\ LET e == Head(outEvents) IN
       /\ outSeen' = [outSeen EXCEPT ![e[1]] = e[2]]
       /\ queued' = (queued \/ (/\ outSeen[e[1]] = None /\ e[2] # None
                                /\ kind = "endpoints" => ~srcSeen.exists))
    /\ outEvents' = Tail(outEvents)
    /\ UNCHANGED <<kind, src, srcSeen, srcEvents, out, calls, renewed, changes, faults>>

------------------------------------------------------------------------------
Call(op, s, part) == [op |-> op, slot |-> s, part |-> part]

\* getSecurityPolicy, and deletion when the policy is gone.
NetworkPolicyCalls ==
    LET s == "object" IN
    IF ~srcSeen.exists THEN {<<Call("delete", s, None)>>}
    ELSE IF outSeen[s] = None THEN {<<Call("create", s, srcSeen.parts[s])>>}
    ELSE {<<Call("update", s, srcSeen.parts[s])>>}

\* A create stores no status; the update of labels leaves the named ports as the
\* Endpoint was created with, and the status is another call.
PodCalls ==
    LET s == "object"
        pod == srcSeen.parts[s]
        labels == Part(pod.spec, outSeen[s].ports, outSeen[s].ip)
    IN
    IF ~srcSeen.exists THEN {<<Call("delete", s, None)>>}
    ELSE IF outSeen[s] = None THEN {<<Call("create", s, Part(pod.spec, pod.ports, "none"))>>}
    ELSE {<<Call("update", s, labels), Call("status", s, [labels EXCEPT !.ip = pod.ip])>>}

\* updateEndpoints: compareServicePorts with the ServicePorts of a live list,
\* those to add first, then those to update, then those to delete.
EndpointsCalls ==
    LET new == srcSeen.parts
        all == {s \in Slots : out[s] # None}
        wanted == {s \in Slots : new[s] # None}
        Op(s) == IF s \notin all THEN Call("create", s, new[s])
                 ELSE IF s \in wanted THEN Call("update", s, new[s])
                 ELSE Call("delete", s, None)
        Rank(s) == CASE Op(s).op = "create" -> 1 [] Op(s).op = "update" -> 2 [] OTHER -> 3
        todo == {s \in all \cup wanted : new[s] # out[s]}
    IN
    IF ~srcSeen.exists THEN {<<Call("deleteAll", CHOOSE s \in Slots : TRUE, None)>>}
    ELSE {[i \in DOMAIN q |-> Op(q[i])] :
            q \in {q \in SetToSeqs(todo) :
                     \A i, j \in DOMAIN q : i < j => Rank(q[i]) <= Rank(q[j])}}

Reconcile ==
    /\ queued /\ calls = <<>>
    /\ queued' = FALSE
    /\ calls' \in CASE kind = "networkPolicy" -> NetworkPolicyCalls
                    [] kind = "pod" -> PodCalls
                    [] kind = "endpoints" -> EndpointsCalls
    /\ UNCHANGED <<kind, src, srcSeen, srcEvents, out, outSeen, outEvents, renewed, changes, faults>>

\* What an update of labels or of the spec is based on: the cache, or the list.
Base(s) == IF kind = "endpoints" THEN out[s] ELSE outSeen[s]

\* A create of what exists and an update of another version are refused; the
\* status follows an update that has just succeeded.
Refused(c) ==
    \/ c.op = "create" /\ out[c.slot] # None
    \/ c.op = "update" /\ (out[c.slot] = None \/ out[c.slot] # Base(c.slot))
    \/ c.op = "status" /\ out[c.slot] = None
    \/ c.op = "delete" /\ kind = "endpoints" /\ out[c.slot] = None

Store(s, part) ==
    /\ out' = [out EXCEPT ![s] = part]
    /\ outEvents' = IF out[s] = part THEN outEvents ELSE Append(outEvents, <<s, part>>)

DeleteAllOf ==
    /\ out' = [s \in Slots |-> None]
    /\ outEvents' = outEvents \o LET gone == SetToSeq({s \in Slots : out[s] # None})
                                 IN [i \in DOMAIN gone |-> <<gone[i], None>>]

Fails ==
    /\ calls' = <<>> /\ queued' = TRUE
    /\ UNCHANGED <<out, outEvents>>

APICall ==
    /\ calls # <<>>
    /\ LET c == Head(calls) IN
       \/ Refused(c) /\ Fails /\ UNCHANGED faults
       \/ /\ ~Refused(c) /\ calls' = Tail(calls) /\ UNCHANGED <<queued, faults>>
          /\ IF c.op = "deleteAll" THEN DeleteAllOf ELSE Store(c.slot, c.part)
       \/ faults < MaxFaults /\ faults' = faults + 1 /\ Fails
    /\ UNCHANGED <<kind, src, srcSeen, srcEvents, outSeen, renewed, changes>>

\* The process starts again: it lists what there is.
Restart ==
    /\ faults < MaxFaults /\ faults' = faults + 1
    /\ srcSeen' = src /\ srcEvents' = <<>>
    /\ outSeen' = out /\ outEvents' = <<>>
    /\ queued' = (src.exists \/ \E s \in Slots : out[s] # None)
    /\ calls' = <<>>
    /\ UNCHANGED <<kind, src, out, renewed, changes>>

Next ==
    \/ \E new \in {NoSource} \cup Sources : WriteSource(new)
    \/ EnqueueRequestForObject \/ addMirrored \/ Reconcile \/ APICall \/ Restart

Fairness ==
    /\ WF_vars(EnqueueRequestForObject) /\ WF_vars(addMirrored)
    /\ WF_vars(Reconcile) /\ WF_vars(APICall)

Spec == Init /\ [][Next]_vars /\ Fairness

------------------------------------------------------------------------------
\* What is made of the source comes to be, and stays, what the source says: in
\* whatever order the caches follow, calls fail and the process is restarted.
\* (The named ports of an Endpoint are those of the pod it was created for: a pod
\* replaced by one of the same name is left out.)
MirrorsFollow ==
    <>[](\A s \in Slots : out[s] = src.parts[s] \/ (renewed /\ out[s].spec = src.parts[s].spec
                                                            /\ out[s].ip = src.parts[s].ip))
===============================================================================
