---------------------------- MODULE GroupSelection ----------------------------
(***************************************************************************)
(* The group controller's event handlers and the life of an EndpointGroup: *)
(* which events of endpoints and namespaces put the group in the queue,    *)
(* the finalizer, and the members fetched from caches that lag behind,     *)
(* each at its own pace.  How a membership is published, revision by       *)
(* revision, is module GroupController.                                    *)
(***************************************************************************)
EXTENDS Integers, Sequences, GroupSelector

CONSTANTS Groups,        \* the specs the group may have
          EndpointStates, NamespaceLabels,
          MaxChanges     \* bound: changes of the objects

VARIABLES
    objects,  \* the Endpoint, the Namespace and the EndpointGroup: sets of at most one
    cached,   \* the controller's caches of them
    events,   \* changes the caches have not seen
    queued,
    members,  \* the GroupMembers object: a set of at most one membership
    blind,    \* history: events of the endpoint handled without its namespace
    changes

vars == <<objects, cached, events, queued, members, blind, changes>>

Kinds == {"endpoint", "namespace", "group"}

Of(x) == CHOOSE v \in x : TRUE

\* The objects as functions of their names.
Eps(o) == [e \in {"ep" : v \in o.endpoint} |-> Of(o.endpoint)]

Namespaces(o) == [n \in {"ns" : v \in o.namespace} |-> Of(o.namespace)]

NewGroup(spec) == [spec |-> spec, finalizer |-> FALSE, deleting |-> FALSE]

Init ==
    /\ objects \in [endpoint : {{}} \cup {{v} : v \in EndpointStates},
                    namespace : {{v} : v \in NamespaceLabels}, group : {{}}]
    /\ cached = objects
    /\ events = [k \in Kinds |-> <<>>]
    /\ queued = FALSE /\ members = {} /\ blind = {} /\ changes = 0

WriteObject(k, new) ==
    /\ objects' = [objects EXCEPT ![k] = new]
    /\ events' = [events EXCEPT ![k] = Append(@, new)]

Change(k, new) ==
    /\ changes < MaxChanges /\ changes' = changes + 1
    /\ new # objects[k]
    /\ WriteObject(k, new)
    /\ UNCHANGED <<cached, queued, members, blind>>

\* An endpoint is in a namespace that exists, and its ports stay as they are.
ChangeEndpoint ==
    \E new \in {{}} \cup {{v} : v \in EndpointStates} :
        /\ new # {} => objects.namespace # {}
        /\ \A v \in new, w \in objects.endpoint : v.ports = w.ports
        /\ Change("endpoint", new)

ChangeNamespace ==
    \E new \in {{}} \cup {{v} : v \in NamespaceLabels} :
        /\ new = {} => objects.endpoint = {}
        /\ Change("namespace", new)

\* The group is created, its spec changed, or it is deleted: marked, as long as
\* it has a finalizer.
ChangeGroup ==
    \/ \E spec \in Groups : objects.group = {} /\ Change("group", {NewGroup(spec)})
    \/ \E g \in objects.group, spec \in Groups :
          ~g.deleting /\ Change("group", {[g EXCEPT !.spec = spec]})
    \/ \E g \in objects.group :
          ~g.deleting /\ Change("group", IF g.finalizer THEN {[g EXCEPT !.deleting = TRUE]} ELSE {})

------------------------------------------------------------------------------
(* Events: the cache changes, then the handler runs. *)

Seen(k) == [cached EXCEPT ![k] = Head(events[k])]

Deliver(k, enqueue) ==
    /\ cached' = Seen(k)
    /\ events' = [events EXCEPT ![k] = Tail(@)]
    /\ queued' = (queued \/ enqueue)
    /\ UNCHANGED <<objects, members, changes>>

\* (Mutant: an update looks at the new endpoint only.)
EndpointEventNewOnly ==
    /\ events.endpoint # <<>>
    /\ LET old == cached.endpoint
           new == Head(events.endpoint)
           concerns(v) == \E g \in cached.group :
               filterEndpointGroupsByEndpoint(g.spec, "ep", v, Namespaces(cached))
       IN
       /\ Deliver("endpoint", \E v \in (IF new # {} THEN new ELSE old) : concerns(v))
       /\ blind' = blind \cup (IF cached.namespace # {} THEN {}
                               ELSE {IF new = {} THEN "delete" ELSE "write"})

\* addEndpoint, updateEndpoint and deleteEndpoint.
EndpointEvent ==
    /\ events.endpoint # <<>>
    /\ LET old == cached.endpoint
           new == Head(events.endpoint)
           concerns(v) == \E g \in cached.group :
               filterEndpointGroupsByEndpoint(g.spec, "ep", v, Namespaces(cached))
       IN
       /\ Deliver("endpoint",
             IF old = {} THEN \E v \in new : v.ips # {} /\ concerns(v)
             ELSE new # old /\ \E v \in old \cup new : concerns(v))
       /\ blind' = blind \cup (IF cached.namespace # {} THEN {}
                               ELSE {IF new = {} THEN "delete" ELSE "write"})

\* addNamespace, updateNamespace and deleteNamespace.
NamespaceEvent ==
    /\ events.namespace # <<>>
    /\ Deliver("namespace",
          \E g \in cached.group, v \in cached.namespace \cup Head(events.namespace) :
              /\ cached.namespace # Head(events.namespace)
              /\ filterEndpointGroupsByNamespace(g.spec, "ns", v))
    /\ UNCHANGED blind

\* addEndpointGroup, updateEndpointGroup and deleteEndpointGroup.
GroupEvent ==
    /\ events.group # <<>>
    /\ LET old == cached.group
           new == Head(events.group)
       IN Deliver("group", \/ old = {} \/ new = {}
                           \/ Of(new).deleting \/ Of(new).spec # Of(old).spec)
    /\ UNCHANGED blind

------------------------------------------------------------------------------
(* The reconcile.  An update from a cache that lags is a conflict, and the   *)
(* key is queued again.                                                      *)

UpdateGroup(new) ==
    IF events.group = <<>> THEN WriteObject("group", new) ELSE UNCHANGED <<objects, events>>

processEndpointGroupCreate(g) ==
    /\ ~g.deleting /\ ~g.finalizer
    /\ UpdateGroup({[g EXCEPT !.finalizer = TRUE]})
    /\ UNCHANGED <<queued, members>>

\* The members go first, then the finalizer and with it the group; the update
\* may fail on its own.
processEndpointGroupDelete(g) ==
    /\ g.deleting
    /\ members' = {}
    /\ \/ UpdateGroup({}) /\ queued' = (events.group # <<>>)
       \/ UNCHANGED <<objects, events, queued>>

processEndpointGroupUpdate(g) ==
    /\ ~g.deleting /\ g.finalizer
    /\ queued' = FALSE
    /\ LET found == fetchCurrGroupMembers(g.spec, Eps(cached), Namespaces(cached))
       IN members' = {[e \in found |-> Of(cached.endpoint).ips]}
    /\ UNCHANGED <<objects, events>>

Reconcile ==
    /\ queued
    /\ \/ /\ cached.group = {}
          /\ queued' = FALSE
          /\ UNCHANGED <<objects, events, members>>
       \/ \E g \in cached.group :
             \/ processEndpointGroupCreate(g)
             \/ processEndpointGroupDelete(g)
             \/ processEndpointGroupUpdate(g)
    /\ UNCHANGED <<cached, blind, changes>>

\* The controller starts again: its caches are filled before it works, and every
\* group is queued.
Restart ==
    /\ events # [k \in Kinds |-> <<>>]
    /\ cached' = objects
    /\ events' = [k \in Kinds |-> <<>>]
    /\ queued' = (objects.group # {})
    /\ blind' = {}
    /\ UNCHANGED <<objects, members, changes>>

Next ==
    \/ ChangeEndpoint \/ ChangeNamespace \/ ChangeGroup
    \/ EndpointEvent \/ NamespaceEvent \/ GroupEvent
    \/ Reconcile \/ Restart

Spec == Init /\ [][Next]_vars

------------------------------------------------------------------------------
Quiet == ~queued /\ \A k \in Kinds : events[k] = <<>>

\* The events that are lost without the endpoint's namespace matter to a group
\* unless its namespace selector, or its namespace, makes the namespace's own
\* event put it in the queue.
Undisturbed(spec) ==
    \/ spec.namespaceSelector # {}
    \/ spec.namespace # {} /\ "delete" \notin blind
    \/ blind = {}

\* Once the controller is at rest, the GroupMembers object of a group lists what
\* its spec selects of the objects that exist, whatever the order in which the
\* events of endpoints, namespaces and the group arrived: the handlers of
\* group_controller.go never skip an event that changes a membership they do not
\* recompute.  A group that is gone leaves no GroupMembers object behind.
QuietMembersSelected ==
    Quiet =>
        /\ objects.group = {} => members = {}
        /\ \A g \in objects.group : Undisturbed(g.spec) =>
              members = {[e \in fetchCurrGroupMembers(g.spec, Eps(objects), Namespaces(objects)) |->
                             Of(objects.endpoint).ips]}
===============================================================================
