-------------------------------- MODULE MCQuiet --------------------------------
(* What controllers have done when nothing is left for them to do, and what  *)
(* they may not do on the way; side by side: a behaviour is one of one of    *)
(* them, the others rest.                                                    *)
EXTENDS GroupController, GroupSelector, LocalEndpoint, SharedInformer

VARIABLES part,
          objects, cached, groupEvents, groupQueued, members, blind, groupChanges,
          kind, vm, label, group, iso, sec, system, cluster, queue, work, api, lister,
          events, guarded, calm, towerChanges, towerFaults

------------------------------------------------------------------------------
\* An endpoint with three sets of labels, a Namespace with two, and groups that
\* select by labels, by expressions, by Namespace and by name.
L(values) == [k \in {"k"} |-> values]

NoLabels == [k \in {} |-> {}]

ByLabel(v) == {[EmptySelector EXCEPT !.labels = L({v})]}

ByExpr(op, vs) == {[EmptySelector EXCEPT !.exprs = {[key |-> "k", op |-> op, values |-> vs]}]}

Peer(es, ns, e) == [endpointSelector |-> es, namespaceSelector |-> ns, endpoint |-> e]

Groups ==
    UNION {PeerAsEndpointGroup("ns", p) : p \in
             {Peer(ByLabel("a"), {}, {}), Peer(ByExpr("NotIn", {"a"}), ByLabel("a"), {}),
              Peer({}, ByExpr("DoesNotExist", {}), {}), Peer({}, {}, {"ep"})}}
        \cup {GetAllEpWithNamedPortGroup}

EndpointStates ==
    [namespace : {"ns"}, labels : {NoLabels, L({"a"}), L({"a", "b"})},
     ips : {{}, {"i1"}}, ports : {{}, {"p80"}}]

Selection == INSTANCE GroupSelection WITH
               NamespaceLabels <- {NoLabels, L({"a"})}, MaxChanges <- 3,
               events <- groupEvents, queued <- groupQueued, changes <- groupChanges

Tower == INSTANCE TowerPolicy WITH
           Nics <- {"n1"}, LabelValues <- {"a", "b"}, MaxChanges <- 2, MaxFaults <- 1,
           changes <- towerChanges, faults <- towerFaults

------------------------------------------------------------------------------
groupVars == <<objects, cached, groupEvents, groupQueued, members, blind, groupChanges>>
towerVars == <<kind, vm, label, group, iso, sec, system, cluster, queue, work, api, lister,
               events, guarded, calm, towerChanges, towerFaults>>

\* Bound: five changes of rows, or four and a fault.
FiveRows == rowChanges + rowFaults <= MaxRowChanges

\* The variables of a part that rests hold nothing.  (The values of the label are
\* interchangeable.)
Init ==
    /\ part \in {"members", "selection", "tower", "local", "informer"}
    /\ CInit /\ (part = "members" \/ matched = NoLabels)
    /\ IF part = "selection" THEN Selection!Init
       ELSE /\ objects = {} /\ cached = {} /\ groupEvents = <<>> /\ groupQueued = FALSE
            /\ members = {} /\ blind = {} /\ groupChanges = 0
    /\ IF part = "tower" THEN Tower!Init /\ label # "b"
       ELSE /\ kind = "" /\ vm = {} /\ label = "" /\ group = "" /\ iso = {} /\ sec = {}
            /\ system = "" /\ cluster = {}
            /\ queue = {} /\ work = {} /\ api = {} /\ lister = {} /\ events = <<>>
            /\ guarded = FALSE /\ calm = TRUE /\ towerChanges = 0 /\ towerFaults = 0
    /\ LocalInit
    /\ SharedInit

Next ==
    /\ UNCHANGED part
    /\ \/ part = "members" /\ CNext /\ NoReturn
       \/ part # "members" /\ UNCHANGED cvars
    /\ \/ part = "selection" /\ Selection!Next
       \/ part # "selection" /\ UNCHANGED groupVars
    /\ \/ part = "tower" /\ Tower!Next
       \/ part # "tower" /\ UNCHANGED towerVars
    /\ \/ part = "local" /\ LocalNext /\ FiveRows'
       \/ part # "local" /\ UNCHANGED localVars
    /\ \/ part = "informer" /\ SharedNext
       \/ part # "informer" /\ UNCHANGED sharedVars

Spec == Init /\ [][Next]_<<part, cvars, groupVars, towerVars, localVars, sharedVars>>

------------------------------------------------------------------------------
\* GroupSelection: with nothing queued or to be seen, the members are those the
\* group's selectors match.
QuietMembersSelected == part = "selection" => Selection!QuietMembersSelected

\* TowerPolicy: with nothing queued or to be seen, the SecurityPolicy objects are
\* those of tower's policies.
QuietPoliciesInSync == part = "tower" => Tower!QuietPoliciesInSync

\* TowerPolicy: applyPoliciesChanges does not delete the policies that isolate a
\* VM before it has created those that take their place.
IsolationKept == part = "tower" => Tower!IsolationKept
===============================================================================
