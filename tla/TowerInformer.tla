---------------------------- MODULE TowerInformer ----------------------------
(***************************************************************************)
(* The reflector that mirrors tower's objects into an informer's store: it *)
(* subscribes to the changes of a type first and lists its objects then,   *)
(* so that the changes made in between come again after the list.  When    *)
(* the subscription ends it starts over.  An object is <<type, id>>; its   *)
(* value is NoObject or what the handlers tell apart.                        *)
(***************************************************************************)
EXTENDS Sequences

CONSTANTS Objects, NoObject

VARIABLES
    tower,   \* tower's objects
    watch,   \* "off", "subscribed" or "listed", by type
    chan,    \* events of the subscription not yet handled, by type
    store,   \* the informer's store
    synced   \* HasSynced, by type

informerVars == <<tower, watch, chan, store, synced>>

Types == {o[1] : o \in Objects}

InformerInit ==
    /\ watch = [t \in Types |-> "off"]
    /\ chan = [t \in Types |-> <<>>]
    /\ store = [o \in Objects |-> NoObject]
    /\ synced = [t \in Types |-> FALSE]

\* Tower changes an object.  The event of a deletion may lack the object and
\* name its id only.
Write(o, value, nilNode) ==
    /\ value # tower[o]
    /\ tower' = [tower EXCEPT ![o] = value]
    /\ chan' = IF watch[o[1]] = "off" THEN chan
               ELSE [chan EXCEPT ![o[1]] = Append(@, [object |-> o, value |-> value,
                                                      nilNode |-> nilNode])]
    /\ UNCHANGED <<watch, store, synced>>

Subscription(t) ==
    /\ watch[t] = "off"
    /\ watch' = [watch EXCEPT ![t] = "subscribed"]
    /\ UNCHANGED <<tower, chan, store, synced>>

\* (Mutant: the objects of the list are added to the store.)
syncWithAdds(t) ==
    /\ watch[t] = "subscribed"
    /\ watch' = [watch EXCEPT ![t] = "listed"]
    /\ store' = [o \in Objects |-> IF o[1] = t /\ tower[o] # NoObject THEN tower[o] ELSE store[o]]
    /\ synced' = [synced EXCEPT ![t] = TRUE]
    /\ UNCHANGED <<tower, chan>>

\* The list replaces the store.
syncWith(t) ==
    /\ watch[t] = "subscribed"
    /\ watch' = [watch EXCEPT ![t] = "listed"]
    /\ store' = [o \in Objects |-> IF o[1] = t THEN tower[o] ELSE store[o]]
    /\ synced' = [synced EXCEPT ![t] = TRUE]
    /\ UNCHANGED <<tower, chan>>

eventHandler(t) ==
    /\ watch[t] = "listed" /\ chan[t] # <<>>
    /\ store' = [store EXCEPT ![Head(chan[t]).object] = Head(chan[t]).value]
    /\ chan' = [chan EXCEPT ![t] = Tail(@)]
    /\ UNCHANGED <<tower, watch, synced>>

\* The subscription or the list fails: back off, and list again.
watchErrorHandler(t) ==
    /\ watch[t] # "off"
    /\ watch' = [watch EXCEPT ![t] = "off"]
    /\ chan' = [chan EXCEPT ![t] = <<>>]
    /\ UNCHANGED <<tower, store, synced>>

\* The process starts again.
InformerRestart ==
    /\ watch' = [t \in Types |-> "off"]
    /\ chan' = [t \in Types |-> <<>>]
    /\ store' = [o \in Objects |-> NoObject]
    /\ synced' = [t \in Types |-> FALSE]
    /\ UNCHANGED tower

\* What a reflector may do, whatever carries its requests.
InformerNext(Values) ==
    \/ \E o \in Objects, v \in Values, b \in BOOLEAN : Write(o, v, b)
    \/ \E t \in Types : Subscription(t) \/ syncWith(t) \/ eventHandler(t) \/ watchErrorHandler(t)
    \/ InformerRestart

InformerSpec(Values) ==
    tower \in [Objects -> Values] /\ InformerInit /\ [][InformerNext(Values)]_informerVars

\* Whenever the list has been taken and no event is left, the store holds
\* tower's objects: the events of changes older than the list, which come after
\* it, take the store back, but those that follow lead it forth again.
CaughtUp ==
    \A t \in DOMAIN watch : watch[t] = "listed" /\ chan[t] = <<>> =>
        \A o \in DOMAIN store : o[1] = t => store[o] = tower[o]
===============================================================================
