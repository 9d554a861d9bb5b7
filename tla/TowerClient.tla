----------------------------- MODULE TowerClient -----------------------------
(***************************************************************************)
(* The GraphQL client beneath a reflector.  A subscription is a websocket  *)
(* with two goroutines: the reader passes the responses on through a       *)
(* bounded channel, the loop closes the connection once the stop channel   *)
(* is closed.  The reader closes the stop channel when it has passed on an *)
(* error, the reflector when it leaves listAndWatch, and a channel closed  *)
(* twice is a panic that ends the process.  The reflector lists one object *)
(* whose value counts tower's changes, and follows its events; an earlier  *)
(* subscription's goroutines may still run while it follows the next.      *)
(***************************************************************************)
EXTENDS Integers, Sequences

CONSTANTS responseChanLenth, MaxChanges, MaxFaults

VARIABLES
    tower,     \* the object as tower has it
    token,     \* the client's token is accepted
    subs,      \* the subscriptions of this process, the last is the current
    reflector, \* where listAndWatch is, and the kind of error it met
    store,     \* the object as the reflector's store has it
    synced,    \* HasSynced
    panicked,  \* a panic has ended the process before
    changes, faults

vars == <<tower, token, subs, reflector, store, synced, panicked, changes, faults>>

Error == -1
Last == Len(subs)

\* Every subscription but the first follows a fault.
MaxSubs == MaxFaults + 1

\* A connection delivers what is unread; the rest is lost when it breaks.
NewSubscription ==
    [unread |-> <<>>, lost |-> <<>>, broken |-> FALSE, closed |-> FALSE,
     reader |-> "read", held |-> Error, resp |-> <<>>, stop |-> FALSE]

Start == [at |-> "start", err |-> "none"]

Init ==
    /\ tower = 0 /\ token = TRUE /\ subs = <<>>
    /\ reflector = Start /\ store = 0 /\ synced = FALSE
    /\ panicked = FALSE /\ changes = 0 /\ faults = 0

Fault == faults < MaxFaults /\ faults' = faults + 1

------------------------------------------------------------------------------
\* Tower, and the network.
Change ==
    /\ changes < MaxChanges /\ changes' = changes + 1
    /\ tower' = tower + 1
    /\ subs' = [s \in DOMAIN subs |->
                  IF subs[s].broken THEN [subs[s] EXCEPT !.lost = Append(@, tower')]
                                    ELSE [subs[s] EXCEPT !.unread = Append(@, tower')]]
    /\ UNCHANGED <<token, reflector, store, synced, panicked, faults>>

\* A connection error, or an error or a complete message of tower's.
Break(s) ==
    /\ Fault /\ ~subs[s].broken /\ ~subs[s].closed
    /\ \E k \in 0 .. Len(subs[s].unread) :
          subs' = [subs EXCEPT ![s].broken = TRUE,
                               ![s].unread = SubSeq(@, 1, k),
                               ![s].lost = SubSeq(subs[s].unread, k + 1, Len(subs[s].unread))]
    /\ UNCHANGED <<tower, token, reflector, store, synced, panicked, changes>>

Expire ==
    /\ Fault /\ token /\ token' = FALSE
    /\ UNCHANGED <<tower, subs, reflector, store, synced, panicked, changes>>

\* The panic of a channel closed twice; the process is started again.
Panic ==
    /\ panicked' = TRUE
    /\ subs' = <<>> /\ reflector' = Start /\ store' = 0 /\ synced' = FALSE
    /\ UNCHANGED <<tower, token, changes, faults>>

------------------------------------------------------------------------------
\* loopReadMessage and its reader.
ReaderStep == UNCHANGED <<tower, token, reflector, store, synced, panicked, changes, faults>>

readConnResponse(s) ==
    /\ subs[s].reader = "read"
    /\ \/ /\ subs[s].unread # <<>>
          /\ subs' = [subs EXCEPT ![s].reader = "select", ![s].held = Head(subs[s].unread),
                                  ![s].unread = Tail(@)]
       \/ /\ subs[s].closed \/ (subs[s].broken /\ subs[s].unread = <<>>)
          /\ subs' = [subs EXCEPT ![s].reader = "select", ![s].held = Error]
    /\ ReaderStep

\* It ends when stopped; the deferred close of the response channel is "done".
selectStop(s) ==
    /\ subs[s].reader = "select"
    /\ subs' = [subs EXCEPT ![s].reader = IF subs[s].stop THEN "done" ELSE "send"]
    /\ ReaderStep

\* (Mutant: a response that finds the channel full is dropped.)
sendResponseLossy(s) ==
    /\ subs[s].reader = "send"
    /\ subs' = [subs EXCEPT ![s].resp = IF Len(@) < responseChanLenth
                                        THEN Append(@, subs[s].held) ELSE @,
                            ![s].reader = IF subs[s].held = Error THEN "check" ELSE "read"]
    /\ ReaderStep

\* It blocks while the channel is full.
sendResponse(s) ==
    /\ subs[s].reader = "send" /\ Len(subs[s].resp) < responseChanLenth
    /\ subs' = [subs EXCEPT ![s].resp = Append(@, subs[s].held),
                            ![s].reader = IF subs[s].held = Error THEN "check" ELSE "read"]
    /\ ReaderStep

\* closeChanFunc looks whether the channel is closed, and closes it then.
readerStops(s) ==
    \/ /\ subs[s].reader = "check"
       /\ subs' = [subs EXCEPT ![s].reader = IF subs[s].stop THEN "done" ELSE "close"]
       /\ ReaderStep
    \/ /\ subs[s].reader = "close" /\ ~subs[s].stop
       /\ subs' = [subs EXCEPT ![s].reader = "done", ![s].stop = TRUE]
       /\ ReaderStep
    \/ subs[s].reader = "close" /\ subs[s].stop /\ Panic

\* The loop closes the connection when it is told to stop.
loopReadMessage(s) ==
    /\ subs[s].stop /\ ~subs[s].closed
    /\ subs' = [subs EXCEPT ![s].closed = TRUE]
    /\ ReaderStep

Reader(s) == readConnResponse(s) \/ selectStop(s) \/ sendResponse(s) \/ readerStops(s)

------------------------------------------------------------------------------
\* The reflector's listAndWatch.  A subscription that fails leaves it where it
\* started, after a backoff.
Subscription ==
    /\ reflector.at = "start" /\ Last < MaxSubs
    /\ subs' = Append(subs, NewSubscription)
    /\ reflector' = [at |-> "list", err |-> "none"]
    /\ UNCHANGED <<tower, token, store, synced, panicked, changes, faults>>

\* It returns, which runs the deferred stopWatch.
Leave(err) == reflector' = [at |-> "check", err |-> err]

Query ==
    /\ reflector.at = "list"
    /\ \/ /\ token /\ store' = tower /\ synced' = TRUE
          /\ reflector' = [at |-> "watch", err |-> "none"]
          /\ UNCHANGED faults
       \/ ~token /\ Leave("auth") /\ UNCHANGED <<store, synced, faults>>
       \/ Fault /\ Leave("other") /\ UNCHANGED <<store, synced>>
    /\ UNCHANGED <<tower, token, subs, panicked, changes>>

\* A response is an event, an event that cannot be decoded, or an error.
watchHandler ==
    /\ reflector.at = "watch"
    /\ IF subs[Last].resp # <<>>
       THEN /\ subs' = [subs EXCEPT ![Last].resp = Tail(@)]
            /\ LET resp == Head(subs[Last].resp) IN
               \/ resp # Error /\ store' = resp /\ UNCHANGED <<reflector, faults>>
               \/ resp # Error /\ Fault /\ Leave("other") /\ UNCHANGED store
               \/ resp = Error /\ Leave("other") /\ UNCHANGED <<store, faults>>
       ELSE /\ subs[Last].reader = "done" /\ Leave("other")
            /\ UNCHANGED <<subs, store, faults>>
    /\ UNCHANGED <<tower, token, synced, panicked, changes>>

\* (Mutant: the stop channel is left open.)
stopWatchLeaves ==
    /\ reflector.at = "check" /\ reflector' = [reflector EXCEPT !.at = "handle"]
    /\ UNCHANGED <<tower, token, subs, store, synced, panicked, changes, faults>>

stopWatch ==
    LET next(at) == reflector' = [reflector EXCEPT !.at = at] IN
    \/ /\ reflector.at = "check"
       /\ next(IF subs[Last].stop THEN "handle" ELSE "close")
       /\ UNCHANGED <<tower, token, subs, store, synced, panicked, changes, faults>>
    \/ /\ reflector.at = "close" /\ ~subs[Last].stop
       /\ subs' = [subs EXCEPT ![Last].stop = TRUE] /\ next("handle")
       /\ UNCHANGED <<tower, token, store, synced, panicked, changes, faults>>
    \/ reflector.at = "close" /\ subs[Last].stop /\ Panic

\* It logs in again after an error of authentication, which may fail.
watchErrorHandler ==
    /\ reflector.at = "handle" /\ reflector' = Start
    /\ \/ reflector.err = "auth" /\ token' = TRUE /\ UNCHANGED faults
       \/ reflector.err = "auth" /\ Fault /\ UNCHANGED token
       \/ reflector.err # "auth" /\ UNCHANGED <<token, faults>>
    /\ UNCHANGED <<tower, subs, store, synced, panicked, changes>>

reflectWorker == Subscription \/ Query \/ watchHandler \/ stopWatch \/ watchErrorHandler

Next ==
    \/ Change \/ Expire \/ reflectWorker
    \/ \E s \in DOMAIN subs : Break(s) \/ Reader(s) \/ loopReadMessage(s)

Spec ==
    /\ Init /\ [][Next]_vars
    /\ WF_vars(reflectWorker)
    /\ \A s \in 1 .. MaxSubs :
          WF_vars(s \in DOMAIN subs /\ Reader(s)) /\ WF_vars(s \in DOMAIN subs /\ loopReadMessage(s))

------------------------------------------------------------------------------
Watching == reflector.at \in {"list", "watch"}

\* The responses the reader has passed on, without the error, which is the last.
Heard(sub) ==
    LET n == Len(sub.resp) IN
    IF n > 0 /\ sub.resp[n] = Error THEN SubSeq(sub.resp, 1, n - 1) ELSE sub.resp

Held(sub) ==
    IF sub.reader \in {"select", "send"} /\ sub.held # Error THEN <<sub.held>> ELSE <<>>

\* The events of a subscription the reflector has yet to handle, those lost with
\* the connection included.
Pending(sub) == Heard(sub) \o (Held(sub) \o (sub.unread \o sub.lost))

Object == <<"vm", "v">>

Event(v) == [object |-> Object, value |-> v, nilNode |-> FALSE]

EventsOf(values) == [i \in DOMAIN values |-> Event(values[i])]

\* What the abstract reflector's variables stand for.
towerBar == [o \in {Object} |-> tower]

watchBar == [t \in {"vm"} |-> IF reflector.at = "list" THEN "subscribed"
                              ELSE IF reflector.at = "watch" THEN "listed" ELSE "off"]

chanBar == [t \in {"vm"} |-> IF Watching THEN EventsOf(Pending(subs[Last])) ELSE <<>>]

storeBar == [o \in {Object} |-> store]

syncedBar == [t \in {"vm"} |-> synced]

Informer == INSTANCE TowerInformer WITH
    Objects <- {Object}, NoObject <- 0, tower <- towerBar, watch <- watchBar,
    chan <- chanBar, store <- storeBar, synced <- syncedBar

InformerStart == Informer!InformerInit

InformerStep == [Informer!InformerNext(0 .. MaxChanges)]_(Informer!informerVars)

\* The reflector over this client does what TowerInformer says: between the list
\* and the error that ends a subscription no event is lost, repeated or passed
\* over, whatever the goroutines of this and of earlier subscriptions do.
ImplementsInformer == InformerStart /\ [][InformerStep]_vars

\* The stop channel of a subscription is closed once: "closeChanFunc close chan
\* once, prevent panic of multiple close chan" (client.go).
ClosedOnce == ~panicked

\* Of the subscriptions the reflector has left none has its connection, nor its
\* reader unless that finds the response channel full.
LeftBehind ==
    \A s \in 1 .. Last - 1 :
        /\ subs[s].closed
        /\ subs[s].reader = "done" \/ Len(subs[s].resp) = responseChanLenth

\* The reflector holds what tower holds in the end: a broken connection, an
\* expired token, a failed list or a panic leads to another list; and stopWatch
\* reaches the loop and the reader of every subscription that was left.
ReflectorResumes == <>[](synced /\ store = tower /\ LeftBehind)
===============================================================================
