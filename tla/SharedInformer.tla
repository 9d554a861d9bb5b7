---------------------------- MODULE SharedInformer ----------------------------
(***************************************************************************)
(* The shared informer between a tower reflector and the controllers'      *)
(* event handlers: deltas of one object are popped from the DeltaFIFO,     *)
(* applied to the indexer and distributed to the listeners, each of which  *)
(* has a buffer of its own.  A listener may join while the informer runs:  *)
(* it is told what the indexer holds.  The DeltaFIFO is client-go's.       *)
(***************************************************************************)
EXTENDS Integers, Sequences

CONSTANTS Listeners, Values, None,
          MaxCalls, \* bound: calls of the reflector
          MaxResyncs  \* bound: resyncs

VARIABLES
    started,  \* Run has been called
    fifo,     \* the deltas queued
    deltas,   \* those HandleDeltas is at, which holds blockDeltas meanwhile
    notice,   \* the notification to distribute next
    indexer,  \* the object in the indexer
    joined, syncing, \* listeners and syncingListeners
    buffer,   \* notifications a listener has still to handle
    view,     \* the object as a listener was told of it
    due,      \* shouldResync has returned true
    calls, resyncs

sharedVars == <<started, fifo, deltas, notice, indexer, joined, syncing, buffer, view, due,
          calls, resyncs>>

NoNotice == [old |-> None, new |-> None, sync |-> FALSE]
Unlocked == deltas = <<>> /\ notice = NoNotice
Delta(type, object) == [type |-> type, object |-> object]

SharedInit ==
    /\ started = FALSE /\ fifo = <<>> /\ deltas = <<>> /\ notice = NoNotice
    /\ indexer = None /\ joined = {} /\ syncing = {}
    /\ buffer = [l \in Listeners |-> <<>>] /\ view = [l \in Listeners |-> None]
    /\ due = FALSE /\ calls = 0 /\ resyncs = 0

Run ==
    /\ ~started /\ started' = TRUE
    /\ UNCHANGED <<fifo, deltas, notice, indexer, joined, syncing, buffer, view, due, calls,
                   resyncs>>

------------------------------------------------------------------------------
\* The reflector's calls.  They wait for HandleDeltas, which Pop runs under the
\* lock of the queue.  A deletion of what is unknown, or deleted already, is
\* dropped; a list, which may lack the object, comes to an empty queue.
Reflect ==
    /\ started /\ Unlocked
    /\ calls < MaxCalls /\ calls' = calls + 1
    /\ \/ \E v \in Values : fifo' = Append(fifo, Delta("Updated", v))
       \/ /\ IF fifo = <<>> THEN indexer # None ELSE fifo[Len(fifo)].type # "Deleted"
          /\ fifo' = Append(fifo, Delta("Deleted", None))
       \/ /\ fifo = <<>>
          /\ \E v \in Values : fifo' = <<Delta("Replaced", v)>>
    /\ UNCHANGED <<started, deltas, notice, indexer, joined, syncing, buffer, view, due, resyncs>>

\* The listeners whose period is over are the ones to be synced.
shouldResync ==
    /\ started /\ notice = NoNotice
    /\ resyncs < MaxResyncs /\ resyncs' = resyncs + 1
    /\ \E due1 \in SUBSET joined : syncing' = due1 /\ due' = (due1 # {})
    /\ UNCHANGED <<started, fifo, deltas, notice, indexer, joined, buffer, view, calls>>

\* An object with deltas in the queue is left out.
Resync ==
    /\ due /\ Unlocked /\ due' = FALSE
    /\ fifo' = IF fifo = <<>> /\ indexer # None THEN <<Delta("Sync", indexer)>> ELSE fifo
    /\ UNCHANGED <<started, deltas, notice, indexer, joined, syncing, buffer, view, calls,
                   resyncs>>

------------------------------------------------------------------------------
\* processLoop takes the deltas of the object, ...
processLoop ==
    /\ started /\ Unlocked /\ fifo # <<>>
    /\ deltas' = fifo /\ fifo' = <<>>
    /\ UNCHANGED <<started, notice, indexer, joined, syncing, buffer, view, due, calls, resyncs>>

\* ... and HandleDeltas applies them, oldest first.  An update that changes
\* nothing is not passed on, unless it is a resync.
HandleDeltas ==
    /\ deltas # <<>> /\ notice = NoNotice
    /\ deltas' = Tail(deltas)
    /\ LET d == Head(deltas) IN
       /\ indexer' = d.object
       /\ notice' = IF d.type \notin {"Sync", "Deleted"} /\ d.object = indexer THEN NoNotice
                    ELSE [old |-> indexer, new |-> d.object, sync |-> d.type = "Sync"]
    /\ UNCHANGED <<started, fifo, joined, syncing, buffer, view, due, calls, resyncs>>

distribute ==
    /\ notice # NoNotice /\ notice' = NoNotice
    /\ LET to == IF notice.sync THEN syncing ELSE joined IN
       buffer' = [l \in Listeners |-> IF l \in to THEN Append(buffer[l], notice) ELSE buffer[l]]
    /\ UNCHANGED <<started, fifo, deltas, indexer, joined, syncing, view, due, calls, resyncs>>

------------------------------------------------------------------------------
Join(l) ==
    /\ l \notin joined
    /\ joined' = joined \cup {l} /\ syncing' = syncing \cup {l}
    /\ buffer' = [buffer EXCEPT ![l] =
                    IF started /\ indexer # None
                    THEN Append(@, [old |-> None, new |-> indexer, sync |-> FALSE]) ELSE @]
    /\ UNCHANGED <<started, fifo, deltas, notice, indexer, view, due, calls, resyncs>>

\* (Mutant: it does not wait for HandleDeltas.)
AddEventHandlerUnblocked(l) == Join(l)

\* A listener that joins a running informer waits for blockDeltas.
AddEventHandlerWithResyncPeriod(l) == Unlocked /\ Join(l)

\* run calls the handler with the next notification.
run(l) ==
    /\ started /\ buffer[l] # <<>>
    /\ view' = [view EXCEPT ![l] = Head(buffer[l]).new]
    /\ buffer' = [buffer EXCEPT ![l] = Tail(@)]
    /\ UNCHANGED <<started, fifo, deltas, notice, indexer, joined, syncing, due, calls, resyncs>>

SharedNext ==
    \/ Run \/ Reflect \/ shouldResync \/ Resync
    \/ processLoop \/ HandleDeltas \/ distribute
    \/ \E l \in Listeners : AddEventHandlerWithResyncPeriod(l) \/ run(l)

SharedSpec == SharedInit /\ [][SharedNext]_sharedVars

------------------------------------------------------------------------------
\* What listener l knows when it has handled n of its notifications.
Told(l, n) == IF n = 0 THEN view[l] ELSE buffer[l][n].new

\* The notifications of a listener form one chain that ends at the indexer: it
\* is never told twice that the object is added, of an update from a state it
\* was not told of, or of a deletion of what it does not know, whenever it joined
\* and whatever resyncs are under way.
ListenersInStep ==
    \A l \in joined :
        /\ \A n \in DOMAIN buffer[l] : buffer[l][n].old = Told(l, n - 1)
        /\ Unlocked => Told(l, Len(buffer[l])) = indexer
===============================================================================
