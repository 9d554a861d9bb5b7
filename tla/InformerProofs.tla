---------------------------- MODULE InformerProofs ----------------------------
(* Proofs about informers and what is done from their caches: what the         *)
(* listeners of a SharedInformer are told, what the store of a TowerInformer   *)
(* holds, and which members the group controller selects.                      *)
EXTENDS SharedInformer, TowerInformer, GroupSelection, TLAPS

------------------------------------------------------------------------------
(* SharedInformer. *)

States == Values \cup {None}

Deltas == [type : {"Updated", "Deleted", "Replaced", "Sync"}, object : States]

Notices == [old : States, new : States, sync : BOOLEAN]

SharedTypeOK ==
    /\ started \in BOOLEAN /\ due \in BOOLEAN
    /\ fifo \in Seq(Deltas) /\ deltas \in Seq(Deltas)
    /\ notice \in Notices /\ indexer \in States
    /\ joined \subseteq Listeners /\ syncing \subseteq joined
    /\ buffer \in [Listeners -> Seq(Notices)] /\ view \in [Listeners -> States]

\* Before Run nothing has reached the indexer, and while HandleDeltas holds the
\* lock nothing is queued behind its back.
AtRest ==
    /\ ~started => indexer = None /\ fifo = <<>> /\ deltas = <<>> /\ notice = NoNotice /\ ~due
    /\ ~Unlocked => fifo = <<>>

\* A Sync is the oldest of its deltas and carries the object of the indexer.
SyncFirst(ds) ==
    \A n \in DOMAIN ds : ds[n].type = "Sync" => n = 1 /\ ds[n].object = indexer

\* What is to be distributed leads to the indexer's state; a resync stays there.
NoticeLeads ==
    notice # NoNotice => notice.new = indexer /\ (notice.sync => notice.old = notice.new)

\* The state a listener has been told of, its buffer included.
Known == IF notice = NoNotice THEN indexer ELSE notice.old

Chain(l) == \A n \in DOMAIN buffer[l] : buffer[l][n].old = Told(l, n - 1)

InStep(l) ==
    IF l \in joined THEN Chain(l) /\ Told(l, Len(buffer[l])) = Known
    ELSE buffer[l] = <<>> /\ view[l] = None

SharedInv ==
    /\ SharedTypeOK /\ AtRest
    /\ SyncFirst(fifo) /\ SyncFirst(deltas)
    /\ NoticeLeads
    /\ \A l \in Listeners : InStep(l)

LEMMA SharedInvImplies == SharedInv => ListenersInStep
  BY Zenon DEF SharedInv, SharedTypeOK, ListenersInStep, InStep, Chain, Known, Unlocked

LEMMA SharedInitInv == SharedInit => SharedInv
  <1> SUFFICES ASSUME SharedInit PROVE SharedInv
    BY Zenon
  <1>1. SharedTypeOK
    <2>1. notice \in Notices /\ indexer \in States
      BY Zenon DEF SharedInit, Notices, NoNotice, States
    <2>2. buffer \in [Listeners -> Seq(Notices)] /\ view \in [Listeners -> States]
      BY DEF SharedInit, States
    <2>3. fifo \in Seq(Deltas) /\ deltas \in Seq(Deltas)
      BY DEF SharedInit
    <2> QED
      BY <2>1, <2>2, <2>3, Zenon DEF SharedInit, SharedTypeOK
  <1>2. AtRest /\ NoticeLeads
    BY Zenon DEF SharedInit, AtRest, NoticeLeads, Unlocked
  <1>3. SyncFirst(<<>>)
    BY DEF SyncFirst
  <1>4. \A l \in Listeners : InStep(l)
    BY Zenon DEF SharedInit, InStep
  <1> QED
    BY <1>1, <1>2, <1>3, <1>4, Zenon DEF SharedInit, SharedInv

\* A step that changes nothing a listener is told of, nor the indexer.
LEMMA ListenersLeft ==
  ASSUME SharedInv, UNCHANGED <<notice, indexer, joined, buffer, view>>
  PROVE  NoticeLeads' /\ \A l \in Listeners : InStep(l)'
  BY Zenon DEF SharedInv, NoticeLeads, InStep, Chain, Told, Known

LEMMA ReflectInv ==
  ASSUME SharedInv, Reflect
  PROVE  SharedInv'
  <1> USE DEF SharedInv
  <1>1. NoticeLeads' /\ \A l \in Listeners : InStep(l)'
    BY ListenersLeft, Zenon DEF Reflect
  <1>2. PICK d \in Deltas : d.type # "Sync" /\ fifo' = Append(fifo, d)
    <2>1. CASE \E v \in Values : fifo' = Append(fifo, Delta("Updated", v))
      BY <2>1, Zenon DEF Delta, Deltas, States
    <2>2. CASE fifo' = Append(fifo, Delta("Deleted", None))
      BY <2>2, Zenon DEF Delta, Deltas, States
    <2>3. CASE fifo = <<>> /\ \E v \in Values : fifo' = <<Delta("Replaced", v)>>
      <3>1. PICK v \in Values : fifo' = <<Delta("Replaced", v)>>
        BY <2>3, Zenon
      <3>2. fifo' = Append(fifo, Delta("Replaced", v))
        BY <2>3, <3>1
      <3> QED
        BY <3>2, Zenon DEF Delta, Deltas, States
    <2> QED
      BY <2>1, <2>2, <2>3, Zenon DEF Reflect
  <1>3. SharedTypeOK'
    BY <1>2 DEF SharedTypeOK, Reflect
  <1>4. SyncFirst(fifo)' /\ SyncFirst(deltas)'
    BY <1>2 DEF SharedTypeOK, SyncFirst, Reflect
  <1>5. AtRest'
    BY Zenon DEF AtRest, Reflect, Unlocked
  <1> QED
    BY <1>1, <1>3, <1>4, <1>5, Zenon

LEMMA ResyncInv ==
  ASSUME SharedInv, shouldResync \/ Resync
  PROVE  SharedInv'
  <1> USE DEF SharedInv
  <1>1. NoticeLeads' /\ \A l \in Listeners : InStep(l)'
    BY ListenersLeft, Zenon DEF shouldResync, Resync
  <1>2. CASE shouldResync
    <2>1. SharedTypeOK'
      BY <1>2, Zenon DEF SharedTypeOK, shouldResync
    <2>2. AtRest' /\ SyncFirst(fifo)' /\ SyncFirst(deltas)'
      BY <1>2, Zenon DEF AtRest, SyncFirst, shouldResync, Unlocked
    <2> QED
      BY <1>1, <2>1, <2>2, Zenon
  <1>3. CASE Resync
    <2>1. Delta("Sync", indexer) \in Deltas
      BY Zenon DEF Delta, Deltas, SharedTypeOK
    <2>2. SharedTypeOK'
      <3>1. fifo' \in Seq(Deltas)
        BY <1>3, <2>1 DEF SharedTypeOK, Resync
      <3> QED
        BY <1>3, <3>1, Zenon DEF SharedTypeOK, Resync
    <2>3. SyncFirst(deltas)'
      BY <1>3, Zenon DEF SyncFirst, Resync
    <2>5. started
      BY <1>3, Zenon DEF AtRest, Resync
    <2>6. AtRest'
      BY <1>3, <2>5, Zenon DEF AtRest, Resync, Unlocked
    <2>4. SyncFirst(fifo)'
      BY <1>3 DEF SyncFirst, Resync, Delta
    <2> QED
      BY <1>1, <2>2, <2>3, <2>4, <2>6, Zenon
  <1> QED
    BY <1>2, <1>3, Zenon

LEMMA HandleInv ==
  ASSUME SharedInv, Run \/ processLoop \/ HandleDeltas
  PROVE  SharedInv'
  <1> USE DEF SharedInv
  <1>1. CASE Run
    <2>1. SharedTypeOK' /\ AtRest' /\ SyncFirst(fifo)' /\ SyncFirst(deltas)'
      BY <1>1, Zenon DEF SharedTypeOK, AtRest, SyncFirst, Run, Unlocked
    <2> QED
      BY <1>1, <2>1, ListenersLeft, Zenon DEF Run
  <1>2. CASE processLoop
    <2>1. SharedTypeOK'
      BY <1>2 DEF SharedTypeOK, processLoop
    <2>2. SyncFirst(deltas)' /\ SyncFirst(fifo)'
      BY <1>2 DEF SyncFirst, processLoop
    <2>3. AtRest'
      BY <1>2, Zenon DEF AtRest, processLoop, Unlocked
    <2> QED
      BY <1>2, <2>1, <2>2, <2>3, ListenersLeft, Zenon DEF processLoop
  <1>3. CASE HandleDeltas
    <2> DEFINE d == Head(deltas)
    <2>1. d \in Deltas /\ d = deltas[1] /\ 1 \in DOMAIN deltas /\ Tail(deltas) \in Seq(Deltas)
      BY <1>3 DEF SharedTypeOK, HandleDeltas
    <2>2. d.type = "Sync" => d.object = indexer
      BY <2>1, Zenon DEF SyncFirst
    <2>3. notice' \in Notices
      BY <1>3, <2>1, Zenon DEF HandleDeltas, SharedTypeOK, Deltas, Notices, States
    <2>4. SharedTypeOK'
      BY <1>3, <2>1, <2>3, Zenon DEF HandleDeltas, SharedTypeOK, Deltas
    <2>5. fifo = <<>> /\ started
      BY <1>3, Zenon DEF HandleDeltas, AtRest, Unlocked
    <2>6. AtRest' /\ SyncFirst(fifo)'
      BY <1>3, <2>5 DEF HandleDeltas, AtRest, Unlocked, SyncFirst
    <2>7. SyncFirst(deltas)'
      <3> SUFFICES ASSUME NEW n \in DOMAIN Tail(deltas), Tail(deltas)[n].type = "Sync"
                   PROVE  FALSE
        BY <1>3, Zenon DEF SyncFirst, HandleDeltas
      <3>1. n + 1 \in DOMAIN deltas /\ deltas[n + 1] = Tail(deltas)[n] /\ n \in Nat \ {0}
        BY <1>3 DEF SharedTypeOK, HandleDeltas
      <3> QED
        BY <3>1 DEF SyncFirst
    <2>8. notice' = NoNotice \/ notice' = [old |-> indexer, new |-> d.object, sync |-> d.type = "Sync"]
      BY <1>3, Zenon DEF HandleDeltas
    <2>9. NoticeLeads' /\ Known' = indexer
      <3>1. notice = NoNotice /\ indexer' = d.object
        BY <1>3, Zenon DEF HandleDeltas
      <3>2. CASE d.type \notin {"Sync", "Deleted"} /\ d.object = indexer
        BY <1>3, <3>1, <3>2, Zenon DEF HandleDeltas, NoticeLeads, Known
      <3>3. CASE ~(d.type \notin {"Sync", "Deleted"} /\ d.object = indexer)
        <4>1. notice' = [old |-> indexer, new |-> d.object, sync |-> d.type = "Sync"]
          BY <1>3, <3>3, Zenon DEF HandleDeltas
        <4>2. notice' = NoNotice => indexer = None /\ d.object = None
          BY <4>1, Zenon DEF NoNotice
        <4>3. notice'.sync => d.type = "Sync"
          BY <4>1, Zenon
        <4> QED
          BY <2>2, <3>1, <4>1, <4>2, <4>3, Zenon DEF NoticeLeads, Known
      <3> QED
        BY <3>2, <3>3, Zenon
    <2>10. ASSUME NEW l \in Listeners PROVE InStep(l)'
      <3>1. Known = indexer
        BY <1>3, Zenon DEF HandleDeltas, Known
      <3> QED
        BY <1>3, <2>9, <3>1, Zenon DEF HandleDeltas, InStep, Chain, Told
    <2> QED
      BY <2>4, <2>6, <2>7, <2>9, <2>10, Zenon
  <1> QED
    BY <1>1, <1>2, <1>3, Zenon

LEMMA DistributeInv ==
  ASSUME SharedInv, distribute
  PROVE  SharedInv'
  <1> USE DEF SharedInv
  <1> DEFINE to == IF notice.sync THEN syncing ELSE joined
  <1>1. buffer' = [l \in Listeners |-> IF l \in to THEN Append(buffer[l], notice) ELSE buffer[l]]
    BY Zenon DEF distribute
  <1>2. SharedTypeOK'
    <2>1. buffer' \in [Listeners -> Seq(Notices)]
      BY <1>1 DEF SharedTypeOK
    <2>2. NoNotice \in Notices
      BY Zenon DEF NoNotice, Notices, States
    <2> QED
      BY <2>1, <2>2, Zenon DEF SharedTypeOK, distribute
  <1>3. AtRest' /\ SyncFirst(fifo)' /\ SyncFirst(deltas)' /\ NoticeLeads'
    BY Zenon DEF AtRest, SyncFirst, NoticeLeads, distribute, Unlocked
  <1>4. ASSUME NEW l \in Listeners PROVE InStep(l)'
    <2>1. notice.new = indexer /\ (notice.sync => notice.old = indexer) /\ Known' = indexer
          /\ Known = notice.old
      BY Zenon DEF NoticeLeads, distribute, Known
    <2>2. CASE l \notin to
      BY <1>1, <2>1, <2>2, Zenon DEF distribute, InStep, Chain, Told
    <2>3. CASE l \in to
      <3>1. l \in joined /\ buffer[l] \in Seq(Notices) /\ notice \in Notices
        BY <2>3, Zenon DEF SharedTypeOK
      <3>2. buffer'[l] = Append(buffer[l], notice) /\ view' = view
        BY <1>1, <2>3, Zenon DEF distribute
      <3> DEFINE b == buffer[l]
      <3>3. Len(buffer'[l]) = Len(b) + 1 /\ buffer'[l][Len(b) + 1] = notice
            /\ (\A n \in 1 .. Len(b) : buffer'[l][n] = b[n])
            /\ DOMAIN buffer'[l] = 1 .. Len(b) + 1 /\ DOMAIN b = 1 .. Len(b) /\ Len(b) \in Nat
        BY <3>1, <3>2
      <3>4. \A n \in 0 .. Len(b) : Told(l, n)' = Told(l, n)
        BY <3>2, <3>3 DEF Told
      <3>5. Chain(l) /\ Told(l, Len(b)) = notice.old
        BY <2>1, <3>1, Zenon DEF InStep
      <3>6. Chain(l)'
        <4> SUFFICES ASSUME NEW n \in 1 .. Len(b) + 1 PROVE buffer'[l][n].old = Told(l, n - 1)'
          BY <3>3, Zenon DEF Chain
        <4>1. n - 1 \in 0 .. Len(b)
          BY <3>3
        <4>2. CASE n = Len(b) + 1
          BY <3>3, <3>4, <3>5, <4>1, <4>2
        <4>3. CASE n \in 1 .. Len(b)
          BY <3>3, <3>4, <3>5, <4>1, <4>3, Zenon DEF Chain
        <4> QED
          BY <3>3, <4>2, <4>3
      <3>7. Told(l, Len(buffer[l]))' = indexer
        BY <2>1, <3>3 DEF Told
      <3> QED
        BY <2>1, <3>1, <3>6, <3>7, Zenon DEF InStep, distribute
    <2> QED
      BY <2>2, <2>3, Zenon
  <1> QED
    BY <1>2, <1>3, <1>4, Zenon

LEMMA OneNotice ==
  ASSUME NEW x PROVE DOMAIN <<x>> = {1} /\ Len(<<x>>) = 1 /\ <<x>>[1] = x
  OBVIOUS

LEMMA JoinInv ==
  ASSUME SharedInv, NEW l \in Listeners, AddEventHandlerWithResyncPeriod(l)
  PROVE  SharedInv'
  <1> USE DEF SharedInv
  <1> DEFINE first == [old |-> None, new |-> indexer, sync |-> FALSE]
  <1>1. l \notin joined /\ joined' = joined \cup {l} /\ syncing' = syncing \cup {l}
        /\ Unlocked /\ UNCHANGED <<started, fifo, deltas, notice, indexer, view, due>>
    BY Zenon DEF AddEventHandlerWithResyncPeriod, Join
  <1>2. buffer[l] = <<>> /\ view[l] = None /\ Known = indexer /\ Known' = indexer
    BY <1>1, Zenon DEF InStep, Known, Unlocked
  <1>3. first \in Notices /\ first.old = None /\ first.new = indexer
    BY Zenon DEF Notices, States, SharedTypeOK
  <1>4. \/ indexer = None /\ buffer' = buffer
        \/ buffer' = [buffer EXCEPT ![l] = <<first>>]
    <2>1. CASE started /\ indexer # None
      BY <1>2, <2>1 DEF AddEventHandlerWithResyncPeriod, Join
    <2>2. CASE indexer = None
      BY <2>2, Zenon DEF AddEventHandlerWithResyncPeriod, Join, SharedTypeOK
    <2> QED
      BY <2>1, <2>2, Zenon DEF AtRest
  <1>5. SharedTypeOK'
    <2>1. buffer' \in [Listeners -> Seq(Notices)]
      <3>1. <<first>> \in Seq(Notices)
        BY <1>3
      <3> HIDE DEF first
      <3> QED
        BY <1>4, <3>1, Zenon DEF SharedTypeOK
    <2> QED
      BY <1>1, <2>1, Zenon DEF SharedTypeOK
  <1>6. AtRest' /\ SyncFirst(fifo)' /\ SyncFirst(deltas)' /\ NoticeLeads'
    BY <1>1, Zenon DEF AtRest, SyncFirst, NoticeLeads, Unlocked
  <1>7. ASSUME NEW k \in Listeners PROVE InStep(k)'
    <2>1. CASE k # l
      <3>1. buffer'[k] = buffer[k] /\ view'[k] = view[k] /\ (k \in joined' <=> k \in joined)
        BY <1>1, <1>4, <2>1, Zenon DEF SharedTypeOK
      <3> QED
        BY <1>2, <3>1, Zenon DEF InStep, Chain, Told
    <2>2. CASE k = l /\ buffer' = buffer /\ indexer = None
      BY <1>1, <1>2, <2>2, SMTT(30) DEF InStep, Chain, Told
    <2>3. CASE k = l /\ buffer' = [buffer EXCEPT ![l] = <<first>>]
      <3>1. buffer'[l] = <<first>> /\ view'[l] = None
        BY <1>1, <1>2, <2>3, Zenon DEF SharedTypeOK
      <3>2. DOMAIN buffer'[l] = {1} /\ Len(buffer'[l]) = 1 /\ buffer'[l][1] = first
        BY <3>1, OneNotice, Zenon
      <3>3. Told(l, 0)' = None /\ Told(l, 1)' = indexer
        <4> HIDE DEF first, SharedInv
        <4> QED
          BY <1>3, <3>1, <3>2 DEF Told
      <3>4. Chain(l)'
        BY <1>3, <3>2, <3>3 DEF Chain
      <3> QED
        BY <1>1, <1>2, <2>3, <3>2, <3>3, <3>4, Zenon DEF InStep
    <2> QED
      BY <1>4, <2>1, <2>2, <2>3, Zenon
  <1> QED
    BY <1>5, <1>6, <1>7, Zenon

LEMMA RunListenerInv ==
  ASSUME SharedInv, NEW l \in Listeners, run(l)
  PROVE  SharedInv'
  <1> USE DEF SharedInv
  <1> DEFINE b == buffer[l]
  <1>1. UNCHANGED <<started, fifo, deltas, notice, indexer, joined, syncing, due>> /\ b # <<>>
        /\ view' = [view EXCEPT ![l] = Head(b).new]
        /\ buffer' = [buffer EXCEPT ![l] = Tail(b)]
    BY Zenon DEF run
  <1>2. b \in Seq(Notices) /\ Head(b) = b[1] /\ b[1] \in Notices /\ Tail(b) \in Seq(Notices)
        /\ Len(b) \in Nat \ {0} /\ Len(Tail(b)) = Len(b) - 1 /\ DOMAIN b = 1 .. Len(b)
        /\ DOMAIN Tail(b) = 1 .. Len(b) - 1
        /\ \A n \in 1 .. Len(b) - 1 : Tail(b)[n] = b[n + 1]
    BY <1>1 DEF SharedTypeOK
  <1>3. buffer'[l] = Tail(b) /\ view'[l] = b[1].new
    BY <1>1, <1>2, Zenon DEF SharedTypeOK
  <1>4. SharedTypeOK'
    <2>1. b[1].new \in States
      BY <1>2, Zenon DEF Notices
    <2> QED
      BY <1>1, <1>2, <2>1, Zenon DEF SharedTypeOK
  <1>5. AtRest' /\ SyncFirst(fifo)' /\ SyncFirst(deltas)' /\ NoticeLeads' /\ Known' = Known
    BY <1>1, Zenon DEF AtRest, SyncFirst, NoticeLeads, Unlocked, Known
  <1>6. ASSUME NEW k \in Listeners PROVE InStep(k)'
    <2>1. CASE k # l
      <3>1. buffer'[k] = buffer[k] /\ view'[k] = view[k] /\ joined' = joined
        BY <1>1, <2>1, Zenon DEF SharedTypeOK
      <3> QED
        BY <1>5, <3>1, Zenon DEF InStep, Chain, Told
    <2>2. CASE k = l
      <3>1. l \in joined /\ Chain(l) /\ Told(l, Len(b)) = Known
        BY <1>1, Zenon DEF InStep
      <3>2. \A n \in 0 .. Len(b) - 1 : Told(l, n)' = Told(l, n + 1)
        BY <1>2, <1>3 DEF Told
      <3>3. Chain(l)'
        <4> SUFFICES ASSUME NEW n \in 1 .. Len(b) - 1 PROVE Tail(b)[n].old = Told(l, n - 1)'
          BY <1>2, <1>3, Zenon DEF Chain
        <4>1. Told(l, n - 1)' = Told(l, n) /\ Tail(b)[n] = b[n + 1] /\ n + 1 \in 1 .. Len(b)
          BY <1>2, <3>2
        <4>2. b[n + 1].old = Told(l, n)
          <5>1. PICK m \in 1 .. Len(b) : m = n + 1
            BY <4>1, Zenon
          <5>2. b[m].old = Told(l, m - 1)
            BY <1>2, <3>1, Zenon DEF Chain
          <5> QED
            BY <5>1, <5>2 DEF Told
        <4> QED
          BY <4>1, <4>2, Zenon
      <3>4. Told(l, Len(buffer[l]))' = Known
        <4>1. PICK m \in Nat \ {0} : m = Len(b)
          BY <1>2, Zenon
        <4>2. Len(buffer'[l]) = m - 1 /\ m - 1 \in 0 .. Len(b) - 1
          BY <1>2, <1>3, <4>1
        <4>3. Told(l, m - 1)' = Told(l, m)
          <5>1. Told(l, m - 1)' = Told(l, (m - 1) + 1) /\ (m - 1) + 1 = m
            BY <3>2, <4>1, <4>2
          <5> QED
            BY <5>1, Zenon DEF Told
        <4> QED
          BY <3>1, <4>1, <4>2, <4>3, Zenon DEF Told
      <3> QED
        BY <1>1, <1>5, <2>2, <3>1, <3>3, <3>4, Zenon DEF InStep
    <2> QED
      BY <2>1, <2>2, Zenon
  <1> QED
    BY <1>4, <1>5, <1>6, Zenon

\* AddEventHandlerWithResyncPeriod, HandleDeltas and distribute: for any number of
\* listeners, values, calls of the reflector and resyncs, what a listener is told
\* is one chain of changes that ends at the indexer.
THEOREM ListenersKeepStep == SharedSpec => []ListenersInStep
  <1>1. SharedInv /\ [SharedNext]_sharedVars => SharedInv'
    <2> SUFFICES ASSUME SharedInv, [SharedNext]_sharedVars PROVE SharedInv'
      BY Zenon
    <2>1. CASE UNCHANGED sharedVars
      <3>1. SharedTypeOK' /\ AtRest' /\ SyncFirst(fifo)' /\ SyncFirst(deltas)'
        BY <2>1, Zenon DEF sharedVars, SharedInv, SharedTypeOK, AtRest, SyncFirst, Unlocked
      <3> QED
        BY <2>1, <3>1, ListenersLeft, Zenon DEF sharedVars, SharedInv
    <2> QED
      BY <2>1, ReflectInv, ResyncInv, HandleInv, DistributeInv, JoinInv, RunListenerInv, Zenon
      DEF SharedNext
  <1> QED
    BY <1>1, SharedInitInv, SharedInvImplies, PTL DEF SharedSpec

------------------------------------------------------------------------------
(* TowerInformer, with objects of any set Vals of values. *)

Events(Vals) == [object : Objects, value : Vals, nilNode : BOOLEAN]

InformerTypeOK(Vals) ==
    /\ tower \in [Objects -> Vals] /\ store \in [Objects -> Vals \cup {NoObject}]
    /\ watch \in [Types -> {"off", "subscribed", "listed"}]
    /\ synced \in [Types -> BOOLEAN]
    /\ chan \in [Types -> Seq(Events(Vals))]

\* No event of o is left behind the first n of its subscription.
NoneAfter(o, n) == \A m \in DOMAIN chan[o[1]] : m > n => chan[o[1]][m].object # o

\* The last event of an object brings its value in tower; without one, the store
\* of a type that has been listed has it.
Leads(o) ==
    /\ \A n \in DOMAIN chan[o[1]] :
          chan[o[1]][n].object = o /\ NoneAfter(o, n) => chan[o[1]][n].value = tower[o]
    /\ watch[o[1]] = "listed" /\ NoneAfter(o, 0) => store[o] = tower[o]

InformerInv(Vals) ==
    /\ InformerTypeOK(Vals)
    /\ \A t \in Types : \A n \in DOMAIN chan[t] : chan[t][n].object[1] = t
    /\ \A t \in Types : watch[t] = "off" => chan[t] = <<>>
    /\ \A o \in Objects : Leads(o)

LEMMA TypeOf == ASSUME NEW o \in Objects PROVE o[1] \in Types
  BY Zenon DEF Types

LEMMA StillLeads ==
  ASSUME NEW o \in Objects, Leads(o), chan'[o[1]] = chan[o[1]], tower'[o] = tower[o],
         watch'[o[1]] = "listed" => watch[o[1]] = "listed" /\ store'[o] = store[o]
  PROVE  Leads(o)'
  <1>1. \A n : NoneAfter(o, n)' <=> NoneAfter(o, n)
    BY Zenon DEF NoneAfter
  <1> QED
    BY <1>1, Zenon DEF Leads

\* A subscription that is off and empty has nothing to lead to.
LEMMA OffLeads ==
  ASSUME NEW o \in Objects, chan'[o[1]] = <<>>, watch'[o[1]] = "off"
  PROVE  Leads(o)'
  <1>1. DOMAIN chan'[o[1]] = {}
    BY SMTT(30)
  <1> QED
    BY <1>1, Zenon DEF Leads

LEMMA Appended ==
  ASSUME NEW S, NEW c \in Seq(S), NEW e \in S
  PROVE  /\ Append(c, e) \in Seq(S) /\ Len(Append(c, e)) = Len(c) + 1
         /\ Append(c, e)[Len(c) + 1] = e /\ \A n \in 1 .. Len(c) : Append(c, e)[n] = c[n]
  OBVIOUS

\* An event appended behind the k that wait: only it is the last one of its object.
LEMMA AppendedLast ==
  ASSUME NEW o \in Objects, NEW k \in Nat, NEW e,
         DOMAIN chan[o[1]] = 1 .. k, DOMAIN chan'[o[1]] = 1 .. k + 1, chan'[o[1]][k + 1] = e,
         \A n \in 1 .. k : chan'[o[1]][n] = chan[o[1]][n],
         NEW n \in 0 .. k
  PROVE  /\ e.object = o => ~NoneAfter(o, n)'
         /\ NoneAfter(o, n)' => NoneAfter(o, n)
  <1>1. ASSUME e.object = o PROVE ~NoneAfter(o, n)'
    <2>1. k + 1 \in DOMAIN chan'[o[1]] /\ k + 1 > n
      OBVIOUS
    <2> QED
      BY <1>1, <2>1, Zenon DEF NoneAfter
  <1>2. ASSUME NoneAfter(o, n)', NEW m \in 1 .. k, m > n PROVE chan[o[1]][m].object # o
    <2>1. m \in DOMAIN chan'[o[1]] /\ chan'[o[1]][m] = chan[o[1]][m]
      OBVIOUS
    <2> QED
      BY <1>2, <2>1, Zenon DEF NoneAfter
  <1> QED
    BY <1>1, <1>2, Zenon DEF NoneAfter

LEMMA AppendedLeads ==
  ASSUME NEW o \in Objects, NEW k \in Nat, NEW e,
         DOMAIN chan[o[1]] = 1 .. k, DOMAIN chan'[o[1]] = 1 .. k + 1, chan'[o[1]][k + 1] = e,
         \A n \in 1 .. k : chan'[o[1]][n] = chan[o[1]][n],
         watch' = watch, store' = store,
         \/ e.object = o /\ e.value = tower'[o]
         \/ e.object # o /\ tower'[o] = tower[o] /\ Leads(o)
  PROVE  Leads(o)'
  <1>1. ASSUME NEW n \in 1 .. k + 1, chan'[o[1]][n].object = o, NoneAfter(o, n)'
        PROVE  chan'[o[1]][n].value = tower'[o]
    <2>1. CASE n = k + 1
      BY <1>1, <2>1, Zenon
    <2>2. CASE n \in 1 .. k
      <3>1. e.object # o /\ NoneAfter(o, n)
        <4>1. n \in 0 .. k
          BY <2>2
        <4> QED
          BY <1>1, <4>1, AppendedLast, Zenon
      <3>2. n \in DOMAIN chan[o[1]] /\ chan'[o[1]][n] = chan[o[1]][n]
        BY <2>2, Zenon
      <3> QED
        BY <1>1, <3>1, <3>2, Zenon DEF Leads
    <2> QED
      BY <2>1, <2>2
  <1>2. ASSUME watch'[o[1]] = "listed", NoneAfter(o, 0)' PROVE store'[o] = tower'[o]
    <2>1. e.object # o /\ NoneAfter(o, 0)
      <3>1. 0 \in 0 .. k
        OBVIOUS
      <3> QED
        BY <1>2, <3>1, AppendedLast, Zenon
    <2> QED
      BY <1>2, <2>1, Zenon DEF Leads
  <1> QED
    BY <1>1, <1>2, Zenon DEF Leads

LEMMA InformerInvImplies ==
  ASSUME NEW CONSTANT Vals, InformerInv(Vals) PROVE CaughtUp
  <1> SUFFICES ASSUME NEW o \in Objects, watch[o[1]] = "listed", chan[o[1]] = <<>>
               PROVE  store[o] = tower[o]
    BY Zenon DEF CaughtUp, InformerInv, InformerTypeOK
  <1>1. NoneAfter(o, 0)
    BY DEF NoneAfter
  <1> QED
    BY <1>1, Zenon DEF InformerInv, Leads

LEMMA InformerInitInv ==
  ASSUME NEW CONSTANT Vals, tower \in [Objects -> Vals], InformerInit
  PROVE  InformerInv(Vals)
  <1>1. InformerTypeOK(Vals)
    <2>1. chan \in [Types -> Seq(Events(Vals))]
      BY DEF InformerInit
    <2> QED
      BY <2>1, Zenon DEF InformerInit, InformerTypeOK
  <1>2. \A t \in Types : chan[t] = <<>> /\ watch[t] = "off"
    BY Zenon DEF InformerInit
  <1> QED
    BY <1>1, <1>2, TypeOf DEF InformerInv, Leads

LEMMA WriteInv ==
  ASSUME NEW CONSTANT Vals, InformerInv(Vals),
         NEW o \in Objects, NEW v \in Vals, NEW b \in BOOLEAN, Write(o, v, b)
  PROVE  InformerInv(Vals)'
  <1> DEFINE t == o[1]
             e == [object |-> o, value |-> v, nilNode |-> b]
  <1> USE TypeOf DEF InformerInv
  <1>1. e \in Events(Vals) /\ e.object = o /\ e.value = v
    BY Zenon DEF Events
  <1>2. UNCHANGED <<watch, store, synced>> /\ tower' = [tower EXCEPT ![o] = v]
        /\ chan' = IF watch[t] = "off" THEN chan ELSE [chan EXCEPT ![t] = Append(@, e)]
    BY Zenon DEF Write
  <1> HIDE DEF e
  <1>3. CASE watch[t] = "off"
    <2>1. chan' = chan /\ chan[t] = <<>>
      BY <1>2, <1>3, Zenon
    <2>2. ASSUME NEW p \in Objects PROVE Leads(p)'
      <3>1. CASE p[1] = t
        <4>1. chan'[p[1]] = <<>> /\ watch'[p[1]] = "off"
          BY <1>2, <1>3, <2>1, <3>1, Zenon
        <4> QED
          BY <4>1, OffLeads, Zenon
      <3>2. CASE p[1] # t
        <4>1. tower'[p] = tower[p]
          BY <1>2, <3>2, Zenon DEF InformerTypeOK
        <4> QED
          BY <1>2, <2>1, <4>1, StillLeads, Zenon
      <3> QED
        BY <3>1, <3>2, Zenon
    <2> QED
      BY <1>2, <2>1, <2>2, Zenon DEF InformerTypeOK
  <1>4. CASE watch[t] # "off"
    <2>1. chan'[t] = Append(chan[t], e) /\ (\A u \in Types : u # t => chan'[u] = chan[u])
      BY <1>2, <1>4, Zenon DEF InformerTypeOK
    <2>2. InformerTypeOK(Vals)'
      <3>1. Append(chan[t], e) \in Seq(Events(Vals))
        BY <1>1 DEF InformerTypeOK
      <3> QED
        BY <1>2, <1>4, <3>1, Zenon DEF InformerTypeOK
    <2>3. PICK k \in Nat : k = Len(chan[t]) /\ DOMAIN chan[t] = 1 .. k
                          /\ DOMAIN chan'[t] = 1 .. k + 1 /\ chan'[t][k + 1] = e
                          /\ \A n \in 1 .. k : chan'[t][n] = chan[t][n]
      <3>1. chan[t] \in Seq(Events(Vals))
        BY Zenon DEF InformerTypeOK
      <3> HIDE DEF t
      <3>2. Len(chan[t]) \in Nat /\ DOMAIN chan[t] = 1 .. Len(chan[t])
        BY <3>1
      <3>3. Len(Append(chan[t], e)) = Len(chan[t]) + 1
            /\ DOMAIN Append(chan[t], e) = 1 .. Len(chan[t]) + 1
            /\ Append(chan[t], e)[Len(chan[t]) + 1] = e
            /\ \A n \in 1 .. Len(chan[t]) : Append(chan[t], e)[n] = chan[t][n]
        <4> HIDE DEF InformerInv
        <4>1. Append(chan[t], e) \in Seq(Events(Vals)) /\ Len(Append(chan[t], e)) = Len(chan[t]) + 1
              /\ Append(chan[t], e)[Len(chan[t]) + 1] = e
              /\ \A n \in 1 .. Len(chan[t]) : Append(chan[t], e)[n] = chan[t][n]
          BY <1>1, <3>1, Appended
        <4> QED
          BY <4>1
      <3> QED
        BY <2>1, <3>2, <3>3, Zenon
    <2>4. ASSUME NEW p \in Objects PROVE Leads(p)'
      <3>1. CASE p[1] # t
        <4>1. tower'[p] = tower[p] /\ chan'[p[1]] = chan[p[1]]
          BY <1>2, <2>1, <3>1, Zenon DEF InformerTypeOK
        <4> QED
          BY <1>2, <4>1, StillLeads, Zenon
      <3>2. CASE p[1] = t
        <4>1. \/ p = o /\ tower'[p] = v
              \/ p # o /\ tower'[p] = tower[p]
          BY <1>2, Zenon DEF InformerTypeOK
        <4>2. \/ e.object = p /\ e.value = tower'[p]
              \/ e.object # p /\ tower'[p] = tower[p] /\ Leads(p)
          BY <1>1, <4>1, Zenon
        <4>3. /\ DOMAIN chan[p[1]] = 1 .. k /\ DOMAIN chan'[p[1]] = 1 .. k + 1 /\ chan'[p[1]][k + 1] = e
              /\ \A n \in 1 .. k : chan'[p[1]][n] = chan[p[1]][n]
          BY <2>3, <3>2, Zenon
        <4>4. watch' = watch /\ store' = store
          BY <1>2, Zenon
        <4> HIDE DEF InformerInv
        <4> QED
          BY <4>2, <4>3, <4>4, AppendedLeads, Zenon
      <3> QED
        BY <3>1, <3>2, Zenon
    <2>5. ASSUME NEW u \in Types, NEW n \in DOMAIN chan'[u] PROVE chan'[u][n].object[1] = u
      <3>1. CASE u # t
        BY <2>1, <3>1, Zenon
      <3>2. CASE u = t /\ n = k + 1
        BY <1>1, <2>3, <3>2, Zenon
      <3>3. CASE u = t /\ n # k + 1
        <4>1. n \in 1 .. k
          BY <2>3, <3>3, SMTT(30)
        <4> QED
          BY <2>3, <3>3, <4>1, ZenonT(60)
      <3> QED
        BY <3>1, <3>2, <3>3, Zenon
    <2>6. \A u \in Types : watch'[u] = "off" => chan'[u] = <<>>
      BY <1>2, <1>4, <2>1, Zenon
    <2> QED
      BY <2>2, <2>4, <2>5, <2>6, Zenon
  <1> QED
    BY <1>3, <1>4, Zenon

\* Subscription, syncWith, watchErrorHandler and InformerRestart leave tower
\* alone and forget events of whole subscriptions only.
LEMMA WatchInv ==
  ASSUME NEW CONSTANT Vals, InformerInv(Vals), NEW t \in Types,
         Subscription(t) \/ syncWith(t) \/ watchErrorHandler(t)
  PROVE  InformerInv(Vals)'
  <1> USE TypeOf DEF InformerInv
  <1>1. CASE Subscription(t)
    <2>1. UNCHANGED <<tower, chan, store, synced>> /\ watch' = [watch EXCEPT ![t] = "subscribed"]
      BY <1>1, Zenon DEF Subscription
    <2>2. ASSUME NEW o \in Objects PROVE Leads(o)'
      BY <2>1, StillLeads, Zenon DEF InformerTypeOK
    <2>3. InformerTypeOK(Vals)' /\ \A u \in Types : watch'[u] = "off" => watch[u] = "off"
      BY <2>1, Zenon DEF InformerTypeOK
    <2> QED
      BY <2>1, <2>2, <2>3, Zenon
  <1>2. CASE syncWith(t)
    <2>1. UNCHANGED <<tower, chan>> /\ watch' = [watch EXCEPT ![t] = "listed"]
          /\ store' = [o \in Objects |-> IF o[1] = t THEN tower[o] ELSE store[o]]
          /\ synced' = [synced EXCEPT ![t] = TRUE]
      BY <1>2, Zenon DEF syncWith
    <2>2. ASSUME NEW o \in Objects PROVE Leads(o)'
      <3>1. CASE o[1] # t
        BY <2>1, <3>1, StillLeads, Zenon DEF InformerTypeOK
      <3>2. CASE o[1] = t
        <4>1. store'[o] = tower[o]
          BY <2>1, <3>2, Zenon
        <4>2. \A n : NoneAfter(o, n)' <=> NoneAfter(o, n)
          BY <2>1, Zenon DEF NoneAfter
        <4> QED
          BY <2>1, <4>1, <4>2, Zenon DEF Leads
      <3> QED
        BY <3>1, <3>2, Zenon
    <2>3. InformerTypeOK(Vals)' /\ \A u \in Types : watch'[u] = "off" => watch[u] = "off"
      BY <2>1, Zenon DEF InformerTypeOK
    <2> QED
      BY <2>1, <2>2, <2>3, Zenon
  <1>3. CASE watchErrorHandler(t)
    <2>1. UNCHANGED <<tower, store, synced>> /\ watch' = [watch EXCEPT ![t] = "off"]
          /\ chan' = [chan EXCEPT ![t] = <<>>]
      BY <1>3, Zenon DEF watchErrorHandler
    <2>2. ASSUME NEW o \in Objects PROVE Leads(o)'
      <3>1. CASE o[1] # t
        BY <2>1, <3>1, StillLeads, Zenon DEF InformerTypeOK
      <3>2. CASE o[1] = t
        <4>1. chan'[o[1]] = <<>> /\ watch'[o[1]] = "off"
          BY <2>1, <3>2, Zenon DEF InformerTypeOK
        <4> QED
          BY <4>1, OffLeads, Zenon
      <3> QED
        BY <3>1, <3>2, Zenon
    <2>3. InformerTypeOK(Vals)'
      <3>1. <<>> \in Seq(Events(Vals))
        OBVIOUS
      <3>2. chan' \in [Types -> Seq(Events(Vals))]
        BY <2>1, <3>1, Zenon DEF InformerTypeOK
      <3> QED
        BY <2>1, <3>2, Zenon DEF InformerTypeOK
    <2>4. \A u \in Types : chan'[u] = <<>> \/ (chan'[u] = chan[u] /\ watch'[u] = watch[u])
      BY <2>1, Zenon DEF InformerTypeOK
    <2> QED
      BY <2>2, <2>3, <2>4
  <1> QED
    BY <1>1, <1>2, <1>3, Zenon

LEMMA RestartInv ==
  ASSUME NEW CONSTANT Vals, InformerInv(Vals), InformerRestart
  PROVE  InformerInv(Vals)'
  <1>1. InformerTypeOK(Vals)'
    <2>1. chan' \in [Types -> Seq(Events(Vals))]
      BY DEF InformerRestart
    <2> QED
      BY <2>1, Zenon DEF InformerRestart, InformerInv, InformerTypeOK
  <1>2. \A t \in Types : chan'[t] = <<>> /\ watch'[t] = "off"
    BY Zenon DEF InformerRestart
  <1>3. \A o \in Objects : Leads(o)'
    BY <1>2, TypeOf, OffLeads, Zenon
  <1> QED
    BY <1>1, <1>2, <1>3 DEF InformerInv

LEMMA EventInv ==
  ASSUME NEW CONSTANT Vals, InformerInv(Vals), NEW t \in Types, eventHandler(t)
  PROVE  InformerInv(Vals)'
  <1> DEFINE c == chan[t]
  <1> USE TypeOf DEF InformerInv
  <1>1. UNCHANGED <<tower, watch, synced>> /\ watch[t] = "listed" /\ c # <<>>
        /\ store' = [store EXCEPT ![Head(c).object] = Head(c).value]
        /\ chan' = [chan EXCEPT ![t] = Tail(c)]
    BY Zenon DEF eventHandler
  <1>2. c \in Seq(Events(Vals))
    BY Zenon DEF InformerTypeOK
  <1>3. PICK k \in Nat : DOMAIN c = 1 .. k + 1 /\ DOMAIN Tail(c) = 1 .. k
                        /\ \A n \in 1 .. k : Tail(c)[n] = c[n + 1]
    <2> HIDE DEF c
    <2>1. Len(c) \in Nat \ {0} /\ DOMAIN c = 1 .. Len(c) /\ DOMAIN Tail(c) = 1 .. Len(c) - 1
          /\ \A n \in 1 .. Len(c) - 1 : Tail(c)[n] = c[n + 1]
      BY <1>1, <1>2
    <2>2. Len(c) - 1 \in Nat /\ (Len(c) - 1) + 1 = Len(c)
      BY <2>1
    <2> QED
      BY <2>1, <2>2, Zenon
  <1>4. PICK e \in Events(Vals) : e = Head(c) /\ e = c[1]
    BY <1>1, <1>2
  <1>5. e.object \in Objects /\ e.value \in Vals /\ e.object[1] = t
    BY <1>3, <1>4 DEF Events
  <1>6. chan'[t] = Tail(c) /\ (\A u \in Types : u # t => chan'[u] = chan[u])
        /\ store'[e.object] = e.value
        /\ (\A o \in Objects : o # e.object => store'[o] = store[o])
    BY <1>1, <1>4, <1>5, Zenon DEF InformerTypeOK
  <1>7. InformerTypeOK(Vals)'
    <2>1. Tail(c) \in Seq(Events(Vals))
      BY <1>1, <1>2
    <2> QED
      BY <1>1, <1>4, <1>5, <2>1, Zenon DEF InformerTypeOK
  <1>8. ASSUME NEW o \in Objects PROVE Leads(o)'
    <2>1. CASE o[1] # t
      BY <1>1, <1>5, <1>6, <2>1, StillLeads, Zenon
    <2>2. CASE o[1] = t
      <3>1. ASSUME NEW n \in 1 .. k, NoneAfter(o, n)' PROVE NoneAfter(o, n + 1)
        <4> SUFFICES ASSUME NEW m \in 1 .. k + 1, m > n + 1 PROVE c[m].object # o
          BY <1>3, <2>2, Zenon DEF NoneAfter
        <4>1. m - 1 \in 1 .. k /\ m - 1 > n /\ (m - 1) + 1 = m
          OBVIOUS
        <4>2. Tail(c)[m - 1].object # o
          BY <1>3, <1>6, <2>2, <3>1, <4>1, Zenon DEF NoneAfter
        <4> QED
          BY <1>3, <4>1, <4>2, Zenon
      <3>2. ASSUME NoneAfter(o, 0)' PROVE NoneAfter(o, 1)
        <4> SUFFICES ASSUME NEW m \in 1 .. k + 1, m > 1 PROVE c[m].object # o
          BY <1>3, <2>2, Zenon DEF NoneAfter
        <4>1. m - 1 \in 1 .. k /\ m - 1 > 0 /\ (m - 1) + 1 = m
          BY SMTT(30)
        <4>2. Tail(c)[m - 1].object # o
          BY <1>3, <1>6, <2>2, <3>2, <4>1, Zenon DEF NoneAfter
        <4> QED
          BY <1>3, <4>1, <4>2, Zenon
      <3>3. ASSUME NEW n \in 1 .. k, Tail(c)[n].object = o, NoneAfter(o, n)'
            PROVE  Tail(c)[n].value = tower[o]
        <4>1. PICK q \in 1 .. k + 1 : q = n + 1
          BY SMTT(30)
        <4>2. c[q].object = o /\ c[q] = Tail(c)[n] /\ NoneAfter(o, q)
          BY <1>3, <3>1, <3>3, <4>1, Zenon
        <4>3. q \in DOMAIN c /\ Leads(o) /\ c = chan[o[1]]
          BY <1>3, <2>2, Zenon
        <4> HIDE DEF c
        <4>4. c[q].value = tower[o]
          BY <4>2, <4>3, ZenonT(60) DEF Leads
        <4> QED
          BY <4>2, <4>4, Zenon
      <3>4. ASSUME NoneAfter(o, 0)' PROVE store'[o] = tower[o]
        <4>1. CASE o = e.object
          <5>1. c[1].object = o /\ c[1].value = store'[o] /\ NoneAfter(o, 1)
            BY <1>4, <1>6, <3>2, <3>4, <4>1, Zenon
          <5>2. Leads(o) /\ c = chan[o[1]]
            BY <2>2, Zenon
          <5> HIDE DEF c, InformerInv
          <5>3. 1 \in DOMAIN c
            BY <1>3, SMTT(30)
          <5> QED
            BY <5>1, <5>2, <5>3, Zenon DEF Leads
        <4>2. CASE o # e.object
          <5>1. NoneAfter(o, 0)
            <6> SUFFICES ASSUME NEW m \in 1 .. k + 1 PROVE c[m].object # o
              BY <1>3, <2>2, Zenon DEF NoneAfter
            <6>1. CASE m = 1
              BY <1>4, <4>2, <6>1, Zenon
            <6>2. CASE m > 1
              BY <1>3, <2>2, <3>2, <3>4, <6>2, Zenon DEF NoneAfter
            <6>3. m = 1 \/ m > 1
              <7> HIDE DEF InformerInv, c
              <7> QED
                BY SMTT(30)
            <6> QED
              BY <6>1, <6>2, <6>3, Zenon
          <5> QED
            BY <1>1, <1>6, <2>2, <4>2, <5>1, Zenon DEF Leads
        <4> QED
          BY <4>1, <4>2, Zenon
      <3>5. chan'[o[1]] = Tail(c) /\ DOMAIN Tail(c) = 1 .. k /\ tower' = tower
        BY <1>1, <1>3, <1>6, <2>2, Zenon
      <3> HIDE DEF c
      <3> QED
        BY <3>3, <3>4, <3>5, Zenon DEF Leads
    <2> QED
      BY <2>1, <2>2, Zenon
  <1>9. ASSUME NEW u \in Types, NEW n \in DOMAIN chan'[u] PROVE chan'[u][n].object[1] = u
    <2>1. CASE u # t
      BY <1>6, <2>1, SMTT(30)
    <2>2. CASE u = t
      <3>1. chan'[u] = Tail(c) /\ n \in 1 .. k
        BY <1>3, <1>6, <2>2, Zenon
      <3>2. n + 1 \in DOMAIN c /\ chan'[u][n] = c[n + 1]
        <4> HIDE DEF c, InformerInv
        <4>1. n + 1 \in 1 .. k + 1
          BY <3>1
        <4> QED
          BY <1>3, <3>1, <4>1, Zenon
      <3>3. PICK q \in DOMAIN c : chan'[u][n] = c[q]
        BY <3>2, Zenon
      <3> QED
        BY <2>2, <3>3, Zenon
    <2> QED
      BY <2>1, <2>2, Zenon
  <1>10. \A u \in Types : watch'[u] = "off" => chan'[u] = <<>>
    BY <1>1, <1>6, Zenon
  <1> QED
    BY <1>7, <1>8, <1>9, <1>10, Zenon

\* syncWith and eventHandler, for any objects and values: whenever the list has
\* been taken and no event is left, the store holds tower's objects.
THEOREM StoreCatchesUp ==
  ASSUME NEW CONSTANT Vals
  PROVE  InformerSpec(Vals) => []CaughtUp
  <1>1. tower \in [Objects -> Vals] /\ InformerInit => InformerInv(Vals)
    BY InformerInitInv, Zenon
  <1>2. InformerInv(Vals) /\ [InformerNext(Vals)]_informerVars => InformerInv(Vals)'
    <2> SUFFICES ASSUME InformerInv(Vals), [InformerNext(Vals)]_informerVars
                 PROVE  InformerInv(Vals)'
      BY Zenon
    <2>1. CASE UNCHANGED informerVars
      <3>1. \A o \in Objects : Leads(o)'
        BY <2>1, StillLeads, Zenon DEF InformerInv, informerVars
      <3> QED
        BY <2>1, <3>1, Zenon DEF InformerInv, InformerTypeOK, informerVars
    <2> QED
      BY <2>1, WriteInv, WatchInv, EventInv, RestartInv, Zenon DEF InformerNext
  <1>3. InformerInv(Vals) => CaughtUp
    BY InformerInvImplies, Zenon
  <1> QED
    BY <1>1, <1>2, <1>3, PTL DEF InformerSpec

------------------------------------------------------------------------------
(* GroupSelection: the members of a group are those it selects once the       *)
(* controller is at rest, for any specs, states of the endpoint and labels of *)
(* its namespace and any number of changes, however the caches lag behind     *)
(* each other and wherever the controller restarts.                           *)

\* The endpoint is one of the namespace "ns".
EndpointsOfNs == \A v \in EndpointStates : v.namespace = "ns"

\* validateGroupSpec: a namespace or a namespace selector, not both; either is nil
\* or one value.  validatePeer: an endpoint excludes selectors.  And an endpoint a
\* group names is in the group's namespace, as one a policy applies to always is.
WellFormed(spec) ==
    /\ spec.namespace = {} \/ spec.namespaceSelector = {}
    /\ \A m, n \in spec.namespace : m = n
    /\ "ep" \in spec.endpoint =>
          spec.namespaceSelector = {} /\ spec.namespace \subseteq {"ns"}

------------------------------------------------------------------------------
(* The inductive invariant. *)

EndpointSets == {{}} \cup {{v} : v \in EndpointStates}

NamespaceSets == {{}} \cup {{v} : v \in NamespaceLabels}

GroupObjects == [spec : Groups, finalizer : BOOLEAN, deleting : BOOLEAN]

GroupSets == {{}} \cup {{g} : g \in GroupObjects}

Versions(k) ==
    IF k = "endpoint" THEN EndpointSets ELSE IF k = "namespace" THEN NamespaceSets ELSE GroupSets

AllVersions == EndpointSets \cup NamespaceSets \cup GroupSets

SelectionTypeOK ==
    /\ objects \in [Kinds -> AllVersions]
    /\ cached \in [Kinds -> AllVersions]
    /\ DOMAIN events = Kinds
    /\ events = [k \in Kinds |-> events[k]]
    /\ \A k \in Kinds :
          /\ objects[k] \in Versions(k) /\ cached[k] \in Versions(k)
          /\ events[k] \in Seq(Versions(k))
    /\ queued \in BOOLEAN

\* What the caches have not seen ends at the objects.
CacheChain ==
    \A k \in Kinds :
        /\ events[k] = <<>> => cached[k] = objects[k]
        /\ events[k] # <<>> => events[k][Len(events[k])] = objects[k]

\* An endpoint is in a namespace that exists.
Housed == objects["endpoint"] # {} => objects["namespace"] # {}

Kept(x) == \E g \in x : g.finalizer

Live(x) == \E g \in x : g.finalizer /\ ~g.deleting

Marked(x) == \E g \in x : g.deleting

\* The versions of the group: a finalizer stays until the group has no members,
\* and nothing but its end follows the mark.
LifeInv ==
    LET c == cached["group"]
        e == events["group"]
    IN
    /\ Live(c) => \A i \in 1 .. Len(e) : Kept(e[i])
    /\ \A i, j \in 1 .. Len(e) : i < j /\ Live(e[i]) => Kept(e[j])
    /\ \A i \in 1 .. Len(e) : Marked(e[i]) => i = Len(e)
    /\ Marked(c) /\ e # <<>> => e[1] = {} /\ members = {}
    /\ members # {} => Kept(c) /\ \A i \in 1 .. Len(e) : Kept(e[i])
    /\ ~queued => \A g \in c : g.finalizer \/ g.deleting
    /\ Marked(c) /\ ~queued => e # <<>>

Found(spec, o) == fetchCurrGroupMembers(spec, Eps(o), Namespaces(o))

Members(spec, o) == [e \in Found(spec, o) |-> Of(o.endpoint).ips]

\* The endpoint was written while its namespace was not cached.  The namespace's
\* own event will queue the group.
Unseen(spec) ==
    cached["namespace"] = {} /\ cached["endpoint"] # {} /\ "ns" \in spec.namespace

\* Out of the queue, the members are those selected of the cached objects.
MembersInv ==
    \A g \in cached["group"] :
        ~queued /\ ~g.deleting /\ Undisturbed(g.spec) /\ ~Unseen(g.spec) =>
            members = {Members(g.spec, cached)}

SelectionInv == SelectionTypeOK /\ CacheChain /\ Housed /\ LifeInv /\ MembersInv

------------------------------------------------------------------------------
(* What a group selects. *)

\* Whether a group selects the endpoint in state v, the namespace being ns.
Selected(spec, v, ns) ==
    /\ \/ "ep" \in spec.endpoint
       \/ /\ \/ spec.namespace = {} /\ spec.namespaceSelector = {}
             \/ "ns" \in spec.namespace
             \/ spec.namespace = {} /\ ns # {} /\ Matches(spec.namespaceSelector, Of(ns))
          /\ Matches(spec.endpointSelector, v.labels)
    /\ v.ips # {}
    /\ spec.all => v.ports # {}

LEMMA OfIn ==
    ASSUME NEW x, x # {}
    PROVE  Of(x) \in x
BY Zenon DEF Of

LEMMA OnlyOne ==
    ASSUME NEW S, NEW x \in {{}} \cup {{v} : v \in S}, NEW v \in x
    PROVE  v \in S /\ x = {v} /\ Of(x) = v
<1>1. PICK w \in S : x = {w}
  BY Zenon
<1>2. Of(x) \in x
  BY OfIn, Zenon
<1> QED
  BY <1>1, <1>2, Zenon

LEMMA OneEndpoint ==
    ASSUME NEW x \in EndpointSets, NEW v \in x
    PROVE  v \in EndpointStates /\ x = {v} /\ Of(x) = v
BY OnlyOne, Zenon DEF EndpointSets

LEMMA OneNamespace ==
    ASSUME NEW x \in NamespaceSets, NEW v \in x
    PROVE  v \in NamespaceLabels /\ x = {v} /\ Of(x) = v
BY OnlyOne, Zenon DEF NamespaceSets

LEMMA OneGroup ==
    ASSUME NEW x \in GroupSets, NEW g \in x
    PROVE  g \in GroupObjects /\ x = {g} /\ Of(x) = g
BY OnlyOne, Zenon DEF GroupSets

\* fetchCurrGroupMembers finds the endpoint or nothing.
LEMMA FoundIs ==
    ASSUME EndpointsOfNs, NEW spec, NEW o, o.endpoint \in EndpointSets
    PROVE  Found(spec, o) = {e \in {"ep"} : \E v \in o.endpoint : Selected(spec, v, o.namespace)}
<1> DEFINE eps == Eps(o)
           nss == Namespaces(o)
<1>1. DOMAIN eps = {"ep" : v \in o.endpoint} /\ DOMAIN nss = {"ns" : v \in o.namespace}
  BY Zenon DEF Eps, Namespaces
<1>2. "ns" \in DOMAIN nss <=> o.namespace # {}
  BY <1>1, Zenon
<1>3. o.namespace # {} => nss["ns"] = Of(o.namespace)
  BY Zenon DEF Namespaces
<1>4. ASSUME NEW v \in o.endpoint
      PROVE  eps["ep"] = v /\ "ep" \in DOMAIN eps /\ v.namespace = "ns"
  BY <1>1, OneEndpoint, Zenon DEF Eps, EndpointsOfNs
<1> DEFINE in(e) == \/ spec.namespace = {} /\ spec.namespaceSelector = {}
                    \/ eps[e].namespace \in spec.namespace
                    \/ /\ spec.namespace = {}
                       /\ eps[e].namespace \in DOMAIN nss
                       /\ Matches(spec.namespaceSelector, nss[eps[e].namespace])
           is(e) == /\ \/ e \in spec.endpoint
                       \/ in(e) /\ Matches(spec.endpointSelector, eps[e].labels)
                    /\ eps[e].ips # {}
                    /\ spec.all => eps[e].ports # {}
<1>5. Found(spec, o) = {e \in DOMAIN eps : is(e)}
  BY Zenon DEF Found, fetchCurrGroupMembers
<1>6. ASSUME NEW v \in o.endpoint
      PROVE  is("ep") <=> Selected(spec, v, o.namespace)
  <2>1. eps["ep"] = v /\ eps["ep"].namespace = "ns"
    BY <1>4, Zenon
  <2>2. in("ep") <=> \/ spec.namespace = {} /\ spec.namespaceSelector = {}
                     \/ "ns" \in spec.namespace
                     \/ /\ spec.namespace = {} /\ o.namespace # {}
                        /\ Matches(spec.namespaceSelector, Of(o.namespace))
    <3> HIDE DEF eps, nss
    <3> QED
      BY <1>2, <1>3, <2>1, Zenon
  <2> HIDE DEF eps, nss, in
  <2> QED
    BY <2>1, <2>2, Zenon DEF Selected
<1> HIDE DEF eps, nss, is
<1>7. ASSUME NEW e \in DOMAIN eps
      PROVE  e = "ep" /\ \E v \in o.endpoint : TRUE
  BY <1>1, Zenon
<1> QED
  BY <1>4, <1>5, <1>6, <1>7, Zenon

LEMMA NothingFound ==
    ASSUME EndpointsOfNs, NEW spec, NEW o, NEW p,
           o.endpoint \in EndpointSets, p.endpoint \in EndpointSets,
           \A v \in o.endpoint : ~Selected(spec, v, o.namespace),
           \A v \in p.endpoint : ~Selected(spec, v, p.namespace)
    PROVE  Members(spec, o) = Members(spec, p)
<1>1. Found(spec, o) = {} /\ Found(spec, p) = {}
  BY FoundIs, ZenonT(60)
<1> QED
  BY <1>1, Zenon DEF Members

LEMMA SameFound ==
    ASSUME EndpointsOfNs, NEW spec, NEW o, NEW p,
           o.endpoint \in EndpointSets, p.endpoint = o.endpoint,
           \A v \in o.endpoint : Selected(spec, v, o.namespace) <=> Selected(spec, v, p.namespace)
    PROVE  Members(spec, o) = Members(spec, p)
<1>1. Found(spec, o) = Found(spec, p)
  BY FoundIs, ZenonT(60)
<1> QED
  BY <1>1, Zenon DEF Members

\* A selected endpoint concerns the group, if its namespace is cached.
LEMMA SelectedConcerns ==
    ASSUME EndpointsOfNs, NEW spec, WellFormed(spec), NEW o, o.namespace \in NamespaceSets,
           o.namespace # {}, NEW v \in EndpointStates, Selected(spec, v, o.namespace)
    PROVE  v.ips # {} /\ filterEndpointGroupsByEndpoint(spec, "ep", v, Namespaces(o))
<1>1. "ns" \in DOMAIN Namespaces(o) /\ Namespaces(o)["ns"] = Of(o.namespace)
  BY Zenon DEF Namespaces
<1>2. v.namespace = "ns"
  BY Zenon DEF EndpointsOfNs
<1>3. "ns" \in spec.namespace => spec.namespace \subseteq {"ns"} /\ spec.namespaceSelector = {}
  BY Zenon DEF WellFormed
<1> QED
  BY <1>1, <1>2, <1>3, Zenon DEF Selected, filterEndpointGroupsByEndpoint

\* Without its namespace it is selected by name, or by the group's namespace.
LEMMA SelectedUnhoused ==
    ASSUME NEW spec, WellFormed(spec), NEW v, NEW ns, ns = {}, Selected(spec, v, ns)
    PROVE  /\ spec.namespaceSelector = {}
           /\ spec.namespace # {} => "ns" \in spec.namespace
BY Zenon DEF Selected, WellFormed

------------------------------------------------------------------------------
(* Writes and deliveries. *)

LEMMA Fields ==
    ASSUME SelectionTypeOK
    PROVE  /\ "endpoint" \in Kinds /\ "namespace" \in Kinds /\ "group" \in Kinds
           /\ objects.endpoint \in EndpointSets /\ cached.endpoint \in EndpointSets
           /\ objects.namespace \in NamespaceSets /\ cached.namespace \in NamespaceSets
           /\ objects.group \in GroupSets /\ cached.group \in GroupSets
           /\ events.endpoint \in Seq(EndpointSets) /\ events.namespace \in Seq(NamespaceSets)
           /\ events.group \in Seq(GroupSets)
<1>1. "endpoint" \in Kinds /\ "namespace" \in Kinds /\ "group" \in Kinds
  BY Zenon DEF Kinds
<1>2. /\ Versions("endpoint") = EndpointSets /\ Versions("namespace") = NamespaceSets
      /\ Versions("group") = GroupSets
  BY SMT DEF Versions
<1> QED
  BY <1>1, <1>2, Zenon DEF SelectionTypeOK

LEMMA HeadTail ==
    ASSUME NEW S, NEW c \in Seq(S), c # <<>>
    PROVE  /\ Head(c) \in S /\ Head(c) = c[1] /\ Tail(c) \in Seq(S)
           /\ Len(Tail(c)) \in Nat /\ Len(c) = Len(Tail(c)) + 1
           /\ Tail(c) = <<>> => Head(c) = c[Len(c)]
           /\ Tail(c) # <<>> => Tail(c)[Len(Tail(c))] = c[Len(c)] /\ Len(Tail(c)) # 0
           /\ 1 \in 1 .. Len(Tail(c)) + 1
           /\ \A i \in 1 .. Len(Tail(c)) :
                 Tail(c)[i] = c[i + 1] /\ i + 1 \in 1 .. Len(Tail(c)) + 1 /\ 1 < i + 1
<1>1. /\ Head(c) \in S /\ Head(c) = c[1] /\ Tail(c) \in Seq(S)
      /\ Len(Tail(c)) \in Nat /\ Len(c) = Len(Tail(c)) + 1
  BY SMT
<1>2. \A i \in 1 .. Len(Tail(c)) : Tail(c)[i] = c[i + 1]
  BY SMT
<1>3. Tail(c) = <<>> <=> Len(Tail(c)) = 0
  BY <1>1, SMT
<1> DEFINE n == Len(Tail(c))
<1> HIDE DEF n
<1>4. /\ 1 \in 1 .. n + 1 /\ (n # 0 => n \in 1 .. n) /\ (n = 0 => n + 1 = 1)
      /\ \A i \in 1 .. n : i + 1 \in 1 .. n + 1 /\ 1 < i + 1
  <2>1. n \in Nat
    BY <1>1, Zenon DEF n
  <2> QED
    BY <2>1, SMT
<1> QED
  BY <1>1, <1>2, <1>3, <1>4, Zenon DEF n

LEMMA VersionsIn ==
    ASSUME NEW k \in Kinds, NEW x \in Versions(k)
    PROVE  x \in AllVersions
BY SMT DEF Versions, AllVersions

LEMMA WriteIs ==
    ASSUME SelectionTypeOK, CacheChain, NEW k \in Kinds, NEW new \in Versions(k), WriteObject(k, new),
           cached' = cached, queued' \in BOOLEAN
    PROVE  /\ SelectionTypeOK' /\ CacheChain'
           /\ objects'[k] = new /\ events'[k] = Append(events[k], new)
           /\ \A j \in Kinds \ {k} : objects'[j] = objects[j] /\ events'[j] = events[j]
<1>1. objects' = [objects EXCEPT ![k] = new] /\ events' = [events EXCEPT ![k] = Append(@, new)]
  BY Zenon DEF WriteObject
<1>2. /\ objects'[k] = new /\ events'[k] = Append(events[k], new)
      /\ \A j \in Kinds \ {k} : objects'[j] = objects[j] /\ events'[j] = events[j]
  BY <1>1, Zenon DEF SelectionTypeOK
<1>3. objects' \in [Kinds -> AllVersions]
  BY <1>1, VersionsIn, Zenon DEF SelectionTypeOK
<1>4. DOMAIN events' = Kinds /\ events' = [j \in Kinds |-> events'[j]]
  BY <1>1, Zenon DEF SelectionTypeOK
<1>5. /\ Append(events[k], new) \in Seq(Versions(k)) /\ Append(events[k], new) # <<>>
      /\ Append(events[k], new)[Len(Append(events[k], new))] = new
  <2>1. events[k] \in Seq(Versions(k))
    BY Zenon DEF SelectionTypeOK
  <2> QED
    BY <2>1, SMT
<1>6. SelectionTypeOK'
  BY <1>2, <1>3, <1>4, <1>5, Zenon DEF SelectionTypeOK
<1>7. CacheChain'
  BY <1>2, <1>5, Zenon DEF CacheChain
<1> QED
  BY <1>2, <1>6, <1>7, Zenon

LEMMA DeliverIs ==
    ASSUME SelectionTypeOK, CacheChain, NEW k \in Kinds, events[k] # <<>>, NEW b \in BOOLEAN, Deliver(k, b)
    PROVE  /\ SelectionTypeOK' /\ CacheChain'
           /\ cached'[k] = Head(events[k]) /\ events'[k] = Tail(events[k])
           /\ Head(events[k]) \in Versions(k)
           /\ \A j \in Kinds \ {k} : cached'[j] = cached[j] /\ events'[j] = events[j]
<1>1. /\ cached' = [cached EXCEPT ![k] = Head(events[k])]
      /\ events' = [events EXCEPT ![k] = Tail(@)]
      /\ queued' = (queued \/ b) /\ objects' = objects
  BY Zenon DEF Deliver, Seen
<1>2. /\ cached'[k] = Head(events[k]) /\ events'[k] = Tail(events[k])
      /\ \A j \in Kinds \ {k} : cached'[j] = cached[j] /\ events'[j] = events[j]
  BY <1>1, Zenon DEF SelectionTypeOK
<1>3. events[k] \in Seq(Versions(k))
  BY Zenon DEF SelectionTypeOK
<1>4. /\ Head(events[k]) \in Versions(k) /\ Tail(events[k]) \in Seq(Versions(k))
      /\ Tail(events[k]) = <<>> => Head(events[k]) = events[k][Len(events[k])]
      /\ Tail(events[k]) # <<>> =>
            Tail(events[k])[Len(Tail(events[k]))] = events[k][Len(events[k])]
  BY <1>3, HeadTail, Zenon
<1>5. cached' \in [Kinds -> AllVersions]
  BY <1>1, <1>4, VersionsIn, Zenon DEF SelectionTypeOK
<1>6. DOMAIN events' = Kinds /\ events' = [j \in Kinds |-> events'[j]]
  BY <1>1, Zenon DEF SelectionTypeOK
<1>7. SelectionTypeOK'
  <2>1. queued' \in BOOLEAN
    BY <1>1, Zenon DEF SelectionTypeOK
  <2> QED
    BY <1>1, <1>2, <1>4, <1>5, <1>6, <2>1, Zenon DEF SelectionTypeOK
<1>8. CacheChain'
  BY <1>1, <1>2, <1>4, Zenon DEF CacheChain
<1> QED
  BY <1>2, <1>4, <1>7, <1>8, Zenon

\* A write of the endpoint or the namespace leaves the rest of the invariant.
LEMMA OtherWrite ==
    ASSUME SelectionInv, cached' = cached, events'["group"] = events["group"],
           queued' = queued, members' = members, blind' = blind
    PROVE  LifeInv' /\ MembersInv'
BY Zenon DEF SelectionInv, LifeInv, MembersInv, Undisturbed, Unseen

LEMMA ChangeEndpointStep ==
    ASSUME SelectionInv, ChangeEndpoint
    PROVE  SelectionInv'
<1>1. PICK new \in EndpointSets :
        (new # {} => objects.namespace # {}) /\ Change("endpoint", new)
  BY Zenon DEF ChangeEndpoint, EndpointSets
<1>2. "endpoint" \in Kinds /\ "namespace" \in Kinds \ {"endpoint"} /\ "group" \in Kinds \ {"endpoint"}
      /\ new \in Versions("endpoint")
  BY SMT DEF Kinds, Versions
<1>3. /\ WriteObject("endpoint", new)
      /\ cached' = cached /\ queued' = queued /\ members' = members /\ blind' = blind
  BY <1>1, Zenon DEF Change
<1>q. queued' \in BOOLEAN
  BY <1>3, Zenon DEF SelectionInv, SelectionTypeOK
<1>4. /\ SelectionTypeOK' /\ CacheChain'
      /\ objects'["endpoint"] = new
      /\ objects'["namespace"] = objects["namespace"] /\ events'["group"] = events["group"]
  BY <1>2, <1>3, <1>q, WriteIs, Zenon DEF SelectionInv
<1>5. Housed'
  BY <1>1, <1>4, Zenon DEF Housed
<1> QED
  BY <1>3, <1>4, <1>5, OtherWrite, Zenon DEF SelectionInv

LEMMA ChangeNamespaceStep ==
    ASSUME SelectionInv, ChangeNamespace
    PROVE  SelectionInv'
<1>1. PICK new \in NamespaceSets :
        (new = {} => objects.endpoint = {}) /\ Change("namespace", new)
  BY Zenon DEF ChangeNamespace, NamespaceSets
<1>2. "namespace" \in Kinds /\ "endpoint" \in Kinds \ {"namespace"} /\ "group" \in Kinds \ {"namespace"}
      /\ new \in Versions("namespace")
  BY SMT DEF Kinds, Versions
<1>3. /\ WriteObject("namespace", new)
      /\ cached' = cached /\ queued' = queued /\ members' = members /\ blind' = blind
  BY <1>1, Zenon DEF Change
<1>q. queued' \in BOOLEAN
  BY <1>3, Zenon DEF SelectionInv, SelectionTypeOK
<1>4. /\ SelectionTypeOK' /\ CacheChain'
      /\ objects'["namespace"] = new
      /\ objects'["endpoint"] = objects["endpoint"] /\ events'["group"] = events["group"]
  BY <1>2, <1>3, <1>q, WriteIs, Zenon DEF SelectionInv
<1>5. Housed'
  BY <1>1, <1>4, Zenon DEF Housed
<1> QED
  BY <1>3, <1>4, <1>5, OtherWrite, Zenon DEF SelectionInv

LEMMA GroupWrite ==
    ASSUME SelectionInv, NEW new \in GroupSets, WriteObject("group", new),
           UNCHANGED <<cached, queued, members, blind>>,
           ~Marked(objects.group), Kept(objects.group) => Kept(new)
    PROVE  SelectionInv'
<1> DEFINE c == cached["group"]
           e == events["group"]
           f == events'["group"]
           n == Len(e)
<1>1. "group" \in Kinds /\ "endpoint" \in Kinds \ {"group"} /\ "namespace" \in Kinds \ {"group"}
      /\ new \in Versions("group")
  BY SMT DEF Kinds, Versions
<1>q. cached' = cached /\ queued' \in BOOLEAN
  BY Zenon DEF SelectionInv, SelectionTypeOK
<1>2. /\ SelectionTypeOK' /\ CacheChain' /\ f = Append(e, new)
      /\ objects'["endpoint"] = objects["endpoint"] /\ objects'["namespace"] = objects["namespace"]
  BY <1>1, <1>q, WriteIs, Zenon DEF SelectionInv
<1>3. Housed'
  BY <1>2, Zenon DEF Housed, SelectionInv
<1>4. /\ n \in Nat /\ Len(f) = n + 1 /\ f[n + 1] = new /\ f # <<>>
      /\ \A i \in 1 .. n : f[i] = e[i]
      /\ n = 0 <=> e = <<>>
  <2>1. e \in Seq(GroupSets)
    BY Fields, Zenon DEF SelectionInv
  <2> HIDE DEF e
  <2> QED
    BY <1>2, <2>1, SMT
<1>5. (n = 0 => c = objects.group) /\ (n # 0 => e[n] = objects.group)
  BY <1>1, <1>4, Zenon DEF CacheChain, SelectionInv
<1>6. \A i \in 1 .. n + 1 : i \in 1 .. n \/ i = n + 1
  BY <1>4, SMT
<1>7. n # 0 => n \in 1 .. n /\ 1 \in 1 .. n
  BY <1>4, SMT
<1>8. \A x : Live(x) => Kept(x)
  BY Zenon DEF Live, Kept
<1>9. /\ Live(c) => \A i \in 1 .. n : Kept(e[i])
      /\ \A i, j \in 1 .. n : i < j /\ Live(e[i]) => Kept(e[j])
      /\ \A i \in 1 .. n : Marked(e[i]) => i = n
      /\ Marked(c) /\ e # <<>> => e[1] = {} /\ members = {}
      /\ members # {} => Kept(c) /\ \A i \in 1 .. n : Kept(e[i])
      /\ ~queued => \A g \in c : g.finalizer \/ g.deleting
  BY Zenon DEF SelectionInv, LifeInv
<1> HIDE DEF c, e, f, n
<1>10. Live(c) => \A i \in 1 .. Len(f) : Kept(f[i])
  BY <1>4, <1>5, <1>6, <1>7, <1>8, <1>9, Zenon
<1>11. \A i, j \in 1 .. Len(f) : i < j /\ Live(f[i]) => Kept(f[j])
  <2> SUFFICES ASSUME NEW i \in 1 .. n + 1, NEW j \in 1 .. n + 1, i < j, Live(f[i])
               PROVE  Kept(f[j])
    BY <1>4, Zenon
  <2>1. i \in 1 .. n /\ (i = n \/ i < n) /\ n # 0
    BY <1>4, SMT
  <2>2. CASE j = n + 1
    BY <1>4, <1>5, <1>7, <1>8, <1>9, <2>1, <2>2, Zenon
  <2>3. CASE j \in 1 .. n
    BY <1>4, <1>9, <2>1, <2>3, Zenon
  <2> QED
    BY <1>6, <2>2, <2>3, Zenon
<1>12. \A i \in 1 .. Len(f) : Marked(f[i]) => i = Len(f)
  <2> SUFFICES ASSUME NEW i \in 1 .. n, Marked(f[i]) PROVE FALSE
    BY <1>4, <1>6, Zenon
  <2>1. i = n /\ n # 0
    <3>1. n # 0
      BY <1>4, SMT
    <3> QED
      BY <1>4, <1>9, <3>1, Zenon
  <2> QED
    BY <1>4, <1>5, <2>1, Zenon
<1>13. Marked(c) /\ f # <<>> => f[1] = {} /\ members = {}
  BY <1>4, <1>5, <1>7, <1>9, Zenon
<1>14. members # {} => Kept(c) /\ \A i \in 1 .. Len(f) : Kept(f[i])
  BY <1>4, <1>5, <1>6, <1>7, <1>9, Zenon
<1>15. LifeInv'
  BY <1>4, <1>9, <1>10, <1>11, <1>12, <1>13, <1>14, Zenon DEF LifeInv, c, f
<1>16. MembersInv'
  BY Zenon DEF SelectionInv, MembersInv, Undisturbed, Unseen
<1> QED
  BY <1>2, <1>3, <1>15, <1>16, Zenon DEF SelectionInv

LEMMA ChangeGroupStep ==
    ASSUME SelectionInv, ChangeGroup
    PROVE  SelectionInv'
<1>1. objects.group \in GroupSets
  BY Fields, Zenon DEF SelectionInv
<1>2. ASSUME NEW new \in GroupSets, Change("group", new), ~Marked(objects.group),
             Kept(objects.group) => Kept(new)
      PROVE  SelectionInv'
  BY <1>2, GroupWrite, Zenon DEF Change
<1>3. CASE \E spec \in Groups : objects.group = {} /\ Change("group", {NewGroup(spec)})
  <2>1. PICK spec \in Groups : objects.group = {} /\ Change("group", {NewGroup(spec)})
    BY <1>3, Zenon
  <2>2. {NewGroup(spec)} \in GroupSets
    BY Zenon DEF NewGroup, GroupSets, GroupObjects
  <2> QED
    BY <1>2, <2>1, <2>2, Zenon DEF Marked, Kept
<1>4. CASE \E g \in objects.group, spec \in Groups :
              ~g.deleting /\ Change("group", {[g EXCEPT !.spec = spec]})
  <2>1. PICK g \in objects.group, spec \in Groups :
              ~g.deleting /\ Change("group", {[g EXCEPT !.spec = spec]})
    BY <1>4, Zenon
  <2>2. g \in GroupObjects /\ objects.group = {g}
    BY <1>1, OneGroup, Zenon
  <2>3. [g EXCEPT !.spec = spec] \in GroupObjects /\ [g EXCEPT !.spec = spec].finalizer = g.finalizer
    BY <2>2, Zenon DEF GroupObjects
  <2>4. {[g EXCEPT !.spec = spec]} \in GroupSets
    BY <2>3, Zenon DEF GroupSets
  <2> QED
    BY <1>2, <2>1, <2>2, <2>3, <2>4, Zenon DEF Marked, Kept
<1>5. CASE \E g \in objects.group :
          ~g.deleting /\ Change("group", IF g.finalizer THEN {[g EXCEPT !.deleting = TRUE]} ELSE {})
  <2>1. PICK g \in objects.group :
          ~g.deleting /\ Change("group", IF g.finalizer THEN {[g EXCEPT !.deleting = TRUE]} ELSE {})
    BY <1>5, Zenon
  <2>2. g \in GroupObjects /\ objects.group = {g}
    BY <1>1, OneGroup, Zenon
  <2>3. ~Marked(objects.group) /\ (Kept(objects.group) <=> g.finalizer)
    BY <2>1, <2>2, Zenon DEF Marked, Kept
  <2>4. CASE g.finalizer
    <3>1. [g EXCEPT !.deleting = TRUE] \in GroupObjects /\ [g EXCEPT !.deleting = TRUE].finalizer
      BY <2>2, <2>4, Zenon DEF GroupObjects
    <3>2. {[g EXCEPT !.deleting = TRUE]} \in GroupSets /\ Kept({[g EXCEPT !.deleting = TRUE]})
      BY <3>1, Zenon DEF GroupSets, Kept
    <3> QED
      BY <1>2, <2>1, <2>3, <2>4, <3>2, Zenon
  <2>5. CASE ~g.finalizer
    BY <1>2, <2>1, <2>3, <2>5, Zenon DEF GroupSets
  <2> QED
    BY <2>4, <2>5, Zenon
<1> QED
  BY <1>3, <1>4, <1>5, Zenon DEF ChangeGroup

------------------------------------------------------------------------------
(* Events. *)

LEMMA OtherEvent ==
    ASSUME LifeInv, cached'["group"] = cached["group"], events'["group"] = events["group"],
           members' = members, ~queued' => ~queued
    PROVE  LifeInv'
BY Zenon DEF LifeInv

LEMMA EndpointEventStep ==
    ASSUME EndpointsOfNs, \A spec \in Groups : WellFormed(spec), SelectionInv, EndpointEvent
    PROVE  SelectionInv'
<1> DEFINE old == cached.endpoint
           new == Head(events.endpoint)
           ns == cached.namespace
           concerns(v) == \E g \in cached.group :
               filterEndpointGroupsByEndpoint(g.spec, "ep", v, Namespaces(cached))
           b == IF old = {} THEN \E v \in new : v.ips # {} /\ concerns(v)
                ELSE new # old /\ \E v \in old \cup new : concerns(v)
<1>1. events["endpoint"] # <<>> /\ Deliver("endpoint", b)
  BY Zenon DEF EndpointEvent
<1>2. blind' = blind \cup (IF ns # {} THEN {} ELSE {IF new = {} THEN "delete" ELSE "write"})
  BY Zenon DEF EndpointEvent
<1>3. b \in BOOLEAN
  OBVIOUS
<1>4. /\ "endpoint" \in Kinds /\ "namespace" \in Kinds \ {"endpoint"}
      /\ "group" \in Kinds \ {"endpoint"} /\ Versions("endpoint") = EndpointSets
  BY SMT DEF Kinds, Versions
<1>5. /\ objects' = objects /\ members' = members /\ queued' = (queued \/ b)
  BY <1>1, Zenon DEF Deliver
<1> HIDE DEF b
<1>6. /\ SelectionTypeOK' /\ CacheChain' /\ new \in EndpointSets /\ cached'["endpoint"] = new
      /\ cached'["namespace"] = cached["namespace"] /\ cached'["group"] = cached["group"]
      /\ events'["group"] = events["group"]
  BY <1>1, <1>3, <1>4, DeliverIs, Zenon DEF SelectionInv
<1>7. LifeInv' /\ Housed'
  BY <1>5, <1>6, OtherEvent, Zenon DEF SelectionInv, Housed
<1>8. ASSUME NEW g \in cached["group"], ~queued, ~b, ~g.deleting, Undisturbed(g.spec)',
             ~Unseen(g.spec)'
      PROVE  members = {Members(g.spec, cached')}
  <2>1. old \in EndpointSets /\ ns \in NamespaceSets /\ WellFormed(g.spec)
    BY Fields, OneGroup, Zenon DEF SelectionInv, GroupObjects
  <2>2. Undisturbed(g.spec)
    BY <1>2, <1>8, Zenon DEF Undisturbed
  <2>4. ~Unseen(g.spec) => members = {Members(g.spec, cached)}
    BY <1>8, <2>2, Zenon DEF SelectionInv, MembersInv
  <2>5. ASSUME \A v \in old : ~Selected(g.spec, v, ns), \A v \in new : ~Selected(g.spec, v, ns)
        PROVE  Members(g.spec, cached) = Members(g.spec, cached')
    BY <1>6, <2>1, <2>5, NothingFound, Zenon
  <2>6. CASE ns # {}
    <3>1. ~Unseen(g.spec)
      BY <2>6, Zenon DEF Unseen
    <3>2. CASE new = old
      <4>1. Members(g.spec, cached) = Members(g.spec, cached')
        BY <1>6, <2>1, <3>2, SameFound, Zenon
      <4> QED
        BY <2>4, <3>1, <4>1, Zenon
    <3>3. CASE new # old
      <4>1. ASSUME NEW v \in old \cup new, Selected(g.spec, v, ns)
            PROVE  FALSE
        <5>1. v \in EndpointStates
          BY <1>6, <2>1, OneEndpoint, Zenon
        <5>2. v.ips # {} /\ filterEndpointGroupsByEndpoint(g.spec, "ep", v, Namespaces(cached))
          BY <2>1, <2>6, <4>1, <5>1, SelectedConcerns, Zenon
        <5>3. v.ips # {} /\ concerns(v)
          BY <1>8, <5>2, Zenon
        <5> HIDE DEF concerns, old, new
        <5> QED
          BY <1>8, <3>3, <4>1, <5>3, Zenon DEF b
      <4> QED
        BY <2>4, <2>5, <3>1, <4>1, Zenon
    <3> QED
      BY <3>2, <3>3, Zenon
  <2>7. CASE ns = {}
    <3>1. blind' # {} /\ (new = {} => "delete" \in blind')
      BY <1>2, <2>7, Zenon
    <3>2. \/ g.spec.namespaceSelector # {}
          \/ g.spec.namespace # {} /\ new # {}
      BY <1>8, <3>1, Zenon DEF Undisturbed
    <3>3. ~(g.spec.namespaceSelector = {} /\ "ns" \in g.spec.namespace)
      BY <1>6, <1>8, <2>7, <3>2, Zenon DEF Unseen
    <3>4. ~Unseen(g.spec)
      BY <2>1, <3>3, Zenon DEF Unseen, WellFormed
    <3>5. ASSUME NEW v, Selected(g.spec, v, ns)
          PROVE  FALSE
      BY <2>1, <2>7, <3>2, <3>3, <3>5, SelectedUnhoused, Zenon
    <3> QED
      BY <2>4, <2>5, <3>4, <3>5, Zenon
  <2> QED
    BY <2>6, <2>7, Zenon
<1>9. MembersInv'
  BY <1>5, <1>6, <1>8, Zenon DEF MembersInv
<1> QED
  BY <1>6, <1>7, <1>9, Zenon DEF SelectionInv

LEMMA NamespaceEventStep ==
    ASSUME EndpointsOfNs, SelectionInv, NamespaceEvent
    PROVE  SelectionInv'
<1> DEFINE old == cached.namespace
           new == Head(events.namespace)
           b == \E g \in cached.group, v \in old \cup new :
                   old # new /\ filterEndpointGroupsByNamespace(g.spec, "ns", v)
<1>1. events["namespace"] # <<>> /\ Deliver("namespace", b) /\ blind' = blind
  BY Zenon DEF NamespaceEvent
<1>2. b \in BOOLEAN
  OBVIOUS
<1>3. /\ "namespace" \in Kinds /\ "endpoint" \in Kinds \ {"namespace"}
      /\ "group" \in Kinds \ {"namespace"} /\ Versions("namespace") = NamespaceSets
  BY SMT DEF Kinds, Versions
<1>4. objects' = objects /\ members' = members /\ queued' = (queued \/ b)
  BY <1>1, Zenon DEF Deliver
<1> HIDE DEF b
<1>5. /\ SelectionTypeOK' /\ CacheChain' /\ new \in NamespaceSets /\ cached'["namespace"] = new
      /\ cached'["endpoint"] = cached["endpoint"] /\ cached'["group"] = cached["group"]
      /\ events'["group"] = events["group"]
  BY <1>1, <1>2, <1>3, DeliverIs, Zenon DEF SelectionInv
<1>6. LifeInv' /\ Housed'
  BY <1>4, <1>5, OtherEvent, Zenon DEF SelectionInv, Housed
<1>7. ASSUME NEW g \in cached["group"], ~queued, ~b, ~g.deleting, Undisturbed(g.spec)',
             ~Unseen(g.spec)'
      PROVE  members = {Members(g.spec, cached')}
  <2>1. old \in NamespaceSets /\ cached.endpoint \in EndpointSets
    BY Fields, Zenon DEF SelectionInv
  <2>2. Undisturbed(g.spec)
    BY <1>1, <1>7, Zenon DEF Undisturbed
  <2>3. ~Unseen(g.spec) => members = {Members(g.spec, cached)}
    BY <1>7, <2>2, Zenon DEF SelectionInv, MembersInv
  <2>4. CASE new = old
    <3>1. ~Unseen(g.spec)
      BY <1>5, <1>7, <2>4, Zenon DEF Unseen
    <3>2. Members(g.spec, cached) = Members(g.spec, cached')
      BY <1>5, <2>1, <2>4, SameFound, Zenon
    <3> QED
      BY <2>3, <3>1, <3>2, Zenon
  <2>5. CASE new # old
    <3>1. /\ "ns" \notin g.spec.namespace
          /\ \A v \in old \cup new : ~Matches(g.spec.namespaceSelector, v)
      <4>1. ASSUME NEW v \in old \cup new
            PROVE  /\ "ns" \notin g.spec.namespace
                   /\ ~Matches(g.spec.namespaceSelector, v)
        BY <1>7, <2>5, Zenon DEF b, filterEndpointGroupsByNamespace
      <4>2. \E v \in old \cup new : TRUE
        BY <2>5, Zenon
      <4> QED
        BY <4>1, <4>2, Zenon
    <3>2. /\ old # {} => ~Matches(g.spec.namespaceSelector, Of(old))
          /\ new # {} => ~Matches(g.spec.namespaceSelector, Of(new))
      BY <3>1, OfIn, Zenon
    <3>3. ASSUME NEW v
          PROVE  Selected(g.spec, v, old) <=> Selected(g.spec, v, new)
      BY <3>1, <3>2, Zenon DEF Selected
    <3>4. Members(g.spec, cached) = Members(g.spec, cached')
      BY <1>5, <2>1, <3>3, SameFound, Zenon
    <3> QED
      BY <2>3, <3>1, <3>4, Zenon DEF Unseen
  <2> QED
    BY <2>4, <2>5, Zenon
<1>8. MembersInv'
  BY <1>4, <1>5, <1>7, Zenon DEF MembersInv
<1> QED
  BY <1>5, <1>6, <1>8, Zenon DEF SelectionInv

LEMMA GroupEventStep ==
    ASSUME EndpointsOfNs, SelectionInv, GroupEvent
    PROVE  SelectionInv'
<1> DEFINE c == cached["group"]
           e == events["group"]
           d == Head(e)
           f == Tail(e)
           n == Len(f)
           b == c = {} \/ d = {} \/ Of(d).deleting \/ Of(d).spec # Of(c).spec
<1>1. e # <<>> /\ Deliver("group", b) /\ blind' = blind
  BY Zenon DEF GroupEvent
<1>2. b \in BOOLEAN
  OBVIOUS
<1>3. /\ "group" \in Kinds /\ "endpoint" \in Kinds \ {"group"}
      /\ "namespace" \in Kinds \ {"group"} /\ Versions("group") = GroupSets
  BY SMT DEF Kinds, Versions
<1>4. objects' = objects /\ members' = members /\ queued' = (queued \/ b)
  BY <1>1, Zenon DEF Deliver
<1>5. /\ SelectionTypeOK' /\ CacheChain' /\ d \in GroupSets /\ cached'["group"] = d /\ events'["group"] = f
      /\ cached'["endpoint"] = cached["endpoint"] /\ cached'["namespace"] = cached["namespace"]
  BY <1>1, <1>2, <1>3, DeliverIs, Zenon DEF SelectionInv
<1>6. Housed'
  BY <1>4, Zenon DEF SelectionInv, Housed
<1>7. /\ n \in Nat /\ Len(e) = n + 1 /\ d = e[1] /\ 1 \in 1 .. n + 1
      /\ f # <<>> => n # 0
      /\ \A i \in 1 .. n : f[i] = e[i + 1] /\ i + 1 \in 1 .. n + 1 /\ 1 < i + 1
  <2>1. e \in Seq(GroupSets)
    BY Fields, Zenon DEF SelectionInv
  <2> QED
    BY <1>1, <2>1, HeadTail, Zenon
<1>8. /\ Live(c) => \A i \in 1 .. n + 1 : Kept(e[i])
      /\ \A i, j \in 1 .. n + 1 : i < j /\ Live(e[i]) => Kept(e[j])
      /\ \A i \in 1 .. n + 1 : Marked(e[i]) => i = n + 1
      /\ Marked(c) => d = {}
      /\ members # {} => Kept(c) /\ \A i \in 1 .. n + 1 : Kept(e[i])
      /\ ~queued => \A g \in c : g.finalizer \/ g.deleting
  BY <1>1, <1>7, Zenon DEF SelectionInv, LifeInv
<1>9. c \in GroupSets
  BY Fields, Zenon DEF SelectionInv
\* An event that is not queued is one of a group that stays.
<1>10. ASSUME ~queued', NEW h \in d
       PROVE  ~h.deleting /\ h.finalizer /\ \E g \in c : ~g.deleting /\ g.spec = h.spec
  <2>1. PICK g : g \in c
    BY <1>4, <1>10, Zenon
  <2>2. Of(c) = g /\ Of(d) = h /\ d = {h}
    BY <1>5, <1>9, <1>10, <2>1, OneGroup, Zenon
  <2>3. ~h.deleting /\ g.spec = h.spec
    BY <1>4, <1>10, <2>2, Zenon
  <2>4. ~g.deleting
    BY <1>8, <1>10, <2>1, Zenon DEF Marked
  <2>5. g.finalizer
    BY <1>4, <1>8, <1>10, <2>1, <2>4, Zenon
  <2>6. Kept(d)
    BY <1>7, <1>8, <2>1, <2>4, <2>5, Zenon DEF Live
  <2> QED
    BY <2>1, <2>2, <2>3, <2>4, <2>6, Zenon DEF Kept
<1> HIDE DEF c, e, d, f, n, b
<1>11. Live(d) => \A i \in 1 .. n : Kept(f[i])
  BY <1>7, <1>8, Zenon
<1>12. \A i, j \in 1 .. n : i < j /\ Live(f[i]) => Kept(f[j])
  <2> SUFFICES ASSUME NEW i \in 1 .. n, NEW j \in 1 .. n, i < j, Live(f[i])
               PROVE  Kept(f[j])
    BY Zenon
  <2>1. i + 1 < j + 1
    BY SMT
  <2> QED
    BY <1>7, <1>8, <2>1, Zenon
<1>13. \A i \in 1 .. n : Marked(f[i]) => i = n
  <2> SUFFICES ASSUME NEW i \in 1 .. n, Marked(f[i]) PROVE i = n
    BY Zenon
  <2>1. i + 1 = n + 1
    BY <1>7, <1>8, Zenon
  <2> QED
    BY <1>7, <2>1, SMT
<1>14. ~(Marked(d) /\ f # <<>>)
  <2> SUFFICES ASSUME Marked(d), f # <<>> PROVE FALSE
    BY Zenon
  <2>1. 1 = n + 1 /\ n # 0
    BY <1>7, <1>8, Zenon
  <2> QED
    BY <1>7, <2>1, SMT
<1>15. members # {} => Kept(d) /\ \A i \in 1 .. n : Kept(f[i])
  BY <1>7, <1>8, Zenon
<1>16. ~queued' => ~Marked(d) /\ \A g \in d : g.finalizer
  BY <1>10, Zenon DEF Marked
<1>17. LifeInv'
  BY <1>4, <1>5, <1>11, <1>12, <1>13, <1>14, <1>15, <1>16, Zenon DEF LifeInv, n
<1>18. MembersInv'
  <2> SUFFICES ASSUME NEW h \in d, ~queued', Undisturbed(h.spec)', ~Unseen(h.spec)'
               PROVE  members = {Members(h.spec, cached')}
    BY <1>4, <1>5, Zenon DEF MembersInv
  <2>1. PICK g \in c : ~g.deleting /\ g.spec = h.spec
    BY <1>10, Zenon
  <2>2. ~queued /\ Undisturbed(h.spec) /\ ~Unseen(h.spec)
    BY <1>1, <1>4, <1>5, Zenon DEF Undisturbed, Unseen
  <2>3. members = {Members(h.spec, cached)}
    BY <2>1, <2>2, Zenon DEF SelectionInv, MembersInv, c
  <2>4. Members(h.spec, cached) = Members(h.spec, cached')
    BY <1>5, Fields, SameFound, Zenon DEF SelectionInv
  <2> QED
    BY <2>3, <2>4, Zenon
<1> QED
  BY <1>5, <1>6, <1>17, <1>18, Zenon DEF SelectionInv

------------------------------------------------------------------------------
(* The reconcile and a restart. *)

LEMMA DeleteStep ==
    ASSUME SelectionInv, queued, NEW g \in cached.group, processEndpointGroupDelete(g),
           UNCHANGED <<cached, blind, changes>>
    PROVE  SelectionInv'
<1> DEFINE c == cached["group"]
           e == events["group"]
<1>1. c \in GroupSets /\ c = {g} /\ e \in Seq(GroupSets) /\ g.deleting /\ members' = {}
  BY Fields, OneGroup, Zenon DEF SelectionInv, processEndpointGroupDelete
<1>2. MembersInv'
  BY <1>1, Zenon DEF MembersInv
<1>3. CASE WriteObject("group", {}) /\ e = <<>> /\ queued' = FALSE
  <2>1. /\ "group" \in Kinds /\ "endpoint" \in Kinds \ {"group"}
        /\ "namespace" \in Kinds \ {"group"} /\ {} \in Versions("group")
    BY SMT DEF Kinds, Versions, GroupSets
  <2>2. /\ SelectionTypeOK' /\ CacheChain' /\ events'["group"] = Append(e, {})
        /\ objects'["endpoint"] = objects["endpoint"]
        /\ objects'["namespace"] = objects["namespace"]
    BY <1>3, <2>1, WriteIs, Zenon DEF SelectionInv
  <2>3. Housed'
    BY <2>2, Zenon DEF SelectionInv, Housed
  <2>4. LifeInv'
    <3>1. events'["group"] = <<{}>>
      BY <1>3, <2>2, SMT
    <3>2. /\ Len(<<{}>>) = 1 /\ <<{}>>[1] = {} /\ <<{}>> # <<>> /\ \A i \in 1 .. 1 : i = 1
          /\ ~(1 < 1)
      BY SMT
    <3>3. ~Live(c) /\ \A h \in c : h.deleting
      BY <1>1, Zenon DEF Live
    <3>4. ~Live({}) /\ ~Marked({})
      BY Zenon DEF Live, Marked
    <3> QED
      BY <1>1, <3>1, <3>2, <3>3, <3>4, Zenon DEF LifeInv
  <2> QED
    BY <1>2, <2>2, <2>3, <2>4, Zenon DEF SelectionInv
<1>4. CASE UNCHANGED <<objects, events>> /\ queued'
  <2>1. queued' \in BOOLEAN
    BY <1>1, <1>4, Zenon DEF processEndpointGroupDelete, SelectionInv, SelectionTypeOK
  <2>2. SelectionTypeOK' /\ CacheChain' /\ Housed'
    BY <1>4, <2>1, Zenon DEF SelectionInv, SelectionTypeOK, CacheChain, Housed
  <2>3. LifeInv'
    BY <1>1, <1>4, Zenon DEF SelectionInv, LifeInv
  <2> QED
    BY <1>2, <2>2, <2>3, Zenon DEF SelectionInv
<1>5. \/ WriteObject("group", {}) /\ e = <<>> /\ queued' = FALSE
      \/ UNCHANGED <<objects, events>> /\ queued'
  BY Zenon DEF processEndpointGroupDelete, UpdateGroup
<1> QED
  BY <1>3, <1>4, <1>5, Zenon

LEMMA ReconcileStep ==
    ASSUME SelectionInv, Reconcile
    PROVE  SelectionInv'
<1>1. UNCHANGED <<cached, blind, changes>> /\ queued
  BY Zenon DEF Reconcile
<1>2. CASE cached.group = {} /\ queued' = FALSE /\ UNCHANGED <<objects, events, members>>
  <2>1. SelectionTypeOK' /\ CacheChain' /\ Housed'
    BY <1>1, <1>2, Zenon DEF SelectionInv, SelectionTypeOK, CacheChain, Housed
  <2>2. LifeInv' /\ MembersInv'
    BY <1>1, <1>2, Zenon DEF SelectionInv, LifeInv, MembersInv, Marked
  <2> QED
    BY <2>1, <2>2, Zenon DEF SelectionInv
<1>3. ASSUME NEW g \in cached.group, processEndpointGroupCreate(g)
      PROVE  SelectionInv'
  <2>1. /\ ~g.deleting /\ ~g.finalizer /\ queued' = queued /\ members' = members
        /\ UpdateGroup({[g EXCEPT !.finalizer = TRUE]})
    BY <1>3, Zenon DEF processEndpointGroupCreate
  <2>2. cached.group = {g} /\ g \in GroupObjects /\ "group" \in Kinds
    BY Fields, OneGroup, Zenon DEF SelectionInv
  <2>3. CASE events.group = <<>>
    <3>1. objects.group = {g}
      BY <2>2, <2>3, Zenon DEF SelectionInv, CacheChain
    <3>2. /\ [g EXCEPT !.finalizer = TRUE] \in GroupObjects
          /\ [g EXCEPT !.finalizer = TRUE].finalizer
      BY <2>2, Zenon DEF GroupObjects
    <3>3. {[g EXCEPT !.finalizer = TRUE]} \in GroupSets
      BY <3>2, Zenon DEF GroupSets
    <3>4. ~Marked(objects.group) /\ Kept({[g EXCEPT !.finalizer = TRUE]})
      BY <2>1, <3>1, <3>2, Zenon DEF Marked, Kept
    <3>5. WriteObject("group", {[g EXCEPT !.finalizer = TRUE]})
      BY <2>1, <2>3, Zenon DEF UpdateGroup
    <3> QED
      BY <1>1, <2>1, <3>3, <3>4, <3>5, GroupWrite, Zenon
  <2>4. CASE events.group # <<>>
    <3>1. UNCHANGED <<objects, events>>
      BY <2>1, <2>4, Zenon DEF UpdateGroup
    <3>2. SelectionTypeOK' /\ CacheChain' /\ Housed'
      BY <1>1, <2>1, <3>1, Zenon DEF SelectionInv, SelectionTypeOK, CacheChain, Housed
    <3> QED
      BY <1>1, <2>1, <3>1, <3>2, OtherWrite, Zenon DEF SelectionInv
  <2> QED
    BY <2>3, <2>4, Zenon
<1>4. ASSUME NEW g \in cached.group, processEndpointGroupDelete(g)
      PROVE  SelectionInv'
  BY <1>1, <1>4, DeleteStep, Zenon
<1>5. ASSUME NEW g \in cached.group, processEndpointGroupUpdate(g)
      PROVE  SelectionInv'
  <2>1. /\ ~g.deleting /\ g.finalizer /\ queued' = FALSE /\ UNCHANGED <<objects, events>>
        /\ members' = {Members(g.spec, cached)}
    BY <1>5, Zenon DEF processEndpointGroupUpdate, Members, Found
  <2>2. cached.group = {g}
    BY Fields, OneGroup, Zenon DEF SelectionInv
  <2>3. SelectionTypeOK' /\ CacheChain' /\ Housed'
    BY <1>1, <2>1, Zenon DEF SelectionInv, SelectionTypeOK, CacheChain, Housed
  <2>4. MembersInv'
    BY <1>1, <2>1, <2>2, Zenon DEF MembersInv
  <2>5. Live(cached.group) /\ Kept(cached.group) /\ ~Marked(cached.group)
    BY <2>1, <2>2, Zenon DEF Live, Kept, Marked
  <2>6. LifeInv'
    BY <1>1, <2>1, <2>2, <2>5, Zenon DEF SelectionInv, LifeInv
  <2> QED
    BY <2>3, <2>4, <2>6, Zenon DEF SelectionInv
<1> QED
  BY <1>2, <1>3, <1>4, <1>5, Zenon DEF Reconcile

LEMMA RestartStep ==
    ASSUME SelectionInv, Restart
    PROVE  SelectionInv'
<1>1. /\ cached' = objects /\ objects' = objects /\ events' = [k \in Kinds |-> <<>>]
      /\ queued' = (objects.group # {}) /\ members' = members
  BY Zenon DEF Restart
<1>2. \A k \in Kinds : events'[k] = <<>>
  BY <1>1, Zenon
<1>3. \A k \in Kinds : <<>> \in Seq(Versions(k))
  BY SMT
<1>4. DOMAIN events' = Kinds /\ events' = [k \in Kinds |-> events'[k]]
  BY <1>1, Zenon
<1>5. SelectionTypeOK'
  BY <1>1, <1>2, <1>3, <1>4, Zenon DEF SelectionInv, SelectionTypeOK
<1>6. CacheChain' /\ Housed'
  BY <1>1, <1>2, Zenon DEF SelectionInv, CacheChain, Housed
<1>7. MembersInv'
  BY <1>1, Zenon DEF MembersInv
<1>8. events'["group"] = <<>> /\ "group" \in Kinds
  BY <1>2, Fields, Zenon DEF SelectionInv
<1>9. \A i \in 1 .. Len(<<>>) : FALSE
  BY SMT
<1>10. members # {} => Kept(objects["group"])
  <2> SUFFICES ASSUME members # {} PROVE Kept(objects["group"])
    BY Zenon
  <2>1. /\ Kept(cached["group"])
        /\ \A i \in 1 .. Len(events["group"]) : Kept(events["group"][i])
    BY Zenon DEF SelectionInv, LifeInv
  <2>2. events["group"] # <<>> => Len(events["group"]) \in 1 .. Len(events["group"])
    <3>1. events["group"] \in Seq(GroupSets)
      BY Fields, Zenon DEF SelectionInv
    <3> QED
      BY <3>1, SMT
  <2> QED
    BY <1>8, <2>1, <2>2, Zenon DEF SelectionInv, CacheChain
<1>11. LifeInv'
  BY <1>1, <1>8, <1>9, <1>10, Zenon DEF LifeInv, Marked
<1> QED
  BY <1>5, <1>6, <1>7, <1>11, Zenon DEF SelectionInv

\* At rest the invariant says what the property does.
LEMMA QuietFollows ==
    ASSUME EndpointsOfNs, SelectionInv
    PROVE  QuietMembersSelected
<1> SUFFICES ASSUME Quiet PROVE /\ objects.group = {} => members = {}
                                /\ \A g \in objects.group : Undisturbed(g.spec) =>
                                     members = {Members(g.spec, objects)}
  BY Zenon DEF QuietMembersSelected, Members, Found
<1>1. ~queued /\ \A k \in Kinds : events[k] = <<>> /\ cached[k] = objects[k]
  BY Zenon DEF Quiet, SelectionInv, CacheChain
<1>2. /\ cached["group"] = objects["group"] /\ cached["endpoint"] = objects["endpoint"]
      /\ cached["namespace"] = objects["namespace"] /\ events["group"] = <<>>
      /\ cached.endpoint \in EndpointSets
  BY <1>1, Fields, Zenon DEF SelectionInv
<1>3. objects.group = {} => members = {}
  BY <1>2, Zenon DEF SelectionInv, LifeInv, Kept
<1>4. ASSUME NEW g \in objects.group, Undisturbed(g.spec)
      PROVE  members = {Members(g.spec, objects)}
  <2>1. ~g.deleting
    BY <1>1, <1>2, Zenon DEF SelectionInv, LifeInv, Marked
  <2>2. ~Unseen(g.spec)
    BY <1>2, Zenon DEF Unseen, SelectionInv, Housed
  <2>3. members = {Members(g.spec, cached)}
    BY <1>1, <1>2, <1>4, <2>1, <2>2, Zenon DEF SelectionInv, MembersInv
  <2>4. Members(g.spec, cached) = Members(g.spec, objects)
    BY <1>2, SameFound, Zenon
  <2> QED
    BY <2>3, <2>4, Zenon
<1> QED
  BY <1>3, <1>4, Zenon

\* Whatever the order in which the handlers of group_controller.go see the events
\* of the endpoint, its namespace and the group, and wherever the controller
\* restarts: once it is at rest the GroupMembers object lists what the group
\* selects of the objects that exist, and a group that is gone has none.  (Groups
\* to which a lost endpoint event matters are left out by Undisturbed.)
THEOREM MembersSelected ==
    ASSUME EndpointsOfNs, \A spec \in Groups : WellFormed(spec)
    PROVE  Spec => []QuietMembersSelected
<1>1. Init => SelectionInv
  <2> SUFFICES ASSUME Init PROVE SelectionInv
    BY Zenon
  <2>1. /\ objects \in [endpoint : EndpointSets, namespace : NamespaceSets, group : {{}}]
        /\ objects["namespace"] # {} /\ cached = objects
        /\ events = [k \in Kinds |-> <<>>] /\ queued = FALSE /\ members = {}
    BY SMT DEF Init, EndpointSets, NamespaceSets
  <2>2. /\ objects["endpoint"] \in EndpointSets /\ objects["namespace"] \in NamespaceSets
        /\ objects["group"] = {} /\ objects = [k \in Kinds |-> objects[k]]
    BY <2>1, SMT DEF Kinds
  <2>3. \A k \in Kinds : objects[k] \in Versions(k)
    BY <2>2, SMT DEF Kinds, Versions, GroupSets
  <2>4. objects \in [Kinds -> AllVersions]
    BY <2>2, <2>3, VersionsIn, Zenon
  <2>5. \A k \in Kinds : <<>> \in Seq(Versions(k)) /\ events[k] = <<>>
    BY <2>1, SMT
  <2>6. DOMAIN events = Kinds /\ events = [k \in Kinds |-> events[k]]
    BY <2>1, Zenon
  <2>7. SelectionTypeOK
    BY <2>1, <2>3, <2>4, <2>5, <2>6, Zenon DEF SelectionTypeOK
  <2>8. CacheChain /\ Housed
    BY <2>1, <2>5, Zenon DEF CacheChain, Housed
  <2>9. events["group"] = <<>> /\ \A i \in 1 .. Len(<<>>) : FALSE
    BY <2>5, <2>7, Fields, SMT
  <2>10. LifeInv /\ MembersInv
    BY <2>1, <2>2, <2>9, Zenon DEF LifeInv, MembersInv, Live, Marked
  <2> QED
    BY <2>7, <2>8, <2>10, Zenon DEF SelectionInv
<1>2. SelectionInv /\ [Next]_vars => SelectionInv'
  <2> SUFFICES ASSUME SelectionInv, [Next]_vars PROVE SelectionInv'
    BY Zenon
  <2>1. CASE ChangeEndpoint \/ ChangeNamespace \/ ChangeGroup
    BY <2>1, ChangeEndpointStep, ChangeNamespaceStep, ChangeGroupStep, Zenon
  <2>2. CASE EndpointEvent \/ NamespaceEvent \/ GroupEvent
    BY <2>2, EndpointEventStep, NamespaceEventStep, GroupEventStep, Zenon
  <2>3. CASE Reconcile \/ Restart
    BY <2>3, ReconcileStep, RestartStep, Zenon
  <2>4. CASE UNCHANGED vars
    BY <2>4, Zenon DEF vars, SelectionInv, SelectionTypeOK, CacheChain, Housed, LifeInv, MembersInv,
                       Undisturbed, Unseen
  <2> QED
    BY <2>1, <2>2, <2>3, <2>4, Zenon DEF Next
<1>3. SelectionInv => QuietMembersSelected
  BY QuietFollows, Zenon
<1> QED
  BY <1>1, <1>2, <1>3, PTL DEF Spec
===============================================================================
