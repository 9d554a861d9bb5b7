-------------------------- MODULE TowerClientProofs --------------------------
(***************************************************************************)
(* The reflector over the GraphQL client implements TowerInformer, for     *)
(* every length of the response channel and any number of changes and      *)
(* faults.  What a subscription owes the reflector is spread over the      *)
(* connection, the reader's variable and the channel; the reader's steps   *)
(* move an event from one to the next and change nothing of the whole.     *)
(***************************************************************************)
EXTENDS TowerClient, SequenceTheorems, TLAPS

Values == 0 .. MaxChanges

Readers == {"read", "select", "send", "check", "close", "done"}

Subscriptions ==
    [unread : Seq(Values), lost : Seq(Values), broken : BOOLEAN, closed : BOOLEAN,
     reader : Readers, held : Values \cup {Error}, resp : Seq(Values \cup {Error}),
     stop : BOOLEAN]

Reflectors ==
    [at : {"start", "list", "watch", "check", "close", "handle"}, err : {"none", "auth", "other"}]

ClientTypeOK ==
    /\ tower \in Values /\ changes = tower /\ store \in Values /\ synced \in BOOLEAN
    /\ subs \in Seq(Subscriptions)
    /\ reflector \in Reflectors
    /\ reflector.at # "start" => Last > 0

\* Nothing is lost before the connection breaks, and an error is the last thing
\* that a reader sends.
SubInv(sub) ==
    /\ ~sub.broken => sub.lost = <<>>
    /\ \A i \in 1 .. Len(sub.resp) :
          sub.resp[i] = Error => i = Len(sub.resp) /\ sub.reader \in {"check", "close", "done"}

\* The reader of the current subscription is not stopped from outside while the
\* reflector watches.
Undisturbed == Watching /\ subs[Last].stop => subs[Last].reader = "done"

ClientInv ==
    /\ ClientTypeOK
    /\ \A s \in DOMAIN subs : SubInv(subs[s])
    /\ Undisturbed

------------------------------------------------------------------------------
(* Sequences of events. *)

LEMMA ErrorNoValue == ASSUME MaxChanges \in Nat PROVE Error \notin Values
  BY SMT DEF Error, Values

LEMMA EventsEmpty == EventsOf(<<>>) = <<>>
  BY SMT DEF EventsOf

LEMMA EventsAppend ==
  ASSUME NEW S, NEW c \in Seq(S), NEW v \in S
  PROVE  EventsOf(Append(c, v)) = Append(EventsOf(c), Event(v))
  BY SMT DEF EventsOf

LEMMA EventsTail ==
  ASSUME NEW S, NEW c \in Seq(S), c # <<>>
  PROVE  /\ EventsOf(c) # <<>> /\ Head(EventsOf(c)) = Event(Head(c))
         /\ Tail(EventsOf(c)) = EventsOf(Tail(c))
  BY SMT DEF EventsOf

LEMMA AppendAfter ==
  ASSUME NEW S, NEW a \in Seq(S), NEW b \in Seq(S), NEW v \in S
  PROVE  a \o Append(b, v) = Append(a \o b, v)
  BY SMT

LEMMA AppendBefore ==
  ASSUME NEW S, NEW c \in Seq(S), NEW x \in Seq(S), NEW h \in S
  PROVE  Append(c, h) \o (<<>> \o x) = c \o (<<h>> \o x)
  BY SMT

LEMMA ConcatNothing ==
  ASSUME NEW S, NEW a \in Seq(S)
  PROVE  a \o <<>> = a
  BY SMT

------------------------------------------------------------------------------
(* The parts of a subscription. *)

LEMMA FieldTypes ==
  ASSUME NEW sub \in Subscriptions
  PROVE  /\ \A c \in Seq(Values) : [sub EXCEPT !.lost = c] \in Subscriptions
         /\ \A c \in Seq(Values) : [sub EXCEPT !.unread = c] \in Subscriptions
         /\ \A c \in Seq(Values \cup {Error}) : [sub EXCEPT !.resp = c] \in Subscriptions
         /\ \A c \in Values \cup {Error} : [sub EXCEPT !.held = c] \in Subscriptions
         /\ \A c \in Readers : [sub EXCEPT !.reader = c] \in Subscriptions
         /\ \A c \in BOOLEAN : [sub EXCEPT !.broken = c] \in Subscriptions
         /\ \A c \in BOOLEAN : [sub EXCEPT !.closed = c] \in Subscriptions
         /\ \A c \in BOOLEAN : [sub EXCEPT !.stop = c] \in Subscriptions
  BY Zenon DEF Subscriptions

LEMMA PartTypes ==
  ASSUME MaxChanges \in Nat, NEW sub \in Subscriptions, SubInv(sub)
  PROVE  /\ Heard(sub) \in Seq(Values) /\ Held(sub) \in Seq(Values)
         /\ sub.unread \in Seq(Values) /\ sub.lost \in Seq(Values)
         /\ sub.unread \o sub.lost \in Seq(Values)
         /\ Held(sub) \o (sub.unread \o sub.lost) \in Seq(Values)
         /\ Pending(sub) \in Seq(Values)
  <1>1. sub.unread \in Seq(Values) /\ sub.lost \in Seq(Values)
    BY Zenon DEF Subscriptions
  <1>2. Held(sub) \in Seq(Values)
    BY SMT DEF Subscriptions, Held
  <1>3. Heard(sub) \in Seq(Values)
    <2>1. sub.resp \in Seq(Values \cup {Error})
      BY Zenon DEF Subscriptions
    <2>2. CASE Len(sub.resp) > 0 /\ sub.resp[Len(sub.resp)] = Error
      <3>1. \A i \in 1 .. Len(sub.resp) - 1 : sub.resp[i] \in Values
        BY <2>1, SMT DEF SubInv
      <3>2. SubSeq(sub.resp, 1, Len(sub.resp) - 1) \in Seq(Values)
        BY <2>1, <3>1, LenProperties, SubSeqProperties, SMT
      <3> QED
        BY <2>2, <3>2, Zenon DEF Heard
    <2>3. CASE ~(Len(sub.resp) > 0 /\ sub.resp[Len(sub.resp)] = Error)
      <3>1. \A i \in 1 .. Len(sub.resp) : sub.resp[i] \in Values
        BY <2>1, <2>3, SMT DEF SubInv
      <3>2. sub.resp \in Seq(Values)
        BY <2>1, <3>1, SMT
      <3> QED
        BY <2>3, <3>2, Zenon DEF Heard
    <2> QED
      BY <2>2, <2>3, Zenon
  <1>4. sub.unread \o sub.lost \in Seq(Values)
    BY <1>1, ConcatProperties, Zenon
  <1>5. Held(sub) \o (sub.unread \o sub.lost) \in Seq(Values)
    BY <1>2, <1>4, ConcatProperties, Zenon
  <1> QED
    BY <1>1, <1>2, <1>3, <1>4, <1>5, ConcatProperties, Zenon DEF Pending

\* An event that tower sends is the last one that is pending.
LEMMA PendingAppend ==
  ASSUME MaxChanges \in Nat, NEW sub \in Subscriptions, SubInv(sub), NEW v \in Values,
         NEW new, new = IF sub.broken THEN [sub EXCEPT !.lost = Append(@, v)]
                                      ELSE [sub EXCEPT !.unread = Append(@, v)]
  PROVE  /\ new \in Subscriptions /\ SubInv(new)
         /\ Pending(new) = Append(Pending(sub), v)
  <1>a. sub.unread \in Seq(Values) /\ sub.lost \in Seq(Values) /\ sub.broken \in BOOLEAN
    BY Zenon DEF Subscriptions
  <1>b. Append(sub.unread, v) \in Seq(Values) /\ Append(sub.lost, v) \in Seq(Values)
    BY <1>a, AppendProperties, Zenon
  <1>1. new \in Subscriptions /\ SubInv(new)
    <2>1. new \in Subscriptions
      <3>1. CASE sub.broken
        BY <3>1, <1>b, FieldTypes, Zenon
      <3>2. CASE ~sub.broken
        BY <3>2, <1>b, FieldTypes, Zenon
      <3> QED
        BY <3>1, <3>2, Zenon
    <2>2. /\ new.resp = sub.resp /\ new.reader = sub.reader /\ new.broken = sub.broken
          /\ ~sub.broken => new.lost = sub.lost
      BY SMT DEF Subscriptions
    <2> QED
      BY <2>1, <2>2, Zenon DEF SubInv
  <1>2. Heard(new) = Heard(sub) /\ Held(new) = Held(sub)
    BY SMT DEF Subscriptions, Heard, Held
  <1>3. \A a, b \in Seq(Values) : a \o Append(b, v) = Append(a \o b, v)
    BY AppendAfter, SMT
  <1>4. new.unread \o new.lost = Append(sub.unread \o sub.lost, v)
    <2>1. CASE sub.broken
      <3>1. new.unread = sub.unread /\ new.lost = Append(sub.lost, v)
        BY <2>1, Zenon DEF Subscriptions
      <3>2. sub.unread \o Append(sub.lost, v) = Append(sub.unread \o sub.lost, v)
        BY <1>a, <1>3, Zenon
      <3> QED
        BY <3>1, <3>2, Zenon
    <2>2. CASE ~sub.broken
      <3>1. new.unread = Append(sub.unread, v) /\ new.lost = <<>> /\ sub.lost = <<>>
        BY <2>2, Zenon DEF Subscriptions, SubInv
      <3> QED
        BY <1>a, <1>b, <3>1, ConcatNothing, Zenon
    <2> QED
      BY <2>1, <2>2, Zenon
  <1>5. /\ Heard(sub) \in Seq(Values) /\ Held(sub) \in Seq(Values)
        /\ sub.unread \o sub.lost \in Seq(Values)
        /\ Held(sub) \o (sub.unread \o sub.lost) \in Seq(Values)
    BY PartTypes, Zenon
  <1>6. Held(new) \o (new.unread \o new.lost) = Append(Held(sub) \o (sub.unread \o sub.lost), v)
    <2>1. Held(sub) \o Append(sub.unread \o sub.lost, v)
            = Append(Held(sub) \o (sub.unread \o sub.lost), v)
      BY <1>3, <1>5, Zenon
    <2> QED
      BY <1>2, <1>4, <2>1, Zenon
  <1>7. Heard(sub) \o Append(Held(sub) \o (sub.unread \o sub.lost), v)
          = Append(Heard(sub) \o (Held(sub) \o (sub.unread \o sub.lost)), v)
    BY <1>3, <1>5, Zenon
  <1> QED
    BY <1>1, <1>2, <1>6, <1>7, Zenon DEF Pending

\* The events of a connection wait in one sequence, lost or not.
LEMMA SamePending ==
  ASSUME NEW sub, NEW new, Heard(new) = Heard(sub), Held(new) = Held(sub),
         new.unread \o new.lost = sub.unread \o sub.lost
  PROVE  Pending(new) = Pending(sub)
  BY Zenon DEF Pending

\* What a step of a goroutine makes of a subscription.
Moves(sub, new) ==
    /\ new \in Subscriptions /\ SubInv(new)
    /\ Pending(new) = Pending(sub) \/ (sub.stop /\ sub.reader # "done")
    /\ sub.reader # "done" \/ new.reader = "done"
    /\ new.stop => sub.stop \/ new.reader = "done"

LEMMA ReadEvent ==
  ASSUME MaxChanges \in Nat, NEW sub \in Subscriptions, SubInv(sub),
         sub.reader = "read", sub.unread # <<>>,
         NEW new, new = [[[sub EXCEPT !.reader = "select"] EXCEPT !.held = Head(sub.unread)]
                           EXCEPT !.unread = Tail(sub.unread)]
  PROVE  Moves(sub, new)
  <1>1. Head(sub.unread) \in Values /\ Tail(sub.unread) \in Seq(Values)
    BY PartTypes, HeadTailProperties, Zenon
  <1>2. new \in Subscriptions
    <2>1. [sub EXCEPT !.reader = "select"] \in Subscriptions
      BY FieldTypes, Zenon DEF Readers
    <2>2. [[sub EXCEPT !.reader = "select"] EXCEPT !.held = Head(sub.unread)] \in Subscriptions
      BY <1>1, <2>1, FieldTypes, Zenon
    <2> QED
      BY <1>1, <2>2, FieldTypes, Zenon
  <1>3. /\ new.resp = sub.resp /\ new.lost = sub.lost /\ new.broken = sub.broken
        /\ new.stop = sub.stop /\ new.reader = "select" /\ new.held = Head(sub.unread)
        /\ new.unread = Tail(sub.unread)
    BY Zenon DEF Subscriptions
  <1>4. SubInv(new)
    BY <1>3, Zenon DEF SubInv
  <1>5. Heard(new) = Heard(sub)
    BY <1>3, SMT DEF Heard
  <1>6. Held(sub) = <<>> /\ Held(new) = <<Head(sub.unread)>>
    BY <1>1, <1>3, ErrorNoValue, Zenon DEF Held
  <1>7. /\ sub.unread \in Seq(Values) /\ sub.lost \in Seq(Values)
        /\ sub.unread \o sub.lost \in Seq(Values)
    BY PartTypes, Zenon
  <1>8. <<Head(sub.unread)>> \o (Tail(sub.unread) \o sub.lost) = <<>> \o (sub.unread \o sub.lost)
    <2> DEFINE u == sub.unread
               l == sub.lost
    <2>1. u \in Seq(Values) /\ l \in Seq(Values) /\ u # <<>>
      BY <1>7, Zenon
    <2> HIDE DEF u, l
    <2>2. <<Head(u)>> \o (Tail(u) \o l) = <<>> \o (u \o l)
      BY <2>1, SMT
    <2> QED
      BY <2>2, Zenon DEF u, l
  <1> QED
    BY <1>2, <1>3, <1>4, <1>5, <1>6, <1>8, Zenon DEF Moves, Pending

LEMMA ReadError ==
  ASSUME NEW sub \in Subscriptions, SubInv(sub), sub.reader = "read",
         NEW new, new = [[sub EXCEPT !.reader = "select"] EXCEPT !.held = Error]
  PROVE  Moves(sub, new)
  <1>1. new \in Subscriptions
    <2>1. [sub EXCEPT !.reader = "select"] \in Subscriptions
      BY FieldTypes, Zenon DEF Readers
    <2> QED
      BY <2>1, FieldTypes, Zenon
  <1>2. /\ new.resp = sub.resp /\ new.lost = sub.lost /\ new.broken = sub.broken
        /\ new.stop = sub.stop /\ new.reader = "select" /\ new.held = Error
        /\ new.unread = sub.unread
    BY Zenon DEF Subscriptions
  <1>3. SubInv(new)
    BY <1>2, Zenon DEF SubInv
  <1>4. Heard(new) = Heard(sub) /\ Held(new) = Held(sub)
    BY <1>2, SMT DEF Heard, Held
  <1> QED
    BY <1>1, <1>2, <1>3, <1>4, SamePending, Zenon DEF Moves

\* The reader's other steps change where it is and whether the subscription is
\* stopped; where it holds an event, it keeps it.
LEMMA ReaderGoes ==
  ASSUME NEW sub \in Subscriptions, SubInv(sub), NEW r \in Readers, NEW b \in BOOLEAN,
         NEW new, new = [[sub EXCEPT !.reader = r] EXCEPT !.stop = b],
         b => sub.stop \/ r = "done",
         \/ sub.reader = "select" /\ (r = "send" \/ (r = "done" /\ sub.stop))
         \/ sub.reader \in {"check", "close", "done"} /\ r \in {"close", "done"},
         sub.reader = "done" => r = "done"
  PROVE  Moves(sub, new)
  <1>1. new \in Subscriptions
    <2>1. [sub EXCEPT !.reader = r] \in Subscriptions
      BY FieldTypes, Zenon
    <2> QED
      BY <2>1, FieldTypes, Zenon
  <1>2. /\ new.resp = sub.resp /\ new.lost = sub.lost /\ new.broken = sub.broken
        /\ new.stop = b /\ new.reader = r /\ new.held = sub.held
        /\ new.unread = sub.unread
    BY Zenon DEF Subscriptions
  <1>3. SubInv(new)
    BY <1>2, Zenon DEF SubInv
  <1>4. Heard(new) = Heard(sub)
    BY <1>2, SMT DEF Heard
  <1>5. Held(new) = Held(sub) \/ (sub.stop /\ sub.reader # "done")
    BY <1>2, SMT DEF Held
  <1> QED
    BY <1>1, <1>2, <1>3, <1>4, <1>5, SamePending, Zenon DEF Moves

LEMMA SendEvent ==
  ASSUME MaxChanges \in Nat, NEW sub \in Subscriptions, SubInv(sub), sub.reader = "send",
         NEW r, r = IF sub.held = Error THEN "check" ELSE "read",
         NEW new, new = [[sub EXCEPT !.resp = Append(sub.resp, sub.held)] EXCEPT !.reader = r]
  PROVE  Moves(sub, new)
  <1> DEFINE p == Append(sub.resp, sub.held)
             n == Len(sub.resp)
  <1>1. sub.resp \in Seq(Values \cup {Error}) /\ sub.held \in Values \cup {Error}
    BY Zenon DEF Subscriptions
  <1>2. /\ p \in Seq(Values \cup {Error}) /\ Len(p) = n + 1 /\ p[n + 1] = sub.held
        /\ \A i \in 1 .. n : p[i] = sub.resp[i]
        /\ n \in Nat
    BY <1>1, AppendProperties, LenProperties, SMT
  <1>3. new \in Subscriptions
    <2>1. [sub EXCEPT !.resp = p] \in Subscriptions
      BY <1>2, FieldTypes, Zenon
    <2>2. r \in Readers
      BY Zenon DEF Readers
    <2> QED
      BY <2>1, <2>2, FieldTypes, Zenon
  <1>4. /\ new.resp = p /\ new.lost = sub.lost /\ new.broken = sub.broken
        /\ new.stop = sub.stop /\ new.reader = r /\ new.held = sub.held
        /\ new.unread = sub.unread
    BY Zenon DEF Subscriptions
  <1>5. \A i \in 1 .. n : sub.resp[i] # Error
    BY Zenon DEF SubInv
  <1> HIDE DEF p, n
  <1>6. SubInv(new)
    <2>1. ASSUME NEW i \in 1 .. Len(new.resp), new.resp[i] = Error
          PROVE  i = Len(new.resp) /\ new.reader = "check"
      <3>1. i = n + 1
        BY <1>2, <1>4, <1>5, <2>1, SMT
      <3> QED
        BY <1>2, <1>4, <2>1, <3>1, Zenon
    <2> QED
      BY <1>4, <2>1, Zenon DEF SubInv
  <1>7. Heard(sub) = sub.resp
    BY <1>2, <1>5, SMT DEF Heard, n
  <1>8. Pending(new) = Pending(sub)
    <2>1. CASE sub.held = Error
      <3>1. Heard(new) = sub.resp
        <4>1. Heard(new) = SubSeq(p, 1, n)
          BY <1>2, <1>4, <2>1, SMT DEF Heard
        <4>2. SubSeq(p, 1, n) = sub.resp
          BY <1>1, SMT DEF p, n
        <4> QED
          BY <4>1, <4>2, Zenon
      <3>2. Held(new) = Held(sub)
        BY <1>4, <2>1, SMT DEF Held
      <3> QED
        BY <1>4, <1>7, <3>1, <3>2, SamePending, Zenon
    <2>2. CASE sub.held # Error
      <3>1. Heard(new) = p
        BY <1>2, <1>4, <2>2, SMT DEF Heard
      <3>2. Held(new) = <<>> /\ Held(sub) = <<sub.held>>
        BY <1>4, <2>2, SMT DEF Held
      <3>3. sub.unread \o sub.lost \in Seq(Values \cup {Error})
        BY PartTypes, SeqMonotonic, SMT
      <3> DEFINE x == sub.unread \o sub.lost
                 c == sub.resp
                 h == sub.held
      <3>4. c \in Seq(Values \cup {Error}) /\ x \in Seq(Values \cup {Error})
            /\ h \in Values \cup {Error}
        BY <1>1, <3>3, Zenon
      <3> HIDE DEF x, c, h
      <3>5. Append(c, h) \o (<<>> \o x) = c \o (<<h>> \o x)
        BY <3>4, AppendBefore, SMT
      <3> QED
        BY <1>4, <1>7, <3>1, <3>2, <3>5, Zenon DEF Pending, x, c, h, p
    <2> QED
      BY <2>1, <2>2, Zenon
  <1> QED
    BY <1>3, <1>4, <1>6, <1>8, Zenon DEF Moves

LEMMA Closes ==
  ASSUME NEW sub \in Subscriptions, SubInv(sub),
         NEW new, new = [sub EXCEPT !.closed = TRUE]
  PROVE  Moves(sub, new)
  <1>1. new \in Subscriptions
    BY FieldTypes, Zenon
  <1>2. /\ new.resp = sub.resp /\ new.lost = sub.lost /\ new.broken = sub.broken
        /\ new.stop = sub.stop /\ new.reader = sub.reader /\ new.held = sub.held
        /\ new.unread = sub.unread
    BY Zenon DEF Subscriptions
  <1>3. SubInv(new)
    BY <1>2, Zenon DEF SubInv
  <1>4. Heard(new) = Heard(sub) /\ Held(new) = Held(sub)
    BY <1>2, SMT DEF Heard, Held
  <1> QED
    BY <1>1, <1>2, <1>3, <1>4, SamePending, Zenon DEF Moves

\* What a broken connection has not delivered is still pending, as lost.
LEMMA Breaks ==
  ASSUME MaxChanges \in Nat, NEW sub \in Subscriptions, SubInv(sub), ~sub.broken,
         NEW k \in 0 .. Len(sub.unread),
         NEW new, new = [[[sub EXCEPT !.broken = TRUE]
                            EXCEPT !.unread = SubSeq(sub.unread, 1, k)]
                           EXCEPT !.lost = SubSeq(sub.unread, k + 1, Len(sub.unread))]
  PROVE  Moves(sub, new)
  <1> DEFINE u == sub.unread
  <1>1. u \in Seq(Values) /\ Len(u) \in Nat /\ sub.lost = <<>>
    <2>1. u \in Seq(Values) /\ sub.lost = <<>>
      BY Zenon DEF Subscriptions, SubInv
    <2> QED
      BY <2>1, LenProperties, Zenon
  <1>2. SubSeq(u, 1, k) \in Seq(Values) /\ SubSeq(u, k + 1, Len(u)) \in Seq(Values)
    <2> HIDE DEF u
    <2>1. \A i \in 1 .. Len(u) : u[i] \in Values
      BY <1>1, SMT
    <2>2. k \in 0 .. Len(u)
      BY Zenon DEF u
    <2> QED
      BY <1>1, <2>1, <2>2, SubSeqProperties, SMT
  <1>3. new \in Subscriptions
    <2>1. [sub EXCEPT !.broken = TRUE] \in Subscriptions
      BY FieldTypes, Zenon
    <2>2. [[sub EXCEPT !.broken = TRUE] EXCEPT !.unread = SubSeq(u, 1, k)] \in Subscriptions
      BY <1>2, <2>1, FieldTypes, Zenon
    <2> QED
      BY <1>2, <2>2, FieldTypes, Zenon
  <1>4. /\ new.resp = sub.resp /\ new.broken = TRUE
        /\ new.stop = sub.stop /\ new.reader = sub.reader /\ new.held = sub.held
        /\ new.unread = SubSeq(u, 1, k) /\ new.lost = SubSeq(u, k + 1, Len(u))
    BY Zenon DEF Subscriptions
  <1>5. SubInv(new)
    BY <1>4, Zenon DEF SubInv
  <1>6. Heard(new) = Heard(sub) /\ Held(new) = Held(sub)
    BY <1>4, SMT DEF Heard, Held
  <1>7. new.unread \o new.lost = sub.unread \o sub.lost
    <2>1. k \in 0 .. Len(u)
      BY Zenon
    <2> HIDE DEF u
    <2>2. SubSeq(u, 1, k) \o SubSeq(u, k + 1, Len(u)) = SubSeq(u, 1, Len(u))
      <3>1. 1 \in 1 .. Len(u) + 1 /\ k \in 1 - 1 .. Len(u) /\ Len(u) \in k .. Len(u)
        BY <1>1, <2>1, SMT
      <3> QED
        BY <1>1, <3>1, ConcatAdjacentSubSeq, Zenon
    <2>3. SubSeq(u, 1, Len(u)) = u /\ u \o <<>> = u
      BY <1>1, SubSeqFull, ConcatEmptySeq, Zenon
    <2> QED
      BY <1>1, <1>4, <2>2, <2>3, Zenon DEF u
  <1> QED
    BY <1>3, <1>4, <1>5, <1>6, <1>7, SamePending, Zenon DEF Moves

\* The reflector takes a response out of the channel; an event was the first one
\* that was pending.
LEMMA Handles ==
  ASSUME MaxChanges \in Nat, NEW sub \in Subscriptions, SubInv(sub), sub.resp # <<>>,
         NEW new, new = [sub EXCEPT !.resp = Tail(sub.resp)]
  PROVE  /\ new \in Subscriptions /\ SubInv(new)
         /\ new.stop = sub.stop /\ new.reader = sub.reader
         /\ Head(sub.resp) # Error => /\ Pending(sub) # <<>>
                                      /\ Head(sub.resp) = Head(Pending(sub))
                                      /\ Pending(new) = Tail(Pending(sub))
  <1> DEFINE c == sub.resp
             n == Len(c)
             d == Tail(c)
  <1>1. /\ c \in Seq(Values \cup {Error}) /\ c # <<>>
        /\ \A i \in 1 .. n : c[i] = Error => i = n /\ sub.reader \in {"check", "close", "done"}
    BY Zenon DEF Subscriptions, SubInv
  <1>2. /\ d \in Seq(Values \cup {Error}) /\ n \in Nat \ {0} /\ Len(d) = n - 1
        /\ \A i \in 1 .. n - 1 : d[i] = c[i + 1]
        /\ Head(c) = c[1]
    <2> HIDE DEF c
    <2> QED
      BY <1>1, SMT
  <1>3. new \in Subscriptions
    BY <1>2, FieldTypes, Zenon
  <1>4. /\ new.resp = d /\ new.lost = sub.lost /\ new.broken = sub.broken
        /\ new.stop = sub.stop /\ new.reader = sub.reader /\ new.held = sub.held
        /\ new.unread = sub.unread
    BY Zenon DEF Subscriptions
  <1>5. SubInv(new)
    <2>1. ASSUME NEW i \in 1 .. Len(d), d[i] = Error
          PROVE  i = Len(d) /\ sub.reader \in {"check", "close", "done"}
      <3> HIDE DEF d, n
      <3>1. i + 1 \in 1 .. n /\ c[i + 1] = Error
        BY <1>2, <2>1, SMT
      <3>2. i + 1 = n /\ sub.reader \in {"check", "close", "done"}
        BY <1>1, <3>1, Zenon
      <3> QED
        BY <1>2, <3>2, SMT
    <2>2. ~sub.broken => sub.lost = <<>>
      BY Zenon DEF SubInv
    <2> HIDE DEF d
    <2> QED
      BY <1>4, <2>1, <2>2, Zenon DEF SubInv
  <1>6. ASSUME Head(c) # Error
        PROVE  /\ Pending(sub) # <<>> /\ Head(c) = Head(Pending(sub))
               /\ Pending(new) = Tail(Pending(sub))
    <2> DEFINE e == Heard(sub)
               f == Heard(new)
               x == Held(sub) \o (sub.unread \o sub.lost)
    <2>1. /\ e \in Seq(Values) /\ x \in Seq(Values) /\ f \in Seq(Values)
      BY <1>3, <1>5, PartTypes, Zenon
    <2>2. Held(new) = Held(sub)
      BY <1>4, SMT DEF Held
    <2>3. e # <<>> /\ Head(e) = Head(c) /\ f = Tail(e)
      <3> HIDE DEF c, d, e, f, x
      <3>1. CASE c[n] = Error
        <4>1. n > 1
          BY <1>2, <1>6, <3>1, SMT
        <4>2. e = SubSeq(c, 1, n - 1)
          BY <1>2, <3>1, SMT DEF Heard, c, e
        <4>3. d[n - 1] = Error /\ f = SubSeq(d, 1, n - 2)
          <5>1. d[n - 1] = Error
            BY <1>2, <3>1, <4>1, SMT
          <5>2. new.resp = d /\ Len(new.resp) = n - 1
            BY <1>2, <1>4, Zenon
          <5>3. Len(new.resp) > 0 /\ new.resp[Len(new.resp)] = Error
            BY <1>2, <4>1, <5>1, <5>2, SMT
          <5>4. f = SubSeq(new.resp, 1, Len(new.resp) - 1)
            BY <5>3, Zenon DEF Heard, f
          <5> QED
            BY <1>2, <5>1, <5>2, <5>4, SMT
        <4>4. Len(e) = n - 1 /\ \A i \in 1 .. n - 1 : e[i] = c[i]
          BY <1>1, <1>2, <4>1, <4>2, SMT
        <4>5. Len(f) = n - 2 /\ \A i \in 1 .. n - 2 : f[i] = d[i]
          BY <1>2, <4>1, <4>3, SMT
        <4>6. e # <<>>
          BY <2>1, <1>2, <4>1, <4>4, SMT
        <4>7. /\ Head(e) = Head(c) /\ Tail(e) \in Seq(Values) /\ Len(Tail(e)) = n - 2
              /\ \A i \in 1 .. n - 2 : Tail(e)[i] = e[i + 1]
          <5>1. /\ Tail(e) \in Seq(Values) /\ Len(Tail(e)) = Len(e) - 1
                /\ \A i \in 1 .. Len(Tail(e)) : Tail(e)[i] = e[i + 1]
            BY <2>1, <4>6, HeadTailProperties, Zenon
          <5>2. Len(Tail(e)) = n - 2
            BY <1>2, <4>4, <5>1, SMT
          <5>3. Head(e) = e[1] /\ 1 \in 1 .. n - 1
            BY <2>1, <1>2, <4>1, <4>6, SMT
          <5> QED
            BY <1>2, <4>4, <5>1, <5>2, <5>3, Zenon
        <4>8. ASSUME NEW i \in 1 .. n - 2
              PROVE  f[i] = Tail(e)[i]
          <5>1. i \in 1 .. n - 1 /\ i + 1 \in 1 .. n - 1
            BY <1>2, <4>1, SMT
          <5>2. d[i] = c[i + 1]
            BY <1>2, <5>1, Zenon
          <5> QED
            BY <4>4, <4>5, <4>7, <5>1, <5>2, Zenon
        <4>9. f = Tail(e)
          BY <2>1, <4>5, <4>7, <4>8, SeqEqual, Zenon
        <4> QED
          BY <4>6, <4>7, <4>9, Zenon
      <3>2. CASE c[n] # Error
        <4>1. e = c
          BY <3>2, Zenon DEF Heard, c, e, n
        <4>2. f = d
          <5>1. Len(d) > 0 => d[Len(d)] # Error
            BY <1>2, <3>2, SMT
          <5> QED
            BY <1>4, <5>1, Zenon DEF Heard, f
        <4> QED
          BY <1>1, <4>1, <4>2, Zenon DEF d
      <3> QED
        BY <3>1, <3>2, Zenon
    <2>4. Pending(sub) = e \o x /\ Pending(new) = f \o x
      BY <1>4, <2>2, Zenon DEF Pending
    <2> HIDE DEF c, d, e, f, x
    <2>5. e \o x # <<>> /\ Head(e \o x) = Head(e) /\ Tail(e \o x) = Tail(e) \o x
      BY <2>1, <2>3, SMT
    <2> QED
      BY <2>3, <2>4, <2>5, Zenon
  <1> QED
    BY <1>3, <1>4, <1>5, <1>6, Zenon

------------------------------------------------------------------------------
(* The steps. *)

LEMMA LastSub ==
  ASSUME ClientInv, reflector.at # "start"
  PROVE  Last \in DOMAIN subs /\ Last \in Nat /\ subs[Last] \in Subscriptions /\ SubInv(subs[Last])
  <1>1. subs \in Seq(Subscriptions) /\ Last > 0
    BY Zenon DEF ClientInv, ClientTypeOK
  <1>2. Last \in DOMAIN subs /\ Last \in Nat /\ subs[Last] \in Subscriptions
    BY <1>1, SMT DEF Last
  <1> QED
    BY <1>2, Zenon DEF ClientInv

\* One subscription is replaced by another.
LEMMA Replaces ==
  ASSUME NEW ss \in Seq(Subscriptions), NEW s \in DOMAIN ss, NEW new \in Subscriptions,
         NEW tt, tt = [ss EXCEPT ![s] = new]
  PROVE  /\ tt \in Seq(Subscriptions) /\ Len(tt) = Len(ss) /\ DOMAIN tt = DOMAIN ss
         /\ tt[s] = new /\ \A t \in DOMAIN ss : t # s => tt[t] = ss[t]
         /\ ss[s] \in Subscriptions
  BY SMT

Rest == <<tower, reflector, store, synced, changes>>

\* A step of a goroutine or of the connection is none of the abstract reflector.
LEMMA OneMoves ==
  ASSUME MaxChanges \in Nat, ClientInv, NEW s \in DOMAIN subs, NEW new,
         subs' = [subs EXCEPT ![s] = new], Moves(subs[s], new), UNCHANGED Rest
  PROVE  ClientInv' /\ UNCHANGED Informer!informerVars
  <1>1. subs \in Seq(Subscriptions) /\ new \in Subscriptions
    BY Zenon DEF ClientInv, ClientTypeOK, Moves
  <1>2. /\ subs' \in Seq(Subscriptions) /\ Last' = Last /\ DOMAIN subs' = DOMAIN subs
        /\ subs'[s] = new /\ \A t \in DOMAIN subs : t # s => subs'[t] = subs[t]
    BY <1>1, Replaces, SMT DEF Last
  <1>3. /\ tower' = tower /\ reflector' = reflector /\ store' = store
        /\ synced' = synced /\ changes' = changes
    BY Zenon DEF Rest
  <1>4. ClientTypeOK'
    BY <1>2, <1>3, Zenon DEF ClientInv, ClientTypeOK
  <1>5. \A t \in DOMAIN subs' : SubInv(subs'[t])
    BY <1>2, Zenon DEF ClientInv, Moves
  <1>6. Watching' <=> Watching
    BY <1>3, Zenon DEF Watching
  <1>7. CASE ~Watching
    <2>1. Undisturbed'
      BY <1>6, <1>7, Zenon DEF Undisturbed
    <2>2. UNCHANGED <<towerBar, watchBar, chanBar, storeBar, syncedBar>>
      BY <1>3, <1>6, <1>7, Zenon DEF towerBar, watchBar, chanBar, storeBar, syncedBar
    <2> QED
      BY <1>4, <1>5, <2>1, <2>2, Zenon DEF ClientInv, Informer!informerVars
  <1>8. CASE Watching
    <2>1. Last \in DOMAIN subs
      BY <1>8, LastSub, Zenon DEF Watching
    <2>2. Undisturbed' /\ Pending(subs'[Last]) = Pending(subs[Last])
      <3>1. CASE s = Last
        BY <1>2, <1>6, <1>8, <3>1, Zenon DEF ClientInv, Undisturbed, Moves
      <3>2. CASE s # Last
        BY <1>2, <1>6, <1>8, <2>1, <3>2, Zenon DEF ClientInv, Undisturbed
      <3> QED
        BY <3>1, <3>2, Zenon
    <2>3. EventsOf(Pending(subs[Last]))' = EventsOf(Pending(subs[Last]))
      BY <1>2, <2>2, Zenon
    <2>4. UNCHANGED <<towerBar, watchBar, chanBar, storeBar, syncedBar>>
      BY <1>3, <1>6, <2>3, Zenon DEF towerBar, watchBar, chanBar, storeBar, syncedBar
    <2> QED
      BY <1>4, <1>5, <2>2, <2>4, Zenon DEF ClientInv, Informer!informerVars
  <1> QED
    BY <1>7, <1>8, Zenon

\* The panic of a channel closed twice starts the process again.
LEMMA Panics ==
  ASSUME MaxChanges \in Nat, ClientInv, Panic
  PROVE  ClientInv' /\ Informer!InformerRestart
  <1>1. /\ subs' = <<>> /\ reflector' \in Reflectors /\ reflector'.at = "start"
        /\ store' = 0 /\ synced' = FALSE /\ tower' = tower /\ changes' = changes
    BY Zenon DEF Panic, Start, Reflectors
  <1>2. 0 \in Values /\ <<>> \in Seq(Subscriptions) /\ DOMAIN subs' = {}
    BY <1>1, SMT DEF Values
  <1>3. ~Watching'
    BY <1>1, Zenon DEF Watching
  <1>4. ClientInv'
    BY <1>1, <1>2, <1>3, Zenon DEF ClientInv, ClientTypeOK, Undisturbed
  <1>5. Informer!Types = {"vm"}
    BY SMT DEF Informer!Types, Object
  <1>6. /\ watchBar' = [t \in {"vm"} |-> "off"] /\ chanBar' = [t \in {"vm"} |-> <<>>]
        /\ storeBar' = [o \in {Object} |-> 0] /\ syncedBar' = [t \in {"vm"} |-> FALSE]
        /\ towerBar' = towerBar
    BY <1>1, <1>3, Zenon DEF watchBar, chanBar, storeBar, syncedBar, towerBar
  <1> QED
    BY <1>4, <1>5, <1>6, Zenon DEF Informer!InformerRestart

LEMMA ConnectionSteps ==
  ASSUME MaxChanges \in Nat, ClientInv, NEW s \in DOMAIN subs,
         Break(s) \/ loopReadMessage(s)
  PROVE  ClientInv' /\ UNCHANGED Informer!informerVars
  <1>1. /\ subs \in Seq(Subscriptions) /\ subs[s] \in Subscriptions /\ SubInv(subs[s])
    <2>1. subs \in Seq(Subscriptions) /\ SubInv(subs[s])
      BY Zenon DEF ClientInv, ClientTypeOK
    <2> QED
      BY <2>1, SMT
  <1>2. CASE loopReadMessage(s)
    <2> DEFINE new == [subs[s] EXCEPT !.closed = TRUE]
    <2>1. subs' = [subs EXCEPT ![s] = new] /\ UNCHANGED Rest
      BY <1>2, Zenon DEF loopReadMessage, ReaderStep, Rest
    <2>2. Moves(subs[s], new)
      BY <1>1, Closes, Zenon
    <2> HIDE DEF new
    <2> QED
      BY <2>1, <2>2, OneMoves, Zenon
  <1>3. CASE Break(s)
    <2>1. PICK k \in 0 .. Len(subs[s].unread) :
            subs' = [subs EXCEPT ![s].broken = TRUE,
                                 ![s].unread = SubSeq(@, 1, k),
                                 ![s].lost = SubSeq(subs[s].unread, k + 1, Len(subs[s].unread))]
      BY <1>3, Zenon DEF Break
    <2> DEFINE new == [[[subs[s] EXCEPT !.broken = TRUE]
                          EXCEPT !.unread = SubSeq(subs[s].unread, 1, k)]
                         EXCEPT !.lost = SubSeq(subs[s].unread, k + 1, Len(subs[s].unread))]
    <2>2. ~subs[s].broken /\ UNCHANGED Rest
      BY <1>3, Zenon DEF Break, Rest
    <2>3. Moves(subs[s], new)
      BY <1>1, <2>2, Breaks, Zenon
    <2>4. subs' = [subs EXCEPT ![s] = new]
      BY <2>1, <1>1, Zenon DEF Subscriptions
    <2> HIDE DEF new
    <2> QED
      BY <2>2, <2>3, <2>4, OneMoves, Zenon
  <1> QED
    BY <1>2, <1>3, Zenon

LEMMA ReaderSteps ==
  ASSUME MaxChanges \in Nat, ClientInv, NEW s \in DOMAIN subs, Reader(s)
  PROVE  ClientInv' /\ (UNCHANGED Informer!informerVars \/ Informer!InformerRestart)
  <1> DEFINE sub == subs[s]
             Became(new) == subs' = [subs EXCEPT ![s] = new]
  <1>1. subs \in Seq(Subscriptions) /\ sub \in Subscriptions /\ SubInv(sub)
    <2>1. subs \in Seq(Subscriptions) /\ SubInv(sub)
      BY Zenon DEF ClientInv, ClientTypeOK
    <2> QED
      BY <2>1, SMT
  <1>2. ReaderStep => UNCHANGED Rest
    BY Zenon DEF ReaderStep, Rest
  <1>3. CASE readConnResponse(s)
    <2>1. ReaderStep /\ sub.reader = "read"
      BY <1>3, Zenon DEF readConnResponse
    <2>2. CASE /\ sub.unread # <<>>
               /\ subs' = [subs EXCEPT ![s].reader = "select", ![s].held = Head(subs[s].unread),
                                       ![s].unread = Tail(@)]
      <3> DEFINE new == [[[sub EXCEPT !.reader = "select"] EXCEPT !.held = Head(sub.unread)]
                           EXCEPT !.unread = Tail(sub.unread)]
      <3>1. Became(new)
        BY <1>1, <2>2, Zenon DEF Subscriptions
      <3>2. Moves(sub, new)
        BY <1>1, <2>1, <2>2, ReadEvent, Zenon
      <3> HIDE DEF new
      <3> QED
        BY <1>2, <2>1, <3>1, <3>2, OneMoves, Zenon
    <2>3. CASE subs' = [subs EXCEPT ![s].reader = "select", ![s].held = Error]
      <3> DEFINE new == [[sub EXCEPT !.reader = "select"] EXCEPT !.held = Error]
      <3>1. Became(new)
        BY <1>1, <2>3, Zenon DEF Subscriptions
      <3>2. Moves(sub, new)
        BY <1>1, <2>1, ReadError, Zenon
      <3> HIDE DEF new
      <3> QED
        BY <1>2, <2>1, <3>1, <3>2, OneMoves, Zenon
    <2> QED
      BY <1>3, <2>2, <2>3, Zenon DEF readConnResponse
  <1>4. CASE sendResponse(s)
    <2> DEFINE r == IF sub.held = Error THEN "check" ELSE "read"
               new == [[sub EXCEPT !.resp = Append(sub.resp, sub.held)] EXCEPT !.reader = r]
    <2>1. Became(new) /\ ReaderStep /\ sub.reader = "send"
      BY <1>1, <1>4, Zenon DEF sendResponse, Subscriptions
    <2>2. Moves(sub, new)
      BY <1>1, <2>1, SendEvent, Zenon
    <2> HIDE DEF new
    <2> QED
      BY <1>2, <2>1, <2>2, OneMoves, Zenon
  <1>5. ASSUME NEW r \in Readers, NEW b \in BOOLEAN,
               Became([[sub EXCEPT !.reader = r] EXCEPT !.stop = b]), ReaderStep,
               b => sub.stop \/ r = "done",
               \/ sub.reader = "select" /\ (r = "send" \/ (r = "done" /\ sub.stop))
               \/ sub.reader \in {"check", "close", "done"} /\ r \in {"close", "done"},
               sub.reader = "done" => r = "done"
        PROVE  ClientInv' /\ UNCHANGED Informer!informerVars
    <2> DEFINE new == [[sub EXCEPT !.reader = r] EXCEPT !.stop = b]
    <2>1. Moves(sub, new)
      BY <1>1, <1>5, ReaderGoes, Zenon
    <2>2. Became(new)
      BY <1>5, Zenon
    <2> HIDE DEF new
    <2> QED
      BY <1>2, <1>5, <2>1, <2>2, OneMoves, Zenon
  <1>6. ASSUME NEW r \in Readers
        PROVE  /\ sub.stop \in BOOLEAN
               /\ [sub EXCEPT !.reader = r] = [[sub EXCEPT !.reader = r] EXCEPT !.stop = sub.stop]
    BY <1>1, Zenon DEF Subscriptions
  <1>7. CASE selectStop(s)
    <2> DEFINE r == IF sub.stop THEN "done" ELSE "send"
    <2>1. /\ subs' = [subs EXCEPT ![s].reader = r] /\ ReaderStep /\ sub.reader = "select"
          /\ r \in Readers
      BY <1>7, Zenon DEF selectStop, Readers
    <2>2. Became([[sub EXCEPT !.reader = r] EXCEPT !.stop = sub.stop])
      BY <1>6, <2>1, Zenon
    <2> QED
      BY <1>5, <1>6, <2>1, <2>2, Zenon
  <1>8. CASE readerStops(s)
    <2>1. CASE /\ sub.reader = "check"
               /\ subs' = [subs EXCEPT ![s].reader = IF subs[s].stop THEN "done" ELSE "close"]
               /\ ReaderStep
      <3> DEFINE r == IF sub.stop THEN "done" ELSE "close"
      <3>1. r \in {"close", "done"} /\ r \in Readers /\ subs' = [subs EXCEPT ![s].reader = r]
        BY <2>1, Zenon DEF Readers
      <3> HIDE DEF r
      <3>2. Became([[sub EXCEPT !.reader = r] EXCEPT !.stop = sub.stop])
        BY <1>6, <3>1, Zenon
      <3> QED
        BY <1>5, <1>6, <2>1, <3>1, <3>2, Zenon
    <2>2. CASE /\ sub.reader = "close"
               /\ subs' = [subs EXCEPT ![s].reader = "done", ![s].stop = TRUE]
               /\ ReaderStep
      <3>1. Became([[sub EXCEPT !.reader = "done"] EXCEPT !.stop = TRUE])
        BY <1>1, <2>2, Zenon DEF Subscriptions
      <3>2. "done" \in Readers
        BY Zenon DEF Readers
      <3> QED
        BY <1>5, <2>2, <3>1, <3>2, Zenon
    <2>3. CASE Panic
      BY <2>3, Panics, Zenon
    <2> QED
      BY <1>8, <2>1, <2>2, <2>3, Zenon DEF readerStops
  <1> QED
    BY <1>3, <1>4, <1>7, <1>8, Zenon DEF Reader

\* What the variables of the abstract reflector are, by where the reflector is.
LEMMA Bars ==
  /\ Informer!Types = {"vm"} /\ Object[1] = "vm"
  /\ reflector.at = "list" => watchBar = [t \in {"vm"} |-> "subscribed"]
  /\ reflector.at = "watch" => watchBar = [t \in {"vm"} |-> "listed"]
  /\ ~Watching => /\ watchBar = [t \in {"vm"} |-> "off"]
                  /\ chanBar = [t \in {"vm"} |-> <<>>]
  /\ Watching => chanBar = [t \in {"vm"} |-> EventsOf(Pending(subs[Last]))]
  <1>1. Informer!Types = {"vm"} /\ Object[1] = "vm"
    BY SMT DEF Informer!Types, Object
  <1> QED
    BY <1>1, Zenon DEF watchBar, chanBar, Watching

LEMMA ChangeStep ==
  ASSUME MaxChanges \in Nat, ClientInv, Change
  PROVE  ClientInv' /\ Informer!Write(Object, tower', FALSE) /\ tower' \in Values
  <1> DEFINE new(s) == IF subs[s].broken THEN [subs[s] EXCEPT !.lost = Append(@, tower')]
                                         ELSE [subs[s] EXCEPT !.unread = Append(@, tower')]
  <1>1. /\ subs \in Seq(Subscriptions) /\ subs' = [s \in DOMAIN subs |-> new(s)]
        /\ reflector' = reflector /\ store' = store /\ synced' = synced
    BY Zenon DEF ClientInv, ClientTypeOK, Change
  <1>2. tower' \in Values /\ changes' = tower' /\ tower' # tower
    BY SMT DEF ClientInv, ClientTypeOK, Change, Values
  <1>3. ASSUME NEW s \in DOMAIN subs
        PROVE  /\ new(s) \in Subscriptions /\ SubInv(new(s))
               /\ Pending(new(s)) = Append(Pending(subs[s]), tower')
               /\ Pending(subs[s]) \in Seq(Values)
               /\ new(s).stop = subs[s].stop /\ new(s).reader = subs[s].reader
    <2>1. subs[s] \in Subscriptions
      BY <1>1, SMT
    <2>2. SubInv(subs[s])
      BY Zenon DEF ClientInv
    <2>3. /\ new(s) \in Subscriptions /\ SubInv(new(s))
          /\ Pending(new(s)) = Append(Pending(subs[s]), tower')
      BY <1>2, <2>1, <2>2, PendingAppend, SMTT(60)
    <2>4. Pending(subs[s]) \in Seq(Values)
      BY <2>1, <2>2, PartTypes, Zenon
    <2>5. new(s).stop = subs[s].stop /\ new(s).reader = subs[s].reader
      BY <2>1, Zenon DEF Subscriptions
    <2> QED
      BY <2>3, <2>4, <2>5, Zenon
  <1> HIDE DEF new
  <1>4. /\ subs' \in Seq(Subscriptions) /\ Last' = Last /\ DOMAIN subs' = DOMAIN subs
        /\ \A s \in DOMAIN subs : subs'[s] = new(s)
    <2>1. Last \in Nat /\ DOMAIN subs = 1 .. Last
      BY <1>1, LenProperties, Zenon DEF Last
    <2>2. /\ DOMAIN subs' = DOMAIN subs /\ \A s \in DOMAIN subs : subs'[s] = new(s)
          /\ subs' \in [1 .. Last -> Subscriptions]
      BY <1>1, <1>3, <2>1, Zenon
    <2>3. subs' \in Seq(Subscriptions)
      BY <2>1, <2>2, SeqDef, Zenon
    <2>4. Last' \in Nat /\ 1 .. Last' = 1 .. Last
      BY <2>1, <2>2, <2>3, LenProperties, SMT DEF Last
    <2>5. Last' = Last
      BY <2>1, <2>4, SMT
    <2> QED
      BY <2>2, <2>3, <2>5, Zenon
  <1>5. Watching' <=> Watching
    BY <1>1, Zenon DEF Watching
  <1>6. Watching => Last \in DOMAIN subs
    BY LastSub, Zenon DEF Watching
  <1>7. ClientInv'
    <2>1. ClientTypeOK'
      BY <1>1, <1>2, <1>4, Zenon DEF ClientInv, ClientTypeOK
    <2>2. \A s \in DOMAIN subs' : SubInv(subs'[s])
      BY <1>3, <1>4, Zenon
    <2>3. Undisturbed'
      BY <1>3, <1>4, <1>5, <1>6, Zenon DEF ClientInv, Undisturbed
    <2> QED
      BY <2>1, <2>2, <2>3, Zenon DEF ClientInv
  <1>8. /\ watchBar' = watchBar /\ storeBar' = storeBar /\ syncedBar' = syncedBar
        /\ towerBar' = [towerBar EXCEPT ![Object] = tower']
        /\ towerBar[Object] = tower
    BY <1>1, Zenon DEF watchBar, storeBar, syncedBar, towerBar
  <1>9. chanBar' = IF watchBar["vm"] = "off" THEN chanBar
                   ELSE [chanBar EXCEPT !["vm"] = Append(@, Event(tower'))]
    <2>1. CASE ~Watching
      <3>1. watchBar["vm"] = "off"
        BY <2>1, Bars, Zenon
      <3>2. chanBar' = chanBar
        BY <2>1, <1>5, Zenon DEF chanBar
      <3> QED
        BY <3>1, <3>2, Zenon
    <2>2. CASE Watching
      <3>1. watchBar["vm"] # "off"
        BY <2>2, Zenon DEF Watching, watchBar
      <3>2. Pending(subs[Last])' = Append(Pending(subs[Last]), tower')
        BY <1>3, <1>4, <1>6, <2>2, Zenon
      <3>3. EventsOf(Pending(subs[Last]))' = Append(EventsOf(Pending(subs[Last])), Event(tower'))
        <4>1. EventsOf(Append(Pending(subs[Last]), tower'))
                = Append(EventsOf(Pending(subs[Last])), Event(tower'))
          BY <1>2, <1>3, <1>6, <2>2, EventsAppend, SMT
        <4> QED
          BY <3>2, <4>1, Zenon
      <3>4. /\ chanBar = [t \in {"vm"} |-> EventsOf(Pending(subs[Last]))]
            /\ chanBar' = [t \in {"vm"} |-> EventsOf(Pending(subs[Last]))']
        BY <1>5, <2>2, Zenon DEF chanBar
      <3> QED
        BY <3>1, <3>3, <3>4, Zenon
    <2> QED
      BY <2>1, <2>2, Zenon
  <1> QED
    BY <1>2, <1>7, <1>8, <1>9, Bars, Zenon DEF Informer!Write, Event

\* Steps of the reflector while it does not watch, which are none of the abstract
\* one.
LEMMA AsideSteps ==
  ASSUME ClientInv, ~Watching, ~Watching', UNCHANGED <<tower, store, synced>>
  PROVE  UNCHANGED Informer!informerVars
  <1>1. UNCHANGED <<towerBar, storeBar, syncedBar>>
    BY Zenon DEF towerBar, storeBar, syncedBar
  <1>2. UNCHANGED <<watchBar, chanBar>>
    BY Zenon DEF watchBar, chanBar, Watching
  <1> QED
    BY <1>1, <1>2, Zenon DEF Informer!informerVars

\* The reflector leaves listAndWatch.
LEMMA LeaveStep ==
  ASSUME ClientInv, Watching, ~Watching', UNCHANGED <<tower, store, synced>>
  PROVE  Informer!watchErrorHandler("vm")
  <1>1. UNCHANGED <<towerBar, storeBar, syncedBar>>
    BY Zenon DEF towerBar, storeBar, syncedBar
  <1>2. watchBar["vm"] # "off" /\ DOMAIN watchBar = {"vm"} /\ DOMAIN chanBar = {"vm"}
    BY Zenon DEF watchBar, chanBar, Watching
  <1>3. watchBar' = [t \in {"vm"} |-> "off"] /\ chanBar' = [t \in {"vm"} |-> <<>>]
    BY Zenon DEF watchBar, chanBar, Watching
  <1>4. watchBar' = [watchBar EXCEPT !["vm"] = "off"] /\ chanBar' = [chanBar EXCEPT !["vm"] = <<>>]
    BY <1>2, <1>3, Zenon DEF watchBar, chanBar
  <1> QED
    BY <1>1, <1>2, <1>4, Zenon DEF Informer!watchErrorHandler

LEMMA SubscriptionStep ==
  ASSUME MaxChanges \in Nat, ClientInv, Subscription
  PROVE  ClientInv' /\ Informer!Subscription("vm")
  <1>1. /\ reflector.at = "start" /\ subs' = Append(subs, NewSubscription)
        /\ reflector' \in Reflectors /\ reflector'.at = "list"
        /\ UNCHANGED <<tower, store, synced, changes>>
    BY Zenon DEF Subscription, Reflectors
  <1>2. ~Watching /\ Watching'
    BY <1>1, Zenon DEF Watching
  <1>3. subs \in Seq(Subscriptions)
    BY Zenon DEF ClientInv, ClientTypeOK
  <1>4. NewSubscription \in Subscriptions
    BY SMT DEF NewSubscription, Subscriptions, Readers
  <1>5. /\ NewSubscription.resp = <<>> /\ NewSubscription.lost = <<>>
        /\ NewSubscription.unread = <<>> /\ NewSubscription.reader = "read"
        /\ NewSubscription.stop = FALSE
    BY Zenon DEF NewSubscription
  <1>6. SubInv(NewSubscription)
    BY <1>5, SMT DEF SubInv
  <1>7. EventsOf(Pending(NewSubscription)) = <<>>
    <2>1. Heard(NewSubscription) = <<>> /\ Held(NewSubscription) = <<>>
      BY <1>5, SMT DEF Heard, Held
    <2>2. <<>> \o (<<>> \o (<<>> \o <<>>)) = <<>>
      BY SMT
    <2> QED
      BY <1>5, <2>1, <2>2, EventsEmpty, Zenon DEF Pending
  <1>8. /\ subs' \in Seq(Subscriptions) /\ Last' = Last + 1 /\ Last \in Nat
        /\ subs'[Last'] = NewSubscription /\ DOMAIN subs' = DOMAIN subs \cup {Last'}
        /\ \A s \in DOMAIN subs : subs'[s] = subs[s]
    <2> HIDE DEF NewSubscription
    <2> QED
      BY <1>1, <1>3, <1>4, SMT DEF Last
  <1>9. ClientInv'
    <2>1. ClientTypeOK'
      <3>1. Last' > 0
        BY <1>8, SMT
      <3> QED
        BY <1>1, <1>8, <3>1, Zenon DEF ClientInv, ClientTypeOK
    <2>2. \A s \in DOMAIN subs' : SubInv(subs'[s])
      BY <1>6, <1>8, Zenon DEF ClientInv
    <2>3. Undisturbed'
      BY <1>5, <1>8, Zenon DEF Undisturbed
    <2> QED
      BY <2>1, <2>2, <2>3, Zenon DEF ClientInv
  <1>10. UNCHANGED <<towerBar, storeBar, syncedBar>>
    BY <1>1, Zenon DEF towerBar, storeBar, syncedBar
  <1>11. chanBar = [t \in {"vm"} |-> <<>>] /\ watchBar = [t \in {"vm"} |-> "off"]
    BY <1>2, Bars, Zenon
  <1>12. watchBar' = [t \in {"vm"} |-> "subscribed"]
    BY <1>1, Zenon DEF watchBar
  <1>13. chanBar' = [t \in {"vm"} |-> <<>>]
    <2>1. EventsOf(Pending(subs[Last]))' = <<>>
      BY <1>7, <1>8, Zenon
    <2> QED
      BY <1>2, <2>1, Zenon DEF chanBar
  <1>14. watchBar' = [watchBar EXCEPT !["vm"] = "subscribed"] /\ watchBar["vm"] = "off"
    BY <1>11, <1>12, Zenon
  <1> QED
    BY <1>9, <1>10, <1>11, <1>13, <1>14, Zenon DEF Informer!Subscription

\* Steps that leave the subscriptions alone keep the invariant, unless the
\* reflector begins to watch.
LEMMA SameSubs ==
  ASSUME ClientInv, UNCHANGED <<subs, tower, changes>>, store' \in Values, synced' \in BOOLEAN,
         reflector' \in Reflectors, reflector.at # "start" \/ reflector'.at = "start",
         Watching' => Watching
  PROVE  ClientInv'
  <1>1. ClientTypeOK'
    BY Zenon DEF ClientInv, ClientTypeOK, Last
  <1>2. Undisturbed' /\ \A s \in DOMAIN subs' : SubInv(subs'[s])
    BY Zenon DEF ClientInv, Undisturbed, Last
  <1> QED
    BY <1>1, <1>2, Zenon DEF ClientInv

LEMMA Leaving ==
  ASSUME NEW e \in {"auth", "other"}, Leave(e)
  PROVE  reflector' \in Reflectors /\ reflector'.at = "check"
  BY Zenon DEF Leave, Reflectors

LEMMA QueryStep ==
  ASSUME MaxChanges \in Nat, ClientInv, Query
  PROVE  ClientInv' /\ (Informer!syncWith("vm") \/ Informer!watchErrorHandler("vm"))
  <1>1. /\ reflector.at = "list" /\ UNCHANGED <<tower, subs, changes>>
        /\ tower \in Values /\ store \in Values /\ synced \in BOOLEAN
    BY Zenon DEF Query, ClientInv, ClientTypeOK
  <1>2. CASE /\ store' = tower /\ synced' = TRUE
             /\ reflector' \in Reflectors /\ reflector'.at = "watch"
    <2>1. Watching /\ Watching'
      BY <1>1, <1>2, Zenon DEF Watching
    <2>2. ClientInv'
      BY <1>1, <1>2, <2>1, SameSubs, Zenon
    <2>3. /\ watchBar = [t \in {"vm"} |-> "subscribed"] /\ watchBar' = [t \in {"vm"} |-> "listed"]
          /\ chanBar' = chanBar /\ towerBar' = towerBar
          /\ storeBar' = [o \in {Object} |-> tower] /\ syncedBar' = [t \in {"vm"} |-> TRUE]
      BY <1>1, <1>2, <2>1, Zenon DEF watchBar, chanBar, towerBar, storeBar, syncedBar, Last
    <2>4. /\ watchBar["vm"] = "subscribed" /\ watchBar' = [watchBar EXCEPT !["vm"] = "listed"]
          /\ syncedBar' = [syncedBar EXCEPT !["vm"] = TRUE]
      BY <2>3, Zenon DEF syncedBar
    <2>5. storeBar' = [o \in {Object} |-> IF o[1] = "vm" THEN towerBar[o] ELSE storeBar[o]]
      <3>1. Object[1] = "vm"
        BY Bars, Zenon
      <3> QED
        BY <2>3, <3>1, Zenon DEF towerBar
    <2> QED
      BY <2>2, <2>3, <2>4, <2>5, Zenon DEF Informer!syncWith
  <1>3. CASE reflector' \in Reflectors /\ reflector'.at = "check" /\ UNCHANGED <<store, synced>>
    <2>1. Watching /\ ~Watching'
      BY <1>1, <1>3, Zenon DEF Watching
    <2>2. ClientInv'
      BY <1>1, <1>3, <2>1, SameSubs, Zenon
    <2> QED
      BY <1>1, <1>3, <2>1, <2>2, LeaveStep, Zenon
  <1> QED
    <2>1. reflector' = [at |-> "watch", err |-> "none"] =>
            reflector' \in Reflectors /\ reflector'.at = "watch"
      BY SMT DEF Reflectors
    <2> QED
      <3>1. \/ store' = tower /\ synced' = TRUE /\ reflector' = [at |-> "watch", err |-> "none"]
            \/ (Leave("auth") \/ Leave("other")) /\ UNCHANGED <<store, synced>>
        BY Zenon DEF Query
      <3> QED
        BY <1>2, <1>3, <2>1, <3>1, Leaving, Zenon

LEMMA HandlerStep ==
  ASSUME MaxChanges \in Nat, ClientInv, watchHandler
  PROVE  ClientInv' /\ (Informer!eventHandler("vm") \/ Informer!watchErrorHandler("vm"))
  <1> DEFINE sub == subs[Last]
             new == [sub EXCEPT !.resp = Tail(sub.resp)]
  <1>1. /\ reflector.at = "watch" /\ Watching /\ UNCHANGED <<tower, synced, changes>>
        /\ store \in Values /\ synced \in BOOLEAN /\ subs \in Seq(Subscriptions)
    BY Zenon DEF watchHandler, ClientInv, ClientTypeOK, Watching
  <1>2. Last \in DOMAIN subs /\ sub \in Subscriptions /\ SubInv(sub)
    BY <1>1, LastSub, Zenon
  <1>3. CASE sub.resp = <<>>
    <2>1. reflector' \in Reflectors /\ reflector'.at = "check" /\ UNCHANGED <<subs, store>>
      BY <1>3, Leaving, Zenon DEF watchHandler
    <2>2. ~Watching'
      BY <2>1, Zenon DEF Watching
    <2>3. ClientInv'
      BY <1>1, <2>1, <2>2, SameSubs, Zenon
    <2> QED
      BY <1>1, <2>1, <2>2, <2>3, LeaveStep, Zenon
  <1>4. CASE sub.resp # <<>>
    <2>1. subs' = [subs EXCEPT ![Last] = new]
      BY <1>4, Zenon DEF watchHandler
    <2>2. /\ new \in Subscriptions /\ SubInv(new)
          /\ new.stop = sub.stop /\ new.reader = sub.reader
          /\ Head(sub.resp) # Error => /\ Pending(sub) # <<>>
                                       /\ Head(sub.resp) = Head(Pending(sub))
                                       /\ Pending(new) = Tail(Pending(sub))
      BY <1>2, <1>4, Handles, Zenon
    <2> HIDE DEF new
    <2>3. /\ subs' \in Seq(Subscriptions) /\ Last' = Last /\ DOMAIN subs' = DOMAIN subs
          /\ subs'[Last] = new /\ \A t \in DOMAIN subs : t # Last => subs'[t] = subs[t]
      BY <1>1, <1>2, <2>1, <2>2, Replaces, SMT DEF Last
    <2>4. \A t \in DOMAIN subs' : SubInv(subs'[t])
      BY <2>2, <2>3, Zenon DEF ClientInv
    <2>5. Undisturbed' \/ ~Watching
      BY <1>1, <2>2, <2>3, Zenon DEF ClientInv, Undisturbed
    <2>6. CASE reflector' \in Reflectors /\ reflector'.at = "check" /\ UNCHANGED store
      <3>1. ~Watching'
        BY <2>6, Zenon DEF Watching
      <3>2. ClientTypeOK'
        BY <1>1, <2>3, <2>6, Zenon DEF ClientInv, ClientTypeOK
      <3>3. ClientInv'
        BY <2>4, <3>1, <3>2, Zenon DEF ClientInv, Undisturbed
      <3> QED
        BY <1>1, <2>6, <3>1, <3>3, LeaveStep, Zenon
    <2>7. CASE Head(sub.resp) # Error /\ store' = Head(sub.resp) /\ UNCHANGED reflector
      <3>1. Watching'
        BY <1>1, <2>7, Zenon DEF Watching
      <3>2. Pending(sub) \in Seq(Values)
        BY <1>2, PartTypes, Zenon
      <3>3. store' \in Values
        BY <2>2, <2>7, <3>2, HeadTailProperties, Zenon
      <3>4. ClientTypeOK'
        BY <1>1, <2>3, <2>7, <3>3, Zenon DEF ClientInv, ClientTypeOK
      <3>5. ClientInv'
        BY <1>1, <2>4, <2>5, <3>4, Zenon DEF ClientInv
      <3>6. /\ watchBar["vm"] = "listed" /\ watchBar' = watchBar
            /\ towerBar' = towerBar /\ syncedBar' = syncedBar
        BY <1>1, <2>7, Zenon DEF watchBar, towerBar, syncedBar
      <3>7. /\ EventsOf(Pending(sub)) # <<>>
            /\ Head(EventsOf(Pending(sub))) = Event(Head(Pending(sub)))
            /\ Tail(EventsOf(Pending(sub))) = EventsOf(Tail(Pending(sub)))
        BY <2>2, <2>7, <3>2, EventsTail, Zenon
      <3>8. EventsOf(Pending(subs[Last]))' = Tail(EventsOf(Pending(sub)))
        BY <2>2, <2>3, <2>7, <3>7, Zenon
      <3>9. /\ chanBar = [t \in {"vm"} |-> EventsOf(Pending(sub))]
            /\ chanBar' = [t \in {"vm"} |-> Tail(EventsOf(Pending(sub)))]
        BY <1>1, <3>1, <3>8, Zenon DEF chanBar
      <3>10. chanBar["vm"] # <<>> /\ chanBar' = [chanBar EXCEPT !["vm"] = Tail(@)]
        BY <3>7, <3>9, Zenon
      <3>11. /\ Head(chanBar["vm"]).object = Object
             /\ Head(chanBar["vm"]).value = Head(Pending(sub))
        <4>1. chanBar["vm"] = EventsOf(Pending(sub))
          BY <3>9, Zenon
        <4>2. Head(chanBar["vm"]) = Event(Head(Pending(sub)))
          BY <3>7, <4>1, Zenon
        <4> QED
          BY <4>2, SMT DEF Event
      <3>12. storeBar' = [storeBar EXCEPT ![Object] = Head(Pending(sub))]
        BY <2>2, <2>7, Zenon DEF storeBar
      <3> QED
        BY <3>5, <3>6, <3>10, <3>11, <3>12, Zenon DEF Informer!eventHandler
    <2> QED
      BY <1>4, <2>6, <2>7, Leaving, Zenon DEF watchHandler
  <1> QED
    BY <1>3, <1>4, Zenon

\* Steps on the way from one subscription to the next.
LEMMA BetweenSteps ==
  ASSUME MaxChanges \in Nat, ClientInv, Expire \/ stopWatch \/ watchErrorHandler
  PROVE  ClientInv' /\ (UNCHANGED Informer!informerVars \/ Informer!InformerRestart)
  <1>1. /\ store \in Values /\ synced \in BOOLEAN /\ subs \in Seq(Subscriptions) /\ tower \in Values
        /\ reflector \in Reflectors
    BY Zenon DEF ClientInv, ClientTypeOK
  <1>2. CASE Expire
    <2>1. UNCHANGED <<tower, subs, reflector, store, synced, changes>>
      BY <1>2, Zenon DEF Expire
    <2>2. ClientInv'
      BY <2>1, Zenon DEF ClientInv, ClientTypeOK, Undisturbed, Watching, Last
    <2>3. UNCHANGED Informer!informerVars
      BY <2>1, Zenon DEF Informer!informerVars, towerBar, watchBar, chanBar, storeBar, syncedBar,
                         Watching, Last
    <2> QED
      BY <2>2, <2>3, Zenon
  <1>3. CASE watchErrorHandler
    <2>1. /\ reflector.at = "handle" /\ reflector' \in Reflectors /\ reflector'.at = "start"
          /\ UNCHANGED <<tower, subs, store, synced, changes>>
      BY <1>3, Zenon DEF watchErrorHandler, Start, Reflectors
    <2>2. ~Watching /\ ~Watching'
      BY <2>1, Zenon DEF Watching
    <2>3. ClientInv'
      BY <1>1, <2>1, <2>2, SameSubs, Zenon
    <2> QED
      BY <2>1, <2>2, <2>3, AsideSteps, Zenon
  <1>4. CASE stopWatch
    <2>1. CASE /\ reflector.at = "check"
               /\ reflector' = [reflector EXCEPT !.at = IF subs[Last].stop THEN "handle" ELSE "close"]
               /\ UNCHANGED <<tower, token, subs, store, synced, panicked, changes, faults>>
      <3>1. reflector' \in Reflectors /\ reflector'.at \in {"handle", "close"}
        BY <1>1, <2>1, Zenon DEF Reflectors
      <3>2. ~Watching /\ ~Watching'
        BY <2>1, <3>1, Zenon DEF Watching
      <3>3. ClientInv'
        BY <1>1, <2>1, <3>1, <3>2, SameSubs, Zenon
      <3> QED
        BY <2>1, <3>2, <3>3, AsideSteps, Zenon
    <2>2. CASE /\ reflector.at = "close" /\ subs' = [subs EXCEPT ![Last].stop = TRUE]
               /\ reflector' = [reflector EXCEPT !.at = "handle"]
               /\ UNCHANGED <<tower, token, store, synced, panicked, changes, faults>>
      <3>1. reflector' \in Reflectors /\ reflector'.at = "handle"
        BY <1>1, <2>2, Zenon DEF Reflectors
      <3>2. ~Watching /\ ~Watching'
        BY <2>2, <3>1, Zenon DEF Watching
      <3> DEFINE new == [subs[Last] EXCEPT !.stop = TRUE]
      <3>3. Last \in DOMAIN subs /\ subs[Last] \in Subscriptions /\ SubInv(subs[Last])
        BY <2>2, LastSub, Zenon
      <3>4. new \in Subscriptions /\ SubInv(new)
        <4>1. /\ new.resp = subs[Last].resp /\ new.lost = subs[Last].lost
              /\ new.broken = subs[Last].broken /\ new.reader = subs[Last].reader
          BY <3>3, Zenon DEF Subscriptions
        <4> QED
          BY <3>3, <4>1, FieldTypes, Zenon DEF SubInv
      <3>5. subs' = [subs EXCEPT ![Last] = new]
        BY <2>2, Zenon
      <3> HIDE DEF new
      <3>6. /\ subs' \in Seq(Subscriptions) /\ Last' = Last /\ DOMAIN subs' = DOMAIN subs
            /\ subs'[Last] = new /\ \A t \in DOMAIN subs : t # Last => subs'[t] = subs[t]
        BY <1>1, <3>3, <3>4, <3>5, Replaces, SMT DEF Last
      <3>7. ClientTypeOK'
        BY <2>2, <3>1, <3>6, Zenon DEF ClientInv, ClientTypeOK
      <3>8. ClientInv'
        BY <3>2, <3>4, <3>6, <3>7, Zenon DEF ClientInv, Undisturbed
      <3> QED
        BY <2>2, <3>2, <3>8, AsideSteps, Zenon
    <2>3. CASE Panic
      BY <2>3, Panics, Zenon
    <2> QED
      BY <1>4, <2>1, <2>2, <2>3, Zenon DEF stopWatch
  <1> QED
    BY <1>2, <1>3, <1>4, Zenon

\* The reflector over the GraphQL client (listAndWatch, loopReadMessage, its
\* reader, closeChanFunc) does what TowerInformer says, whatever the goroutines of
\* this and of earlier subscriptions do: between the list and the error that ends
\* a subscription every event is handled once, in tower's order; and a panic is
\* no worse than a restart.
THEOREM ClientImplementsInformer ==
  ASSUME MaxChanges \in Nat
  PROVE  Spec => ImplementsInformer
  <1>1. Init => ClientInv /\ InformerStart
    <2> SUFFICES ASSUME Init PROVE ClientInv /\ InformerStart
      BY Zenon
    <2>1. /\ tower = 0 /\ changes = 0 /\ store = 0 /\ synced = FALSE /\ subs = <<>>
          /\ reflector \in Reflectors /\ reflector.at = "start"
      BY Zenon DEF Init, Start, Reflectors
    <2>2. 0 \in Values /\ <<>> \in Seq(Subscriptions) /\ DOMAIN subs = {}
      BY <2>1, SMT DEF Values
    <2>3. ~Watching
      BY <2>1, Zenon DEF Watching
    <2>4. ClientInv
      BY <2>1, <2>2, <2>3, Zenon DEF ClientInv, ClientTypeOK, Undisturbed
    <2>5. storeBar = [o \in {Object} |-> 0] /\ syncedBar = [t \in {"vm"} |-> FALSE]
      BY <2>1, Zenon DEF storeBar, syncedBar
    <2> QED
      BY <2>3, <2>4, <2>5, Bars, Zenon DEF InformerStart, Informer!InformerInit
  <1>2. ClientInv /\ [Next]_vars => ClientInv' /\ InformerStep
    <2> SUFFICES ASSUME ClientInv, [Next]_vars PROVE ClientInv' /\ InformerStep
      BY Zenon
    <2>1. Informer!InformerNext(Values) \/ UNCHANGED Informer!informerVars => InformerStep
      BY Zenon DEF InformerStep, Values
    <2>2. "vm" \in Informer!Types /\ Object \in {Object}
      BY Bars, Zenon
    <2>3. CASE Change
      BY <2>1, <2>2, <2>3, ChangeStep, Zenon DEF Informer!InformerNext
    <2>4. CASE Subscription
      BY <2>1, <2>2, <2>4, SubscriptionStep, Zenon DEF Informer!InformerNext
    <2>5. CASE Query
      BY <2>1, <2>2, <2>5, QueryStep, Zenon DEF Informer!InformerNext
    <2>6. CASE watchHandler
      BY <2>1, <2>2, <2>6, HandlerStep, Zenon DEF Informer!InformerNext
    <2>7. CASE Expire \/ stopWatch \/ watchErrorHandler
      BY <2>1, <2>7, BetweenSteps, Zenon DEF Informer!InformerNext
    <2>8. CASE \E s \in DOMAIN subs : Break(s) \/ Reader(s) \/ loopReadMessage(s)
      BY <2>1, <2>8, ConnectionSteps, ReaderSteps, Zenon DEF Informer!InformerNext
    <2>9. CASE UNCHANGED vars
      <3>1. UNCHANGED <<tower, subs, reflector, store, synced, changes>>
        BY <2>9, Zenon DEF vars
      <3>2. ClientInv'
        BY <3>1, Zenon DEF ClientInv, ClientTypeOK, Undisturbed, Watching, Last
      <3>3. UNCHANGED Informer!informerVars
        BY <3>1, Zenon DEF Informer!informerVars, towerBar, watchBar, chanBar, storeBar, syncedBar,
                           Watching, Last
      <3> QED
        BY <2>1, <3>2, <3>3, Zenon
    <2> QED
      BY <2>3, <2>4, <2>5, <2>6, <2>7, <2>8, <2>9, Zenon DEF Next, reflectWorker
  <1> QED
    BY <1>1, <1>2, PTL DEF Spec, ImplementsInformer
===============================================================================
