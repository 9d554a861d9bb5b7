---------------------------- MODULE InterfaceProofs ----------------------------
(* Proofs about interfaces and their Endpoints: the flows and the table of a   *)
(* node's local endpoints, and the Endpoints of tower's vnics.                  *)
EXTENDS LocalEndpoint, TowerEndpoint, TLAPS

------------------------------------------------------------------------------
(* LocalEndpoint. *)

Rows == [port : Ports \cup {-1}, mode : Modes \cup {0}]

Steps == {"Added", "Updated", "PortUpdate", "Deleted",
          "AddLocalEndpoint", "UpdateLocalEndpoint", "RemoveLocalEndpoint"}

Tasks == [id : Nat, step : Steps, iface : Ifaces, old : Rows, new : Rows]

Flows == [Ports -> Modes \cup {0, NoFlow}]

LocalTypeOK ==
    /\ row \in [Ifaces -> Rows] /\ db \in [Ifaces -> Rows] /\ hwAddr \in [Ifaces -> Ports]
    /\ tasks \in SUBSET Tasks
    /\ flow \in Flows /\ sw \in Flows
    /\ replay \in BOOLEAN /\ up \in BOOLEAN
    /\ ports \in Ports /\ rowChanges \in Nat

\* What a callback is given: port numbers of interfaces that have one.
TaskOK(t) ==
    /\ t.step = "Updated" => t.new.port > 0
    /\ t.step = "AddLocalEndpoint" => t.new.port > 0
    /\ t.step = "UpdateLocalEndpoint" =>
         /\ t.old.port \in Ports /\ t.new.port \in Ports
         /\ t.new.port > 0 \/ t.new.port = t.old.port
    /\ t.step = "RemoveLocalEndpoint" => t.old.port \in Ports

\* Interface i has or had port p.
Has(i, p) ==
    \/ row[i].port = p \/ hwAddr[i] = p \/ db[i].port = p
    \/ \E t \in tasks : t.iface = i /\ p \in {t.old.port, t.new.port}

\* OVS does not give a port number out twice.
PortsOwned ==
    \A p \in Ports \ {0} :
        \A i \in Ifaces : Has(i, p) => p <= ports /\ \A j \in Ifaces : Has(j, p) => j = i

\* The flows f are those of the endpoints in localEndpointDB that have some.
AreFlows(f) ==
    \A p \in Ports :
        /\ \A i \in Ifaces \ Skipped : db[i].port = p => f[p] = db[i].mode
        /\ (\A i \in Ifaces \ Skipped : db[i].port # p) => f[p] = NoFlow

LocalInv ==
    /\ LocalTypeOK
    /\ \A t \in tasks : TaskOK(t)
    /\ PortsOwned
    /\ \A i \in Ifaces : db[i] = NoRow \/ db[i].port > 0
    /\ AreFlows(flow)
    /\ up /\ ~replay => AreFlows(sw)
    /\ replay => \A p \in Ports : sw[p] # NoFlow => \E i \in Ifaces \ Skipped : db[i].port = p
    /\ ~up => ~replay /\ tasks = {} /\ \A i \in Ifaces : db[i] = NoRow /\ hwAddr[i] = 0

LEMMA RowType ==
  ASSUME NEW p \in Ports \cup {-1}, NEW m \in Modes \cup {0}
  PROVE  Row(p, m) \in Rows /\ Row(p, m).port = p /\ Row(p, m).mode = m
  BY Zenon DEF Row, Rows

LEMMA NoRowType == NoRow \in Rows /\ NoRow.port = -1 /\ NoRow.mode = 0
  BY Zenon DEF NoRow, Rows

LEMMA RowFields == ASSUME NEW r \in Rows PROVE r.port \in Ports \cup {-1} /\ r.mode \in Modes \cup {0}
  BY Zenon DEF Rows

LEMMA PortZero == 0 \in Ports /\ Ports \subseteq Nat /\ -1 \notin Modes \cup {0}
  BY LocalAssumption DEF Ports, Modes

\* The flows of the table, as FlowsFollowDB spells them.
LEMMA Chosen ==
  ASSUME LocalInv, NEW p \in Ports, NEW other
  PROVE  /\ \A i \in Ifaces \ Skipped : db[i].port = p => ModeAt(p, other) = db[i].mode
         /\ (\A i \in Ifaces \ Skipped : db[i].port # p) => ModeAt(p, other) = other
  <1>1. ASSUME NEW i \in Ifaces \ Skipped, db[i].port = p PROVE ModeAt(p, other) = db[i].mode
    <2>1. p # 0
      BY <1>1, NoRowType, PortZero DEF LocalInv
    <2>2. \A j \in Ifaces : db[j].port = p => j = i
      BY <1>1, <2>1, Zenon DEF LocalInv, PortsOwned, Has
    <2> DEFINE E == {db[j] : j \in Ifaces \ Skipped}
               e == CHOOSE x \in E : x.port = p
    <2>3. \E x \in E : x.port = p
      BY <1>1, Zenon
    <2>4. e \in E /\ e.port = p
      BY <2>3, Zenon
    <2>5. PICK j \in Ifaces \ Skipped : e = db[j]
      BY <2>4, Zenon
    <2>6. ModeAt(p, other) = e.mode
      BY <1>1, Zenon DEF ModeAt
    <2> QED
      BY <2>2, <2>4, <2>5, <2>6, Zenon
  <1> QED
    BY <1>1, Zenon DEF ModeAt

LEMMA LocalInvImplies == LocalInv => FlowsFollowDB
  <1> SUFFICES ASSUME LocalInv, up, ~replay PROVE sw = [p \in Ports |-> ModeAt(p, NoFlow)]
    BY Zenon DEF FlowsFollowDB
  <1>1. sw \in Flows /\ AreFlows(sw)
    BY Zenon DEF LocalInv, LocalTypeOK
  <1>2. ASSUME NEW p \in Ports PROVE sw[p] = ModeAt(p, NoFlow)
    <2>1. /\ \A i \in Ifaces \ Skipped : db[i].port = p => ModeAt(p, NoFlow) = db[i].mode
          /\ (\A i \in Ifaces \ Skipped : db[i].port # p) => ModeAt(p, NoFlow) = NoFlow
      BY Chosen, Zenon
    <2>2. /\ \A i \in Ifaces \ Skipped : db[i].port = p => sw[p] = db[i].mode
          /\ (\A i \in Ifaces \ Skipped : db[i].port # p) => sw[p] = NoFlow
      BY <1>1, Zenon DEF AreFlows
    <2>3. CASE \E i \in Ifaces \ Skipped : db[i].port = p
      <3>1. PICK i \in Ifaces \ Skipped : db[i].port = p
        BY <2>3, Zenon
      <3> QED
        BY <2>1, <2>2, <3>1, Zenon
    <2> QED
      BY <2>1, <2>2, <2>3, Zenon
  <1> QED
    BY <1>1, <1>2, Zenon DEF Flows

LEMMA LocalInitInv == LocalInit => LocalInv
  <1> SUFFICES ASSUME LocalInit PROVE LocalInv
    BY Zenon
  <1> USE PortZero, NoRowType
  <1>1. LocalTypeOK
    <2>1. Nothing \in Flows
      BY Zenon DEF Nothing, Flows
    <2> QED
      BY <2>1, Zenon DEF LocalInit, LocalTypeOK
  <1>2. \A i \in Ifaces, p \in Ports \ {0} : ~Has(i, p)
    BY DEF LocalInit, Has
  <1>3. AreFlows(flow) /\ AreFlows(sw)
    BY DEF LocalInit, AreFlows, Nothing
  <1> QED
    BY <1>1, <1>2, <1>3, Zenon DEF LocalInit, LocalInv, PortsOwned

------------------------------------------------------------------------------
\* The monitor: rows and filters.  They leave the table and the flows alone.

LEMMA OwnedKept ==
  ASSUME LocalInv, ports' = ports,
         \A i \in Ifaces, p \in Ports \ {0} : Has(i, p)' => Has(i, p)
  PROVE  PortsOwned'
  BY Zenon DEF LocalInv, PortsOwned

LEMMA FlowsLeft ==
  ASSUME LocalInv, UNCHANGED <<db, flow, sw, replay, up>>
  PROVE  /\ \A i \in Ifaces : db'[i] = NoRow \/ db'[i].port > 0
         /\ AreFlows(flow)'
         /\ up' /\ ~replay' => AreFlows(sw)'
         /\ replay' => \A p \in Ports : sw'[p] # NoFlow => \E i \in Ifaces \ Skipped : db'[i].port = p
  BY Zenon DEF LocalInv, AreFlows

\* handleOvsUpdates, but for what it records in missed.
Arrives(i, new, steps) ==
    /\ row' = [row EXCEPT ![i] = new]
    /\ \A t \in tasks' : t \in tasks \/ (up /\ \E s \in steps : t = Task(rowChanges', s, i, row[i], new))
    /\ rowChanges' = rowChanges + 1
    /\ UNCHANGED <<hwAddr, db, flow, sw, replay, up>>

LEMMA RowsInv ==
  ASSUME LocalInv, NEW i \in Ifaces, NEW new \in Rows, NEW steps, Arrives(i, new, steps),
         steps \subseteq {"Added", "Updated", "PortUpdate", "Deleted"},
         "Updated" \in steps => new.port > 0,
         \/ ports' = ports /\ (new.port \in {-1, 0, row[i].port})
         \/ ports' = ports + 1 /\ ports < MaxPort /\ new.port = ports'
  PROVE  LocalInv'
  <1>1. row' = [row EXCEPT ![i] = new] /\ rowChanges' = rowChanges + 1
        /\ UNCHANGED <<hwAddr, db, flow, sw, replay, up>>
    BY Zenon DEF Arrives
  <1>2. row[i] \in Rows /\ rowChanges' \in Nat
    <2>1. row[i] \in Rows /\ rowChanges \in Nat
      BY Zenon DEF LocalInv, LocalTypeOK
    <2> QED
      BY <1>1, <2>1
  <1>3. ASSUME NEW t \in tasks', t \notin tasks
        PROVE  t \in Tasks /\ TaskOK(t) /\ t.iface = i /\ t.old = row[i] /\ t.new = new /\ up
    <2>4. up
      BY <1>3, Zenon DEF Arrives
    <2>1. PICK s \in steps : t = Task(rowChanges', s, i, row[i], new)
      BY <1>3, Zenon DEF Arrives
    <2>2. s \in Steps
      BY Zenon DEF Steps
    <2>3. t \in Tasks /\ t.step = s /\ t.iface = i /\ t.old = row[i] /\ t.new = new
      BY <1>2, <2>1, <2>2, Zenon DEF Task, Tasks
    <2> QED
      BY <2>3, <2>4, Zenon DEF TaskOK
  <1>4. ports' \in Ports /\ ports \in Ports
    BY LocalAssumption DEF LocalInv, LocalTypeOK, Ports
  <1>5. LocalTypeOK'
    BY <1>1, <1>2, <1>3, <1>4 DEF LocalInv, LocalTypeOK
  <1>6. row'[i] = new /\ \A j \in Ifaces : j # i => row'[j] = row[j]
    BY <1>1, Zenon DEF LocalInv, LocalTypeOK
  <1>7. ASSUME NEW j \in Ifaces, NEW p \in Ports \ {0}, Has(j, p)'
        PROVE  Has(j, p) \/ (j = i /\ p = new.port)
    BY <1>1, <1>3, <1>6, <1>7, Zenon DEF Has
  <1>8. PortsOwned'
    <2>1. CASE ports' = ports /\ new.port \in {-1, 0, row[i].port}
      <3>1. \A j \in Ifaces, p \in Ports \ {0} : Has(j, p)' => Has(j, p)
        BY <1>7, <2>1, PortZero DEF Has
      <3> QED
        BY <2>1, <3>1, OwnedKept, Zenon
    <2>2. CASE ports' = ports + 1 /\ new.port = ports'
      <3> SUFFICES ASSUME NEW p \in Ports \ {0}, NEW j \in Ifaces, Has(j, p)'
                   PROVE  p <= ports' /\ \A k \in Ifaces : Has(k, p)' => k = j
        BY Zenon DEF PortsOwned
      <3>1. \A k \in Ifaces : Has(k, p) => p <= ports /\ \A l \in Ifaces : Has(l, p) => l = k
        BY Zenon DEF LocalInv, PortsOwned
      <3>2. \A k \in Ifaces : Has(k, p)' => Has(k, p) \/ (k = i /\ p = ports')
        BY <1>7, <2>2, Zenon
      <3>3. CASE p = ports'
        BY <1>4, <2>2, <3>1, <3>2, <3>3, PortZero
      <3>4. CASE p # ports'
        BY <1>4, <2>2, <3>1, <3>2, <3>4, PortZero
      <3> QED
        BY <3>3, <3>4, Zenon
    <2> QED
      BY <2>1, <2>2, Zenon
  <1>9. ~up' => ~replay' /\ tasks' = {} /\ \A j \in Ifaces : db'[j] = NoRow /\ hwAddr'[j] = 0
    BY <1>1, <1>3, Zenon DEF LocalInv
  <1>10. \A t \in tasks' : TaskOK(t)
    BY <1>1, <1>3, Zenon DEF LocalInv
  <1> QED
    BY <1>1, <1>5, <1>8, <1>9, <1>10, FlowsLeft, Zenon DEF LocalInv

LEMMA MonitorInv ==
  ASSUME LocalInv, NEW i \in Ifaces,
         \/ SetOfPort(i) \/ SetOfPortAndIDs(i) \/ LoseOfPort(i) \/ DelPort(i)
         \/ \E tag \in Tags : AddPort(i, tag)
         \/ \E mode \in Modes : SetMode(i, mode)
  PROVE  LocalInv'
  <1>1. row[i] \in Rows /\ ports \in Ports
    BY Zenon DEF LocalInv, LocalTypeOK
  <1>2. row[i].port \in Ports \cup {-1} /\ row[i].mode \in Modes \cup {0} /\ 0 \in Ports \cup {-1}
    BY <1>1, RowFields, PortZero, Zenon
  <1>3. ports < MaxPort => ports + 1 \in Ports
    BY <1>1, LocalAssumption DEF Ports
  <1>4. CASE SetOfPort(i)
    <2>1. ports < MaxPort /\ ports' = ports + 1
      BY <1>4, Zenon DEF SetOfPort
    <2>2. PICK r \in Rows : r = Row(ports', row[i].mode) /\ r.port = ports'
      BY <1>2, <1>3, <2>1, RowType, Zenon
    <2>3. Arrives(i, r, {"Added"})
      <3>1. handleOvsUpdates(i, Row(ports', row[i].mode), {"Added"}, row[i].port = 0)
        BY <1>4, Zenon DEF SetOfPort
      <3>2. Arrives(i, Row(ports', row[i].mode), {"Added"})
        BY <3>1, Zenon DEF handleOvsUpdates, Arrives
      <3> QED
        BY <2>2, <3>2, Zenon DEF Arrives
    <2> QED
      BY <2>1, <2>2, <2>3, RowsInv, Zenon
  <1>5. CASE SetOfPortAndIDs(i)
    <2>1. ports < MaxPort /\ ports' = ports + 1
      BY <1>5, Zenon DEF SetOfPortAndIDs
    <2>2. PICK r \in Rows : r = Row(ports', row[i].mode) /\ r.port = ports'
      BY <1>2, <1>3, <2>1, RowType, Zenon
    <2>3. Arrives(i, r, {"Updated"})
      <3>1. handleOvsUpdates(i, r, {"Updated"}, row[i].port > 0)
        BY <1>5, <2>2, Zenon DEF SetOfPortAndIDs
      <3> QED
        BY <3>1, Zenon DEF handleOvsUpdates, Arrives
    <2>4. r.port > 0
      <3>1. ports \in Nat
        BY <1>1, PortZero, Zenon
      <3> QED
        BY <2>1, <2>2, <3>1
    <2> QED
      BY <2>1, <2>2, <2>3, <2>4, RowsInv, Zenon
  <1>6. CASE LoseOfPort(i)
    <2>1. PICK r \in Rows : r = Row(0, row[i].mode) /\ r.port = 0
      BY <1>2, RowType
    <2>2. Arrives(i, r, {}) /\ ports' = ports
      BY <1>6, <2>1, Zenon DEF LoseOfPort, handleOvsUpdates, Arrives
    <2> QED
      BY <2>1, <2>2, RowsInv, Zenon
  <1>7. CASE DelPort(i)
    <2>1. Arrives(i, NoRow, {"Deleted"}) /\ ports' = ports
      BY <1>7, Zenon DEF DelPort, handleOvsUpdates, Arrives
    <2> QED
      BY <2>1, NoRowType, RowsInv, Zenon
  <1>8. CASE \E tag \in Tags : AddPort(i, tag)
    <2>1. PICK tag \in Tags : AddPort(i, tag)
      BY <1>8, Zenon
    <2>2. PICK r \in Rows : r = Row(0, tag) /\ r.port = 0
      BY <1>2, RowType DEF Modes
    <2>3. Arrives(i, r, {}) /\ ports' = ports
      BY <2>1, <2>2, Zenon DEF AddPort, handleOvsUpdates, Arrives
    <2> QED
      BY <2>2, <2>3, RowsInv, Zenon
  <1>9. CASE \E mode \in Modes : SetMode(i, mode)
    <2>1. PICK mode \in Modes : SetMode(i, mode)
      BY <1>9, Zenon
    <2>2. PICK r \in Rows : r = Row(row[i].port, mode) /\ r.port = row[i].port
      BY <1>2, RowType
    <2>4. Arrives(i, r, {"PortUpdate"}) /\ ports' = ports
      BY <2>1, <2>2, SMTT(30) DEF SetMode, handleOvsUpdates, Arrives
    <2> QED
      BY <2>2, <2>4, RowsInv, Zenon
  <1> QED
    BY <1>4, <1>5, <1>6, <1>7, <1>8, <1>9, Zenon

\* The process is gone.
LEMMA DownInv ==
  ASSUME LocalInv, Down, UNCHANGED <<row, ports, rowChanges>>
  PROVE  LocalInv'
  <1> USE PortZero, NoRowType
  <1>1. LocalTypeOK'
    <2>1. Nothing \in Flows
      BY Zenon DEF Nothing, Flows
    <2> QED
      BY <2>1, Zenon DEF LocalInv, LocalTypeOK, Down
  <1>2. \A j \in Ifaces, p \in Ports \ {0} : Has(j, p)' => Has(j, p)
    BY DEF Down, Has
  <1>3. AreFlows(flow)'
    BY DEF Down, AreFlows, Nothing
  <1> QED
    BY <1>1, <1>2, <1>3, OwnedKept, Zenon DEF Down, LocalInv

LEMMA FilterInv ==
  ASSUME LocalInv, NEW t \in tasks, Filter(t), ~Down
  PROVE  LocalInv'
  <1> DEFINE i == t.iface
             port == IF t.old.port > 0 THEN t.old.port ELSE hwAddr[i]
  <1>1. UNCHANGED <<row, db, flow, sw, replay, up, ports, rowChanges>>
    BY Zenon DEF Filter, filterEndpointAdded, filterEndpointUpdated, filterEndpointDeleted,
                 processPortUpdate, datapath
  <1>2. t \in Tasks /\ TaskOK(t) /\ i \in Ifaces /\ t.old \in Rows /\ t.new \in Rows /\ t.id \in Nat
        /\ row[i] \in Rows /\ hwAddr[i] \in Ports /\ up
    BY Zenon DEF LocalInv, LocalTypeOK, Tasks
  <1>3. t.old.port \in Ports \cup {-1} /\ t.new.port \in Ports \cup {-1} /\ row[i].port \in Ports \cup {-1}
        /\ t.old.mode \in Modes \cup {0} /\ t.new.mode \in Modes \cup {0}
        /\ row[i].mode \in Modes \cup {0}
    BY <1>2, RowFields, Zenon
  <1> DEFINE OK(u) == /\ u \in Tasks /\ TaskOK(u) /\ u.iface = i
                      /\ u.old.port \in {t.old.port, row[i].port, hwAddr[i]}
                      /\ u.new.port \in {t.new.port, row[i].port, hwAddr[i]}
  <1>4. \A v \in tasks' : v \in tasks \/ OK(v)
    <2>1. \A p \in Ports \cup {-1} : interfaceToEndpoint(i, p) \in Rows
                                   /\ interfaceToEndpoint(i, p).port = p
      BY <1>3, RowType, Zenon DEF interfaceToEndpoint
    <2> HIDE DEF i
    <2>2. CASE filterEndpointAdded(t)
      <3> DEFINE u == Task(t.id, "AddLocalEndpoint", i, t.old, interfaceToEndpoint(i, t.new.port))
      <3>1. \A v \in tasks' : v \in tasks \/ (t.new.port > 0 /\ v = u)
        BY <2>2, Zenon DEF filterEndpointAdded, Starts, i
      <3>2. u \in Tasks /\ u.step = "AddLocalEndpoint" /\ u.iface = i /\ u.old = t.old
            /\ u.new.port = t.new.port
        BY <1>2, <1>3, <2>1, Zenon DEF Steps, Task, Tasks
      <3> HIDE DEF u
      <3>3. t.new.port > 0 => TaskOK(u)
        BY <3>2, Zenon DEF TaskOK
      <3> QED
        BY <3>1, <3>2, <3>3, Zenon
    <2>3. CASE filterEndpointUpdated(t)
      BY <2>3, Zenon DEF filterEndpointUpdated, Starts
    <2>4. CASE filterEndpointDeleted(t)
      <3> DEFINE u == Task(t.id, "RemoveLocalEndpoint", i, Row(port, t.old.mode), t.new)
      <3>1. \A v \in tasks' : v \in tasks \/ (v = u)
        BY <2>4, Zenon DEF filterEndpointDeleted, Starts, i
      <3>2. port \in Ports /\ port \in {t.old.port, hwAddr[i]}
        BY <1>2, <1>3, PortZero
      <3> HIDE DEF port
      <3>3. u \in Tasks /\ u.step = "RemoveLocalEndpoint" /\ u.iface = i /\ u.old.port = port
            /\ u.new = t.new
        BY <1>2, <1>3, <3>2, RowType, Zenon DEF Steps, Task, Tasks
      <3> HIDE DEF u
      <3>4. TaskOK(u)
        BY <3>2, <3>3, Zenon DEF TaskOK
      <3> QED
        BY <3>1, <3>2, <3>3, <3>4, Zenon
    <2>5. CASE processPortUpdate(t)
      <3> DEFINE p == OfPort(i)
      <3>1. p \in Ports /\ p \in {row[i].port, hwAddr[i]}
        BY <1>2, <1>3, PortZero DEF OfPort
      <3> DEFINE new == {Row(p, t.new.mode), interfaceToEndpoint(i, p)}
      <3>2. \A v \in tasks' :
              v \in tasks \/ \E e \in new : v = Task(t.id, "UpdateLocalEndpoint", i, Row(p, t.old.mode), e)
        BY <2>5, Zenon DEF processPortUpdate, Starts, filterPortVlanModeUpdate, filterPortVlanTagUpdate, i
      <3> HIDE DEF p
      <3>3. \A e \in new : e \in Rows /\ e.port = p
        BY <1>3, <2>1, <3>1, RowType
      <3>4. Row(p, t.old.mode) \in Rows /\ Row(p, t.old.mode).port = p
        BY <1>3, <3>1, RowType, Zenon
      <3>5. ASSUME NEW e \in new, NEW u, u = Task(t.id, "UpdateLocalEndpoint", i, Row(p, t.old.mode), e)
            PROVE  u \in Tasks /\ TaskOK(u) /\ u.iface = i /\ u.old.port = p /\ u.new.port = p
        <4>1. u \in Tasks /\ u.step = "UpdateLocalEndpoint" /\ u.iface = i /\ u.old.port = p
              /\ u.new.port = p
          BY <1>2, <3>3, <3>4, <3>5, Zenon DEF Steps, Task, Tasks
        <4> QED
          BY <3>1, <4>1, Zenon DEF TaskOK
      <3> QED
        BY <3>1, <3>2, <3>5, Zenon
    <2> QED
      BY <2>2, <2>3, <2>4, <2>5, Zenon DEF Filter
  <1>5. hwAddr' \in [Ifaces -> Ports] /\ (\A j \in Ifaces : j # i => hwAddr'[j] = hwAddr[j])
        /\ hwAddr'[i] \in {hwAddr[i], t.new.port, 0}
    <2>1. hwAddr \in [Ifaces -> Ports]
      BY Zenon DEF LocalInv, LocalTypeOK
    <2>2. CASE filterEndpointAdded(t)
      BY <1>2, <1>3, <2>1, <2>2, PortZero DEF filterEndpointAdded
    <2>3. CASE filterEndpointUpdated(t)
      BY <1>2, <1>3, <2>1, <2>3, PortZero DEF filterEndpointUpdated, TaskOK
    <2>4. CASE filterEndpointDeleted(t)
      BY <1>2, <1>3, <2>1, <2>4, PortZero, Zenon DEF filterEndpointDeleted
    <2>5. CASE processPortUpdate(t)
      BY <2>1, <2>5, Zenon DEF processPortUpdate
    <2> QED
      BY <2>2, <2>3, <2>4, <2>5, Zenon DEF Filter
  <1>6. LocalTypeOK'
    BY <1>1, <1>4, <1>5, Zenon DEF LocalInv, LocalTypeOK
  <1>7. \A u \in tasks' : TaskOK(u)
    BY <1>4, Zenon DEF LocalInv
  <1>8. PortsOwned'
    <2>1. ASSUME NEW j \in Ifaces, NEW p \in Ports \ {0}, Has(j, p)' PROVE Has(j, p)
      <3>1. row' = row /\ db' = db
        BY <1>1, Zenon
      <3>2. \A u \in tasks' : u.iface = j /\ p \in {u.old.port, u.new.port} => Has(j, p)
        BY <1>4, ZenonT(60) DEF Has
      <3>3. hwAddr'[j] = p => Has(j, p)
        BY <1>5, Zenon DEF Has
      <3> QED
        BY <2>1, <3>1, <3>2, <3>3, Zenon DEF Has
    <2> QED
      BY <1>1, <2>1, OwnedKept, Zenon
  <1> QED
    BY <1>1, <1>2, <1>6, <1>7, <1>8, FlowsLeft, Zenon DEF LocalInv

------------------------------------------------------------------------------
\* The datapath: what the callbacks do to the table and the flows.

\* An interface with a pending callback has no port of another's.
LEMMA OthersPorts ==
  ASSUME LocalInv, NEW t \in tasks, NEW j \in Ifaces, j # t.iface
  PROVE  /\ db[j].port = t.old.port => db[j] = NoRow
         /\ db[j].port = t.new.port => db[j] = NoRow
  <1>1. t.iface \in Ifaces /\ db[j] \in Rows
    BY Zenon DEF LocalInv, LocalTypeOK, Tasks
  <1>2. db[j] = NoRow \/ db[j].port \in Ports \ {0}
    BY <1>1, RowFields DEF LocalInv
  <1>3. \A p \in Ports \ {0} : Has(j, p) /\ Has(t.iface, p) => j = t.iface
    BY <1>1, Zenon DEF LocalInv, PortsOwned
  <1> QED
    BY <1>2, <1>3, Zenon DEF Has

\* Flows that follow the table: nothing but flows of it while a replay is due.
Follow(f) ==
    IF replay THEN \A p \in Ports : f[p] # NoFlow => \E i \in Ifaces \ Skipped : db[i].port = p
    ELSE AreFlows(f)

\* The endpoint of interface i, at port old or not in the table, becomes ep; its
\* port is no other endpoint's.
\* g is f with the flow of port old removed and then that of ep added.
IsMoved(f, g, ep, old) ==
    /\ g \in Flows
    /\ \A p \in Ports : g[p] = IF p = ep.port THEN ep.mode ELSE IF p = old THEN NoFlow ELSE f[p]

LEMMA Moved ==
  ASSUME LocalInv, NEW i \in Ifaces \ Skipped, NEW ep \in Rows, NEW old \in Ports,
         db' = [db EXCEPT ![i] = ep], replay' = replay,
         db[i] = NoRow \/ db[i].port = old,
         \A j \in Ifaces : j # i /\ db[j] # NoRow => db[j].port # old /\ db[j].port # ep.port,
         NEW f, NEW g, IsMoved(f, g, ep, old)
  PROVE  (AreFlows(f) => AreFlows(g)') /\ (Follow(f) => Follow(g)')
  <1>1. db'[i] = ep /\ \A j \in Ifaces : j # i => db'[j] = db[j]
    BY Zenon DEF LocalInv, LocalTypeOK
  <1>2. \A j \in Ifaces, p \in Ports : j # i /\ db[j].port = p => p # old /\ p # ep.port
    BY NoRowType, PortZero
  <1>3. \A p \in Ports : p # old => db[i].port # p
    BY NoRowType, PortZero
  <1> USE DEF IsMoved
  <1>4. ASSUME AreFlows(f), NEW p \in Ports
        PROVE  /\ \A k \in Ifaces \ Skipped : db'[k].port = p => g[p] = db'[k].mode
               /\ (\A k \in Ifaces \ Skipped : db'[k].port # p) => g[p] = NoFlow
    <2>1. CASE p = ep.port
      BY <1>1, <1>2, <2>1
    <2>2. CASE p = old /\ p # ep.port
      BY <1>1, <1>2, <2>2, Zenon
    <2>3. CASE p # old /\ p # ep.port
      <3>1. \A k \in Ifaces \ Skipped : db'[k].port = p <=> db[k].port = p
        BY <1>1, <1>3, <2>3, Zenon
      <3>2. \A k \in Ifaces \ Skipped : db[k].port = p => db'[k] = db[k]
        BY <1>1, <1>3, <2>3, Zenon
      <3>3. (\A k \in Ifaces \ Skipped : db[k].port = p => f[p] = db[k].mode)
            /\ ((\A k \in Ifaces \ Skipped : db[k].port # p) => f[p] = NoFlow)
        BY <1>4, Zenon DEF AreFlows
      <3> QED
        BY <2>3, <3>1, <3>2, <3>3, Zenon
    <2> QED
      BY <2>1, <2>2, <2>3, Zenon
  <1>5. AreFlows(f) => AreFlows(g)'
    BY <1>4, Zenon DEF AreFlows
  <1>6. ASSUME replay, Follow(f), NEW p \in Ports, g[p] # NoFlow
        PROVE  \E k \in Ifaces \ Skipped : db'[k].port = p
    <2>1. CASE p = ep.port
      BY <1>1, <2>1, Zenon
    <2>2. CASE p # ep.port
      <3>1. p # old /\ f[p] # NoFlow
        BY <1>6, <2>2, Zenon
      <3>2. PICK k \in Ifaces \ Skipped : db[k].port = p
        BY <1>6, <3>1, Zenon DEF Follow
      <3> QED
        BY <1>1, <1>3, <3>1, <3>2, Zenon
    <2> QED
      BY <2>1, <2>2, Zenon
  <1> QED
    BY <1>5, <1>6, Zenon DEF Follow

\* A callback that ran, with the endpoint it leaves in the table.
LEMMA Called ==
  ASSUME LocalInv, NEW t \in tasks, NEW ep \in Rows,
         ep.port \in {t.new.port, db[t.iface].port, -1}, ep = NoRow \/ ep.port > 0,
         db' = [db EXCEPT ![t.iface] = ep], tasks' \subseteq tasks,
         UNCHANGED <<row, hwAddr, replay, up, ports, rowChanges>>,
         flow' \in Flows, sw' \in Flows, AreFlows(flow)', Follow(sw)'
  PROVE  LocalInv'
  <1>1. t.iface \in Ifaces /\ db \in [Ifaces -> Rows] /\ up
    BY Zenon DEF LocalInv, LocalTypeOK, Tasks
  <1>2. db' \in [Ifaces -> Rows] /\ db'[t.iface] = ep /\ \A j \in Ifaces : j # t.iface => db'[j] = db[j]
    BY <1>1, Zenon
  <1>3. LocalTypeOK'
    BY <1>2, Zenon DEF LocalInv, LocalTypeOK
  <1>4. PortsOwned'
    <2>1. ASSUME NEW j \in Ifaces, NEW p \in Ports \ {0}, Has(j, p)' PROVE Has(j, p)
      <3>1. db'[j].port = p => Has(j, p)
        BY <1>2, PortZero, SMTT(30) DEF Has
      <3> QED
        BY <2>1, <3>1, Zenon DEF Has
    <2> QED
      BY <2>1, OwnedKept, Zenon
  <1>5. \A j \in Ifaces : db'[j] = NoRow \/ db'[j].port > 0
    BY <1>2, Zenon DEF LocalInv
  <1>6. \A u \in tasks' : TaskOK(u)
    BY Zenon DEF LocalInv
  <1>7. (replay' => \A p \in Ports : sw'[p] # NoFlow => \E i \in Ifaces \ Skipped : db'[i].port = p)
        /\ (~replay' => AreFlows(sw)')
    BY Zenon DEF Follow
  <1> QED
    BY <1>1, <1>3, <1>4, <1>5, <1>6, <1>7, Zenon DEF LocalInv

\* What removing a flow finds is a flow of the very endpoint.
LEMMA FlowOwned ==
  ASSUME LocalInv, NEW t \in tasks, t.old.port \in Ports, flow[t.old.port] # NoFlow
  PROVE  db[t.iface].port = t.old.port /\ t.old.port > 0 /\ t.iface \in Ifaces \ Skipped
  <1>1. PICK j \in Ifaces \ Skipped : db[j].port = t.old.port
    BY DEF LocalInv, AreFlows
  <1>2. db[j] # NoRow /\ db[j].port > 0
    BY <1>1, NoRowType, PortZero DEF LocalInv
  <1>3. j = t.iface
    BY <1>1, <1>2, OthersPorts, Zenon
  <1> QED
    BY <1>1, <1>2, <1>3, Zenon

\* What the calls of the bridge leave of its flows.
LEMMA AddedFlows ==
  ASSUME NEW i \in Ifaces \ Skipped, NEW f \in Flows, NEW ep \in Rows, ep.port \in Ports
  PROVE  IsMoved(f, BridgeAdd(i, f, ep), ep, ep.port)
  BY RowFields, Zenon DEF BridgeAdd, Flows, IsMoved

LEMMA RemovedFlows ==
  ASSUME NEW f \in Flows, NEW old \in Ports
  PROVE  IsMoved(f, BridgeRemove(f, old), NoRow, old)
  <1>1. BridgeRemove(f, old) \in Flows
        /\ \A p \in Ports : BridgeRemove(f, old)[p] = IF p = old THEN NoFlow ELSE f[p]
    BY Zenon DEF BridgeRemove, Flows
  <1>2. \A p \in Ports : p # NoRow.port
    BY NoRowType, PortZero
  <1> QED
    BY <1>1, <1>2, Zenon DEF IsMoved

LEMMA MovedFlows ==
  ASSUME NEW i \in Ifaces \ Skipped, NEW f \in Flows, NEW ep \in Rows, ep.port \in Ports,
         NEW old \in Ports
  PROVE  IsMoved(f, BridgeAdd(i, BridgeRemove(f, old), ep), ep, old)
  <1> DEFINE h == BridgeRemove(f, old)
  <1>1. IsMoved(f, h, NoRow, old)
    BY RemovedFlows, Zenon
  <1> HIDE DEF h
  <1>2. IsMoved(h, BridgeAdd(i, h, ep), ep, ep.port)
    BY <1>1, AddedFlows, Zenon DEF IsMoved
  <1>3. \A p \in Ports : p # NoRow.port
    BY NoRowType, PortZero
  <1>4. IsMoved(f, BridgeAdd(i, h, ep), ep, old)
    BY <1>1, <1>2, <1>3, Zenon DEF IsMoved
  <1> QED
    BY <1>4, Zenon DEF h

LEMMA CallInv ==
  ASSUME LocalInv, NEW t \in tasks, Call(t)
  PROVE  LocalInv'
  <1> DEFINE i == t.iface
  <1>1. UNCHANGED <<row, ports, rowChanges, rowFaults>>
    BY Zenon DEF Call
  <1>2. i \in Ifaces /\ t.old \in Rows /\ t.new \in Rows /\ TaskOK(t) /\ db \in [Ifaces -> Rows] /\ db[i] \in Rows
        /\ flow \in Flows /\ sw \in Flows /\ up
    BY Zenon DEF LocalInv, LocalTypeOK, Tasks
  <1>3. AreFlows(flow) /\ Follow(sw)
    BY <1>2, Zenon DEF LocalInv, Follow
  <1>4. ASSUME Calls(t, i, db[i], flow, sw) PROVE LocalInv'
    <2>1. db' = [db EXCEPT ![i] = db[i]] /\ flow' = flow /\ sw' = sw /\ tasks' \subseteq tasks
          /\ UNCHANGED <<hwAddr, replay, up>>
      BY <1>4, Zenon DEF Calls, Starts
    <2>2. db' = db
      BY <1>2, <2>1, Zenon
    <2>3. AreFlows(flow)' /\ Follow(sw)'
      BY <1>3, <2>1, <2>2 DEF AreFlows, Follow
    <2>4. db[i] = NoRow \/ db[i].port > 0
      BY <1>2, Zenon DEF LocalInv
    <2> QED
      BY <1>1, <1>2, <2>1, <2>3, <2>4, Called, Zenon
  <1>5. ASSUME i \notin Skipped, NEW ep \in Rows, NEW old \in Ports, NEW f, NEW g, Calls(t, i, ep, f, g),
               ep.port \in {t.new.port, -1}, ep = NoRow \/ ep.port > 0,
               db[i] = NoRow \/ db[i].port = old, old \in {t.old.port, t.new.port},
               IsMoved(flow, f, ep, old), IsMoved(sw, g, ep, old)
        PROVE  LocalInv'
    <2>1. db' = [db EXCEPT ![i] = ep] /\ flow' = f /\ sw' = g /\ tasks' \subseteq tasks
          /\ UNCHANGED <<hwAddr, replay, up>>
      BY <1>5, Zenon DEF Calls, Starts
    <2>2. \A j \in Ifaces : j # i /\ db[j] # NoRow => db[j].port # old /\ db[j].port # ep.port
      <3> SUFFICES ASSUME NEW j \in Ifaces, j # i, db[j] # NoRow
                   PROVE  db[j].port # old /\ db[j].port # ep.port
        BY Zenon
      <3>1. db[j].port > 0
        BY Zenon DEF LocalInv
      <3>2. db[j].port # t.old.port /\ db[j].port # t.new.port
        BY OthersPorts, Zenon
      <3>3. ep.port \in {t.new.port, -1} /\ old \in {t.old.port, t.new.port}
        BY <1>5, Zenon
      <3>4. db[j].port # -1
        BY <3>1
      <3> QED
        BY <3>2, <3>3, <3>4, Zenon
    <2>8. i \in Ifaces \ Skipped
      BY <1>2, <1>5, Zenon
    <2>3. AreFlows(f)'
      BY <1>2, <1>3, <1>5, <2>1, <2>2, <2>8, Moved, Zenon
    <2>4. Follow(g)'
      BY <1>2, <1>3, <1>5, <2>1, <2>2, <2>8, Moved, Zenon
    <2>5. AreFlows(flow)' /\ Follow(sw)'
      BY <2>1, <2>3, <2>4, SMTT(30) DEF AreFlows, Follow
    <2>6. flow' \in Flows /\ sw' \in Flows
      BY <1>5, <2>1, Zenon DEF IsMoved
    <2>7. ep.port \in {t.new.port, db[t.iface].port, -1} /\ (ep = NoRow \/ ep.port > 0)
      BY <1>5, Zenon
    <2> QED
      BY <1>1, <2>1, <2>5, <2>6, <2>7, Called, Zenon
  <1>6. ASSUME i \in Skipped, Calls(t, i, t.new, flow, sw), t.new.port > 0 PROVE LocalInv'
    <2>1. db' = [db EXCEPT ![i] = t.new] /\ flow' = flow /\ sw' = sw /\ tasks' \subseteq tasks
          /\ UNCHANGED <<hwAddr, replay, up>>
      BY <1>6, Zenon DEF Calls, Starts
    <2>2. \A j \in Ifaces \ Skipped : db'[j] = db[j]
      BY <1>2, <1>6, <2>1, Zenon
    <2>3. AreFlows(flow)'
      BY <1>3, <2>1, <2>2, ZenonT(60) DEF AreFlows
    <2>4. AreFlows(sw) => AreFlows(sw)'
      BY <2>1, <2>2, ZenonT(60) DEF AreFlows
    <2>5. Follow(sw)'
      BY <1>3, <2>1, <2>2, <2>4, Zenon DEF Follow
    <2> QED
      BY <1>1, <1>2, <1>6, <2>1, <2>3, <2>5, Called, Zenon
  <1>7. CASE AddLocalEndpoint(t)
    <2>1. CASE db[i] # NoRow
      BY <1>4, <1>7, <2>1, Zenon DEF AddLocalEndpoint
    <2>2. CASE db[i] = NoRow
      <3>1. Calls(t, i, t.new, BridgeAdd(i, flow, t.new), BridgeAdd(i, sw, t.new))
        BY <1>7, <2>2, Zenon DEF AddLocalEndpoint
      <3>2. t.new.port > 0 /\ t.new.port \in Ports
        BY <1>2, <1>7, RowFields DEF AddLocalEndpoint, TaskOK
      <3>3. CASE i \in Skipped
        <4>1. Calls(t, i, t.new, flow, sw)
          BY <3>1, <3>3, Zenon DEF BridgeAdd
        <4> QED
          BY <1>6, <3>2, <3>3, <4>1, Zenon
      <3>4. CASE i \notin Skipped
        <4>1. IsMoved(flow, BridgeAdd(i, flow, t.new), t.new, t.new.port)
          BY <1>2, <3>2, <3>4, AddedFlows, Zenon
        <4>2. IsMoved(sw, BridgeAdd(i, sw, t.new), t.new, t.new.port)
          BY <1>2, <3>2, <3>4, AddedFlows, Zenon
        <4> QED
          BY <1>2, <1>5, <2>2, <3>1, <3>2, <3>4, <4>1, <4>2, Zenon
      <3> QED
        BY <3>3, <3>4, Zenon
    <2> QED
      BY <2>1, <2>2, Zenon
  <1>8. CASE UpdateLocalEndpoint(t)
    <2>1. CASE db[i] = NoRow
      BY <1>4, <1>8, <2>1, Zenon DEF UpdateLocalEndpoint
    <2>2. CASE db[i] # NoRow /\ flow[t.old.port] = NoFlow
      BY <1>1, <1>8, <2>2, DownInv, Zenon DEF UpdateLocalEndpoint
    <2>3. CASE db[i] # NoRow /\ flow[t.old.port] # NoFlow
      <3>1. Calls(t, i, t.new, BridgeAdd(i, BridgeRemove(flow, t.old.port), t.new),
                  BridgeAdd(i, BridgeRemove(sw, t.old.port), t.new))
        BY <1>8, <2>3, Zenon DEF UpdateLocalEndpoint
      <3>2. t.old.port \in Ports /\ t.new.port \in Ports /\ (t.new.port > 0 \/ t.new.port = t.old.port)
        BY <1>2, <1>8, Zenon DEF UpdateLocalEndpoint, TaskOK
      <3>3. db[i].port = t.old.port /\ t.new.port > 0 /\ i \in Ifaces \ Skipped
        BY <2>3, <3>2, FlowOwned, Zenon
      <3>4. IsMoved(flow, BridgeAdd(i, BridgeRemove(flow, t.old.port), t.new), t.new, t.old.port)
        BY <1>2, <3>2, <3>3, MovedFlows, Zenon
      <3>5. IsMoved(sw, BridgeAdd(i, BridgeRemove(sw, t.old.port), t.new), t.new, t.old.port)
        BY <1>2, <3>2, <3>3, MovedFlows, Zenon
      <3> QED
        BY <1>2, <1>5, <3>1, <3>2, <3>3, <3>4, <3>5, Zenon
    <2> QED
      BY <2>1, <2>2, <2>3, Zenon
  <1>9. CASE RemoveLocalEndpoint(t)
    <2>1. CASE db[i] = NoRow
      BY <1>4, <1>9, <2>1, Zenon DEF RemoveLocalEndpoint
    <2>2. CASE db[i] # NoRow /\ flow[t.old.port] = NoFlow
      BY <1>1, <1>9, <2>2, DownInv, Zenon DEF RemoveLocalEndpoint
    <2>3. CASE db[i] # NoRow /\ flow[t.old.port] # NoFlow
      <3>1. Calls(t, i, NoRow, BridgeRemove(flow, t.old.port), BridgeRemove(sw, t.old.port))
        BY <1>9, <2>3, Zenon DEF RemoveLocalEndpoint
      <3>2. t.old.port \in Ports
        BY <1>2, <1>9, Zenon DEF RemoveLocalEndpoint, TaskOK
      <3>3. db[i].port = t.old.port /\ i \in Ifaces \ Skipped
        BY <2>3, <3>2, FlowOwned, Zenon
      <3>4. IsMoved(flow, BridgeRemove(flow, t.old.port), NoRow, t.old.port)
        BY <1>2, <3>2, RemovedFlows, Zenon
      <3>5. IsMoved(sw, BridgeRemove(sw, t.old.port), NoRow, t.old.port)
        BY <1>2, <3>2, RemovedFlows, Zenon
      <3> QED
        BY <1>2, <1>5, <3>1, <3>2, <3>3, <3>4, <3>5, NoRowType, Zenon
    <2> QED
      BY <2>1, <2>2, <2>3, Zenon
  <1> QED
    BY <1>7, <1>8, <1>9, Zenon DEF Call

------------------------------------------------------------------------------
\* Restarts.

LEMMA RestartSwitchInv == LocalInv /\ RestartSwitch => LocalInv'
  <1> SUFFICES ASSUME LocalInv, RestartSwitch PROVE LocalInv'
    BY Zenon
  <1>1. Nothing \in Flows /\ \A p \in Ports : Nothing[p] = NoFlow
    BY Zenon DEF Nothing, Flows
  <1>2. LocalTypeOK'
    BY <1>1, Zenon DEF LocalInv, LocalTypeOK, RestartSwitch
  <1>3. PortsOwned'
    BY OwnedKept, Zenon DEF Has, RestartSwitch
  <1>4. AreFlows(flow)'
    BY DEF LocalInv, RestartSwitch, AreFlows
  <1> QED
    BY <1>1, <1>2, <1>3, <1>4, Zenon DEF LocalInv, RestartSwitch

LEMMA ReplayInv == LocalInv /\ ReplayVDSLocalEndpointFlow => LocalInv'
  <1> SUFFICES ASSUME LocalInv, ReplayVDSLocalEndpointFlow PROVE LocalInv'
    BY Zenon
  <1> DEFINE again(f) == [p \in Ports |-> ModeAt(p, f[p])]
  <1>1. ASSUME NEW f \in Flows,
               \A p \in Ports : f[p] # NoFlow => \E i \in Ifaces \ Skipped : db[i].port = p
        PROVE  again(f) \in Flows /\ AreFlows(again(f))
    <2>1. ASSUME NEW p \in Ports, NEW i \in Ifaces \ Skipped, db[i].port = p
          PROVE  again(f)[p] = db[i].mode
      <3>1. ModeAt(p, f[p]) = db[i].mode
        BY <2>1, Chosen
      <3> QED
        BY <3>1, Zenon
    <2>2. ASSUME NEW p \in Ports, \A i \in Ifaces \ Skipped : db[i].port # p
          PROVE  again(f)[p] = NoFlow
      BY <1>1, <2>2, Chosen, ZenonT(60)
    <2>3. \A i \in Ifaces : db[i].mode \in Modes \cup {0}
      BY RowFields, Zenon DEF LocalInv, LocalTypeOK
    <2> HIDE DEF again
    <2>4. \A p \in Ports : again(f)[p] \in Modes \cup {0, NoFlow}
      BY <2>1, <2>2, <2>3, Zenon
    <2>5. again(f) \in Flows
      BY <2>4, Zenon DEF again, Flows
    <2> QED
      BY <2>1, <2>2, <2>5, Zenon DEF AreFlows
  <1>2. flow' = again(flow) /\ sw' = again(sw) /\ replay /\ replay' = FALSE
        /\ UNCHANGED <<row, hwAddr, tasks, db, up, missed, ports, rowChanges>>
    BY Zenon DEF ReplayVDSLocalEndpointFlow
  <1> HIDE DEF again
  <1>3. again(flow) \in Flows /\ AreFlows(again(flow)) /\ again(sw) \in Flows /\ AreFlows(again(sw))
    <2>1. \A p \in Ports : flow[p] # NoFlow => \E i \in Ifaces \ Skipped : db[i].port = p
      BY Zenon DEF LocalInv, AreFlows
    <2>2. \A p \in Ports : sw[p] # NoFlow => \E i \in Ifaces \ Skipped : db[i].port = p
      BY <1>2, Zenon DEF LocalInv
    <2>3. flow \in Flows /\ sw \in Flows
      BY Zenon DEF LocalInv, LocalTypeOK
    <2> QED
      BY <1>1, <2>1, <2>2, <2>3, Zenon
  <1>4. LocalTypeOK'
    BY <1>2, <1>3, Zenon DEF LocalInv, LocalTypeOK
  <1>5. PortsOwned'
    BY <1>2, OwnedKept, Zenon DEF Has
  <1>6. AreFlows(flow)' /\ AreFlows(sw)'
    BY <1>2, <1>3, Zenon DEF AreFlows
  <1> QED
    BY <1>2, <1>4, <1>5, <1>6, Zenon DEF LocalInv

LEMMA StartInv == LocalInv /\ Start => LocalInv'
  <1> SUFFICES ASSUME LocalInv, Start PROVE LocalInv'
    BY Zenon
  <1>1. Nothing \in Flows /\ (\A p \in Ports : Nothing[p] = NoFlow)
        /\ \A i \in Ifaces : db[i] = NoRow /\ row[i] \in Rows
    BY Zenon DEF Nothing, Flows, Start, LocalInv, LocalTypeOK
  <1>2. ASSUME NEW t \in tasks'
        PROVE  t \in Tasks /\ TaskOK(t) /\ t.old = NoRow /\ t.new = row[t.iface]
    <2>1. PICK i \in Ifaces : t = Task(rowChanges, "Added", i, NoRow, row[i])
      BY Zenon DEF Start
    <2>2. rowChanges \in Nat /\ row[i] \in Rows
      BY Zenon DEF LocalInv, LocalTypeOK
    <2>3. t \in Tasks /\ t.step = "Added" /\ t.iface = i /\ t.old = NoRow /\ t.new = row[i]
      BY <2>1, <2>2, NoRowType, Zenon DEF Task, Tasks, Steps
    <2> QED
      BY <2>3, Zenon DEF TaskOK
  <1>3. UNCHANGED <<row, hwAddr, db, flow, replay, ports, rowChanges>> /\ up' /\ sw' = Nothing
        /\ up' \in BOOLEAN
    BY Zenon DEF Start
  <1>4. LocalTypeOK'
    BY <1>1, <1>2, <1>3, Zenon DEF LocalInv, LocalTypeOK
  <1>5. PortsOwned'
    <2>1. ASSUME NEW j \in Ifaces, NEW p \in Ports \ {0}, Has(j, p)' PROVE Has(j, p)
      <3>1. p # -1
        BY PortZero
      <3>2. ASSUME NEW t \in tasks', t.iface = j, p \in {t.old.port, t.new.port} PROVE row[j].port = p
        BY <1>2, <3>1, <3>2, NoRowType, Zenon
      <3>3. row' = row /\ hwAddr' = hwAddr /\ db' = db
        BY <1>3, Zenon
      <3> QED
        BY <2>1, <3>2, <3>3, Zenon DEF Has
    <2> QED
      BY <1>3, <2>1, OwnedKept, Zenon
  <1>6. AreFlows(flow)' /\ AreFlows(sw)'
    <2>1. AreFlows(flow)
      BY Zenon DEF LocalInv
    <2>2. db' = db /\ flow' = flow /\ sw' = Nothing
      BY <1>3, Zenon
    <2>3. AreFlows(flow)'
      BY <2>1, <2>2, Zenon DEF AreFlows
    <2>4. \A i \in Ifaces : db'[i].port \notin Ports
      BY <1>1, <2>2, NoRowType, PortZero
    <2> QED
      BY <1>1, <2>2, <2>3, <2>4, Zenon DEF AreFlows
  <1>7. ~replay'
    BY <1>3 DEF Start, LocalInv
  <1> QED
    BY <1>2, <1>3, <1>4, <1>5, <1>6, <1>7, Zenon DEF LocalInv

LEMMA LocalStep == LocalInv /\ [LocalNext]_localVars => LocalInv'
  <1> SUFFICES ASSUME LocalInv, [LocalNext]_localVars PROVE LocalInv'
    BY Zenon
  <1>1. CASE UNCHANGED localVars
    <2>1. UNCHANGED <<row, hwAddr, tasks, db, flow, sw, replay, up, ports, rowChanges>>
      BY <1>1, Zenon DEF localVars
    <2>2. LocalTypeOK'
      BY <2>1, Zenon DEF LocalInv, LocalTypeOK
    <2>3. PortsOwned'
      BY <2>1, OwnedKept, Zenon DEF Has
    <2> QED
      BY <2>1, <2>2, <2>3, FlowsLeft, Zenon DEF LocalInv
  <1>2. CASE \E t \in tasks : Filter(t) \/ Call(t)
    BY <1>2, FilterInv, DownInv, CallInv, Zenon DEF Filter
  <1>3. CASE Crash
    BY <1>3, DownInv, Zenon DEF Crash
  <1> QED
    BY <1>1, <1>2, <1>3, MonitorInv, RestartSwitchInv, ReplayInv, StartInv, Zenon DEF LocalNext

\* FlowsFollowDB: whatever the order in which the goroutines of the monitor and
\* the calls of the datapath run, and across restarts of vswitchd and of the
\* agent, the flows of the local bridge are those of localEndpointDB.
THEOREM LocalFlows == LocalSpec => []FlowsFollowDB
  BY LocalInitInv, LocalStep, LocalInvImplies, PTL DEF LocalSpec

------------------------------------------------------------------------------
(* What the table holds of the rows.  T are the goroutines of one interface, *)
(* n the number of changes of rows so far, r the row, h the entry of the     *)
(* address cache and d the endpoint in the table.                            *)

\* A goroutine that calls the datapath.
InHand == {"AddLocalEndpoint", "UpdateLocalEndpoint", "RemoveLocalEndpoint"}

\* A goroutine of the deletion of the interface.
Resets == {"Deleted", "RemoveLocalEndpoint"}

Awaits(T, step) == \E t \in T : t.step = step

Settled(T) == \A t \in T : t.step \notin Resets

\* The goroutines of what came after the last deletion.
Since(T) == {t \in T : \A u \in T : u.step \in Resets => u.id < t.id}

\* They have run in the order of the changes so far, and every change is one
\* that the filters recognise.
InOrder(T, n) ==
    /\ \A t \in T : t.id \in Nat /\ t.id <= n
    /\ \A t, u \in T : t.id = u.id => t = u
    /\ \A t \in T : t.step \in InHand => \A u \in T : t.id <= u.id
    /\ \A t \in T : /\ t.step = "Updated" => t.old.port > 0 /\ t.new.port > 0
                    /\ t.step = "PortUpdate" => {t.old.mode, t.new.mode} # {0, Trunk}

\* A deletion finds the address in the cache if there is something to delete.
AddrHeld(T, h, d) ==
    /\ d # NoRow \/ Awaits(T, "AddLocalEndpoint") => h # 0 \/ Awaits(T, "RemoveLocalEndpoint")
    /\ Awaits(T, "RemoveLocalEndpoint") => h = 0

\* The process ends when the goroutine runs, unless the row is deleted before.
Doomed(T, r) == r # NoRow /\ Awaits(T, "Updated")

\* What came after the last deletion leads to the row.
LeadsTo(T, r) ==
    /\ r = NoRow => Since(T) = {}
    /\ \A t \in Since(T) : t.step = "Added" => r.port > 0 /\ t.new.port = r.port
    /\ \A t, u \in Since(T) : t.step = "Added" /\ u.step = "Added" => t = u
    /\ \A t \in Since(T) : t.step = "PortUpdate" =>
          t.new.mode = r.mode \/ \E u \in Since(T) : u.step = "PortUpdate" /\ t.id < u.id
    /\ Settled(T) \/ r.port <= 0 \/ Awaits(Since(T), "Added")

Recognised(a, b) == {a, b} # {0, Trunk}

ModeOf(r) == IF r.mode = Trunk THEN 0 ELSE r.mode

Reads(T, r, mode) == Awaits(T, "PortUpdate") \/ mode \in {r.mode, ModeOf(r)}

\* Without a deletion ahead, the table has the endpoint or is about to get it.
Live(T, r, h, d) ==
    Settled(T) =>
        /\ r.port <= 0 \/ Awaits(T, "Added") => d = NoRow /\ h = 0 /\ ~Awaits(T, "AddLocalEndpoint")
        /\ r.port > 0 /\ ~Awaits(T, "Added") => h = r.port
        /\ \A t \in T : t.step = "AddLocalEndpoint" =>
              d = NoRow /\ t.new.port = r.port /\ Reads(T, r, t.new.mode)
        /\ r.port > 0 /\ ~Awaits(T, "Added") /\ ~Awaits(T, "AddLocalEndpoint") =>
              /\ d.port = r.port
              /\ \A t \in T : t.step = "UpdateLocalEndpoint" =>
                    t.new.port = r.port /\ Reads(T, r, t.new.mode)
              /\ Awaits(T, "UpdateLocalEndpoint") \/ Reads(T, r, d.mode)

OnCourse(T, r, h, d, n) ==
    /\ InOrder(T, n) /\ AddrHeld(T, h, d)
    /\ Doomed(T, r) \/ (LeadsTo(T, r) /\ Live(T, r, h, d))

------------------------------------------------------------------------------
\* Changes of the row.

LEMMA StepNames ==
  /\ "Added" \notin InHand \cup Resets /\ "Updated" \notin InHand \cup Resets
  /\ "PortUpdate" \notin InHand \cup Resets /\ "Deleted" \notin InHand /\ "Deleted" \in Resets
  /\ "AddLocalEndpoint" \in InHand \ Resets /\ "UpdateLocalEndpoint" \in InHand \ Resets
  /\ "RemoveLocalEndpoint" \in InHand \cap Resets
  BY SMT DEF InHand, Resets

\* A goroutine more.
LEMMA OneMore ==
  ASSUME NEW T, NEW n \in Nat, InOrder(T, n), NEW t, t.id = n + 1, t.step \notin InHand,
         t.step = "Updated" => t.old.port > 0 /\ t.new.port > 0,
         t.step = "PortUpdate" => {t.old.mode, t.new.mode} # {0, Trunk}
  PROVE  /\ InOrder(T \cup {t}, n + 1)
         /\ t.step \in Resets => Since(T \cup {t}) = {}
         /\ t.step \notin Resets =>
              Since(T \cup {t}) = Since(T) \cup {t} /\ (Settled(T \cup {t}) <=> Settled(T))
  <1>1. \A u \in T : u.id \in Nat /\ u.id < t.id
    BY SMT DEF InOrder
  <1>2. InOrder(T \cup {t}, n + 1)
    BY <1>1, SMTT(30) DEF InOrder
  <1>3. ASSUME t.step \in Resets PROVE Since(T \cup {t}) = {}
    BY <1>1, <1>3, SMT DEF Since
  <1>4. ASSUME t.step \notin Resets
        PROVE  Since(T \cup {t}) = Since(T) \cup {t} /\ (Settled(T \cup {t}) <=> Settled(T))
    BY <1>1, <1>4, SMT DEF Since, Settled
  <1> QED
    BY <1>2, <1>3, <1>4, Zenon

\* A goroutine more, of a kind that calls and deletes nothing.
LEMMA HeldMore ==
  ASSUME NEW T, NEW h, NEW d, NEW t, t.step \notin InHand, AddrHeld(T, h, d)
  PROVE  AddrHeld(T \cup {t}, h, d)
  BY StepNames, Zenon DEF AddrHeld, Awaits

\* Another interface changes.
LEMMA Elsewhere ==
  ASSUME NEW T, NEW n \in Nat, NEW r, NEW h, NEW d, OnCourse(T, r, h, d, n)
  PROVE  OnCourse(T, r, h, d, n + 1)
  <1>1. InOrder(T, n + 1)
    BY SMT DEF OnCourse, InOrder
  <1> QED
    BY <1>1, Zenon DEF OnCourse

\* SinceSettled: nothing is deleted.
LEMMA SinceAll ==
  ASSUME NEW T, Settled(T) PROVE Since(T) = T
  BY SMT DEF Since, Settled

\* AddPort, when r is no row and s the row of a port without a number.
LEMMA PortAdded ==
  ASSUME NEW T, NEW n \in Nat, NEW h, NEW d, NEW s, s.port = 0,
         OnCourse(T, NoRow, h, d, n)
  PROVE  OnCourse(T, s, h, d, n + 1)
  <1>1. InOrder(T, n + 1) /\ AddrHeld(T, h, d)
    BY Elsewhere, Zenon DEF OnCourse
  <1>2. LeadsTo(T, NoRow) /\ Live(T, NoRow, h, d)
    BY Zenon DEF OnCourse, Doomed
  <1>3. Since(T) = {}
    BY <1>2, Zenon DEF LeadsTo
  <1>4. LeadsTo(T, s)
    BY <1>3, SMT DEF LeadsTo, Awaits
  <1>5. Live(T, s, h, d)
    BY <1>2, <1>3, NoRowType, SinceAll, SMT DEF Live, Awaits
  <1> QED
    BY <1>1, <1>4, <1>5, Zenon DEF OnCourse

\* SetOfPort.
LEMMA OfPortSet ==
  ASSUME NEW T, NEW n \in Nat, NEW r, NEW h, NEW d, NEW s, NEW t, OnCourse(T, r, h, d, n),
         r.port = 0, s.port \in Nat \ {0}, s.mode = r.mode,
         t.id = n + 1, t.step = "Added", t.new = s
  PROVE  OnCourse(T \cup {t}, s, h, d, n + 1)
  <1> DEFINE U == T \cup {t}
  <1>0. InOrder(T, n) /\ t.step \notin InHand \cup Resets /\ t.step # "Updated" /\ t.step # "PortUpdate"
    BY StepNames, Zenon DEF OnCourse
  <1>1. InOrder(U, n + 1) /\ Since(U) = Since(T) \cup {t} /\ (Settled(U) <=> Settled(T))
    BY <1>0, OneMore, SMTT(30)
  <1>2. AddrHeld(U, h, d)
    BY HeldMore, StepNames, Zenon DEF OnCourse
  <1>3. r # NoRow /\ s # NoRow
    BY NoRowType, SMT
  <1>4. CASE Doomed(T, r)
    <2>1. Doomed(U, s)
      BY <1>3, <1>4, Zenon DEF Doomed, Awaits
    <2> QED
      BY <1>1, <1>2, <2>1, Zenon DEF OnCourse
  <1>5. CASE LeadsTo(T, r) /\ Live(T, r, h, d)
    <2>1. \A u \in Since(T) : u.step # "Added"
      BY <1>5, SMT DEF LeadsTo
    <2>2. LeadsTo(U, s)
      <3>1. \A u \in Since(U) : u.step = "Added" => u = t
        BY <1>1, <2>1, Zenon
      <3>2. \A u \in Since(U) : u.step = "PortUpdate" => u \in Since(T)
        BY <1>1, Zenon
      <3>3. \A u \in Since(T) : u.step = "PortUpdate" =>
              u.new.mode = r.mode \/ \E v \in Since(T) : v.step = "PortUpdate" /\ u.id < v.id
        BY <1>5, Zenon DEF LeadsTo
      <3>4. t \in Since(U)
        BY <1>1, Zenon
      <3> HIDE DEF U
      <3>5. \A u \in Since(U) : u.step = "PortUpdate" =>
              u.new.mode = s.mode \/ \E v \in Since(U) : v.step = "PortUpdate" /\ u.id < v.id
        BY <1>1, <3>2, <3>3, Zenon
      <3>6. s.port > 0
        BY SMT
      <3> QED
        BY <1>3, <3>1, <3>4, <3>5, <3>6, Zenon DEF LeadsTo, Awaits
    <2>3. Live(U, s, h, d)
      <3>1. Awaits(U, "Added") /\ (Awaits(U, "AddLocalEndpoint") <=> Awaits(T, "AddLocalEndpoint"))
        BY SMT DEF Awaits
      <3>2. Settled(T) => d = NoRow /\ h = 0 /\ ~Awaits(T, "AddLocalEndpoint")
        BY <1>5, SMT DEF Live
      <3> HIDE DEF U
      <3> QED
        BY <1>1, <3>1, <3>2, Zenon DEF Live, Awaits
    <2> QED
      BY <1>1, <1>2, <2>2, <2>3, Zenon DEF OnCourse
  <1> QED
    BY <1>4, <1>5, Zenon DEF OnCourse

\* SetOfPortAndIDs.
LEMMA OfPortMoved ==
  ASSUME NEW T, NEW n \in Nat, NEW r, NEW h, NEW d, NEW s, NEW t, OnCourse(T, r, h, d, n),
         r.port > 0, s.port \in Nat \ {0},
         t.id = n + 1, t.step = "Updated", t.old = r, t.new = s
  PROVE  OnCourse(T \cup {t}, s, h, d, n + 1)
  <1>0. /\ InOrder(T, n) /\ t.step \notin InHand \cup Resets /\ t.step # "PortUpdate"
        /\ t.old.port > 0 /\ t.new.port > 0
    <2>1. s.port > 0
      BY SMT
    <2> QED
      BY <2>1, StepNames, Zenon DEF OnCourse
  <1>1. InOrder(T \cup {t}, n + 1)
    BY <1>0, OneMore, SMTT(30)
  <1>2. AddrHeld(T \cup {t}, h, d)
    BY HeldMore, StepNames, Zenon DEF OnCourse
  <1>3. s # NoRow
    BY NoRowType, SMT
  <1>4. Doomed(T \cup {t}, s)
    BY <1>3, Zenon DEF Doomed, Awaits
  <1> QED
    BY <1>1, <1>2, <1>4, Zenon DEF OnCourse

\* DelPort.
LEMMA PortDeleted ==
  ASSUME NEW T, NEW n \in Nat, NEW r, NEW h, NEW d, NEW t, OnCourse(T, r, h, d, n),
         t.id = n + 1, t.step = "Deleted"
  PROVE  OnCourse(T \cup {t}, NoRow, h, d, n + 1)
  <1> DEFINE U == T \cup {t}
  <1>1. InOrder(U, n + 1) /\ Since(U) = {}
    BY OneMore, StepNames, Zenon DEF OnCourse
  <1>2. AddrHeld(U, h, d)
    BY HeldMore, StepNames, Zenon DEF OnCourse
  <1>3. ~Settled(U)
    BY StepNames, Zenon DEF Settled
  <1> HIDE DEF U
  <1>4. NoRow.port <= 0
    BY NoRowType, SMT
  <1>5. LeadsTo(U, NoRow)
    BY <1>1, <1>4, Zenon DEF LeadsTo
  <1> QED
    BY <1>1, <1>2, <1>3, <1>5, Zenon DEF OnCourse, Live, U

\* SetMode.
LEMMA ModeSet ==
  ASSUME NEW T, NEW n \in Nat, NEW r, NEW h, NEW d, NEW s, NEW t, OnCourse(T, r, h, d, n),
         r # NoRow, s # NoRow, s.port = r.port,
         t.id = n + 1, t.step = "PortUpdate", t.old = r, t.new = s, Recognised(r.mode, s.mode)
  PROVE  OnCourse(T \cup {t}, s, h, d, n + 1)
  <1> DEFINE U == T \cup {t}
  <1> USE DEF Recognised
  <1>0. /\ InOrder(T, n) /\ t.step \notin InHand \cup Resets /\ t.step # "Updated"
        /\ {t.old.mode, t.new.mode} # {0, Trunk}
    BY StepNames, Zenon DEF OnCourse
  <1>1. InOrder(U, n + 1) /\ Since(U) = Since(T) \cup {t} /\ (Settled(U) <=> Settled(T))
    BY <1>0, OneMore, SMTT(30)
  <1>2. AddrHeld(U, h, d)
    BY HeldMore, StepNames, Zenon DEF OnCourse
  <1>3. CASE Doomed(T, r)
    <2>1. Doomed(U, s)
      BY <1>3, Zenon DEF Doomed, Awaits
    <2> QED
      BY <1>1, <1>2, <2>1, Zenon DEF OnCourse
  <1>4. CASE LeadsTo(T, r) /\ Live(T, r, h, d)
    <2>1. \A u \in T : u.id < t.id
      BY SMT DEF OnCourse, InOrder
    <2>2. \A u \in Since(U) : u = t \/ (u \in Since(T) /\ u.id < t.id)
      BY <1>1, <2>1, Zenon DEF Since
    <2>3. t \in Since(U) /\ \A u \in Since(T) : u \in Since(U)
      BY <1>1, Zenon
    <2>4. Awaits(U, "PortUpdate")
      BY Zenon DEF Awaits
    <2>5. \A step : step # "PortUpdate" => (Awaits(U, step) <=> Awaits(T, step))
      BY Zenon DEF Awaits
    <2>6. \A u \in U : u.step # "PortUpdate" => u \in T
      BY Zenon
    <2> HIDE DEF U
    <2>7. LeadsTo(U, s)
      <3>1. \A u \in Since(U) : u.step = "Added" => u \in Since(T)
        BY <2>2, SMT
      <3>2. \A u \in Since(U) : u.step = "Added" => s.port > 0 /\ u.new.port = s.port
        BY <1>4, <3>1, Zenon DEF LeadsTo
      <3>3. \A u, v \in Since(U) : u.step = "Added" /\ v.step = "Added" => u = v
        BY <1>4, <3>1, Zenon DEF LeadsTo
      <3>4. \A u \in Since(U) : u.step = "PortUpdate" =>
              u.new.mode = s.mode \/ \E v \in Since(U) : v.step = "PortUpdate" /\ u.id < v.id
        BY <2>2, <2>3, Zenon
      <3>5. Settled(U) \/ s.port <= 0 \/ Awaits(Since(U), "Added")
        BY <1>1, <1>4, <2>3, Zenon DEF LeadsTo, Awaits
      <3> QED
        BY <3>2, <3>3, <3>4, <3>5, Zenon DEF LeadsTo
    <2>8. Live(U, s, h, d)
      <3> SUFFICES ASSUME Settled(U) PROVE
            /\ s.port <= 0 \/ Awaits(U, "Added") => d = NoRow /\ h = 0 /\ ~Awaits(U, "AddLocalEndpoint")
            /\ s.port > 0 /\ ~Awaits(U, "Added") => h = s.port
            /\ \A u \in U : u.step = "AddLocalEndpoint" => d = NoRow /\ u.new.port = s.port
            /\ s.port > 0 /\ ~Awaits(U, "Added") /\ ~Awaits(U, "AddLocalEndpoint") =>
                 d.port = s.port /\ \A u \in U : u.step = "UpdateLocalEndpoint" => u.new.port = s.port
        BY <2>4, Zenon DEF Live, Reads
      <3>1. Awaits(U, "Added") <=> Awaits(T, "Added")
        BY <2>5, SMT
      <3>2. Awaits(U, "AddLocalEndpoint") <=> Awaits(T, "AddLocalEndpoint")
        BY <2>5, SMT
      <3>3. \A u \in U : u.step \in {"AddLocalEndpoint", "UpdateLocalEndpoint"} => u \in T
        BY <2>6, SMT
      <3>4. Settled(T)
        BY <1>1, Zenon
      <3> QED
        BY <1>4, <3>1, <3>2, <3>3, <3>4, Zenon DEF Live
    <2> QED
      BY <1>1, <1>2, <2>7, <2>8, Zenon DEF OnCourse, U
  <1> QED
    BY <1>3, <1>4, Zenon DEF OnCourse

------------------------------------------------------------------------------
\* Goroutines.

\* The first of them, t, runs; V, what it starts, takes its place.
FirstRun(T, t, V, U) ==
    /\ t \in T /\ \A u \in T : t.id <= u.id
    /\ \A v, w \in V : v = w
    /\ \A v \in V : v.id = t.id /\ v.step \in InHand /\ (v.step \in Resets <=> t.step \in Resets)
    /\ U = (T \ {t}) \cup V

LEMMA FirstRuns ==
  ASSUME NEW T, NEW n \in Nat, InOrder(T, n), NEW t, NEW V, NEW U, FirstRun(T, t, V, U)
  PROVE  /\ InOrder(U, n)
         /\ \A u \in T \ {t} : u.step \notin InHand /\ t.id < u.id
         /\ ~Settled(U) => ~Settled(T) /\ Since(U) = Since(T)
         /\ t.step \notin Resets /\ Settled(U) => Settled(T)
  <1> USE DEF FirstRun
  <1>1. \A u \in T : u.id \in Nat
    BY Zenon DEF InOrder
  <1>2. \A u \in T \ {t} : t.id < u.id
    <2>1. \A u \in T \ {t} : t.id # u.id
      BY Zenon DEF InOrder
    <2> QED
      BY <1>1, <2>1, SMT
  <1>3. \A u \in T \ {t} : u.step \notin InHand
    <2>1. \A u \in T : u.step \in InHand => u.id <= t.id
      BY Zenon DEF InOrder
    <2> QED
      BY <1>1, <1>2, <2>1, SMT
  <1>4. \A u \in U : (u \in T /\ u # t /\ u.step \notin InHand /\ t.id < u.id) \/ (u \in V /\ u.id = t.id)
    BY <1>2, <1>3, Zenon
  <1>5. InOrder(U, n)
    <2>1. \A u \in U : u.id \in Nat /\ u.id <= n
      BY <1>4, Zenon DEF InOrder
    <2>2. \A u, w \in U : u.id = w.id => u = w
      <3> SUFFICES ASSUME NEW u \in U, NEW w \in U, u.id = w.id PROVE u = w
        BY Zenon
      <3>1. CASE u \in T /\ w \in T
        BY <3>1, Zenon DEF InOrder
      <3>2. CASE u \in V /\ w \in V
        BY <3>2, Zenon
      <3> QED
        BY <1>1, <1>4, <3>1, <3>2, SMT
    <2>3. \A u \in U : u.step \in InHand => \A w \in U : u.id <= w.id
      BY <1>1, <1>4, SMT
    <2>4. \A u \in U : /\ u.step = "Updated" => u.old.port > 0 /\ u.new.port > 0
                       /\ u.step = "PortUpdate" => {u.old.mode, u.new.mode} # {0, Trunk}
      BY StepNames, Zenon DEF InOrder
    <2> QED
      BY <2>1, <2>2, <2>3, <2>4, Zenon DEF InOrder
  <1>6. ASSUME ~Settled(U) PROVE ~Settled(T) /\ Since(U) = Since(T)
    <2>1. PICK x \in U : x.step \in Resets
      BY <1>6, Zenon DEF Settled
    <2>2. \E y \in T : y.step \in Resets /\ t.id <= y.id
      <3>1. CASE x \in T
        BY <2>1, <3>1, Zenon
      <3>2. CASE x \in V
        BY <2>1, <3>2, Zenon
      <3> QED
        BY <3>1, <3>2, Zenon
    <2>3. t \notin Since(T)
      BY <1>1, <2>2, SMT DEF Since
    <2>4. \A v \in V : v \notin Since(U)
      BY <1>1, <1>4, <2>1, SMT DEF Since
    <2>5. \A u \in T \ {t} : u \in Since(T) <=> u \in Since(U)
      <3> SUFFICES ASSUME NEW u \in T \ {t}
                   PROVE  (\A y \in T : y.step \in Resets => y.id < u.id)
                            <=> (\A y \in U : y.step \in Resets => y.id < u.id)
        BY Zenon DEF Since
      <3>1. t.id < u.id
        BY <1>2, Zenon
      <3>2. \A y \in T : y = t \/ y \in U
        BY Zenon
      <3>3. \A y \in U : y.id = t.id \/ y \in T
        BY Zenon
      <3> QED
        BY <3>1, <3>2, <3>3, Zenon
    <2>6. Since(U) \subseteq U /\ Since(T) \subseteq T
      BY Zenon DEF Since
    <2>7. \A u : u \in U => u \in V \/ u \in T \ {t}
      BY Zenon
    <2>8. \A u : u \in Since(U) => u \in Since(T)
      BY <2>4, <2>5, <2>6, <2>7, Zenon
    <2>9. \A u : u \in Since(T) => u \in Since(U)
      BY <2>3, <2>5, <2>6, Zenon
    <2>10. Since(U) = Since(T)
      BY <2>8, <2>9, Zenon
    <2> QED
      BY <2>2, <2>10, Zenon DEF Settled
  <1>7. ASSUME t.step \notin Resets, Settled(U) PROVE Settled(T)
    BY <1>7, Zenon DEF Settled
  <1> QED
    BY <1>2, <1>3, <1>5, <1>6, <1>7, Zenon

\* What is left to show then.
LEMMA Onward ==
  ASSUME NEW T, NEW n \in Nat, NEW r, NEW h, NEW d, OnCourse(T, r, h, d, n),
         NEW t \in T, t.step # "Updated",
         NEW U, NEW g, NEW e, InOrder(U, n), AddrHeld(U, g, e), T \ {t} \subseteq U,
         ~Settled(U) => ~Settled(T) /\ Since(U) = Since(T),
         LeadsTo(T, r) /\ Live(T, r, h, d) /\ Settled(U) => LeadsTo(U, r) /\ Live(U, r, g, e)
  PROVE  OnCourse(U, r, g, e, n)
  <1>1. Doomed(T, r) => Doomed(U, r)
    BY Zenon DEF Doomed, Awaits
  <1>2. LeadsTo(T, r) /\ ~Settled(U) => LeadsTo(U, r)
    BY Zenon DEF LeadsTo
  <1>3. ~Settled(U) => Live(U, r, g, e)
    BY Zenon DEF Live
  <1> QED
    BY <1>1, <1>2, <1>3, Zenon DEF OnCourse

\* filterEndpointAdded; m is the mode it reads.
LEMMA AddedRuns ==
  ASSUME NEW T, NEW n \in Nat, NEW r, NEW h, NEW d, OnCourse(T, r, h, d, n),
         NEW t \in T, \A u \in T : t.id <= u.id, t.step = "Added", t.new.port \in Int,
         NEW g, h = 0 /\ t.new.port > 0 => g = t.new.port, ~(h = 0 /\ t.new.port > 0) => g = h,
         NEW V, \A v, w \in V : v = w,
         h = 0 /\ t.new.port > 0 /\ r # NoRow => V # {},
         \A v \in V : /\ h = 0 /\ t.new.port > 0 /\ r # NoRow
                      /\ v.id = t.id /\ v.step = "AddLocalEndpoint"
                      /\ v.new.port = t.new.port /\ v.new.mode = ModeOf(r)
  PROVE  OnCourse((T \ {t}) \cup V, r, g, d, n)
  <1> DEFINE U == (T \ {t}) \cup V
  <1>0. InOrder(T, n) /\ t.step \notin InHand \cup Resets /\ t.step # "Updated"
    BY StepNames, Zenon DEF OnCourse
  <1>1. /\ InOrder(U, n)
        /\ \A u \in T \ {t} : u.step \notin InHand
        /\ ~Settled(U) => ~Settled(T) /\ Since(U) = Since(T)
        /\ Settled(U) => Settled(T)
    <2>1. \A v \in V : v.id = t.id /\ v.step \in InHand /\ (v.step \in Resets <=> t.step \in Resets)
      BY <1>0, StepNames, SMT
    <2>2. FirstRun(T, t, V, U)
      BY <2>1, Zenon DEF FirstRun
    <2> HIDE DEF U
    <2>3. t.step \notin Resets
      BY <1>0, Zenon
    <2> QED
      BY <1>0, <2>2, <2>3, FirstRuns, Zenon
  <1>2. \A u \in T : u.step \notin InHand
    BY <1>0, <1>1, Zenon
  <1>3. \A u \in U : u.step \in InHand => u \in V /\ u.step = "AddLocalEndpoint"
    BY <1>1, Zenon
  <1>4. AddrHeld(U, g, d)
    <2>1. ~Awaits(U, "RemoveLocalEndpoint")
      BY <1>3, StepNames, SMT DEF Awaits
    <2>2. d # NoRow => h # 0
      BY <1>2, StepNames, Zenon DEF OnCourse, AddrHeld, Awaits
    <2>3. Awaits(U, "AddLocalEndpoint") => g # 0
      <3>1. Awaits(U, "AddLocalEndpoint") => \E v \in V : TRUE
        BY <1>3, StepNames, Zenon DEF Awaits
      <3>2. t.new.port > 0 => t.new.port # 0
        BY SMT
      <3> QED
        BY <3>1, <3>2, Zenon
    <2>4. h # 0 => g # 0
      BY SMT
    <2> QED
      BY <2>1, <2>2, <2>3, <2>4, Zenon DEF AddrHeld
  <1>5. ASSUME LeadsTo(T, r), Live(T, r, h, d), Settled(U) PROVE LeadsTo(U, r) /\ Live(U, r, g, d)
    <2>1. Settled(T) /\ Since(T) = T /\ Since(U) = U
      BY <1>1, <1>5, SinceAll, Zenon
    <2>2. /\ r.port > 0 /\ t.new.port = r.port
          /\ \A u \in T : u.step = "Added" => u = t
          /\ \A u \in T : u.step = "PortUpdate" =>
               u.new.mode = r.mode \/ \E w \in T : w.step = "PortUpdate" /\ u.id < w.id
      BY <1>5, <2>1, Zenon DEF LeadsTo
    <2>3. d = NoRow /\ h = 0
      BY <1>5, <2>1, Zenon DEF Live, Awaits
    <2>4. r # NoRow /\ ~(r.port <= 0) /\ g = r.port
      BY <2>2, <2>3, NoRowType, SMT
    <2>5. PICK v \in V : TRUE
      BY <2>2, <2>3, <2>4, Zenon
    <2>6. v \in U /\ v.step = "AddLocalEndpoint" /\ v.new.port = r.port /\ v.new.mode = ModeOf(r)
      BY <2>2, <2>5, Zenon
    <2>7. \A u \in U : u = v \/ (u \in T /\ u # t)
      BY <2>5, Zenon
    <2>8. \A u \in U : u.step # "Added"
      BY <2>2, <2>6, <2>7, SMT
    <2>9. \A u \in U : u.step = "AddLocalEndpoint" => u = v
      BY <1>2, <2>7, StepNames, Zenon
    <2>10. \A u \in U : u.step = "PortUpdate" => u \in T
      BY <2>6, <2>7, SMT
    <2>11. \A w \in T : w.step = "PortUpdate" => w \in U
      BY SMT
    <2> HIDE DEF U
    <2>12. LeadsTo(U, r)
      BY <1>5, <2>1, <2>2, <2>4, <2>8, <2>10, <2>11, Zenon DEF LeadsTo
    <2>13. Live(U, r, g, d)
      BY <2>3, <2>4, <2>6, <2>8, <2>9, Zenon DEF Live, Awaits, Reads
    <2> QED
      BY <2>12, <2>13, Zenon
  <1>6. T \ {t} \subseteq U
    BY Zenon
  <1> HIDE DEF U
  <1>7. OnCourse(U, r, g, d, n)
    BY <1>0, <1>1, <1>4, <1>5, <1>6, Onward, ZenonT(60)
  <1> QED
    BY <1>7, Zenon DEF U

\* AddLocalEndpoint and UpdateLocalEndpoint.
LEMMA EndpointSet ==
  ASSUME NEW T, NEW n \in Nat, NEW r, r.port \in Int, NEW h, NEW d,
         OnCourse(T, r, h, d, n),
         NEW t \in T, \A u \in T : t.id <= u.id, NEW e,
         \/ t.step = "AddLocalEndpoint" /\ e = IF d = NoRow THEN t.new ELSE d
         \/ t.step = "UpdateLocalEndpoint" /\ e = IF d = NoRow THEN NoRow ELSE t.new
  PROVE  OnCourse(T \ {t}, r, h, e, n)
  <1> DEFINE U == T \ {t}
  <1>0. InOrder(T, n) /\ t.step \in InHand \ Resets /\ t.step # "Updated" /\ t.step # "PortUpdate"
    BY StepNames, SMT DEF OnCourse
  <1>1. /\ InOrder(U, n)
        /\ \A u \in U : u.step \notin InHand
        /\ ~Settled(U) => ~Settled(T) /\ Since(U) = Since(T)
        /\ Settled(U) => Settled(T)
    <2>1. FirstRun(T, t, {}, U) /\ t.step \notin Resets
      BY <1>0, Zenon DEF FirstRun
    <2> HIDE DEF U
    <2>2. /\ InOrder(U, n)
          /\ \A u \in T \ {t} : u.step \notin InHand
          /\ ~Settled(U) => ~Settled(T) /\ Since(U) = Since(T)
          /\ Settled(U) => Settled(T)
      BY <1>0, <2>1, FirstRuns, Zenon
    <2> QED
      BY <2>2, Zenon DEF U
  <1>2. ~Awaits(T, "RemoveLocalEndpoint")
    BY <1>0, <1>1, StepNames, Zenon DEF Awaits
  <1>3. ~Awaits(U, "RemoveLocalEndpoint") /\ ~Awaits(U, "AddLocalEndpoint") /\ ~Awaits(U, "UpdateLocalEndpoint")
    BY <1>1, StepNames, Zenon DEF Awaits
  <1>4. AddrHeld(U, h, e)
    BY <1>2, <1>3, SMT DEF OnCourse, AddrHeld, Awaits
  <1>5. ASSUME LeadsTo(T, r), Live(T, r, h, d), Settled(U) PROVE LeadsTo(U, r) /\ Live(U, r, h, e)
    <2>1. Settled(T) /\ Since(T) = T /\ Since(U) = U
      BY <1>1, <1>5, SinceAll, Zenon
    <2>2. (Awaits(U, "Added") <=> Awaits(T, "Added")) /\ (Awaits(U, "PortUpdate") <=> Awaits(T, "PortUpdate"))
      BY SMT DEF Awaits
    <2>3. \A w \in T : w.step = "PortUpdate" => w \in U
      BY <1>0, Zenon
    <2>4. LeadsTo(U, r)
      BY <1>5, <2>1, <2>3, Zenon DEF LeadsTo
    <2>5. CASE r.port <= 0 \/ Awaits(T, "Added")
      <3>1. d = NoRow /\ h = 0 /\ ~Awaits(T, "AddLocalEndpoint")
        BY <1>5, <2>1, <2>5, Zenon DEF Live
      <3>2. e = NoRow
        BY <3>1, Zenon DEF Awaits
      <3>3. r.port > 0 /\ ~Awaits(U, "Added") => FALSE
        BY <2>2, <2>5, NoRowType, SMT
      <3> QED
        BY <1>3, <2>4, <3>1, <3>2, <3>3, Zenon DEF Live, Awaits
    <2>6. CASE ~(r.port <= 0) /\ ~Awaits(T, "Added")
      <3>0. r.port > 0
        BY <2>6, SMT
      <3>1. t.new.port = r.port /\ Reads(T, r, t.new.mode) /\ h = r.port
        BY <1>0, <1>1, <1>5, <2>1, <2>6, <3>0, StepNames, Zenon DEF Live, Awaits
      <3>2. e = t.new
        <4>1. CASE t.step = "AddLocalEndpoint"
          BY <1>5, <2>1, <4>1, SMTT(120) DEF Live
        <4>2. CASE t.step = "UpdateLocalEndpoint"
          <5>1. ~Awaits(T, "AddLocalEndpoint")
            BY <1>1, <4>2, StepNames, SMT DEF Awaits
          <5>2. d.port = r.port
            BY <1>5, <2>1, <2>6, <3>0, <5>1, Zenon DEF Live
          <5>3. d # NoRow
            BY <2>6, <5>2, NoRowType, SMT
          <5> QED
            BY <4>2, <5>3, SMT
        <4> QED
          BY <4>1, <4>2, Zenon
      <3>3. Reads(U, r, e.mode)
        BY <2>2, <3>1, <3>2, Zenon DEF Reads
      <3> QED
        BY <1>3, <2>2, <2>4, <2>6, <3>1, <3>2, <3>3, Zenon DEF Live, Awaits
    <2> QED
      BY <2>5, <2>6, Zenon
  <1>6. T \ {t} \subseteq U
    BY Zenon
  <1> HIDE DEF U
  <1>7. OnCourse(U, r, h, e, n)
    BY <1>0, <1>1, <1>4, <1>5, <1>6, Onward, ZenonT(60)
  <1> QED
    BY <1>7, Zenon DEF U

\* filterEndpointDeleted without an address, and RemoveLocalEndpoint.
LEMMA ResetDone ==
  ASSUME NEW T, NEW n \in Nat, NEW r, r.port \in Int, NEW h, NEW d, OnCourse(T, r, h, d, n),
         NEW t \in T, \A u \in T : t.id <= u.id, t.step \in Resets
  PROVE  /\ OnCourse(T \ {t}, r, 0, NoRow, n)
         /\ t.step = "RemoveLocalEndpoint" => h = 0
         /\ t.step = "Deleted" /\ h = 0 => d = NoRow
  <1> DEFINE U == T \ {t}
  <1>0. InOrder(T, n) /\ t.step \in Resets /\ t.step # "Updated"
    BY SMT DEF OnCourse, Resets
  <1>1. /\ InOrder(U, n)
        /\ \A u \in T \ {t} : u.step \notin InHand /\ t.id < u.id
        /\ ~Settled(U) => ~Settled(T) /\ Since(U) = Since(T)
    <2>1. FirstRun(T, t, {}, U)
      BY Zenon DEF FirstRun
    <2> HIDE DEF U
    <2> QED
      BY <1>0, <2>1, FirstRuns, Zenon
  <1>2. \A u \in U : u.step \notin InHand
    BY <1>1, Zenon
  <1>3. AddrHeld(U, 0, NoRow)
    BY <1>2, StepNames, Zenon DEF AddrHeld, Awaits
  <1>4. ASSUME LeadsTo(T, r), Live(T, r, h, d), Settled(U) PROVE LeadsTo(U, r) /\ Live(U, r, 0, NoRow)
    <2>1. Since(U) = U
      BY <1>4, SinceAll, Zenon
    <2>2. Since(T) = U
      <3>1. \A u \in U : u \in Since(T)
        BY <1>1, <1>4, Zenon DEF Since, Settled
      <3>2. t \notin Since(T)
        <4>1. t.id \in Nat
          BY <1>0, Zenon DEF InOrder
        <4> QED
          BY <1>0, <4>1, SMT DEF Since
      <3>3. \A u : u \in Since(T) => u \in U
        BY <3>2, Zenon DEF Since
      <3> QED
        BY <3>1, <3>3, Zenon
    <2> HIDE DEF U
    <2>3. ~Settled(T)
      BY <1>0, Zenon DEF Settled
    <2>4. r.port <= 0 \/ Awaits(U, "Added")
      BY <1>4, <2>2, <2>3, Zenon DEF LeadsTo
    <2>5. LeadsTo(U, r)
      BY <1>4, <2>1, <2>2, Zenon DEF LeadsTo
    <2>6. ~(r.port > 0) \/ Awaits(U, "Added")
      BY <2>4, SMT
    <2>7. \A u \in U : u.step # "AddLocalEndpoint"
      BY <1>2, StepNames, Zenon
    <2>8. Live(U, r, 0, NoRow)
      BY <2>6, <2>7, Zenon DEF Live, Awaits
    <2> QED
      BY <2>5, <2>8, Zenon
  <1>5. t.step = "RemoveLocalEndpoint" => h = 0
    BY Zenon DEF OnCourse, AddrHeld, Awaits
  <1>6. ASSUME t.step = "Deleted", h = 0 PROVE d = NoRow
    <2>1. ~Awaits(T, "RemoveLocalEndpoint")
      BY <1>1, <1>6, StepNames, SMT DEF Awaits
    <2> QED
      BY <1>6, <2>1, Zenon DEF OnCourse, AddrHeld
  <1>7. T \ {t} \subseteq U
    BY Zenon
  <1> HIDE DEF U
  <1>8. OnCourse(U, r, 0, NoRow, n)
    BY <1>0, <1>1, <1>3, <1>4, <1>7, Onward, ZenonT(60)
  <1> QED
    BY <1>5, <1>6, <1>8, Zenon DEF U

\* filterEndpointDeleted with an address.
LEMMA DeletedRuns ==
  ASSUME NEW T, NEW n \in Nat, NEW r, NEW h, NEW d, OnCourse(T, r, h, d, n),
         NEW t \in T, \A u \in T : t.id <= u.id, t.step = "Deleted",
         NEW v, v.id = t.id, v.step = "RemoveLocalEndpoint"
  PROVE  OnCourse((T \ {t}) \cup {v}, r, 0, d, n)
  <1> DEFINE U == (T \ {t}) \cup {v}
  <1>0. InOrder(T, n) /\ t.step \in Resets /\ t.step # "Updated"
    BY StepNames, SMT DEF OnCourse
  <1>1. InOrder(U, n) /\ (~Settled(U) => ~Settled(T) /\ Since(U) = Since(T))
    <2>1. FirstRun(T, t, {v}, U)
      <3>1. v.step \in InHand /\ v.step \in Resets
        BY StepNames, Zenon
      <3> QED
        BY <1>0, <3>1, Zenon DEF FirstRun
    <2> HIDE DEF U
    <2> QED
      BY <1>0, <2>1, FirstRuns, Zenon
  <1>2. AddrHeld(U, 0, d)
    BY Zenon DEF AddrHeld, Awaits
  <1>3. ~Settled(U)
    BY StepNames, Zenon DEF Settled
  <1>4. T \ {t} \subseteq U
    BY Zenon
  <1> HIDE DEF U
  <1>5. OnCourse(U, r, 0, d, n)
    BY <1>0, <1>1, <1>2, <1>3, <1>4, Onward, ZenonT(60)
  <1> QED
    BY <1>5, Zenon DEF U

\* filterEndpointUpdated of an interface that is gone.
LEMMA UpdatedRuns ==
  ASSUME NEW T, NEW n \in Nat, NEW h, NEW d, OnCourse(T, NoRow, h, d, n),
         NEW t \in T, \A u \in T : t.id <= u.id, t.step = "Updated", t.new.port \in Int
  PROVE  t.old.port > 0 /\ OnCourse(T \ {t}, NoRow, t.new.port, d, n)
  <1> DEFINE U == T \ {t}
  <1>0. /\ InOrder(T, n) /\ t.step \notin Resets \cup InHand
        /\ t.old.port > 0 /\ t.new.port > 0 /\ LeadsTo(T, NoRow)
    BY StepNames, Zenon DEF OnCourse, InOrder, Doomed
  <1>1. /\ InOrder(U, n)
        /\ \A u \in T \ {t} : u.step \notin InHand
        /\ ~Settled(U) => ~Settled(T) /\ Since(U) = Since(T)
        /\ Settled(U) => Settled(T)
    <2>1. FirstRun(T, t, {}, U) /\ t.step \notin Resets
      BY <1>0, Zenon DEF FirstRun
    <2> HIDE DEF U
    <2> QED
      BY <1>0, <2>1, FirstRuns, Zenon
  <1>2. ~Settled(U)
    BY <1>0, <1>1, SinceAll, Zenon DEF LeadsTo
  <1>3. t.new.port # 0
    BY <1>0, SMT
  <1>4. AddrHeld(U, t.new.port, d)
    BY <1>1, <1>3, StepNames, Zenon DEF AddrHeld, Awaits
  <1> HIDE DEF U
  <1>5. LeadsTo(U, NoRow)
    BY <1>0, <1>1, <1>2, Zenon DEF LeadsTo
  <1>6. OnCourse(U, NoRow, t.new.port, d, n)
    BY <1>1, <1>2, <1>4, <1>5, Zenon DEF OnCourse, Live
  <1> QED
    BY <1>0, <1>6, Zenon DEF U

\* processPortUpdate; an interface that is gone starts nothing.
LEMMA PortUpdateRuns ==
  ASSUME NEW T, NEW n \in Nat, NEW r, r.port \in Int, NEW h, NEW d, OnCourse(T, r, h, d, n),
         NEW t \in T, \A u \in T : t.id <= u.id, t.step = "PortUpdate",
         NEW V, \A v, w \in V : v = w, r # NoRow => V # {},
         \A v \in V : /\ v.id = t.id /\ v.step = "UpdateLocalEndpoint"
                      /\ r.port > 0 => v.new.port = r.port
                      /\ v.new.mode \in {t.new.mode, ModeOf(r)}
  PROVE  OnCourse((T \ {t}) \cup V, r, h, d, n)
  <1> DEFINE U == (T \ {t}) \cup V
  <1>0. InOrder(T, n) /\ t.step \notin InHand /\ t.step \notin Resets /\ t.step # "Updated"
    BY StepNames, Zenon DEF OnCourse
  <1>1. /\ InOrder(U, n)
        /\ \A u \in T \ {t} : u.step \notin InHand /\ t.id < u.id
        /\ ~Settled(U) => ~Settled(T) /\ Since(U) = Since(T)
        /\ Settled(U) => Settled(T)
    <2>1. \A v \in V : v.id = t.id /\ v.step \in InHand /\ (v.step \in Resets <=> t.step \in Resets)
      BY <1>0, StepNames, SMT
    <2>2. FirstRun(T, t, V, U)
      BY <2>1, Zenon DEF FirstRun
    <2> HIDE DEF U
    <2> QED
      BY <1>0, <2>2, FirstRuns, Zenon
  <1>2. \A u \in T : u.step \notin InHand
    BY <1>0, <1>1, Zenon
  <1>3. \A u \in U : u \in V \/ (u \in T /\ u # t)
    BY Zenon
  <1>4. \A u \in U : u.step # "AddLocalEndpoint" /\ u.step # "RemoveLocalEndpoint"
    BY <1>2, <1>3, StepNames, SMT
  <1>5. AddrHeld(U, h, d)
    BY <1>2, <1>4, StepNames, Zenon DEF OnCourse, AddrHeld, Awaits
  <1>6. ASSUME LeadsTo(T, r), Live(T, r, h, d), Settled(U) PROVE LeadsTo(U, r) /\ Live(U, r, h, d)
    <2>1. Settled(T) /\ Since(T) = T /\ Since(U) = U
      BY <1>1, <1>6, SinceAll, Zenon
    <2>2. r # NoRow
      BY <1>6, <2>1, Zenon DEF LeadsTo
    <2>3. \A u \in U : u.step = "Added" \/ u.step = "PortUpdate" => u \in T /\ u # t
      BY <1>3, SMT
    <2>4. \A w \in T : w # t => w \in U
      BY Zenon
    <2>5. \A w \in T : w.step = "Added" => w \in U
      BY <2>4, SMT
    <2>6. \A u, w \in T : u.id < w.id => w # t
      <3>1. \A u \in T : u.id \in Nat
        BY <1>0, Zenon DEF InOrder
      <3> QED
        BY <3>1, SMT
    <2>7. \A u \in T : u.step = "PortUpdate" =>
            u.new.mode = r.mode \/ \E w \in U : w.step = "PortUpdate" /\ u.id < w.id
      <3>1. \A u \in T : u.step = "PortUpdate" =>
              u.new.mode = r.mode \/ \E w \in T : w.step = "PortUpdate" /\ u.id < w.id
        BY <1>6, <2>1, Zenon DEF LeadsTo
      <3> HIDE DEF U
      <3> QED
        BY <2>4, <2>6, <3>1, Zenon
    <2>8. \A u \in U : u.step = "UpdateLocalEndpoint" => u \in V
      BY <1>2, <1>3, StepNames, Zenon
    <2>9. PICK v \in V : TRUE
      BY <2>2, Zenon
    <2>10. Awaits(U, "UpdateLocalEndpoint")
      BY <2>9, Zenon DEF Awaits
    <2>11. Awaits(U, "Added") <=> Awaits(T, "Added")
      BY <2>3, <2>5, Zenon DEF Awaits
    <2> HIDE DEF U
    <2>12. LeadsTo(U, r)
      <3>1. \A u \in U : u.step = "Added" => r.port > 0 /\ u.new.port = r.port
        BY <1>6, <2>1, <2>3, Zenon DEF LeadsTo
      <3>2. \A u, w \in U : u.step = "Added" /\ w.step = "Added" => u = w
        BY <1>6, <2>1, <2>3, Zenon DEF LeadsTo
      <3>3. \A u \in U : u.step = "PortUpdate" =>
              u.new.mode = r.mode \/ \E w \in U : w.step = "PortUpdate" /\ u.id < w.id
        BY <2>3, <2>7, Zenon
      <3> QED
        BY <1>6, <2>1, <2>2, <3>1, <3>2, <3>3, Zenon DEF LeadsTo
    <2>13. \A u \in U : u.step = "UpdateLocalEndpoint" => Reads(U, r, u.new.mode)
      <3>1. t.new.mode = r.mode \/ Awaits(U, "PortUpdate")
        BY <2>7, Zenon DEF Awaits
      <3> QED
        BY <2>8, <3>1, SMT DEF Reads
    <2>14. \A u \in U : u.step = "UpdateLocalEndpoint" /\ r.port > 0 => u.new.port = r.port
      BY <2>8, Zenon
    <2>15. ~Awaits(T, "AddLocalEndpoint")
      BY <1>2, StepNames, Zenon DEF Awaits
    <2>16. Live(U, r, h, d)
      <3>1. r.port <= 0 \/ Awaits(U, "Added") => d = NoRow /\ h = 0
        BY <1>6, <2>1, <2>11, Zenon DEF Live
      <3>2. r.port > 0 /\ ~Awaits(U, "Added") => h = r.port
        BY <1>6, <2>1, <2>11, Zenon DEF Live
      <3>3. r.port > 0 /\ ~Awaits(U, "Added") => d.port = r.port
        BY <1>6, <2>1, <2>11, <2>15, Zenon DEF Live
      <3>4. ~Awaits(U, "AddLocalEndpoint")
        BY <1>4, Zenon DEF Awaits
      <3> QED
        BY <1>4, <2>10, <2>13, <2>14, <3>1, <3>2, <3>3, <3>4, Zenon DEF Live
    <2> QED
      BY <2>12, <2>16, Zenon
  <1>7. T \ {t} \subseteq U
    BY Zenon
  <1> HIDE DEF U
  <1>8. OnCourse(U, r, h, d, n)
    BY <1>0, <1>1, <1>5, <1>6, <1>7, Onward, ZenonT(60)
  <1> QED
    BY <1>8, Zenon DEF U

------------------------------------------------------------------------------
\* Steps of the system.

Of(i) == {t \in tasks : t.iface = i}

RowsFollowed ==
    /\ missed \in [Ifaces -> BOOLEAN]
    /\ \A i \in Ifaces : row[i] = NoRow \/ row[i].port # -1
    /\ \A i \in Ifaces :
         up /\ ~missed[i] => OnCourse(Of(i), row[i], hwAddr[i], db[i], rowChanges)

\* An update of a row arrives, of a kind that leaves i on course.
LEMMA Arrived ==
  ASSUME LocalInv, RowsFollowed, NEW i \in Ifaces, NEW new, NEW steps, NEW seen \in BOOLEAN,
         handleOvsUpdates(i, new, steps, seen), new = NoRow \/ new.port # -1,
         up /\ ~missed[i] /\ seen =>
           OnCourse(Of(i) \cup {Task(rowChanges + 1, s, i, row[i], new) : s \in steps},
                    new, hwAddr[i], db[i], rowChanges + 1)
  PROVE  RowsFollowed'
  <1> DEFINE more == {Task(rowChanges + 1, s, i, row[i], new) : s \in steps}
  <1>1. /\ rowChanges' = rowChanges + 1 /\ up' = up /\ hwAddr' = hwAddr /\ db' = db
        /\ row' = [row EXCEPT ![i] = new]
        /\ missed' = [missed EXCEPT ![i] = up /\ (@ \/ ~seen)]
        /\ up => tasks' = tasks \cup more
    BY Zenon DEF handleOvsUpdates
  <1>2. rowChanges \in Nat /\ up \in BOOLEAN /\ row \in [Ifaces -> Rows]
        /\ missed \in [Ifaces -> BOOLEAN] /\ \A j \in Ifaces : missed[j] \in BOOLEAN
    BY Zenon DEF LocalInv, LocalTypeOK, RowsFollowed
  <1>3. missed' \in [Ifaces -> BOOLEAN]
    BY <1>1, <1>2, Zenon
  <1>4. \A t \in more : t.iface = i
    <2>1. \A s : Task(rowChanges + 1, s, i, row[i], new).iface = i
      BY Zenon DEF Task
    <2> QED
      BY <2>1, Zenon
  <1> HIDE DEF more
  <1>5. ASSUME NEW j \in Ifaces, up', ~missed'[j]
        PROVE  OnCourse(Of(j)', row'[j], hwAddr'[j], db'[j], rowChanges')
    <2>1. up
      BY <1>1, <1>5, Zenon
    <2>2. CASE j = i
      <3>1. Of(j)' = Of(i) \cup more
        <4>1. \A u : u \in tasks' /\ u.iface = i <=> (u \in tasks /\ u.iface = i) \/ u \in more
          BY <1>1, <1>4, <2>1, Zenon
        <4> QED
          BY <2>2, <4>1, Zenon DEF Of
      <3>2. ~missed[i] /\ seen /\ row'[i] = new
        BY <1>1, <1>2, <1>5, <2>1, <2>2, Zenon
      <3> QED
        BY <1>1, <2>1, <2>2, <3>1, <3>2, Zenon DEF more
    <2>3. CASE j # i
      <3>1. Of(j)' = Of(j)
        <4>1. \A u : u \in tasks' /\ u.iface = j <=> u \in tasks /\ u.iface = j
          BY <1>1, <1>4, <2>1, <2>3, Zenon
        <4> QED
          BY <4>1, Zenon DEF Of
      <3>2. ~missed[j] /\ row'[j] = row[j]
        BY <1>1, <1>2, <1>5, <2>3, SMT
      <3>3. OnCourse(Of(j), row[j], hwAddr[j], db[j], rowChanges)
        BY <2>1, <3>2, Zenon DEF RowsFollowed
      <3>4. OnCourse(Of(j), row[j], hwAddr[j], db[j], rowChanges + 1)
        BY <1>2, <3>3, Elsewhere, SMTT(60)
      <3> QED
        BY <1>1, <3>1, <3>2, <3>4, Zenon
    <2> QED
      BY <2>2, <2>3, Zenon
  <1>6. \A j \in Ifaces : row'[j] = NoRow \/ row'[j].port # -1
    BY <1>1, <1>2, Zenon DEF RowsFollowed
  <1> QED
    BY <1>3, <1>5, <1>6, Zenon DEF RowsFollowed

LEMMA NotBefore == \A a, b \in Nat : ~(a < b) => b <= a
  BY SMT

\* A goroutine runs, in a way that leaves its interface on course.
LEMMA Ran ==
  ASSUME LocalInv, RowsFollowed, NEW t \in tasks, NEW more, Starts(t, more),
         \A v \in more : v.iface = t.iface, UNCHANGED <<row, rowChanges, up>>,
         \A j \in Ifaces : j # t.iface => hwAddr'[j] = hwAddr[j] /\ db'[j] = db[j],
         (\A u \in Of(t.iface) : t.id <= u.id)
           /\ OnCourse(Of(t.iface), row[t.iface], hwAddr[t.iface], db[t.iface], rowChanges)
           => OnCourse((Of(t.iface) \ {t}) \cup more, row[t.iface], hwAddr'[t.iface],
                       db'[t.iface], rowChanges)
  PROVE  RowsFollowed'
  <1> DEFINE i == t.iface
  <1>1. /\ tasks' = (tasks \ {t}) \cup more
        /\ missed' = [missed EXCEPT ![i] = @ \/ \E u \in tasks : u.iface = i /\ u.id < t.id]
    BY Zenon DEF Starts
  <1>2. /\ missed \in [Ifaces -> BOOLEAN] /\ (\A j \in Ifaces : missed[j] \in BOOLEAN) /\ i \in Ifaces
        /\ \A u \in tasks : u.id \in Nat
    BY Zenon DEF LocalInv, LocalTypeOK, RowsFollowed, Tasks
  <1>3. missed' \in [Ifaces -> BOOLEAN]
    BY <1>1, <1>2, SMTT(60)
  <1>4. ASSUME NEW j \in Ifaces, up', ~missed'[j]
        PROVE  OnCourse(Of(j)', row'[j], hwAddr'[j], db'[j], rowChanges')
    <2>1. up /\ row' = row /\ rowChanges' = rowChanges
      BY <1>4, Zenon
    <2>2. CASE j = i
      <3>1. Of(j)' = (Of(i) \ {t}) \cup more
        <4>1. \A u : u \in tasks' /\ u.iface = j <=> (u \in tasks /\ u.iface = i /\ u # t) \/ u \in more
          BY <1>1, <2>2, Zenon
        <4> QED
          BY <4>1, Zenon DEF Of
      <3>2. ~missed[i] /\ \A u \in tasks : u.iface = i => ~(u.id < t.id)
        BY <1>1, <1>2, <1>4, <2>2, Zenon
      <3>3. \A u \in Of(i) : t.id <= u.id
        <4>1. \A u \in tasks : ~(u.id < t.id) => t.id <= u.id
          BY <1>2, NotBefore, Zenon
        <4> QED
          BY <3>2, <4>1, Zenon DEF Of
      <3>4. OnCourse(Of(i), row[i], hwAddr[i], db[i], rowChanges)
        BY <1>2, <2>1, <3>2, Zenon DEF RowsFollowed
      <3> QED
        BY <2>1, <2>2, <3>1, <3>3, <3>4, Zenon
    <2>3. CASE j # i
      <3>1. Of(j)' = Of(j)
        <4>1. \A u : u \in tasks' /\ u.iface = j <=> u \in tasks /\ u.iface = j
          BY <1>1, <2>3, Zenon
        <4> QED
          BY <4>1, Zenon DEF Of
      <3>2. ~missed[j]
        BY <1>1, <1>2, <1>4, <2>3, Zenon
      <3>3. OnCourse(Of(j), row[j], hwAddr[j], db[j], rowChanges)
        BY <2>1, <3>2, Zenon DEF RowsFollowed
      <3> QED
        BY <2>1, <2>3, <3>1, <3>3, Zenon
    <2> QED
      BY <2>2, <2>3, Zenon
  <1> QED
    BY <1>3, <1>4, Zenon DEF RowsFollowed

LEMMA DownFollowed == RowsFollowed /\ Down /\ row' = row => RowsFollowed'
  BY Zenon DEF Down, RowsFollowed

LEMMA NextPort ==
  ASSUME NEW p \in Ports, p < MaxPort PROVE p + 1 \in Ports \cup {-1} /\ p + 1 \in Nat \ {0}
  BY LocalAssumption, SMT DEF Ports

LEMMA MonitorFollowed ==
  ASSUME LocalInv, RowsFollowed, NEW i \in Ifaces,
         \/ SetOfPort(i) \/ SetOfPortAndIDs(i) \/ LoseOfPort(i) \/ DelPort(i)
         \/ \E tag \in Tags : AddPort(i, tag)
         \/ \E mode \in Modes : SetMode(i, mode)
  PROVE  RowsFollowed'
  <1> DEFINE r == row[i]
             n == rowChanges
             T == Of(i)
             h == hwAddr[i]
             d == db[i]
             Course == OnCourse(T, r, h, d, n)
  <1>1. r \in Rows /\ ports \in Ports /\ n \in Nat /\ (up /\ ~missed[i] => Course)
    BY Zenon DEF LocalInv, LocalTypeOK, RowsFollowed
  <1>2. r.port \in Ports \cup {-1} /\ r.mode \in Modes \cup {0} /\ ports \in Nat /\ 0 \in Ports \cup {-1}
    BY <1>1, RowFields, PortZero, Zenon
  <1>3. ports < MaxPort => ports + 1 \in Ports \cup {-1} /\ ports + 1 \in Nat \ {0}
    BY <1>1, NextPort, Zenon
  <1>0. /\ 0 # -1 /\ (\A p \in Nat : p # -1)
        /\ r = NoRow \/ r.port # -1
    <2>1. 0 # -1 /\ (\A p \in Nat : p # -1)
      BY SMT
    <2> QED
      BY <2>1, Zenon DEF RowsFollowed
  <1>4. \A s, step : {Task(n + 1, x, i, r, s) : x \in {step}} = {Task(n + 1, step, i, r, s)}
    BY Zenon
  <1>5. \A s, step : LET t == Task(n + 1, step, i, r, s)
                     IN  t.id = n + 1 /\ t.step = step /\ t.old = r /\ t.new = s
    BY Zenon DEF Task
  <1>6. CASE SetOfPort(i)
    <2> DEFINE s == Row(ports', r.mode)
               t == Task(n + 1, "Added", i, r, s)
    <2>1. handleOvsUpdates(i, s, {"Added"}, r.port = 0) /\ ports' = ports + 1 /\ ports < MaxPort
      BY <1>6, Zenon DEF SetOfPort
    <2>2. s.port \in Nat \ {0} /\ s.mode = r.mode
      BY <1>2, <1>3, <2>1, RowType, Zenon
    <2>3. t.id = n + 1 /\ t.step = "Added" /\ t.new = s
      BY <1>5, Zenon
    <2> HIDE DEF s, t, r, n, T, h, d
    <2>4. Course /\ r.port = 0 => OnCourse(T \cup {t}, s, h, d, n + 1)
      BY <1>1, <2>2, <2>3, OfPortSet, Zenon
    <2>5. up /\ ~missed[i] /\ r.port = 0 =>
            OnCourse(T \cup {Task(n + 1, x, i, r, s) : x \in {"Added"}}, s, h, d, n + 1)
      BY <1>1, <1>4, <2>4, Zenon DEF t
    <2> QED
      BY <1>0, <2>1, <2>2, <2>5, Arrived, Zenon DEF r, n, T, h, d
  <1>7. CASE SetOfPortAndIDs(i)
    <2> DEFINE s == Row(ports', r.mode)
               t == Task(n + 1, "Updated", i, r, s)
    <2>1. handleOvsUpdates(i, s, {"Updated"}, r.port > 0) /\ ports' = ports + 1 /\ ports < MaxPort
      BY <1>7, Zenon DEF SetOfPortAndIDs
    <2>2. s.port \in Nat \ {0}
      BY <1>2, <1>3, <2>1, RowType, Zenon
    <2>3. t.id = n + 1 /\ t.step = "Updated" /\ t.old = r /\ t.new = s
      BY <1>5, Zenon
    <2> HIDE DEF s, t, r, n, T, h, d
    <2>4. Course /\ r.port > 0 => OnCourse(T \cup {t}, s, h, d, n + 1)
      BY <1>1, <2>2, <2>3, OfPortMoved, Zenon
    <2>5. up /\ ~missed[i] /\ r.port > 0 =>
            OnCourse(T \cup {Task(n + 1, x, i, r, s) : x \in {"Updated"}}, s, h, d, n + 1)
      BY <1>1, <1>4, <2>4, Zenon DEF t
    <2>6. (r.port > 0) \in BOOLEAN
      BY SMT
    <2> QED
      BY <1>0, <2>1, <2>2, <2>5, <2>6, Arrived, Zenon DEF r, n, T, h, d
  <1>8. CASE LoseOfPort(i)
    <2>1. handleOvsUpdates(i, Row(0, r.mode), {}, FALSE)
      BY <1>8, Zenon DEF LoseOfPort
    <2>2. Row(0, r.mode).port # -1
      BY <1>0, <1>2, RowType, Zenon
    <2>3. up /\ ~missed[i] /\ FALSE =>
            OnCourse(T \cup {Task(n + 1, x, i, r, Row(0, r.mode)) : x \in {}},
                     Row(0, r.mode), h, d, n + 1)
      BY Zenon
    <2> QED
      BY <2>1, <2>2, <2>3, Arrived, Zenon
  <1>9. CASE DelPort(i)
    <2> DEFINE t == Task(n + 1, "Deleted", i, r, NoRow)
    <2>1. handleOvsUpdates(i, NoRow, {"Deleted"}, TRUE)
      BY <1>9, Zenon DEF DelPort
    <2>2. t.id = n + 1 /\ t.step = "Deleted"
      BY <1>5, Zenon
    <2> HIDE DEF t, r, n, T, h, d
    <2>3. Course => OnCourse(T \cup {t}, NoRow, h, d, n + 1)
      BY <1>1, <2>2, PortDeleted, Zenon
    <2>4. up /\ ~missed[i] /\ TRUE =>
            OnCourse(T \cup {Task(n + 1, x, i, r, NoRow) : x \in {"Deleted"}}, NoRow, h, d, n + 1)
      BY <1>1, <1>4, <2>3, Zenon DEF t
    <2> QED
      BY <2>1, <2>4, Arrived, Zenon DEF r, n, T, h, d
  <1>10. CASE \E tag \in Tags : AddPort(i, tag)
    <2>1. PICK tag \in Tags : AddPort(i, tag)
      BY <1>10, Zenon
    <2> DEFINE s == Row(0, tag)
    <2>2. handleOvsUpdates(i, s, {}, TRUE) /\ r = NoRow
      BY <2>1, Zenon DEF AddPort
    <2>3. s.port = 0
      BY PortZero, RowType, Zenon DEF Modes
    <2> HIDE DEF s, r, n, T, h, d
    <2>4. Course => OnCourse(T, s, h, d, n + 1)
      BY <1>1, <2>2, <2>3, PortAdded, Zenon
    <2>5. T \cup {Task(n + 1, x, i, r, s) : x \in {}} = T
      BY Zenon
    <2>6. up /\ ~missed[i] /\ TRUE =>
            OnCourse(T \cup {Task(n + 1, x, i, r, s) : x \in {}}, s, h, d, n + 1)
      BY <1>1, <2>4, <2>5, Zenon
    <2> QED
      BY <1>0, <2>2, <2>3, <2>6, Arrived, Zenon DEF r, n, T, h, d
  <1>11. CASE \E mode \in Modes : SetMode(i, mode)
    <2>1. PICK mode \in Modes : SetMode(i, mode)
      BY <1>11, Zenon
    <2> DEFINE s == Row(r.port, mode)
               t == Task(n + 1, "PortUpdate", i, r, s)
               seen == {r.mode, mode} # {0, Trunk}
    <2>2. handleOvsUpdates(i, s, {"PortUpdate"}, seen) /\ r # NoRow
      BY <2>1, Zenon DEF SetMode
    <2>3. s.port = r.port /\ s.mode = mode
      BY <1>2, RowType, Zenon
    <2>4. t.id = n + 1 /\ t.step = "PortUpdate" /\ t.old = r /\ t.new = s
      BY <1>5, Zenon
    <2>5. s # NoRow /\ s.port # -1
      BY <1>0, <2>2, <2>3, NoRowType, Zenon
    <2>6. seen => Recognised(r.mode, s.mode)
      BY <2>3, Zenon DEF Recognised
    <2> HIDE DEF s, t, r, n, seen, T, h, d
    <2>7. Course /\ seen => OnCourse(T \cup {t}, s, h, d, n + 1)
      BY <1>1, <2>2, <2>3, <2>4, <2>5, <2>6, ModeSet, Zenon
    <2>8. up /\ ~missed[i] /\ seen =>
            OnCourse(T \cup {Task(n + 1, x, i, r, s) : x \in {"PortUpdate"}}, s, h, d, n + 1)
      BY <1>1, <1>4, <2>7, Zenon DEF t
    <2>9. seen \in BOOLEAN
      BY Zenon DEF seen
    <2> QED
      BY <2>2, <2>5, <2>8, <2>9, Arrived, Zenon DEF r, n, T, h, d
  <1> QED
    BY <1>6, <1>7, <1>8, <1>9, <1>10, <1>11, Zenon

LEMMA PortInts == ASSUME NEW r \in Rows PROVE r.port \in Ports \cup {-1} /\ r.port \in Int
  <1>1. r.port \in Ports \cup {-1}
    BY RowFields, Zenon
  <1> QED
    BY <1>1, LocalAssumption, SMT DEF Ports

LEMMA FilterFollowed ==
  ASSUME LocalInv, RowsFollowed, NEW t \in tasks, Filter(t), ~Down
  PROVE  RowsFollowed'
  <1> DEFINE i == t.iface
             r == row[i]
             n == rowChanges
             T == Of(i)
             h == hwAddr[i]
             d == db[i]
             g == hwAddr'[i]
             First == \A u \in T : t.id <= u.id
             Course == OnCourse(T, r, h, d, n)
  <1>1. UNCHANGED <<row, db, up, rowChanges>>
    BY Zenon DEF Filter, filterEndpointAdded, filterEndpointUpdated, filterEndpointDeleted,
                 processPortUpdate, datapath
  <1>2. /\ i \in Ifaces /\ t.old \in Rows /\ t.new \in Rows /\ r \in Rows /\ n \in Nat
        /\ hwAddr \in [Ifaces -> Ports] /\ t \in T
    BY Zenon DEF LocalInv, LocalTypeOK, Tasks, Of
  <1>3. t.new.port \in Int /\ r.port \in Int /\ t.new.port \in Ports \cup {-1} /\ r.port \in Ports \cup {-1}
    BY <1>2, PortInts, Zenon
  <1>4. r.mode \in Modes \cup {0} /\ t.new.mode \in Modes \cup {0} /\ ModeOf(r) \in Modes \cup {0}
    BY <1>2, RowFields, Zenon DEF ModeOf
  <1>5. \A p \in Ports \cup {-1} : interfaceToEndpoint(i, p).port = p
                                 /\ interfaceToEndpoint(i, p).mode = ModeOf(r)
    BY <1>4, RowType, ZenonT(60) DEF interfaceToEndpoint, ModeOf
  <1> HIDE DEF r, n, T, i, h, d, g
  <1>7. CASE filterEndpointAdded(t)
    <2> DEFINE first == h = 0 /\ t.new.port > 0
               v == Task(t.id, "AddLocalEndpoint", i, t.old, interfaceToEndpoint(i, t.new.port))
               V == IF first /\ r # NoRow THEN {v} ELSE {}
    <2>1. /\ t.step = "Added" /\ Starts(t, V)
          /\ hwAddr' = [hwAddr EXCEPT ![i] = IF first THEN t.new.port ELSE @]
      BY <1>7, Zenon DEF filterEndpointAdded, i, r, h
    <2>2. /\ v.id = t.id /\ v.step = "AddLocalEndpoint" /\ v.iface = i
          /\ v.new.port = t.new.port /\ v.new.mode = ModeOf(r)
      BY <1>3, <1>5, Zenon DEF Task
    <2>3. /\ first => g = t.new.port
          /\ ~first => g = h
          /\ \A j \in Ifaces : j # i => hwAddr'[j] = hwAddr[j]
      BY <1>2, <2>1, Zenon DEF g, h
    <2> HIDE DEF v
    <2>4. /\ \A x, w \in V : x = w
          /\ first /\ r # NoRow => V # {}
          /\ \A x \in V : /\ first /\ r # NoRow
                          /\ x.id = t.id /\ x.step = "AddLocalEndpoint" /\ x.iface = i
                          /\ x.new.port = t.new.port /\ x.new.mode = ModeOf(r)
      BY <2>2, Zenon
    <2> HIDE DEF V
    <2>5. First /\ Course => OnCourse((T \ {t}) \cup V, r, g, d, n)
      BY <1>2, <1>3, <2>1, <2>3, <2>4, AddedRuns, ZenonT(60)
    <2> QED
      BY <1>1, <2>1, <2>3, <2>4, <2>5, Ran, Zenon DEF T, i, r, n, h, d, g
  <1>8. CASE filterEndpointUpdated(t)
    <2>1. t.step = "Updated" /\ Starts(t, {})
      BY <1>8, Zenon DEF filterEndpointUpdated
    <2> DEFINE V == {}
    <2>2. \A j \in Ifaces : j # i => hwAddr'[j] = hwAddr[j]
      BY <1>2, <1>8, Zenon DEF filterEndpointUpdated, i
    <2>3. ASSUME First, Course PROVE OnCourse((T \ {t}) \cup V, r, g, d, n)
      <3>1. t.old.port > 0
        BY <1>2, <2>1, <2>3, Zenon DEF OnCourse, InOrder
      <3>2. ~(t.old.port <= 0)
        <4>1. t.old.port \in Int
          BY <1>2, PortInts, Zenon
        <4> QED
          BY <3>1, <4>1, SMT
      <3>3. r = NoRow /\ g = t.new.port
        BY <1>2, <1>8, <3>2, Zenon DEF filterEndpointUpdated, i, r, g
      <3>4. OnCourse(T \ {t}, r, g, d, n)
        BY <1>2, <1>3, <2>1, <2>3, <3>3, UpdatedRuns, SMT
      <3>5. (T \ {t}) \cup V = T \ {t}
        BY Zenon
      <3> QED
        BY <3>4, <3>5, Zenon
    <2>4. Starts(t, V) /\ \A x \in V : x.iface = i
      BY <2>1, Zenon
    <2> HIDE DEF V
    <2> QED
      BY <1>1, <2>2, <2>3, <2>4, Ran, Zenon DEF T, i, r, n, h, d, g
  <1>9. CASE filterEndpointDeleted(t)
    <2> DEFINE port == IF t.old.port > 0 THEN t.old.port ELSE h
               v == Task(t.id, "RemoveLocalEndpoint", i, Row(port, t.old.mode), t.new)
               V == IF h = 0 THEN {} ELSE {v}
    <2>1. t.step = "Deleted" /\ Starts(t, V) /\ hwAddr' = [hwAddr EXCEPT ![i] = 0]
      BY <1>9, Zenon DEF filterEndpointDeleted, i, h
    <2>2. v.id = t.id /\ v.step = "RemoveLocalEndpoint" /\ v.iface = i
      BY Zenon DEF Task
    <2>3. g = 0 /\ \A j \in Ifaces : j # i => hwAddr'[j] = hwAddr[j]
      BY <1>2, <2>1, Zenon DEF g
    <2> HIDE DEF v
    <2>4. ASSUME First, Course PROVE OnCourse((T \ {t}) \cup V, r, g, d, n)
      <3>1. CASE h = 0
        <4>1. OnCourse(T \ {t}, r, 0, NoRow, n) /\ d = NoRow
          <5>1. t.step \in Resets
            BY <2>1, StepNames, Zenon
          <5>2. /\ OnCourse(T \ {t}, r, 0, NoRow, n)
                /\ t.step = "Deleted" /\ h = 0 => d = NoRow
            BY <1>2, <1>3, <2>4, <5>1, ResetDone, SMT
          <5> QED
            BY <2>1, <3>1, <5>2, Zenon
        <4>2. (T \ {t}) \cup V = T \ {t}
          BY <3>1, Zenon
        <4> QED
          BY <2>3, <4>1, <4>2, Zenon
      <3>2. CASE h # 0
        <4>1. OnCourse((T \ {t}) \cup {v}, r, 0, d, n)
          BY <1>2, <2>1, <2>2, <2>4, DeletedRuns, Zenon
        <4>2. V = {v}
          BY <3>2, Zenon
        <4> QED
          BY <2>3, <4>1, <4>2, Zenon
      <3> QED
        BY <3>1, <3>2, Zenon
    <2>5. \A x \in V : x.iface = i
      BY <2>2, Zenon
    <2> HIDE DEF V
    <2> QED
      BY <1>1, <2>1, <2>3, <2>4, <2>5, Ran, Zenon DEF T, i, r, n, h, d, g
  <1>10. CASE processPortUpdate(t)
    <2> DEFINE p == OfPort(i)
               modes == {t.old.mode, t.new.mode}
               new == IF r = NoRow \/ modes = {0, Trunk} THEN {}
                      ELSE IF filterPortVlanModeUpdate(t) # {} THEN filterPortVlanModeUpdate(t)
                      ELSE filterPortVlanTagUpdate(t)
               V == {Task(t.id, "UpdateLocalEndpoint", i, Row(p, t.old.mode), e) : e \in new}
    <2>1. t.step = "PortUpdate" /\ Starts(t, V) /\ hwAddr' = hwAddr /\ g = h
      BY <1>10, Zenon DEF processPortUpdate, i, r, g, h
    <2>2. p \in Ports \cup {-1} /\ (r.port > 0 => p = r.port)
      BY <1>2, <1>3, Zenon DEF OfPort, r
    <2>3. filterPortVlanModeUpdate(t) = {} \/ filterPortVlanModeUpdate(t) = {Row(p, t.new.mode)}
      BY Zenon DEF filterPortVlanModeUpdate, i
    <2>4. filterPortVlanTagUpdate(t) = {interfaceToEndpoint(i, p)}
      BY Zenon DEF filterPortVlanTagUpdate, i
    <2>5. /\ \A e, f \in new : e = f
          /\ \A e \in new : e \in {Row(p, t.new.mode), interfaceToEndpoint(i, p)}
          /\ r # NoRow /\ modes # {0, Trunk} => new # {}
      BY <2>3, <2>4, Zenon
    <2> HIDE DEF new, p, modes
    <2>6. \A e \in new : e.port = p /\ e.mode \in {t.new.mode, ModeOf(r)}
      <3>1. Row(p, t.new.mode).port = p /\ Row(p, t.new.mode).mode = t.new.mode
        BY <1>4, <2>2, RowType, Zenon
      <3>2. interfaceToEndpoint(i, p).port = p /\ interfaceToEndpoint(i, p).mode = ModeOf(r)
        BY <1>5, <2>2, Zenon
      <3> QED
        BY <2>5, <3>1, <3>2, Zenon
    <2>7. /\ \A x, w \in V : x = w
          /\ new # {} => V # {}
          /\ \A x \in V : /\ x.id = t.id /\ x.step = "UpdateLocalEndpoint" /\ x.iface = i
                          /\ r.port > 0 => x.new.port = r.port
                          /\ x.new.mode \in {t.new.mode, ModeOf(r)}
      <3>1. \A x \in V : \E e \in new : x = Task(t.id, "UpdateLocalEndpoint", i, Row(p, t.old.mode), e)
        BY Zenon
      <3>2. new # {} => V # {}
        BY Zenon
      <3> HIDE DEF V
      <3>3. ASSUME NEW x \in V
            PROVE  /\ x.id = t.id /\ x.step = "UpdateLocalEndpoint" /\ x.iface = i
                   /\ r.port > 0 => x.new.port = r.port
                   /\ x.new.mode \in {t.new.mode, ModeOf(r)}
        <4>1. PICK e \in new : x = Task(t.id, "UpdateLocalEndpoint", i, Row(p, t.old.mode), e)
          BY <3>1, Zenon
        <4>2. x.id = t.id /\ x.step = "UpdateLocalEndpoint" /\ x.iface = i /\ x.new = e
          BY <4>1, Zenon DEF Task
        <4> QED
          BY <2>2, <2>6, <4>2, Zenon
      <3>4. \A x, w \in V : x = w
        BY <2>5, <3>1, Zenon
      <3> QED
        BY <3>2, <3>3, <3>4, Zenon
    <2> HIDE DEF V
    <2>8. ASSUME First, Course PROVE OnCourse((T \ {t}) \cup V, r, h, d, n)
      <3>1. modes # {0, Trunk}
        BY <1>2, <2>1, <2>8, Zenon DEF OnCourse, InOrder, modes
      <3>2. r # NoRow => V # {}
        BY <2>5, <2>7, <3>1, Zenon
      <3> QED
        BY <1>2, <1>3, <2>1, <2>7, <2>8, <3>2, PortUpdateRuns, Zenon
    <2> QED
      BY <1>1, <2>1, <2>7, <2>8, Ran, Zenon DEF T, i, r, n, h, d, g
  <1> QED
    BY <1>7, <1>8, <1>9, <1>10, Zenon DEF Filter

LEMMA CallFollowed ==
  ASSUME LocalInv, RowsFollowed, NEW t \in tasks, Call(t), ~Down
  PROVE  RowsFollowed'
  <1> DEFINE i == t.iface
             r == row[i]
             n == rowChanges
             T == Of(i)
             h == hwAddr[i]
             d == db[i]
             First == \A u \in T : t.id <= u.id
             Course == OnCourse(T, r, h, d, n)
             Adds(e) == t.step = "AddLocalEndpoint" /\ e = IF d = NoRow THEN t.new ELSE d
             Updates(e) == t.step = "UpdateLocalEndpoint" /\ e = IF d = NoRow THEN NoRow ELSE t.new
             Removes(e) == t.step = "RemoveLocalEndpoint" /\ e = NoRow
  <1>1. /\ i \in Ifaces /\ r \in Rows /\ n \in Nat /\ t \in T /\ db \in [Ifaces -> Rows]
    BY Zenon DEF LocalInv, LocalTypeOK, Tasks, Of
  <1>2. r.port \in Int
    BY <1>1, PortInts, Zenon
  <1>3. UNCHANGED <<row, rowChanges>>
    BY Zenon DEF Call
  <1>4. \E e, f, b : Calls(t, i, e, f, b) /\ (Adds(e) \/ Updates(e) \/ Removes(e))
    BY Zenon DEF Call, AddLocalEndpoint, UpdateLocalEndpoint, RemoveLocalEndpoint
  <1> HIDE DEF i, r, n, T, h, d
  <1>5. PICK e, f, b : Calls(t, i, e, f, b) /\ (Adds(e) \/ Updates(e) \/ Removes(e))
    BY <1>4, Zenon
  <1> DEFINE V == {}
  <1>6. /\ db' = [db EXCEPT ![i] = e] /\ hwAddr' = hwAddr /\ up' = up /\ Starts(t, V)
        /\ \A x \in V : x.iface = i
    BY <1>5, Zenon DEF Calls
  <1>7. db'[i] = e /\ \A j \in Ifaces : j # i => db'[j] = db[j]
    BY <1>1, <1>6, Zenon
  <1>8. ASSUME First, Course PROVE OnCourse(T \ {t}, r, h, e, n)
    <2>1. CASE Adds(e) \/ Updates(e)
      BY <1>1, <1>2, <1>8, <2>1, EndpointSet, Zenon
    <2>2. CASE Removes(e)
      <3>1. h = 0 /\ OnCourse(T \ {t}, r, 0, NoRow, n)
        <4>1. t.step \in Resets
          BY <2>2, StepNames, Zenon
        <4>2. /\ OnCourse(T \ {t}, r, 0, NoRow, n)
              /\ t.step = "RemoveLocalEndpoint" => h = 0
          BY <1>1, <1>2, <1>8, <4>1, ResetDone, SMT
        <4> QED
          BY <2>2, <4>2, Zenon
      <3> QED
        BY <2>2, <3>1, Zenon
    <2> QED
      BY <1>5, <2>1, <2>2, Zenon
  <1>9. (T \ {t}) \cup V = T \ {t}
    BY Zenon
  <1> HIDE DEF V
  <1> QED
    BY <1>3, <1>6, <1>7, <1>8, <1>9, Ran, Zenon DEF T, i, r, n, h, d

LEMMA StartFollowed == LocalInv /\ RowsFollowed /\ Start => RowsFollowed'
  <1> SUFFICES ASSUME LocalInv, RowsFollowed, Start PROVE RowsFollowed'
    BY Zenon
  <1>1. /\ UNCHANGED <<row, hwAddr, db, missed, rowChanges>> /\ rowChanges \in Nat
        /\ \A i \in Ifaces : row[i] \in Rows /\ hwAddr[i] = 0 /\ db[i] = NoRow
    BY Zenon DEF Start, LocalInv, LocalTypeOK
  <1>2. ASSUME NEW i \in Ifaces PROVE OnCourse(Of(i)', row[i], 0, NoRow, rowChanges)
    <2> DEFINE r == row[i]
               n == rowChanges
               t == Task(n, "Added", i, NoRow, r)
               T == Of(i)'
    <2>1. r.port \in Int /\ n \in Nat
      BY <1>1, <1>2, PortInts, Zenon
    <2>2. t.id = n /\ t.step = "Added" /\ t.new = r /\ t.iface = i
      BY Zenon DEF Task
    <2>3. \A x \in T : x = t /\ r.port > 0
      BY SMT DEF Start, Of, Task
    <2>4. r.port > 0 => t \in T
      BY <1>2, <2>2, Zenon DEF Start, Of
    <2> HIDE DEF r, n, t, T
    <2>5. InOrder(T, n) /\ AddrHeld(T, 0, NoRow) /\ Settled(T)
      <3>1. \A x \in T : x.id = n /\ x.step = "Added"
        BY <2>2, <2>3, Zenon
      <3>2. n <= n
        BY <2>1, SMT
      <3>3. \A x \in T : x.id \in Nat /\ x.id <= n
        BY <2>1, <3>1, <3>2, Zenon
      <3>4. \A x, y \in T : x.id = y.id => x = y
        BY <2>3, Zenon
      <3>5. \A x \in T : x.step \notin InHand /\ x.step \notin Resets
                       /\ x.step # "Updated" /\ x.step # "PortUpdate"
        BY <3>1, StepNames, SMT
      <3> QED
        BY <3>3, <3>4, <3>5, StepNames, Zenon DEF InOrder, AddrHeld, Awaits, Settled
    <2>6. \A x \in T : x.step # "AddLocalEndpoint" /\ x.step # "UpdateLocalEndpoint" /\ x.step # "PortUpdate"
      BY <2>2, <2>3, SMT
    <2>7. Since(T) = T
      BY <2>5, SinceAll, Zenon
    <2>8. LeadsTo(T, r)
      <3>1. r = NoRow => ~(r.port > 0)
        BY NoRowType, SMT
      <3>2. r = NoRow => T = {}
        BY <2>3, <3>1, Zenon
      <3> QED
        BY <2>2, <2>3, <2>5, <2>6, <2>7, <3>2, SMT DEF LeadsTo
    <2>9. Live(T, r, 0, NoRow)
      <3>1. r.port > 0 => Awaits(T, "Added")
        BY <2>2, <2>4, Zenon DEF Awaits
      <3> QED
        BY <2>6, <3>1, Zenon DEF Live, Awaits
    <2>10. OnCourse(T, r, 0, NoRow, n)
      BY <2>5, <2>8, <2>9, Zenon DEF OnCourse
    <2> QED
      BY <2>10, Zenon DEF T, r, n
  <1> QED
    BY <1>1, <1>2, Zenon DEF RowsFollowed

LEMMA RowsStep == LocalInv /\ RowsFollowed /\ [LocalNext]_localVars => RowsFollowed'
  <1> SUFFICES ASSUME LocalInv, RowsFollowed, [LocalNext]_localVars PROVE RowsFollowed'
    BY Zenon
  <1>1. ASSUME UNCHANGED <<row, hwAddr, tasks, db, up, missed, rowChanges>> PROVE RowsFollowed'
    BY <1>1, Zenon DEF RowsFollowed, Of
  <1>2. CASE UNCHANGED localVars
    BY <1>1, <1>2, Zenon DEF localVars
  <1>3. CASE \E t \in tasks : Filter(t) \/ Call(t)
    BY <1>3, FilterFollowed, CallFollowed, DownFollowed, Zenon DEF Filter, Call
  <1>4. CASE Crash
    BY <1>4, DownFollowed, Zenon DEF Crash
  <1>5. CASE RestartSwitch \/ ReplayVDSLocalEndpointFlow
    BY <1>1, <1>5, Zenon DEF RestartSwitch, ReplayVDSLocalEndpointFlow
  <1> QED
    BY <1>2, <1>3, <1>4, <1>5, MonitorFollowed, StartFollowed, Zenon DEF LocalNext

LEMMA RowsInit == LocalInit => RowsFollowed
  <1> SUFFICES ASSUME LocalInit PROVE RowsFollowed
    BY Zenon
  <1>1. \A i \in Ifaces : row[i] = NoRow /\ hwAddr[i] = 0 /\ db[i] = NoRow /\ Of(i) = {}
    BY Zenon DEF LocalInit, Of
  <1>2. NoRow.port <= 0 /\ ~(NoRow.port > 0)
    BY NoRowType, SMT
  <1>3. Since({}) = {}
    BY Zenon DEF Since
  <1>4. OnCourse({}, NoRow, 0, NoRow, 0)
    BY <1>2, <1>3, Zenon DEF OnCourse, InOrder, AddrHeld, LeadsTo, Live, Awaits
  <1>5. missed \in [Ifaces -> BOOLEAN] /\ rowChanges = 0
    BY Zenon DEF LocalInit
  <1> QED
    BY <1>1, <1>4, <1>5, Zenon DEF RowsFollowed

LEMMA RowsQuiet == LocalInv /\ RowsFollowed => QuietDBFollowsOVSDB
  <1> SUFFICES ASSUME LocalInv, RowsFollowed, up, tasks = {}, NEW i \in Ifaces, ~missed[i]
               PROVE  IF row[i].port <= 0 THEN db[i] = NoRow
                      ELSE db[i] \in {row[i], interfaceToEndpoint(i, row[i].port)}
    BY Zenon DEF QuietDBFollowsOVSDB
  <1>1. OnCourse({}, row[i], hwAddr[i], db[i], rowChanges)
    <2>1. Of(i) = {}
      BY Zenon DEF Of
    <2> QED
      BY <2>1, Zenon DEF RowsFollowed
  <1>2. Live({}, row[i], hwAddr[i], db[i])
    BY <1>1, Zenon DEF OnCourse, Doomed, Awaits
  <1>3. row[i] \in Rows /\ db[i] \in Rows
    BY Zenon DEF LocalInv, LocalTypeOK
  <1>4. row[i].port \in Int
    BY <1>3, PortInts, Zenon
  <1>5. CASE row[i].port <= 0
    BY <1>2, <1>5, Zenon DEF Live, Settled
  <1>6. CASE ~(row[i].port <= 0)
    <2>1. row[i].port > 0
      BY <1>4, <1>6, SMT
    <2>2. db[i].port = row[i].port /\ db[i].mode \in {row[i].mode, ModeOf(row[i])}
      BY <1>2, <2>1, Zenon DEF Live, Settled, Reads, Awaits
    <2>3. \A e \in Rows : e = Row(e.port, e.mode)
      BY SMT DEF Rows, Row
    <2>4. db[i] \in {Row(row[i].port, row[i].mode), Row(row[i].port, ModeOf(row[i]))}
      BY <1>3, <2>2, <2>3, SMT
    <2> QED
      BY <1>3, <1>6, <2>3, <2>4, Zenon DEF interfaceToEndpoint, ModeOf
  <1> QED
    BY <1>5, <1>6, Zenon

\* Once its callbacks have run, localEndpointDB holds an interface's endpoint as
\* OVSDB has it, for any interfaces, tags and bounds, with any number of
\* callbacks of an interface pending at a time and rows that change under them,
\* as long as those of one interface run in the order of their changes.  What
\* came after the last deletion leads to the row (LeadsTo), and the cached
\* hardware address tells whether the table has something to delete (AddrHeld).
THEOREM TableFollowsRows == LocalSpec => []QuietDBFollowsOVSDB
  <1>1. LocalInit => LocalInv /\ RowsFollowed
    BY LocalInitInv, RowsInit, Zenon
  <1>2. LocalInv /\ RowsFollowed /\ [LocalNext]_localVars => LocalInv' /\ RowsFollowed'
    BY LocalStep, RowsStep, Zenon
  <1> QED
    BY <1>1, <1>2, RowsQuiet, PTL DEF LocalSpec

------------------------------------------------------------------------------
(* TowerEndpoint: the Endpoint of a vnic that stays on its VM is not deleted, *)
(* for any VMs and other objects, any number of changes, of broken            *)
(* subscriptions and of restarts.                                             *)

ObjectsOf(t) == {o \in Objects : o[1] = t}

Notices(t) == [object : ObjectsOf(t), value : UNION {Choices(o) : o \in Objects}, nilNode : BOOLEAN]

TypeOK ==
    /\ DOMAIN tower = Objects /\ DOMAIN store = Objects
    /\ DOMAIN watch = Types /\ DOMAIN synced = Types /\ DOMAIN chan = Types
    /\ \A t \in Types : chan[t] \in Seq(Notices(t))
    /\ DOMAIN eps = Keys

\* The vnic is on VM v, and nothing the informer holds or is to be told denies it.
Home(v) ==
    /\ HasNic(tower[VM(v)])
    /\ synced["vm"] => HasNic(store[VM(v)])
    /\ \A i \in 1 .. Len(chan["vm"]) :
          chan["vm"][i].object = VM(v) => HasNic(chan["vm"][i].value)

HomeInv == TypeOK /\ (steady => \E v \in VMs : Home(v))

------------------------------------------------------------------------------
LEMMA VMFacts ==
    ASSUME NEW v \in VMs, VM(v) \in Objects
    PROVE  VM(v)[1] = "vm" /\ "vm" \in Types /\ "vnic" \in Keys /\ VM(v) \in ObjectsOf("vm")
<1>1. VM(v)[1] = "vm"
  BY SMT DEF VM
<1>2. "vm" \in Types
  BY <1>1, Zenon DEF Types
<1> QED
  BY <1>1, <1>2, Zenon DEF Keys, ObjectsOf

LEMMA HeadTail ==
    ASSUME NEW S, NEW c \in Seq(S), c # <<>>
    PROVE  /\ Head(c) = c[1] /\ Head(c) \in S /\ Tail(c) \in Seq(S) /\ 1 \in 1 .. Len(c)
           /\ \A i \in 1 .. Len(Tail(c)) : i + 1 \in 1 .. Len(c) /\ Tail(c)[i] = c[i + 1]
<1>1. Head(c) = c[1] /\ Head(c) \in S /\ Tail(c) \in Seq(S) /\ 1 \in 1 .. Len(c)
  BY SMT
<1>2. \A i \in 1 .. Len(Tail(c)) : i + 1 \in 1 .. Len(c) /\ Tail(c)[i] = c[i + 1]
  BY SMT
<1> QED
  BY <1>1, <1>2, Zenon

LEMMA AppendIs ==
    ASSUME NEW S, NEW c \in Seq(S), NEW x \in S
    PROVE  /\ Append(c, x) \in Seq(S)
           /\ \A i \in 1 .. Len(Append(c, x)) :
                 (i \in 1 .. Len(c) /\ Append(c, x)[i] = c[i]) \/ Append(c, x)[i] = x
BY SMT

LEMMA NothingToCome == \A i \in 1 .. Len(<<>>) : FALSE
BY SMT

\* Steps that leave the informers alone.
LEMMA OtherStep ==
    ASSUME HomeInv, UNCHANGED informerVars, steady' => steady, DOMAIN eps' = Keys
    PROVE  HomeInv'
BY Zenon DEF HomeInv, TypeOK, Home, informerVars

LEMMA ChangeStep ==
    ASSUME \A v \in VMs : VM(v) \in Objects, HomeInv,
           NEW o \in Objects, NEW x \in Choices(o), NEW b \in BOOLEAN, Change(o, x, b)
    PROVE  HomeInv'
<1> DEFINE e == [object |-> o, value |-> x, nilNode |-> b]
           t == o[1]
<1>1. /\ tower' = [tower EXCEPT ![o] = x] /\ watch' = watch /\ store' = store /\ synced' = synced
      /\ chan' = IF watch[t] = "off" THEN chan ELSE [chan EXCEPT ![t] = Append(@, e)]
      /\ steady' = (steady /\ ~(t = "vm" /\ (HasNic(x) # HasNic(tower[o])))) /\ eps' = eps
  BY Zenon DEF Change, Write, epVars
<1>2. t \in Types /\ e \in Notices(t)
  BY Zenon DEF Types, Notices, ObjectsOf
<1> HIDE DEF e
<1>3. /\ DOMAIN chan' = Types
      /\ \A u \in Types : chan'[u] = chan[u] \/ (u = t /\ chan'[u] = Append(chan[u], e))
  BY <1>1, <1>2, Zenon DEF HomeInv, TypeOK
<1>4. \A u \in Types : chan[u] \in Seq(Notices(u))
  BY Zenon DEF HomeInv, TypeOK
<1>7. /\ Append(chan[t], e) \in Seq(Notices(t))
      /\ \A i \in 1 .. Len(Append(chan[t], e)) :
            (i \in 1 .. Len(chan[t]) /\ Append(chan[t], e)[i] = chan[t][i]) \/ Append(chan[t], e)[i] = e
  <2>1. chan[t] \in Seq(Notices(t))
    BY <1>2, <1>4, Zenon
  <2> HIDE DEF t
  <2> QED
    BY <1>2, <2>1, AppendIs, Zenon
<1>5. TypeOK'
  <2>1. \A u \in Types : chan'[u] \in Seq(Notices(u))
    BY <1>3, <1>4, <1>7, Zenon
  <2> QED
    BY <1>1, <1>3, <2>1, Zenon DEF HomeInv, TypeOK
<1>6. ASSUME steady'
      PROVE  \E v \in VMs : Home(v)'
  <2>1. PICK v \in VMs : Home(v)
    BY <1>1, <1>6, Zenon DEF HomeInv
  <2>2. VM(v)[1] = "vm" /\ "vm" \in Types /\ VM(v) \in Objects
    BY VMFacts, Zenon
  <2>3. o = VM(v) => HasNic(x)
    BY <1>1, <1>6, <2>1, <2>2, Zenon DEF Home, HasNic
  <2>4. HasNic(tower'[VM(v)])
    BY <1>1, <2>1, <2>2, <2>3, Zenon DEF Home, HomeInv, TypeOK
  <2>5. ASSUME NEW i \in 1 .. Len(chan'["vm"]), chan'["vm"][i].object = VM(v)
        PROVE  HasNic(chan'["vm"][i].value)
    <3>1. CASE chan'["vm"] = chan["vm"]
      BY <2>1, <2>5, <3>1, Zenon DEF Home
    <3>2. CASE t = "vm" /\ chan'["vm"] = Append(chan["vm"], e)
      <4>1. \/ i \in 1 .. Len(chan["vm"]) /\ chan'["vm"][i] = chan["vm"][i]
            \/ chan'["vm"][i] = e
        BY <1>7, <2>5, <3>2, Zenon
      <4>2. e.object = o /\ e.value = x
        BY Zenon DEF e
      <4> QED
        BY <2>1, <2>3, <2>5, <4>1, <4>2, Zenon DEF Home
    <3> QED
      BY <1>3, <2>2, <3>1, <3>2, Zenon
  <2> QED
    BY <1>1, <2>1, <2>4, <2>5, Zenon DEF Home
<1> QED
  BY <1>5, <1>6, Zenon DEF HomeInv

LEMMA ListStep ==
    ASSUME \A v \in VMs : VM(v) \in Objects, HomeInv, NEW t \in Types, List(t)
    PROVE  HomeInv'
<1>1. /\ watch' = [watch EXCEPT ![t] = "listed"]
      /\ store' = [o \in Objects |-> IF o[1] = t THEN tower[o] ELSE store[o]]
      /\ synced' = [synced EXCEPT ![t] = TRUE] /\ tower' = tower /\ chan' = chan
      /\ eps' = eps /\ steady' = steady
  BY Zenon DEF List, syncWith
<1>2. TypeOK'
  BY <1>1, Zenon DEF HomeInv, TypeOK
<1>3. ASSUME NEW v \in VMs, Home(v)
      PROVE  Home(v)'
  <2>1. VM(v)[1] = "vm" /\ "vm" \in Types /\ VM(v) \in Objects
    BY VMFacts, Zenon
  <2>2. CASE t = "vm"
    BY <1>1, <1>3, <2>1, <2>2, Zenon DEF Home
  <2>3. CASE t # "vm"
    BY <1>1, <1>3, <2>1, <2>3, Zenon DEF Home, HomeInv, TypeOK
  <2> QED
    BY <2>2, <2>3, Zenon
<1> QED
  BY <1>1, <1>2, <1>3, Zenon DEF HomeInv

LEMMA WatchStep ==
    ASSUME \A v \in VMs : VM(v) \in Objects, HomeInv, NEW t \in Types, Watch(t)
    PROVE  HomeInv'
<1> DEFINE e == Head(chan[t])
<1>1. /\ store' = [store EXCEPT ![e.object] = e.value] /\ chan' = [chan EXCEPT ![t] = Tail(@)]
      /\ watch' = watch /\ synced' = synced /\ tower' = tower /\ chan[t] # <<>>
      /\ eps' = eps /\ steady' = steady
  BY Zenon DEF Watch, eventHandler
<1>2. chan[t] \in Seq(Notices(t))
  BY Zenon DEF HomeInv, TypeOK
<1>3. /\ e = chan[t][1] /\ e \in Notices(t) /\ Tail(chan[t]) \in Seq(Notices(t))
      /\ 1 \in 1 .. Len(chan[t])
      /\ \A i \in 1 .. Len(Tail(chan[t])) :
            i + 1 \in 1 .. Len(chan[t]) /\ Tail(chan[t])[i] = chan[t][i + 1]
  BY <1>1, <1>2, HeadTail, Zenon
<1>4. e.object \in Objects /\ e.object[1] = t
  BY <1>3, Zenon DEF Notices, ObjectsOf
<1> HIDE DEF e
<1>5. /\ DOMAIN chan' = Types /\ chan'[t] = Tail(chan[t])
      /\ \A u \in Types \ {t} : chan'[u] = chan[u]
  BY <1>1, Zenon DEF HomeInv, TypeOK
<1>6. TypeOK'
  BY <1>1, <1>3, <1>5, Zenon DEF HomeInv, TypeOK
<1>7. ASSUME NEW v \in VMs, Home(v)
      PROVE  Home(v)'
  <2>1. VM(v)[1] = "vm" /\ "vm" \in Types /\ VM(v) \in Objects
    BY VMFacts, Zenon
  <2>2. DOMAIN store = Objects
    BY Zenon DEF HomeInv, TypeOK
  <2>3. CASE t = "vm"
    <3>1. e.object = VM(v) => HasNic(e.value)
      BY <1>3, <1>7, <2>3, Zenon DEF Home
    <3>2. synced'["vm"] => HasNic(store'[VM(v)])
      BY <1>1, <1>4, <1>7, <2>1, <2>2, <3>1, Zenon DEF Home
    <3>3. \A i \in 1 .. Len(chan'["vm"]) :
            chan'["vm"][i].object = VM(v) => HasNic(chan'["vm"][i].value)
      <4> SUFFICES ASSUME NEW i \in 1 .. Len(chan'["vm"])
                   PROVE  chan'["vm"][i].object = VM(v) => HasNic(chan'["vm"][i].value)
        BY Zenon
      <4>1. i + 1 \in 1 .. Len(chan["vm"]) /\ chan'["vm"][i] = chan["vm"][i + 1]
        BY <1>3, <1>5, <2>3, Zenon
      <4> QED
        BY <1>7, <4>1, Zenon DEF Home
    <3> QED
      BY <1>1, <1>7, <3>2, <3>3, Zenon DEF Home
  <2>4. CASE t # "vm"
    <3>1. store'[VM(v)] = store[VM(v)] /\ chan'["vm"] = chan["vm"]
      BY <1>1, <1>4, <1>5, <2>1, <2>2, <2>4, Zenon
    <3> QED
      BY <1>1, <1>7, <3>1, Zenon DEF Home
  <2> QED
    BY <2>3, <2>4, Zenon
<1> QED
  BY <1>1, <1>6, <1>7, Zenon DEF HomeInv

LEMMA BreakStep ==
    ASSUME \A v \in VMs : VM(v) \in Objects, HomeInv, NEW t \in Types, Subscribe(t) \/ Break(t)
    PROVE  HomeInv'
<1>1. /\ DOMAIN watch' = Types /\ tower' = tower /\ store' = store /\ synced' = synced
      /\ eps' = eps /\ steady' = steady
      /\ chan' = chan \/ chan' = [chan EXCEPT ![t] = <<>>]
  BY Zenon DEF Subscribe, Subscription, Break, watchErrorHandler, epVars, HomeInv, TypeOK
<1>2. DOMAIN chan' = Types /\ \A u \in Types : chan'[u] = chan[u] \/ chan'[u] = <<>>
  BY <1>1, Zenon DEF HomeInv, TypeOK
<1>3. \A u \in Types : <<>> \in Seq(Notices(u))
  BY SMT
<1>4. TypeOK'
  BY <1>1, <1>2, <1>3, Zenon DEF HomeInv, TypeOK
<1>6. ASSUME NEW v \in VMs, Home(v)
      PROVE  Home(v)'
  <2>1. "vm" \in Types
    BY VMFacts, Zenon
  <2>2. chan'["vm"] = chan["vm"] \/ chan'["vm"] = <<>>
    BY <1>2, <2>1, Zenon
  <2> QED
    BY <1>1, <1>6, <2>2, NothingToCome, Zenon DEF Home
<1> QED
  BY <1>1, <1>4, <1>6, Zenon DEF HomeInv

LEMMA RestartStep ==
    ASSUME \A v \in VMs : VM(v) \in Objects, HomeInv, Restart
    PROVE  HomeInv'
<1>1. /\ watch' = [t \in Types |-> "off"] /\ chan' = [t \in Types |-> <<>>]
      /\ store' = [o \in Objects |-> NoObject] /\ synced' = [t \in Types |-> FALSE]
      /\ tower' = tower /\ eps' = eps /\ steady' = steady
  BY Zenon DEF Restart, InformerRestart
<1>2. \A u \in Types : <<>> \in Seq(Notices(u))
  BY SMT
<1>3. TypeOK'
  BY <1>1, <1>2, Zenon DEF HomeInv, TypeOK
<1>4. ASSUME NEW v \in VMs, Home(v)
      PROVE  Home(v)'
  <2>1. "vm" \in Types
    BY VMFacts, Zenon
  <2>2. chan'["vm"] = <<>> /\ synced'["vm"] = FALSE
    BY <1>1, <2>1, Zenon
  <2> QED
    BY <1>1, <1>4, <2>2, NothingToCome, Zenon DEF Home
<1> QED
  BY <1>1, <1>3, <1>4, Zenon DEF HomeInv

\* The workers and the Endpoints' informer leave tower's informers alone.
LEMMA WorkerStep ==
    ASSUME HomeInv,
           \/ syncEndpoint \/ EndpointEvent \/ Resync
           \/ \E k \in StaticKeys : syncStaticEndpoint(k)
           \/ \E k \in Keys : Meddle(k)
    PROVE  HomeInv'
<1>1. DOMAIN eps = Keys
  BY Zenon DEF HomeInv, TypeOK
<1>2. ASSUME NEW k, NEW x, Put(k, x) PROVE DOMAIN eps' = Keys
  BY <1>1, <1>2, Zenon DEF Put
<1>3. ASSUME NEW k, processEndpointDelete(k) PROVE DOMAIN eps' = Keys
  BY <1>1, <1>2, <1>3, Zenon DEF processEndpointDelete
<1>4. ASSUME NEW v, processEndpointUpdate(v) PROVE DOMAIN eps' = Keys
  BY <1>1, <1>2, <1>4, Zenon DEF processEndpointUpdate
<1>5. ASSUME NEW k, NEW ip, processStaticEndpointUpdate(k, ip) PROVE DOMAIN eps' = Keys
  BY <1>1, <1>2, <1>5, Zenon DEF processStaticEndpointUpdate
<1>6. CASE syncEndpoint
  <2>1. UNCHANGED informerVars /\ steady' = steady /\ DOMAIN eps' = Keys
    BY <1>3, <1>4, <1>6, Zenon DEF syncEndpoint
  <2> QED
    BY <2>1, OtherStep, Zenon
<1>7. CASE EndpointEvent \/ Resync
  <2>1. UNCHANGED informerVars /\ steady' = steady /\ eps' = eps
    BY <1>7, Zenon DEF EndpointEvent, Resync
  <2> QED
    BY <1>1, <2>1, OtherStep, Zenon
<1>8. CASE \E k \in StaticKeys : syncStaticEndpoint(k)
  <2>1. UNCHANGED informerVars /\ steady' = steady /\ DOMAIN eps' = Keys
    BY <1>3, <1>5, <1>8, Zenon DEF syncStaticEndpoint
  <2> QED
    BY <2>1, OtherStep, Zenon
<1>9. CASE \E k \in Keys : Meddle(k)
  <2>1. UNCHANGED informerVars /\ steady' = FALSE /\ DOMAIN eps' = Keys
    BY <1>2, <1>9, Zenon DEF Meddle
  <2> QED
    BY <2>1, OtherStep, Zenon
<1> QED
  BY <1>6, <1>7, <1>8, <1>9, Zenon

LEMMA HomeInit ==
    ASSUME \A v \in VMs : VM(v) \in Objects, Init
    PROVE  HomeInv
<1>1. /\ watch = [t \in Types |-> "off"] /\ chan = [t \in Types |-> <<>>]
      /\ store = [o \in Objects |-> NoObject] /\ synced = [t \in Types |-> FALSE]
      /\ DOMAIN tower = Objects /\ eps = [k \in Keys |-> "none"]
  BY Zenon DEF Init, InformerInit
<1>2. \A u \in Types : <<>> \in Seq(Notices(u))
  BY SMT
<1>3. TypeOK
  BY <1>1, <1>2, Zenon DEF TypeOK
<1>4. ASSUME steady
      PROVE  \E v \in VMs : Home(v)
  <2>1. PICK v \in VMs : HasNic(tower[VM(v)])
    BY <1>4, Zenon DEF Init
  <2>2. "vm" \in Types
    BY VMFacts, Zenon
  <2>3. chan["vm"] = <<>> /\ synced["vm"] = FALSE
    BY <1>1, <2>2, Zenon
  <2> QED
    BY <2>1, <2>3, NothingToCome, Zenon DEF Home
<1> QED
  BY <1>3, <1>4, Zenon DEF HomeInv

LEMMA HomeNext ==
    ASSUME \A v \in VMs : VM(v) \in Objects, HomeInv, [Next]_vars
    PROVE  HomeInv'
<1>1. CASE UNCHANGED vars
  BY <1>1, Zenon DEF vars, informerVars, epVars, HomeInv, TypeOK, Home
<1>2. CASE \E o \in Objects : \E x \in Choices(o), b \in BOOLEAN : Change(o, x, b)
  BY <1>2, ChangeStep, Zenon
<1>3. CASE \E t \in Types : listAndWatch(t) \/ Break(t)
  BY <1>3, ListStep, WatchStep, BreakStep, Zenon DEF listAndWatch
<1>4. CASE Restart
  BY <1>4, RestartStep, Zenon
<1>5. CASE \/ syncEndpoint \/ EndpointEvent \/ Resync
           \/ \E k \in StaticKeys : syncStaticEndpoint(k)
           \/ \E k \in Keys : Meddle(k)
  BY <1>5, WorkerStep, Zenon
<1> QED
  BY <1>1, <1>2, <1>3, <1>4, <1>5, Zenon DEF Next

\* The worker that deletes has a list of the VMs, and the vnic's VM is in it.
LEMMA VnicKept ==
    ASSUME \A v \in VMs : VM(v) \in Objects, HomeInv, steady, syncEndpoint
    PROVE  KeepsEndpoint
<1>1. PICK v \in VMs : Home(v)
  BY Zenon DEF HomeInv
<1>2. "vm" \in Types /\ "vnic" \in Keys
  BY VMFacts, Zenon
<1>3. HasNic(store[VM(v)])
  BY <1>1, <1>2, Zenon DEF syncEndpoint, Workers, Home
<1>4. PICK w \in VMs : processEndpointUpdate(w)
  BY <1>3, Zenon DEF syncEndpoint
<1>5. CASE eps' = eps
  BY <1>5, Zenon DEF KeepsEndpoint
<1>6. CASE eps' = [eps EXCEPT !["vnic"] = getVMLabels(w)]
  <2>1. eps'["vnic"] = getVMLabels(w)
    BY <1>2, <1>6, Zenon DEF HomeInv, TypeOK
  <2>2. getVMLabels(w) # "none"
    BY SMT DEF getVMLabels
  <2> QED
    BY <2>1, <2>2, Zenon DEF KeepsEndpoint
<1> QED
  BY <1>4, <1>5, <1>6, Zenon DEF processEndpointUpdate, Put

LEMMA StaticKeepsVnic ==
    ASSUME HomeInv, NEW k \in StaticKeys, syncStaticEndpoint(k)
    PROVE  eps'["vnic"] = eps["vnic"]
<1>1. k # "vnic"
  BY SMT DEF StaticKeys
<1>2. ASSUME NEW x, Put(k, x) PROVE eps'["vnic"] = eps["vnic"]
  <2>1. eps' = [eps EXCEPT ![k] = x]
    BY <1>2, Zenon DEF Put
  <2> QED
    BY <1>1, <2>1, SMT
<1> QED
  BY <1>2, Zenon DEF syncStaticEndpoint, processEndpointDelete, processStaticEndpointUpdate

LEMMA StepKeeps ==
    ASSUME \A v \in VMs : VM(v) \in Objects, HomeInv, [Next]_vars
    PROVE  KeepsEndpoint
<1> SUFFICES ASSUME steady' PROVE eps["vnic"] # "none" => eps'["vnic"] # "none"
  BY Zenon DEF KeepsEndpoint
<1>1. CASE \/ UNCHANGED vars
           \/ \E o \in Objects : \E x \in Choices(o), b \in BOOLEAN : Change(o, x, b)
           \/ \E t \in Types : listAndWatch(t) \/ Break(t)
           \/ EndpointEvent \/ Resync \/ Restart
  <2>1. eps' = eps
    BY <1>1, Zenon DEF vars, epVars, Change, listAndWatch, Subscribe, List, Watch, Break,
                       EndpointEvent, Resync, Restart
  <2> QED
    BY <2>1, Zenon
<1>2. CASE syncEndpoint
  <2>1. steady
    BY <1>2, Zenon DEF syncEndpoint
  <2> QED
    BY <1>2, <2>1, VnicKept, Zenon DEF KeepsEndpoint
<1>3. CASE \E k \in StaticKeys : syncStaticEndpoint(k)
  BY <1>3, StaticKeepsVnic, Zenon
<1>4. CASE \E k \in Keys : Meddle(k)
  BY <1>4, Zenon DEF Meddle
<1> QED
  BY <1>1, <1>2, <1>3, <1>4, Zenon DEF Next

\* The endpoint controller never deletes the Endpoint of a vnic that stays on its
\* VM: whatever else changes in tower, however often the subscriptions break and
\* the controller restarts with empty stores.
THEOREM EndpointStays ==
    ASSUME \A v \in VMs : VM(v) \in Objects
    PROVE  Spec => EndpointsKept
<1>1. Init => HomeInv
  BY HomeInit, Zenon
<1>2. HomeInv /\ [Next]_vars => HomeInv'
  BY HomeNext, Zenon
<1>3. HomeInv /\ [Next]_vars => [KeepsEndpoint]_vars
  BY StepKeeps, Zenon
<1> QED
  BY <1>1, <1>2, <1>3, PTL DEF Spec, EndpointsKept
===============================================================================
