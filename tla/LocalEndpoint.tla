----------------------------- MODULE LocalEndpoint -----------------------------
(***************************************************************************)
(* Local endpoints of one bridge: rows of the OVSDB reach the monitor, a   *)
(* goroutine per row decides what changed, and a further goroutine calls   *)
(* the datapath, which keeps a table of endpoints and their flows.  Both   *)
(* kinds of goroutine run in any order.                                    *)
(*                                                                         *)
(* A row is the ofport of an interface and the mode of its port: a VLAN    *)
(* tag (0 for none) or Trunk.  Every interface has a MAC address of its    *)
(* own, and OVS does not give a port number out twice.  The patch ports of *)
(* the bridge chain and the CNI gateway are endpoints of the table too,    *)
(* but get no flows; their rows carry no identity of an endpoint.          *)
(***************************************************************************)
EXTENDS Integers

CONSTANTS Ifaces, Tags, Trunk,
          Skipped,       \* patch ports and the CNI gateway
          MaxPort,       \* bound: port numbers
          MaxRowChanges, \* bound: OVSDB transactions
          MaxRowFaults   \* bound: restarts of the agent or of vswitchd

ASSUME LocalAssumption == MaxPort \in Nat /\ -1 \notin Tags \cup {Trunk} /\ Skipped \subseteq Ifaces

VARIABLES
    row,     \* monitor.ovsdbCache: the row of each interface, or NoRow
    hwAddr,  \* localEndpointHardwareAddrCache: 0 when the address is not there
    tasks,   \* goroutines that have not run
    db,      \* localEndpointDB
    flow,    \* fromLocalEndpointFlow and localToLocalBUMFlow, by port
    sw,      \* the flows in the bridge
    replay,  \* vswitchd restarted and replayVDSFlow has not run
    up,      \* the agent runs
    missed,  \* history: a goroutine of the interface overtook an earlier one,
             \* or a change was one the filters do not recognise
    ports, rowChanges, rowFaults

datapath == <<db, flow, sw, replay, up>>
localVars == <<row, hwAddr, tasks, db, flow, sw, replay, up, missed, ports, rowChanges,
               rowFaults>>

NoRow == [port |-> -1, mode |-> 0]

NoFlow == -1

Modes == Tags \cup {Trunk}

Ports == 0 .. MaxPort

Nothing == [p \in Ports |-> NoFlow]

Row(port, mode) == [port |-> port, mode |-> mode]

Task(id, step, i, old, new) ==
    [id |-> id, step |-> step, iface |-> i, old |-> old, new |-> new]

LocalInit ==
    /\ row = [i \in Ifaces |-> NoRow]
    /\ hwAddr = [i \in Ifaces |-> 0]
    /\ tasks = {}
    /\ db = [i \in Ifaces |-> NoRow]
    /\ flow = Nothing /\ sw = Nothing
    /\ replay = FALSE /\ up = TRUE
    /\ missed = [i \in Ifaces |-> FALSE]
    /\ ports = 0 /\ rowChanges = 0 /\ rowFaults = 0

\* The process is gone; the flows stay in the bridge.
Down ==
    /\ up' = FALSE
    /\ tasks' = {}
    /\ hwAddr' = [i \in Ifaces |-> 0]
    /\ db' = [i \in Ifaces |-> NoRow]
    /\ flow' = Nothing
    /\ replay' = FALSE
    /\ missed' = [i \in Ifaces |-> FALSE]
    /\ UNCHANGED sw

------------------------------------------------------------------------------
(* The monitor.                                                             *)

\* An update of i's row arrives; the goroutines started for it are those whose
\* filter can find something.  Whether they can tell what changed is "seen".
handleOvsUpdates(i, new, steps, seen) ==
    /\ rowChanges < MaxRowChanges
    /\ rowChanges' = rowChanges + 1
    /\ row' = [row EXCEPT ![i] = new]
    /\ tasks' = tasks \cup {Task(rowChanges', s, i, row[i], new) : s \in IF up THEN steps ELSE {}}
    /\ missed' = [missed EXCEPT ![i] = up /\ (@ \/ ~seen)]
    /\ UNCHANGED <<hwAddr, db, flow, sw, replay, up, rowFaults>>

AddPort(i, tag) ==
    /\ row[i] = NoRow
    /\ handleOvsUpdates(i, Row(0, tag), {}, TRUE)
    /\ UNCHANGED ports

\* An update carries the old values of the columns that changed and no others:
\* with the external-ids unchanged it passes for an insertion.
SetOfPort(i) ==
    /\ row[i] # NoRow /\ ports < MaxPort
    /\ ports' = ports + 1
    /\ handleOvsUpdates(i, Row(ports', row[i].mode), {"Added"}, row[i].port = 0)

SetOfPortAndIDs(i) ==
    /\ row[i] # NoRow /\ i \notin Skipped /\ ports < MaxPort
    /\ ports' = ports + 1
    /\ handleOvsUpdates(i, Row(ports', row[i].mode), {"Updated"}, row[i].port > 0)

LoseOfPort(i) ==
    /\ row[i].port > 0
    /\ handleOvsUpdates(i, Row(0, row[i].mode), {}, FALSE)
    /\ UNCHANGED ports

\* A change between no tag and Trunk leaves the tag column alone.
SetMode(i, mode) ==
    /\ row[i] # NoRow /\ i \notin Skipped /\ row[i].mode # mode
    /\ handleOvsUpdates(i, Row(row[i].port, mode), {"PortUpdate"},
                        {row[i].mode, mode} # {0, Trunk})
    /\ UNCHANGED ports

DelPort(i) ==
    /\ row[i] # NoRow
    /\ handleOvsUpdates(i, NoRow, {"Deleted"}, TRUE)
    /\ UNCHANGED ports

\* The trunks are looked for in a column that does not exist.
interfaceToEndpoint(i, port) ==
    Row(port, IF row[i].mode = Trunk THEN 0 ELSE row[i].mode)

\* A goroutine runs and starts others.
Starts(t, more) ==
    /\ tasks' = (tasks \ {t}) \cup more
    /\ missed' = [missed EXCEPT ![t.iface] =
                    @ \/ \E u \in tasks : u.iface = t.iface /\ u.id < t.id]

\* The address is taken before the port is waited for, and kept if it is not
\* there in time.
filterEndpointAdded(t) ==
    LET i == t.iface
        first == hwAddr[i] = 0 /\ t.new.port > 0
    IN /\ t.step = "Added"
       /\ hwAddr' = [hwAddr EXCEPT ![i] = IF first THEN t.new.port ELSE @]
       /\ Starts(t, IF first /\ row[i] # NoRow
                    THEN {Task(t.id, "AddLocalEndpoint", i, t.old,
                               interfaceToEndpoint(i, t.new.port))}
                    ELSE {})
       /\ UNCHANGED datapath

\* The old row has no name, a column that never changes: what reads it as a
\* string ends the process.
filterEndpointUpdated(t) ==
    LET i == t.iface IN
    /\ t.step = "Updated"
    /\ \/ t.old.port <= 0 /\ Starts(t, {}) /\ UNCHANGED <<hwAddr, datapath>>
       \/ /\ t.old.port > 0 /\ row[i] = NoRow
          /\ hwAddr' = [hwAddr EXCEPT ![i] = t.new.port]
          /\ Starts(t, {}) /\ UNCHANGED datapath
       \/ t.old.port > 0 /\ row[i] # NoRow /\ Down

\* (Mutant: the address of a deleted interface stays in the cache.)
KeepHardwareAddr(t) ==
    LET i == t.iface
        port == IF t.old.port > 0 THEN t.old.port ELSE hwAddr[i]
    IN /\ t.step = "Deleted"
       /\ UNCHANGED hwAddr
       /\ Starts(t, IF hwAddr[i] = 0 THEN {}
                    ELSE {Task(t.id, "RemoveLocalEndpoint", i, Row(port, t.old.mode), t.new)})
       /\ UNCHANGED datapath

filterEndpointDeleted(t) ==
    LET i == t.iface
        port == IF t.old.port > 0 THEN t.old.port ELSE hwAddr[i]
    IN /\ t.step = "Deleted"
       /\ hwAddr' = [hwAddr EXCEPT ![i] = 0]
       /\ Starts(t, IF hwAddr[i] = 0 THEN {}
                    ELSE {Task(t.id, "RemoveLocalEndpoint", i, Row(port, t.old.mode), t.new)})
       /\ UNCHANGED datapath

OfPort(i) == IF row[i].port > 0 THEN row[i].port ELSE hwAddr[i]

\* From access to trunk or back: the mode is the event's.
filterPortVlanModeUpdate(t) ==
    {Row(OfPort(t.iface), t.new.mode) :
        m \in {Trunk} \cap {t.old.mode, t.new.mode}}

\* From tag to tag: the mode is what the cache holds now.
filterPortVlanTagUpdate(t) == {interfaceToEndpoint(t.iface, OfPort(t.iface))}

\* Between no tag and Trunk the tag column does not change, and neither filter
\* finds the old tag.
processPortUpdate(t) ==
    LET i == t.iface
        modes == {t.old.mode, t.new.mode}
        new == IF row[i] = NoRow \/ modes = {0, Trunk} THEN {}
               ELSE IF filterPortVlanModeUpdate(t) # {} THEN filterPortVlanModeUpdate(t)
               ELSE filterPortVlanTagUpdate(t)
    IN /\ t.step = "PortUpdate"
       /\ Starts(t, {Task(t.id, "UpdateLocalEndpoint", i, Row(OfPort(i), t.old.mode), e) :
                       e \in new})
       /\ UNCHANGED <<hwAddr, datapath>>

Filter(t) ==
    /\ \/ filterEndpointAdded(t) \/ filterEndpointUpdated(t)
       \/ filterEndpointDeleted(t) \/ processPortUpdate(t)
    /\ UNCHANGED <<row, ports, rowChanges, rowFaults>>

------------------------------------------------------------------------------
(* The datapath.  Every operation holds flowReplayMutex.                    *)

\* The two flows of an endpoint in the local bridge, and their removal, which
\* dereferences the flow found under the port.
BridgeAdd(i, flows, ep) ==
    IF i \in Skipped THEN flows ELSE [flows EXCEPT ![ep.port] = ep.mode]

BridgeRemove(flows, port) == [flows EXCEPT ![port] = NoFlow]

Calls(t, i, ep, flows, bridge) ==
    /\ db' = [db EXCEPT ![i] = ep]
    /\ flow' = flows /\ sw' = bridge
    /\ Starts(t, {})
    /\ UNCHANGED <<hwAddr, replay, up>>

AddLocalEndpoint(t) ==
    LET i == t.iface IN
    /\ t.step = "AddLocalEndpoint"
    /\ \/ /\ db[i] # NoRow
          /\ Calls(t, i, db[i], flow, sw)
       \/ /\ db[i] = NoRow
          /\ Calls(t, i, t.new, BridgeAdd(i, flow, t.new), BridgeAdd(i, sw, t.new))

UpdateLocalEndpoint(t) ==
    LET i == t.iface IN
    /\ t.step = "UpdateLocalEndpoint"
    /\ \/ /\ db[i] = NoRow
          /\ Calls(t, i, NoRow, flow, sw)
       \/ /\ db[i] # NoRow /\ flow[t.old.port] = NoFlow
          /\ Down
       \/ /\ db[i] # NoRow /\ flow[t.old.port] # NoFlow
          /\ Calls(t, i, t.new,
                   BridgeAdd(i, BridgeRemove(flow, t.old.port), t.new),
                   BridgeAdd(i, BridgeRemove(sw, t.old.port), t.new))

\* (Mutant: the endpoint leaves the table and its flows stay.)
ForgetLocalEndpoint(t) ==
    /\ t.step = "RemoveLocalEndpoint"
    /\ Calls(t, t.iface, NoRow, flow, sw)

RemoveLocalEndpoint(t) ==
    LET i == t.iface IN
    /\ t.step = "RemoveLocalEndpoint"
    /\ \/ /\ db[i] = NoRow
          /\ Calls(t, i, NoRow, flow, sw)
       \/ /\ db[i] # NoRow /\ flow[t.old.port] = NoFlow
          /\ Down
       \/ /\ db[i] # NoRow /\ flow[t.old.port] # NoFlow
          /\ Calls(t, i, NoRow, BridgeRemove(flow, t.old.port), BridgeRemove(sw, t.old.port))

Call(t) ==
    /\ AddLocalEndpoint(t) \/ UpdateLocalEndpoint(t) \/ RemoveLocalEndpoint(t)
    /\ UNCHANGED <<row, ports, rowChanges, rowFaults>>

\* vswitchd restarts with empty bridges; replayVDSFlow runs when it connects.
RestartSwitch ==
    /\ up /\ rowFaults < MaxRowFaults
    /\ rowFaults' = rowFaults + 1
    /\ sw' = Nothing /\ replay' = TRUE
    /\ UNCHANGED <<row, hwAddr, tasks, db, flow, up, missed, ports, rowChanges>>

\* The mode of the endpoint in the table with port p and flows, or other.
ModeAt(p, other) ==
    IF \E i \in Ifaces \ Skipped : db[i].port = p
    THEN (CHOOSE e \in {db[i] : i \in Ifaces \ Skipped} : e.port = p).mode ELSE other

ReplayVDSLocalEndpointFlow ==
    /\ replay /\ replay' = FALSE
    /\ flow' = [p \in Ports |-> ModeAt(p, flow[p])]
    /\ sw' = [p \in Ports |-> ModeAt(p, sw[p])]
    /\ UNCHANGED <<row, hwAddr, tasks, db, up, missed, ports, rowChanges, rowFaults>>

Crash ==
    /\ up /\ rowFaults < MaxRowFaults
    /\ rowFaults' = rowFaults + 1
    /\ Down
    /\ UNCHANGED <<row, ports, rowChanges>>

\* The monitor starts with every row inserted; the flows of the run before are
\* flushed (FlowRound).
Start ==
    /\ ~up /\ up' = TRUE
    /\ tasks' = {Task(rowChanges, "Added", i, NoRow, row[i]) :
                    i \in {j \in Ifaces : row[j].port > 0}}
    /\ sw' = Nothing
    /\ UNCHANGED <<row, hwAddr, db, flow, replay, missed, ports, rowChanges, rowFaults>>

LocalNext ==
    \/ \E i \in Ifaces : \/ SetOfPort(i) \/ SetOfPortAndIDs(i) \/ LoseOfPort(i) \/ DelPort(i)
                         \/ \E tag \in Tags : AddPort(i, tag)
                         \/ \E mode \in Modes : SetMode(i, mode)
    \/ \E t \in tasks : Filter(t) \/ Call(t)
    \/ RestartSwitch \/ ReplayVDSLocalEndpointFlow \/ Crash \/ Start

LocalSpec == LocalInit /\ [][LocalNext]_localVars

------------------------------------------------------------------------------
\* The bridge holds the flows of the endpoints in localEndpointDB, in the mode
\* the table has for them, and no others, in whatever order the callbacks run
\* and across restarts of vswitchd and of the agent.
FlowsFollowDB == up /\ ~replay => sw = [p \in Ports |-> ModeAt(p, NoFlow)]

\* When no callback is pending, localEndpointDB has an endpoint for every
\* interface with a port number, with that number and mode (a trunk may have
\* been read as untagged), and for no other, although a goroutine reads rows
\* that have changed since its own event: unless a goroutine of the interface
\* overtook an earlier one, or a change was one the filters do not recognise.
QuietDBFollowsOVSDB ==
    up /\ tasks = {} =>
        \A i \in Ifaces :
            missed[i] \/ IF row[i].port <= 0 THEN db[i] = NoRow
                         ELSE db[i] \in {row[i], interfaceToEndpoint(i, row[i].port)}
===============================================================================
