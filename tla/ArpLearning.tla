------------------------------ MODULE ArpLearning ------------------------------
(***************************************************************************)
(* Addresses learned from the ARP packets of local endpoints.  The local   *)
(* bridge reports an address a few times to the agent monitor and then     *)
(* ignores it, whatever port it comes from, until the entry is old enough  *)
(* for the cleaner.                                                        *)
(***************************************************************************)
EXTENDS Integers, Sequences

CONSTANTS IPs, Ports,
          Foreign,  \* the addresses announced with another MAC than the port's
          MaxIPAddressLearningFrenquency,
          ChanSize, \* of ofPortIPAddressUpdateChan
          MaxMoves, MaxUpdates \* bounds

VARIABLES
    where,    \* the port each address is behind
    learned,  \* learnedIPAddressMap: updateTimes and age, or NotLearned
    ipAddr,   \* the endpoint of the port has an IPAddr other than nil
    chan,     \* ofPortIPAddressUpdateChan
    reported, \* the port the monitor was last told of, for each address
    moves, updates

vars == <<where, learned, ipAddr, chan, reported, moves, updates>>

NotLearned == [times |-> -1, old |-> FALSE]

Init ==
    /\ where \in [IPs -> Ports]
    /\ learned = [a \in IPs |-> NotLearned]
    /\ ipAddr = [p \in Ports |-> FALSE]
    /\ chan = <<>>
    /\ reported = where
    /\ moves = 0 /\ updates = 0

\* setLocalEndpointIPAddr copies into a slice of length zero and leaves the
\* address nil.  The handler waits while the channel is full.
processLocalEndpointUpdate(a) ==
    /\ Len(chan) < ChanSize
    /\ chan' = Append(chan, <<a, where[a]>>)
    /\ learned' = [learned EXCEPT ![a] =
                     IF @ = NotLearned
                     THEN [times |-> MaxIPAddressLearningFrenquency, old |-> FALSE]
                     ELSE [@ EXCEPT !.times = @ - 1]]

processArp(a) ==
    /\ learned[a].times # 0
    /\ ~(a \in Foreign /\ ipAddr[where[a]])
    /\ processLocalEndpointUpdate(a)
    /\ UNCHANGED <<where, ipAddr, reported, moves, updates>>

handleOfPortIPAddressUpdate ==
    /\ chan # <<>>
    /\ reported' = [reported EXCEPT ![Head(chan)[1]] = Head(chan)[2]]
    /\ chan' = Tail(chan)
    /\ UNCHANGED <<where, learned, ipAddr, moves, updates>>

\* IPAddressTimeout passes.
Age(a) ==
    /\ learned[a] # NotLearned /\ ~learned[a].old
    /\ learned' = [learned EXCEPT ![a].old = TRUE]
    /\ UNCHANGED <<where, ipAddr, chan, reported, moves, updates>>

\* (Mutant: an entry that was used up is kept.)
CleanUsable ==
    /\ learned' = [a \in IPs |-> IF learned[a].old /\ learned[a].times > 0
                                 THEN NotLearned ELSE learned[a]]
    /\ UNCHANGED <<where, ipAddr, chan, reported, moves, updates>>

cleanLocalIPAddressCache ==
    /\ learned' = [a \in IPs |-> IF learned[a].old THEN NotLearned ELSE learned[a]]
    /\ UNCHANGED <<where, ipAddr, chan, reported, moves, updates>>

\* The time of the last update is never set for an address that is not nil.
cleanLocalIPAddr ==
    /\ ipAddr' = [p \in Ports |-> FALSE]
    /\ UNCHANGED <<where, learned, chan, reported, moves, updates>>

\* The copy made by UpdateLocalEndpoint is empty and not nil.
UpdateLocalEndpoint(p) ==
    /\ updates < MaxUpdates /\ updates' = updates + 1
    /\ ipAddr' = [ipAddr EXCEPT ![p] = TRUE]
    /\ UNCHANGED <<where, learned, chan, reported, moves>>

\* An address is taken over by an endpoint of another port.
Move(a, p) ==
    /\ moves < MaxMoves /\ moves' = moves + 1
    /\ p # where[a]
    /\ where' = [where EXCEPT ![a] = p]
    /\ UNCHANGED <<learned, ipAddr, chan, reported, updates>>

Next ==
    \/ \E a \in IPs : processArp(a) \/ Age(a) \/ \E p \in Ports : Move(a, p)
    \/ \E p \in Ports : UpdateLocalEndpoint(p)
    \/ handleOfPortIPAddressUpdate \/ cleanLocalIPAddressCache \/ cleanLocalIPAddr

\* Endpoints keep sending ARP packets, and a handler that waits for the channel
\* has its turn; time passes, the two cleaners and the monitor run in goroutines
\* of their own.
Fairness ==
    /\ \A a \in IPs : SF_vars(processArp(a)) /\ WF_vars(Age(a))
    /\ WF_vars(handleOfPortIPAddressUpdate)
    /\ WF_vars(cleanLocalIPAddressCache)
    /\ WF_vars(cleanLocalIPAddr)

Spec == Init /\ [][Next]_vars /\ Fairness

\* Wherever an address moves, the monitor is in the end told the port it is
\* behind and nothing else: what the bridge ignores it ignores for a while.
AddressesReported == <>[](\A a \in IPs : reported[a] = where[a])
===============================================================================
