-------------------------- MODULE MembershipHistory --------------------------
(***************************************************************************)
(* What the group synchronisation promises, without saying how: the        *)
(* controller gives out a sequence of memberships, each different from the *)
(* one before, and every agent shows one of them under its own number and  *)
(* moves through them in order.                                            *)
(***************************************************************************)
EXTENDS Integers, Sequences

CONSTANTS Agents,
          AddrMaps,  \* the memberships: endpoint references to addresses
          NoAddrs    \* the membership of a group without endpoints

VARIABLES versions,  \* versions[r + 1] is the membership of revision r
          view       \* what each agent shows

vars == <<versions, view>>

Nothing == [known |-> FALSE, rev |-> 0, addrs |-> NoAddrs]

Showing(r) == [known |-> TRUE, rev |-> r, addrs |-> versions[r + 1]]

Init ==
    /\ versions = <<NoAddrs>>
    /\ view = [a \in Agents |-> Nothing]

Publish(m) ==
    /\ m # versions[Len(versions)]
    /\ versions' = Append(versions, m)
    /\ UNCHANGED view

\* An agent starts from any revision that was given out.
Adopt(a) ==
    /\ ~view[a].known
    /\ \E r \in 0 .. Len(versions) - 1 :
          view' = [view EXCEPT ![a] = Showing(r)]
    /\ UNCHANGED versions

Advance(a) ==
    /\ view[a].known
    /\ view[a].rev < Len(versions) - 1
    /\ view' = [view EXCEPT ![a] = Showing(view[a].rev + 1)]
    /\ UNCHANGED versions

Forget(a) ==
    /\ view' = [view EXCEPT ![a] = Nothing]
    /\ UNCHANGED versions

Next ==
    \/ \E m \in AddrMaps : Publish(m)
    \/ \E a \in Agents : Adopt(a) \/ Advance(a) \/ Forget(a)

Spec == Init /\ [][Next]_vars
===============================================================================
