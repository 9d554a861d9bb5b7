--------------------------- MODULE MCEndpointStatus ---------------------------
(* Two hosts with one port each, and one address. *)
EXTENDS EndpointStatus

Host(one, two) == [a \in Agents |-> [p \in Ports |-> IF a = "a1" THEN one ELSE two]]

Layout(t, was, now, user) ==
    [type |-> [e \in Endpoints |-> t], was |-> was, ovs |-> now,
     holder |-> [i \in IPs |-> user]]

\* A VM that has just migrated, a VM that has taken over the address of
\* another, and an Endpoint that is found by the address.
MCLayouts ==
    {Layout("dynamic", Host("e1", None), Host(None, "e1"), "e1"),
     Layout("dynamic", Host("e1", "e2"), Host("e1", "e2"), "e2"),
     Layout("static-ip", Host("e1", None), Host("e1", None), "e1")}

\* The second VM is only there where the layout has it.
Second == (\E i \in IPs : holder[i] = "e2") \/ \E a \in Agents, p \in Ports : ovs[a][p] = "e2"

\* The VM that has migrated stays where it is.
Stays == ovs = Host(None, "e1") => UNCHANGED ovs

MCSpec == Init /\ [][Next /\ (Second' => Second) /\ Stays]_vars /\ Fairness
===============================================================================
