------------------------------- MODULE CniServer -------------------------------
(***************************************************************************)
(* The CNI server of the agent: CmdAdd takes an address from host-local,   *)
(* makes the veth pair and adds its port to the local bridge; CmdDel       *)
(* removes the port and releases the address.  Each runs under a mutex and *)
(* stops at the first error, undoing nothing; the agent may end between    *)
(* two steps.  The kubelet (external) deletes a sandbox whose ADD has not  *)
(* succeeded and repeats a DEL until it succeeds.                          *)
(***************************************************************************)
EXTENDS Integers

CONSTANTS Sandboxes, PodIPs, NoPodIP,
          MaxCniFaults \* bound: failing steps and ends of the agent

ASSUME CniAssumption == NoPodIP \notin PodIPs

VARIABLES
    asked,    \* what the kubelet wants: "none", "add", "run", "del", "gone"
    busy,     \* the request under way: sandbox and next step, or NoRequest
    reserved, \* host-local: the address of each sandbox, or NoPodIP
    uses,     \* the address configured on the sandbox's veth, or NoPodIP
    bridged,  \* the sandboxes whose veth is a port of the bridge
    ids,      \* the ports that have their external-ids
    cniFaults

cniVars == <<asked, busy, reserved, uses, bridged, ids, cniFaults>>

NoRequest == [id |-> "", step |-> ""]

CniInit ==
    /\ asked = [s \in Sandboxes |-> "none"]
    /\ busy = NoRequest
    /\ reserved = [s \in Sandboxes |-> NoPodIP]
    /\ uses = reserved
    /\ bridged = {} /\ ids = {}
    /\ cniFaults = 0

CmdAdd(s) ==
    /\ busy = NoRequest /\ asked[s] = "none"
    /\ asked' = [asked EXCEPT ![s] = "add"]
    /\ busy' = [id |-> s, step |-> "ExecAdd"]
    /\ UNCHANGED <<reserved, uses, bridged, ids, cniFaults>>

\* A pod is deleted, or its ADD has failed.
CmdDel(s) ==
    /\ busy = NoRequest /\ asked[s] \in {"add", "run", "del"}
    /\ asked' = [asked EXCEPT ![s] = "del"]
    /\ busy' = [id |-> s, step |-> "DeletePort"]
    /\ UNCHANGED <<reserved, uses, bridged, ids, cniFaults>>

Goes(step, next) == busy.step = step /\ busy' = [busy EXCEPT !.step = next]

\* host-local has no address left: the request fails.
ExecAdd ==
    /\ busy.step = "ExecAdd"
    /\ LET free == PodIPs \ {reserved[s] : s \in Sandboxes} IN
       IF free = {} THEN busy' = NoRequest /\ UNCHANGED reserved
       ELSE /\ Goes("ExecAdd", "SetupVeth")
            /\ \E ip \in free : reserved' = [reserved EXCEPT ![busy.id] = ip]
    /\ UNCHANGED <<asked, uses, bridged, ids, cniFaults>>

SetupVeth ==
    /\ Goes("SetupVeth", "CreatePort")
    /\ uses' = [uses EXCEPT ![busy.id] = reserved[busy.id]]
    /\ UNCHANGED <<asked, reserved, bridged, ids, cniFaults>>

CreatePort ==
    /\ Goes("CreatePort", "UpdateInterface")
    /\ bridged' = bridged \cup {busy.id}
    /\ UNCHANGED <<asked, reserved, uses, ids, cniFaults>>

\* The last step but the gratuitous ARP, whose failure is logged.
UpdateInterface ==
    /\ busy.step = "UpdateInterface" /\ busy' = NoRequest
    /\ ids' = ids \cup {busy.id}
    /\ asked' = [asked EXCEPT ![busy.id] = "run"]
    /\ UNCHANGED <<reserved, uses, bridged, cniFaults>>

\* (Mutant: nothing more is done for a sandbox that has no port.)
DeletePortOrDone ==
    /\ busy.step = "DeletePort"
    /\ IF busy.id \in bridged
       THEN Goes("DeletePort", "ExecDel") /\ UNCHANGED asked
       ELSE busy' = NoRequest /\ asked' = [asked EXCEPT ![busy.id] = "gone"]
    /\ bridged' = bridged \ {busy.id}
    /\ ids' = ids \ {busy.id}
    /\ UNCHANGED <<reserved, uses, cniFaults>>

\* If there is one.
DeletePort ==
    /\ Goes("DeletePort", "ExecDel")
    /\ bridged' = bridged \ {busy.id}
    /\ ids' = ids \ {busy.id}
    /\ UNCHANGED <<asked, reserved, uses, cniFaults>>

\* (Mutant: a port that cannot be deleted is left behind.)
FailsButRelease ==
    /\ busy # NoRequest
    /\ cniFaults < MaxCniFaults /\ cniFaults' = cniFaults + 1
    /\ busy' = IF busy.step = "DeletePort" THEN [busy EXCEPT !.step = "ExecDel"] ELSE NoRequest
    /\ UNCHANGED <<asked, reserved, uses, bridged, ids>>

\* A step fails, or the agent ends: the kubelet gets an error.
Fails ==
    /\ busy # NoRequest
    /\ cniFaults < MaxCniFaults /\ cniFaults' = cniFaults + 1
    /\ busy' = NoRequest
    /\ UNCHANGED <<asked, reserved, uses, bridged, ids>>

\* The sandbox and its side of the veth pair are removed with it.
ExecDel ==
    /\ busy.step = "ExecDel" /\ busy' = NoRequest
    /\ reserved' = [reserved EXCEPT ![busy.id] = NoPodIP]
    /\ uses' = [uses EXCEPT ![busy.id] = NoPodIP]
    /\ asked' = [asked EXCEPT ![busy.id] = "gone"]
    /\ UNCHANGED <<bridged, ids, cniFaults>>

Serve == ExecAdd \/ SetupVeth \/ CreatePort \/ UpdateInterface \/ DeletePort \/ ExecDel

CniNext == Serve \/ Fails \/ \E s \in Sandboxes : CmdAdd(s) \/ CmdDel(s)

\* A request that has started goes on; the kubelet deletes what does not run.
Clean(s) == asked[s] # "run" /\ CmdDel(s)

CniFairness == WF_cniVars(Serve) /\ \A s \in Sandboxes : SF_cniVars(Clean(s))

CniSpec == CniInit /\ [][CniNext]_cniVars /\ CniFairness

------------------------------------------------------------------------------
\* The address of a port of the bridge is reserved for that port's sandbox and for
\* no other, at every step, failure or end of the agent in CmdAdd and CmdDel.
AddressesNotShared ==
    \A s \in bridged :
        /\ uses[s] # NoPodIP /\ reserved[s] = uses[s]
        /\ \A t \in Sandboxes \ {s} : reserved[t] # uses[s]

\* What a failed ADD has taken does not stay, through failures of the DEL too: in
\* the end only sandboxes that run have an address or a port.
NothingLeaks ==
    <>[](\A s \in Sandboxes : asked[s] = "run" \/ (s \notin bridged /\ reserved[s] = NoPodIP))
===============================================================================
