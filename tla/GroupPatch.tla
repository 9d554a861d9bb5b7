------------------------------ MODULE GroupPatch ------------------------------
(***************************************************************************)
(* A group's membership as data: how the group controller computes a       *)
(* GroupMembersPatch from two memberships, how a patch is applied to one,  *)
(* and the agent's GroupCache.                                             *)
(*                                                                         *)
(* A membership is a partial function from endpoint references to members. *)
(* A member's IPs and agents are one abstract value "addr" (the code only  *)
(* ever compares them for equality as sets); its named ports are kept      *)
(* apart because the code carries them along without comparing them.       *)
(***************************************************************************)
EXTENDS Integers

CONSTANTS Refs,     \* EndpointReference values
          Addrs,    \* what EqualIPs and EqualStringSlice tell apart
          PortSets  \* values of GroupMember.Ports

Member == [addr : Addrs, ports : PortSets]

Members == UNION {[S -> Member] : S \in SUBSET Refs}

NoMembers == [r \in {} |-> r]

\* added, updated and removed carry whole GroupMember values, as in the CRD.
Patch == [added : Members, updated : Members, removed : Members]

\* The restriction of a membership to some references.
Only(m, S) == [r \in S |-> m[r]]

\* A member counts as updated when its IPs or its agents differ; its ports
\* are not looked at.
Changed(prev, curr) ==
    {r \in DOMAIN curr \cap DOMAIN prev : curr[r].addr # prev[r].addr}

ToGroupMembersPatch(prev, curr) ==
    [added   |-> Only(curr, DOMAIN curr \ DOMAIN prev),
     updated |-> Only(curr, Changed(prev, curr)),
     removed |-> Only(prev, DOMAIN prev \ DOMAIN curr)]

IsEmptyPatch(p) ==
    /\ DOMAIN p.removed = {}
    /\ DOMAIN p.added = {}
    /\ DOMAIN p.updated = {}

\* Added members first, updated ones over them, removed ones last.
applyGroupMembersPatch(m, p) ==
    [r \in (DOMAIN m \cup DOMAIN p.added \cup DOMAIN p.updated)
              \ DOMAIN p.removed |->
        IF r \in DOMAIN p.updated THEN p.updated[r]
        ELSE IF r \in DOMAIN p.added THEN p.added[r]
        ELSE m[r]]

\* Two memberships that enforce the same addresses.
Same(m, n) ==
    /\ DOMAIN m = DOMAIN n
    /\ \A r \in DOMAIN m : m[r].addr = n[r].addr

------------------------------------------------------------------------------
(* The agent's GroupCache for one group, as operators on a record: the      *)
(* membership if the group is known (live), and the patches by revision.    *)
(* Every method of the code holds the cache's lock, so each is one step.    *)

\* members[group] missing is live = FALSE.
EmptyCache == [live |-> FALSE, rev |-> 0, mem |-> NoMembers, patches |-> {}]

Cache == [live : BOOLEAN, rev : Nat, mem : Members,
          patches : SUBSET [rev : Nat, patch : Patch]]

\* Older than the membership: ignored.  Otherwise it takes its revision's
\* place, whatever was there.
AddPatch(c, e) ==
    IF c.live /\ e.rev < c.rev THEN c
    ELSE [c EXCEPT !.patches = {x \in @ : x.rev # e.rev} \cup {e}]

\* Ignored if the group is known; else patches older than it are dropped.
AddGroupMembership(c, v) ==
    IF c.live THEN c
    ELSE [live |-> TRUE, rev |-> v.rev, mem |-> v.mem,
          patches |-> {x \in c.patches : x.rev >= v.rev}]

DelGroupMembership(c) == EmptyCache

NextPatches(c) == {x \in c.patches : c.live /\ x.rev = c.rev}

\* The revision check that ends the process when it fails.
ApplyPatchFatal(c, rev) == c.live /\ rev # c.rev

\* (Mutant: the loop over UpdatedGroupMembers is missing.)
ApplyPatchNoUpdate(c, rev) ==
    IF NextPatches(c) = {} \/ rev # c.rev THEN c
    ELSE LET e == CHOOSE x \in NextPatches(c) : TRUE
         IN [c EXCEPT !.mem = applyGroupMembersPatch(@, [e.patch EXCEPT !.updated = NoMembers]),
                      !.rev = rev + 1,
                      !.patches = {x \in @ : x.rev # rev}]

ApplyPatch(c, rev) ==
    IF NextPatches(c) = {} \/ rev # c.rev THEN c
    ELSE LET e == CHOOSE x \in NextPatches(c) : TRUE
         IN [c EXCEPT !.mem = applyGroupMembersPatch(@, e.patch),
                      !.rev = rev + 1,
                      !.patches = {x \in @ : x.rev # rev}]

\* (Mutant: one patch left counts as none.)
PatchLenMany(c) == \E x, y \in c.patches : x # y

PatchLen(c) == c.patches # {}
===============================================================================
