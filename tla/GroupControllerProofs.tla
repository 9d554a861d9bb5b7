------------------------ MODULE GroupControllerProofs ------------------------
(***************************************************************************)
(* The inductive invariant of GroupSync, lemmas about patches, the patch   *)
(* log and the history of memberships, the type invariant for every        *)
(* behaviour, and the controller's steps, which preserve their part of the *)
(* inductive invariant.                                                    *)
(***************************************************************************)
EXTENDS GroupSync, TLAPS

------------------------------------------------------------------------------
(* The inductive invariant behind AgentsHoldHistory: everything that is      *)
(* written down anywhere under a revision (object versions, patches, the     *)
(* reconcile's local variables, the agents' caches) agrees with the one      *)
(* history of memberships, and a deleted patch is older than every           *)
(* membership the controller may still start from.                           *)

\* v holds the membership that history h has for its revision.
IsVersion(h, v) == v.rev < Len(h) /\ Same(v.mem, h[v.rev + 1])

\* Patch e leads from its revision to the next.
Fits(h, e) ==
    /\ e.rev + 1 < Len(h)
    /\ Same(applyGroupMembersPatch(h[e.rev + 1], e.patch), h[e.rev + 2])

DeletedBelow(log, n) ==
    \A i \in 1 .. Len(log) : log[i].op = "delete" => log[i].rev < n

\* Every revision but the last has a patch that exists or existed.
Covered(h, log) ==
    \A r \in 0 .. Len(h) - 2 :
        \/ HasRev(LivePatches(log, Len(log)), r)
        \/ \E i \in 1 .. Len(log) : log[i].op = "delete" /\ log[i].rev = r

MembersInv ==
    /\ mLog[1] = Absent
    /\ \A i \in 1 .. Len(mLog) : IsVersion(hist, mLog[i])
    /\ \A i \in 2 .. Len(mLog) : mLog[i].live
    /\ \A i, j \in 1 .. Len(mLog) : i <= j => mLog[i].rev <= mLog[j].rev

PatchInv ==
    /\ \A i \in 1 .. Len(pLog) : Fits(hist, pLog[i])
    /\ Covered(hist, pLog)
    /\ DeletedBelow(pLog, mLog[cm].rev)

WorkInv ==
    /\ IsVersion(hist, w.prev)
    /\ \A e \in w.patches : Fits(hist, e)
    /\ pc \in {"listPatches", "applyPatches", "createPatch"} =>
          DeletedBelow(pLog, w.prev.rev)
    /\ pc = "createPatch" => w.rev = w.prev.rev + 1
    /\ pc \in {"syncMembers", "updateMembers"} =>
          w.rev <= Top /\ Same(w.curr, Revision(w.rev))
    /\ pc = "updateMembers" => mLog[Len(mLog)].rev = 0
    /\ pc = "listOld" => w.rev - Retained <= mLog[cm].rev
    /\ \A r \in w.old : r < mLog[cm].rev

CacheInv(h, c) ==
    /\ c.live => IsVersion(h, c)
    /\ \A e \in c.patches : Fits(h, e)

AgentInv ==
    \A a \in Agents :
        /\ CacheInv(hist, gc[a])
        /\ held[a] # None => gc[a].live /\ gc[a].rev = held[a]
        /\ ~dead[a]

\* The invariant that BoundedSpec's steps preserve.
IInv ==
    /\ TypeOK
    /\ LeadBounded
    /\ MembersInv
    /\ PatchInv
    /\ WorkInv
    /\ AgentInv

------------------------------------------------------------------------------
(* Patches and memberships. *)

\* Applying a patch respects equality of addresses.
LEMMA ApplyCong ==
    ASSUME NEW m, NEW n, NEW p, Same(m, n)
    PROVE  Same(applyGroupMembersPatch(m, p), applyGroupMembersPatch(n, p))
BY Zenon DEF Same, applyGroupMembersPatch

\* Applying the difference of two memberships to the first gives the second:
\* what ToGroupMembersPatch computes is enough for an agent to follow.
LEMMA ApplyDiff ==
    ASSUME NEW m, NEW n
    PROVE  Same(applyGroupMembersPatch(m, ToGroupMembersPatch(m, n)), n)
BY Zenon DEF Same, applyGroupMembersPatch, ToGroupMembersPatch, Only, Changed

\* An empty difference means equal addresses: nothing is skipped.
LEMMA EmptyDiff ==
    ASSUME NEW m, NEW n, IsEmptyPatch(ToGroupMembersPatch(m, n))
    PROVE  Same(m, n)
BY Zenon DEF Same, IsEmptyPatch, ToGroupMembersPatch, Only, Changed

LEMMA SameSymmetric ==
    ASSUME NEW m, NEW n, Same(m, n)
    PROVE  Same(n, m)
BY Zenon DEF Same

LEMMA SameTransitive ==
    ASSUME NEW m, NEW n, NEW k, Same(m, n), Same(n, k)
    PROVE  Same(m, k)
BY Zenon DEF Same

LEMMA SameReflexive ==
    ASSUME NEW m
    PROVE  Same(m, m)
BY Zenon DEF Same

LEMMA MembersType ==
    \A m : m \in Members <=> \E S \in SUBSET Refs : m \in [S -> Member]
BY Zenon DEF Members

LEMMA NoMembersType == NoMembers \in Members
BY MembersType, Zenon DEF NoMembers

LEMMA DiffType ==
    ASSUME NEW m \in Members, NEW n \in Members
    PROVE  ToGroupMembersPatch(m, n) \in Patch
<1>1. \A k, S : k \in Members /\ S \subseteq DOMAIN k => Only(k, S) \in Members
  BY MembersType, Zenon DEF Only
<1> QED
  BY <1>1, Zenon DEF ToGroupMembersPatch, Patch, Changed

LEMMA ApplyType ==
    ASSUME NEW m \in Members, NEW p \in Patch
    PROVE  applyGroupMembersPatch(m, p) \in Members
<1>1. PICK S \in SUBSET Refs : m \in [S -> Member]
  BY MembersType, Zenon
<1>2. PICK A \in SUBSET Refs : p.added \in [A -> Member]
  BY MembersType, Zenon DEF Patch
<1>3. PICK U \in SUBSET Refs : p.updated \in [U -> Member]
  BY MembersType, Zenon DEF Patch
<1>4. applyGroupMembersPatch(m, p) \in [(S \cup A \cup U) \ DOMAIN p.removed -> Member]
  BY <1>1, <1>2, <1>3, Zenon DEF applyGroupMembersPatch
<1> QED
  BY <1>4, MembersType, Zenon

------------------------------------------------------------------------------
(* The patch log. *)

\* A patch that exists was created by an event of the log.
LEMMA LiveSource ==
    ASSUME NEW log \in Seq(PatchEvent), NEW n \in 0 .. Len(log),
           NEW e \in LivePatches(log, n)
    PROVE  \E i \in 1 .. Len(log) : /\ e = [rev |-> log[i].rev, patch |-> log[i].patch]
                                    /\ log[i].op = "create"
BY DEF LivePatches, Lives

LEMMA LiveType ==
    ASSUME NEW log \in Seq(PatchEvent), NEW n \in 0 .. Len(log)
    PROVE  LivePatches(log, n) \in SUBSET Entry
<1> SUFFICES ASSUME NEW e \in LivePatches(log, n)
             PROVE  e \in Entry
  BY Zenon
<1>1. PICK i \in 1 .. Len(log) : e = [rev |-> log[i].rev, patch |-> log[i].patch]
  BY LiveSource, Zenon
<1>2. log[i] \in PatchEvent
  OBVIOUS
<1> QED
  BY <1>1, <1>2, Zenon DEF Entry, PatchEvent

LEMMA LiveIntro ==
    ASSUME NEW log, NEW n, NEW i \in 1 .. n, Lives(log, n, i)
    PROVE  HasRev(LivePatches(log, n), log[i].rev)
<1>1. [rev |-> log[i].rev, patch |-> log[i].patch] \in LivePatches(log, n)
  BY Zenon DEF LivePatches
<1> QED
  BY <1>1, Zenon DEF HasRev

\* An event on one patch leaves the others as they are.
LEMMA LiveAppend ==
    ASSUME NEW log \in Seq(PatchEvent), NEW ev \in PatchEvent, NEW r \in Nat,
           \/ r # ev.rev /\ HasRev(LivePatches(log, Len(log)), r)
           \/ r = ev.rev /\ ev.op = "create"
    PROVE  HasRev(LivePatches(Append(log, ev), Len(Append(log, ev))), r)
<1> DEFINE new == Append(log, ev)
<1>1. new \in Seq(PatchEvent) /\ Len(new) = Len(log) + 1 /\ new[Len(log) + 1] = ev
  OBVIOUS
<1>2. \A i \in 1 .. Len(log) : new[i] = log[i]
  OBVIOUS
<1> HIDE DEF new
<1>3. CASE r = ev.rev /\ ev.op = "create"
  <2>1. Lives(new, Len(new), Len(new))
    BY <1>1, <1>3 DEF Lives
  <2>2. HasRev(LivePatches(new, Len(new)), new[Len(new)].rev)
    BY <2>1, <1>1, LiveIntro
  <2> QED
    BY <2>2, <1>1, <1>3, Zenon DEF new
<1>4. CASE r # ev.rev /\ HasRev(LivePatches(log, Len(log)), r)
  <2>1. PICK i \in 1 .. Len(log) : log[i].rev = r /\ Lives(log, Len(log), i)
    BY <1>4 DEF HasRev, LivePatches
  <2>2. Lives(new, Len(new), i)
    BY <2>1, <1>1, <1>2, <1>4, SMTT(30) DEF Lives
  <2>3. new[i].rev = r /\ i \in 1 .. Len(new)
    BY <2>1, <1>1, <1>2
  <2>4. HasRev(LivePatches(new, Len(new)), new[i].rev)
    BY <2>2, <2>3, LiveIntro, Zenon
  <2> QED
    BY <2>3, <2>4, Zenon DEF new
<1> QED
  BY <1>3, <1>4, Zenon

------------------------------------------------------------------------------
(* History. *)

\* A new revision changes nothing about the ones before.
LEMMA HistoryGrows ==
    ASSUME NEW h \in Seq(Members), NEW m \in Members
    PROVE  /\ \A v : v.rev \in Nat /\ IsVersion(h, v) => IsVersion(Append(h, m), v)
           /\ \A e : e.rev \in Nat /\ Fits(h, e) => Fits(Append(h, m), e)
BY DEF IsVersion, Fits

\* Applying a fitting patch to the membership of its revision gives the next.
LEMMA ApplyFits ==
    ASSUME NEW h, NEW v, NEW e,
           IsVersion(h, v), Fits(h, e), e.rev = v.rev, e.rev \in Nat
    PROVE  IsVersion(h, [rev |-> e.rev + 1,
                         mem |-> applyGroupMembersPatch(v.mem, e.patch)])
<1>1. Same(applyGroupMembersPatch(v.mem, e.patch),
           applyGroupMembersPatch(h[e.rev + 1], e.patch))
  BY ApplyCong, Zenon DEF IsVersion
<1> QED
  BY <1>1, SameTransitive DEF IsVersion, Fits

------------------------------------------------------------------------------
(* Type correctness. *)

LEMMA InitType == Init => TypeOK
<1>1. Absent \in Version
  BY NoMembersType, Zenon DEF Absent, Version
<1>2. Idle \in Work
  BY NoMembersType, Zenon DEF Idle, Work
<1>3. EmptyCache \in Cache
  BY NoMembersType, Zenon DEF EmptyCache, Cache
<1>4. <<Absent>> \in Seq(Version) /\ <<>> \in Seq(PatchEvent) /\ <<NoMembers>> \in Seq(Members)
  BY <1>1, NoMembersType
<1> QED
  BY <1>1, <1>2, <1>3, <1>4, MaxAssumption
     DEF Init, CInit, AInit, TypeOK, CTypeOK, Steps, None

\* The local variables of the reconcile, for its types only.
LEMMA ReturnType ==
    ASSUME NEW f \in BOOLEAN, CTypeOK, Return(f)
    PROVE  w' \in Work /\ pc' \in Steps /\ queued' \in BOOLEAN
<1>1. Idle \in Work
  BY NoMembersType, Zenon DEF Idle, Work
<1> QED
  BY <1>1, Zenon DEF Return, CTypeOK, Steps

LEMMA ControllerStepType ==
    ASSUME CTypeOK, CNext
    PROVE  CTypeOK'
<1> USE MaxAssumption
<1>1. ASSUME NEW m \in Members, EndpointEvent(m) PROVE CTypeOK'
  BY <1>1 DEF EndpointEvent, CTypeOK
<1>2. CASE CacheMembers
  BY <1>2 DEF CacheMembers, CTypeOK
<1>3. CASE CachePatches
  BY <1>3 DEF CachePatches, CTypeOK
<1>4. CASE FetchPrev
  <2>1. mLog[cm] \in Version
    BY DEF CTypeOK
  <2>2. [rev |-> mLog[cm].rev, mem |-> mLog[cm].mem] \in [rev : Nat, mem : Members]
    BY <2>1, Zenon DEF Version
  <2>3. w' \in Work
    BY <1>4, <2>2, Zenon DEF FetchPrev, CTypeOK, Work
  <2> QED
    BY <1>4, <2>3, Zenon DEF FetchPrev, CTypeOK, Steps
<1>5. CASE ListPatches
  <2>1. LivePatches(pLog, cp) \in SUBSET Entry
    BY LiveType, Zenon DEF CTypeOK
  <2>2. w' \in Work
    BY <1>5, <2>1, Zenon DEF ListPatches, CTypeOK, Work
  <2> QED
    BY <1>5, <2>2, Zenon DEF ListPatches, CTypeOK, Steps
<1>6. CASE ApplyNext
  <2>1. PICK e \in w.patches :
          w' = [w EXCEPT !.prev = [rev |-> e.rev + 1,
                                   mem |-> applyGroupMembersPatch(w.prev.mem, e.patch)]]
    BY <1>6, Zenon DEF ApplyNext
  <2>2. e.rev \in Nat /\ e.patch \in Patch /\ w.prev.mem \in Members
    BY Zenon DEF CTypeOK, Work, Entry
  <2>3. applyGroupMembersPatch(w.prev.mem, e.patch) \in Members
    BY <2>2, ApplyType, Zenon
  <2>4. [rev |-> e.rev + 1, mem |-> applyGroupMembersPatch(w.prev.mem, e.patch)]
           \in [rev : Nat, mem : Members]
    BY <2>2, <2>3
  <2>5. w' \in Work
    BY <2>1, <2>4, Zenon DEF CTypeOK, Work
  <2> QED
    BY <1>6, <2>5, Zenon DEF ApplyNext, CTypeOK
<1>7. CASE Diff
  <2>1. w.prev.rev \in Nat /\ w.prev.rev + 1 \in Nat /\ {} \in SUBSET Entry
    BY DEF CTypeOK, Work
  <2>2. PICK n \in Nat : w' = [w EXCEPT !.patches = {}, !.curr = matched, !.rev = n]
    BY <1>7, <2>1, Zenon DEF Diff
  <2>3. w' \in Work
    BY <2>1, <2>2, Zenon DEF CTypeOK, Work
  <2>4. pc' \in Steps
    BY <1>7, Zenon DEF Diff, Steps
  <2> QED
    BY <1>7, <2>3, <2>4, Zenon DEF Diff, CTypeOK
<1>8. CASE CreatePatch
  <2> DEFINE patch == ToGroupMembersPatch(w.prev.mem, w.curr)
             ev == [op |-> "create", rev |-> w.prev.rev, patch |-> patch]
  <2>1. w.prev.mem \in Members /\ w.curr \in Members /\ w.prev.rev \in Nat
    BY Zenon DEF CTypeOK, Work
  <2>2. patch \in Patch
    BY <2>1, DiffType, Zenon
  <2>3. ev \in PatchEvent
    BY <2>1, <2>2, Zenon DEF PatchEvent
  <2>4. applyGroupMembersPatch(w.prev.mem, patch) \in Members
    BY <2>1, <2>2, ApplyType, Zenon
  <2>5. CASE Return(TRUE) /\ UNCHANGED <<pLog, hist>>
    BY <1>8, <2>5, ReturnType, Zenon DEF CreatePatch, CTypeOK
  <2>6. CASE /\ pLog' = Append(pLog, ev)
             /\ hist' \in {hist, Append(hist, applyGroupMembersPatch(w.prev.mem, patch))}
             /\ pc' = "syncMembers"
             /\ UNCHANGED <<w, queued>>
    <3> HIDE DEF ev, patch
    <3>1. pLog' \in Seq(PatchEvent) /\ Len(pLog') >= Len(pLog) /\ cp \in 0 .. Len(pLog')
      BY <2>6, <2>3 DEF CTypeOK
    <3>2. hist' \in Seq(Members) /\ hist' # <<>>
      BY <2>6, <2>4, SMTT(30) DEF CTypeOK
    <3> QED
      BY <1>8, <2>6, <3>1, <3>2, Zenon DEF CreatePatch, CTypeOK, Steps
  <2> QED
    BY <1>8, <2>5, <2>6, Zenon DEF CreatePatch
<1>9. CASE SyncMembers \/ UpdateMembers
  <2>1. Fresh \in Version
    BY NoMembersType, Zenon DEF Fresh, Version
  <2>2. [live |-> TRUE, rev |-> w.rev, mem |-> w.curr] \in Version
    BY Zenon DEF CTypeOK, Work, Version
  <2>3. CASE \E v \in Version : mLog' = Append(mLog, v) /\ pc' \in {"listOld", "updateMembers"}
                                 /\ UNCHANGED <<w, queued>>
    <3>1. mLog' \in Seq(Version) /\ Len(mLog') >= Len(mLog) /\ cm \in 1 .. Len(mLog')
      BY <2>3 DEF CTypeOK
    <3>2. mLog' # <<>> /\ pc' \in Steps /\ w' = w /\ queued' = queued
      BY <2>3 DEF CTypeOK, Steps
    <3>3. UNCHANGED <<matched, pLog, cm, cp, hist, changes, faults>>
      BY <1>9, Zenon DEF SyncMembers, UpdateMembers
    <3> QED
      BY <3>1, <3>2, <3>3, Zenon DEF CTypeOK
  <2>4. CASE Return(TRUE) /\ UNCHANGED mLog
    BY <1>9, <2>4, ReturnType, Zenon DEF SyncMembers, UpdateMembers, CTypeOK
  <2>5. CASE pc' = "listOld" /\ UNCHANGED <<mLog, w, queued>>
    BY <1>9, <2>5, Zenon DEF SyncMembers, UpdateMembers, CTypeOK, Steps
  <2> QED
    BY <1>9, <2>1, <2>2, <2>3, <2>4, <2>5, Zenon DEF SyncMembers, UpdateMembers, WriteMembers
<1>10. CASE ListOld
  <2>1. LivePatches(pLog, cp) \in SUBSET Entry
    BY LiveType, Zenon DEF CTypeOK
  <2>2. w' \in Work
    BY <1>10, <2>1, NoMembersType, SMTT(30) DEF ListOld, CTypeOK, Work, Idle, Entry
  <2> QED
    BY <1>10, <2>2, Zenon DEF ListOld, CTypeOK, Steps
<1>11. CASE Cleanup
  <2>1. CASE \E f \in BOOLEAN : Return(f) /\ UNCHANGED pLog
    BY <1>11, <2>1, ReturnType, Zenon DEF Cleanup, CTypeOK
  <2>2. ASSUME NEW r \in w.old, NEW e \in LivePatches(pLog, Len(pLog)),
               e.rev = r,
               pLog' = Append(pLog, [op |-> "delete", rev |-> r, patch |-> e.patch]),
               w' = [w EXCEPT !.old = @ \ {r}],
               UNCHANGED <<pc, queued>>
        PROVE  CTypeOK'
    <3>1. e \in Entry
      BY LiveType DEF CTypeOK
    <3>2. [op |-> "delete", rev |-> r, patch |-> e.patch] \in PatchEvent
      BY <3>1, <2>2, Zenon DEF PatchEvent, Entry
    <3>3. pLog' \in Seq(PatchEvent) /\ Len(pLog') >= Len(pLog) /\ cp \in 0 .. Len(pLog')
      BY <2>2, <3>2 DEF CTypeOK
    <3>4. w' \in Work
      BY <2>2, Zenon DEF CTypeOK, Work
    <3> QED
      BY <1>11, <2>2, <3>3, <3>4, Zenon DEF Cleanup, CTypeOK
  <2> QED
    BY <1>11, <2>1, <2>2, Zenon DEF Cleanup
<1>12. CASE CallFails
  <2>1. w' \in Work /\ pc' \in Steps /\ queued' \in BOOLEAN
    BY <1>12, ReturnType, Zenon DEF CallFails
  <2> QED
    BY <1>12, <2>1 DEF CallFails, Fault, CTypeOK
<1>13. CASE ControllerRestart
  <2>1. w' \in Work /\ pc' \in Steps /\ queued' \in BOOLEAN
    BY <1>13, ReturnType, Zenon DEF ControllerRestart
  <2> QED
    BY <1>13, <2>1 DEF ControllerRestart, Fault, CTypeOK
<1> QED
  BY <1>1, <1>2, <1>3, <1>4, <1>5, <1>6, <1>7, <1>8, <1>9, <1>10, <1>11, <1>12, <1>13, Zenon
     DEF CNext, Reconcile

\* The API server's logs only grow.
LEMMA LogsGrow ==
    ASSUME CTypeOK, CNext
    PROVE  Len(mLog') >= Len(mLog) /\ Len(pLog') >= Len(pLog)
<1>1. mLog' = mLog \/ \E v : mLog' = Append(mLog, v)
  BY Zenon DEF CNext, Reconcile, EndpointEvent, CacheMembers, CachePatches,
         FetchPrev, ListPatches, ApplyNext, Diff, CreatePatch, SyncMembers,
         UpdateMembers, WriteMembers, ListOld, Cleanup, CallFails, ControllerRestart
<1>2. pLog' = pLog \/ \E v : pLog' = Append(pLog, v)
  BY Zenon DEF CNext, Reconcile, EndpointEvent, CacheMembers, CachePatches,
         FetchPrev, ListPatches, ApplyNext, Diff, CreatePatch, SyncMembers,
         UpdateMembers, ListOld, Cleanup, CallFails, ControllerRestart
<1> QED
  BY <1>1, <1>2 DEF CTypeOK

\* The operations of GroupCache return caches.
LEMMA CacheTypes ==
    ASSUME NEW c \in Cache
    PROVE  /\ \A e \in Entry : AddPatch(c, e) \in Cache
           /\ \A v \in Version : AddGroupMembership(c, v) \in Cache
           /\ DelGroupMembership(c) \in Cache
           /\ \A rev \in Nat : ApplyPatch(c, rev) \in Cache
           /\ \A S \in SUBSET Entry : [c EXCEPT !.patches = S] \in Cache
<1>1. ASSUME NEW e \in Entry PROVE AddPatch(c, e) \in Cache
  BY Zenon DEF AddPatch, Cache, Entry
<1>2. ASSUME NEW v \in Version PROVE AddGroupMembership(c, v) \in Cache
  BY Zenon DEF AddGroupMembership, Cache, Version
<1>3. DelGroupMembership(c) \in Cache
  BY NoMembersType, Zenon DEF DelGroupMembership, EmptyCache, Cache
<1>4. ASSUME NEW rev \in Nat PROVE ApplyPatch(c, rev) \in Cache
  <2>1. CASE NextPatches(c) = {} \/ rev # c.rev
    BY <2>1, Zenon DEF ApplyPatch
  <2>2. CASE ~(NextPatches(c) = {} \/ rev # c.rev)
    <3> DEFINE e == CHOOSE x \in NextPatches(c) : TRUE
    <3>1. e \in NextPatches(c)
      BY <2>2, Zenon
    <3>2. e \in Entry
      BY <3>1, Zenon DEF NextPatches, Cache, Entry
    <3> HIDE DEF e
    <3>3. applyGroupMembersPatch(c.mem, e.patch) \in Members
      BY <3>2, ApplyType, Zenon DEF Cache, Entry
    <3>4. /\ {x \in c.patches : x.rev # rev} \in SUBSET [rev : Nat, patch : Patch]
          /\ rev + 1 \in Nat
      BY DEF Cache
    <3>5. [c EXCEPT !.mem = applyGroupMembersPatch(c.mem, e.patch),
                    !.rev = rev + 1,
                    !.patches = {x \in c.patches : x.rev # rev}] \in Cache
      BY <3>3, <3>4, Zenon DEF Cache
    <3> QED
      BY <2>2, <3>5, Zenon DEF ApplyPatch, e
  <2> QED
    BY <2>1, <2>2, Zenon
<1>5. ASSUME NEW S \in SUBSET Entry PROVE [c EXCEPT !.patches = S] \in Cache
  BY Zenon DEF Cache, Entry
<1> QED
  BY <1>1, <1>2, <1>3, <1>4, <1>5, Zenon

LEMMA AgentStepType ==
    ASSUME TypeOK, NEW a \in Agents, Agent(a), UNCHANGED ctl
    PROVE  TypeOK'
<1> USE MaxAssumption DEF None
<1>0. UNCHANGED <<matched, mLog, pLog, cm, cp, queued, pc, w, hist, changes>>
  BY Zenon DEF ctl
<1>1. ASSUME faults' \in 0 .. MaxFaults PROVE CTypeOK'
  BY <1>0, <1>1, Zenon DEF TypeOK, CTypeOK
<1>2. \A i \in 1 .. Len(mLog) : mLog[i] \in Version
  BY DEF TypeOK, CTypeOK
<1>3. Absent \in Version
  BY NoMembersType, Zenon DEF Absent, Version
<1>4. ASSUME NEW u \in Version, NEW v \in Version, MembersHandler(a, u, v)
      PROVE  gc' \in [Agents -> Cache] /\ pq' \in [Agents -> BOOLEAN]
  <2>1. gc[a] \in Cache
    BY Zenon DEF TypeOK
  <2>2. AddGroupMembership(gc[a], v) \in Cache /\ DelGroupMembership(gc[a]) \in Cache
    BY <2>1, CacheTypes, Zenon
  <2> QED
    BY <1>4, <2>2, ZenonT(60) DEF TypeOK, MembersHandler
<1>5. CASE MembersEvent(a) /\ UNCHANGED faults
  <2>1. mLog[am[a]] \in Version /\ mLog[am[a] + 1] \in Version
    BY <1>5, <1>2 DEF MembersEvent, TypeOK
  <2>2. gc' \in [Agents -> Cache] /\ pq' \in [Agents -> BOOLEAN]
    BY <1>5, <1>4, <2>1, Zenon DEF MembersEvent
  <2>3. CTypeOK'
    BY <1>5, <1>1, Zenon DEF TypeOK, CTypeOK
  <2>4. am' \in [Agents -> 0 .. Len(mLog')]
    BY <1>0, <1>5 DEF MembersEvent, TypeOK, CTypeOK
  <2> QED
    BY <1>0, <1>5, <2>2, <2>3, <2>4, Zenon DEF MembersEvent, TypeOK
<1>6. CASE ListMembers(a)
  <2>1. (IF am[a] = 0 THEN Absent ELSE mLog[am[a]]) \in Version /\ mLog[Len(mLog)] \in Version
    BY <1>6, <1>2, <1>3 DEF ListMembers, TypeOK, CTypeOK
  <2>2. gc' \in [Agents -> Cache] /\ pq' \in [Agents -> BOOLEAN]
    BY <1>6, <1>4, <2>1, Zenon DEF ListMembers
  <2>3. CTypeOK'
    BY <1>6, <1>1, SMTT(30) DEF TypeOK, CTypeOK, ListMembers, Lists, Fault
  <2>4. am' \in [Agents -> 0 .. Len(mLog')]
    BY <1>0, <1>6, SMTT(20) DEF ListMembers, TypeOK, CTypeOK
  <2> QED
    BY <1>0, <1>6, <2>2, <2>3, <2>4, Zenon DEF ListMembers, TypeOK
<1>7. CASE PatchEventSeen(a) /\ UNCHANGED faults
  <2>1. pLog[ap[a] + 1] \in PatchEvent
    BY <1>7, SMTT(30) DEF PatchEventSeen, TypeOK, CTypeOK
  <2>2. [rev |-> pLog[ap[a] + 1].rev, patch |-> pLog[ap[a] + 1].patch] \in Entry
    BY <2>1, Zenon DEF PatchEvent, Entry
  <2>3. gc' \in [Agents -> Cache] /\ pq' \in [Agents -> BOOLEAN]
    <3>1. AddPatch(gc[a], [rev |-> pLog[ap[a] + 1].rev, patch |-> pLog[ap[a] + 1].patch]) \in Cache
      BY <2>2, CacheTypes, Zenon DEF TypeOK
    <3> QED
      BY <1>7, <3>1, Zenon DEF PatchEventSeen, TypeOK
  <2>4. CTypeOK'
    BY <1>7, <1>1, Zenon DEF TypeOK, CTypeOK
  <2>5. ap' \in [Agents -> -1 .. Len(pLog')]
    BY <1>0, <1>7 DEF PatchEventSeen, TypeOK, CTypeOK
  <2> QED
    BY <1>0, <1>7, <2>3, <2>4, <2>5, Zenon DEF PatchEventSeen, TypeOK
<1>8. CASE ListPatchObjects(a)
  <2> DEFINE new == {e \in LivePatches(pLog, Len(pLog)) :
                        ~HasRev(LivePatches(pLog, ap[a]), e.rev)}
             kept == {e \in new : ~(gc[a].live /\ e.rev < gc[a].rev)}
             S == {x \in gc[a].patches : ~HasRev(kept, x.rev)} \cup kept
  <2>1. LivePatches(pLog, Len(pLog)) \in SUBSET Entry
    <3>1. pLog \in Seq(PatchEvent) /\ Len(pLog) \in 0 .. Len(pLog)
      BY DEF TypeOK, CTypeOK
    <3> QED
      BY <3>1, LiveType, Zenon
  <2>2. S \in SUBSET Entry
    BY <2>1, Zenon DEF TypeOK, Cache, Entry
  <2>3. gc' = [gc EXCEPT ![a] = [gc[a] EXCEPT !.patches = S]]
    BY <1>8, Zenon DEF ListPatchObjects, TypeOK
  <2>4. pq' \in [Agents -> BOOLEAN]
    BY <1>8, Zenon DEF ListPatchObjects, TypeOK
  <2> HIDE DEF S
  <2>5. gc' \in [Agents -> Cache]
    BY <2>2, <2>3, CacheTypes, Zenon DEF TypeOK
  <2>6. CTypeOK'
    BY <1>8, <1>1, SMTT(30) DEF TypeOK, CTypeOK, ListPatchObjects, Lists, Fault
  <2> QED
    BY <1>0, <1>8, <2>4, <2>5, <2>6, SMTT(30) DEF ListPatchObjects, TypeOK, CTypeOK
<1>9. CASE NextPatch(a) /\ UNCHANGED faults
  <2>1. gc[a].rev \in Nat
    BY Zenon DEF TypeOK, Cache
  <2>2. CTypeOK'
    BY <1>9, <1>1, Zenon DEF TypeOK, CTypeOK
  <2> QED
    BY <1>0, <1>9, <2>1, <2>2, Zenon DEF NextPatch, TypeOK
<1>10. CASE ReconcilePatch(a) /\ UNCHANGED faults
  <2>1. held[a] \in Nat
    BY <1>10, Zenon DEF ReconcilePatch, TypeOK
  <2>2. gc' \in [Agents -> Cache]
    <3>1. ApplyPatch(gc[a], held[a]) \in Cache
      BY <2>1, CacheTypes, Zenon DEF TypeOK
    <3> QED
      BY <1>10, <3>1, Zenon DEF ReconcilePatch, TypeOK
  <2>3. pq' \in [Agents -> BOOLEAN] /\ dead' \in [Agents -> BOOLEAN]
    BY <1>10, Zenon DEF ReconcilePatch, PatchLen, TypeOK
  <2>4. CTypeOK'
    BY <1>10, <1>1, Zenon DEF TypeOK, CTypeOK
  <2> QED
    BY <1>0, <1>10, <2>2, <2>3, <2>4, Zenon DEF ReconcilePatch, TypeOK
<1>11. CASE AgentRestart(a)
  <2>1. EmptyCache \in Cache
    BY NoMembersType, Zenon DEF EmptyCache, Cache
  <2>2. CTypeOK'
    BY <1>11, <1>1 DEF TypeOK, CTypeOK, AgentRestart, Fault
  <2> QED
    BY <1>0, <1>11, <2>1, <2>2, SMTT(30) DEF AgentRestart, TypeOK, CTypeOK
<1> QED
  BY <1>5, <1>6, <1>7, <1>8, <1>9, <1>10, <1>11, Zenon DEF Agent, AgentStep

LEMMA StepType ==
    ASSUME TypeOK, [Next]_vars
    PROVE  TypeOK'
<1>1. CASE CNext /\ UNCHANGED avars
  <2>1. CTypeOK'
    BY <1>1, ControllerStepType, Zenon DEF TypeOK
  <2>2. Len(mLog') >= Len(mLog) /\ Len(pLog') >= Len(pLog)
    BY <1>1, LogsGrow, Zenon DEF TypeOK
  <2>3. /\ Len(mLog) \in Nat /\ Len(pLog) \in Nat
        /\ Len(mLog') \in Nat /\ Len(pLog') \in Nat
    BY <2>1, SMTT(30) DEF TypeOK, CTypeOK
  <2> QED
    BY <1>1, <2>1, <2>2, <2>3 DEF TypeOK, avars
<1>2. CASE (\E a \in Agents : Agent(a)) /\ UNCHANGED ctl
  BY <1>2, AgentStepType, Zenon
<1>3. CASE UNCHANGED vars
  BY <1>3, Zenon DEF vars, cvars, ctl, avars, TypeOK, CTypeOK
<1> QED
  BY <1>1, <1>2, <1>3, Zenon DEF Next

\* Every object, cache, queue and local variable of the controller and of the
\* agents keeps its type, with any number of agents, endpoints and faults.
THEOREM TypeCorrect == Spec => []TypeOK
<1>1. Init => TypeOK
  BY InitType, Zenon
<1>2. TypeOK /\ [Next]_vars => TypeOK'
  BY StepType, Zenon
<1> QED
  BY <1>1, <1>2, PTL DEF Spec

------------------------------------------------------------------------------
(* The inductive invariant: the controller's steps. *)

CInv == CTypeOK /\ LeadBounded /\ MembersInv /\ PatchInv /\ WorkInv

\* Where the patch of the next revision is missing there is no next revision:
\* a patch is created only for the newest one.
LEMMA CreatesAtTop ==
    ASSUME CInv, pc = "createPatch",
           ~HasRev(LivePatches(pLog, Len(pLog)), w.prev.rev)
    PROVE  w.prev.rev = Top /\ w.rev = Top + 1
<1>1. w.prev.rev \in Nat /\ w.prev.rev < Len(hist) /\ Len(hist) \in Nat
  BY DEF CInv, CTypeOK, Work, WorkInv, IsVersion
<1>2. ASSUME w.prev.rev < Top PROVE FALSE
  <2>1. w.prev.rev \in 0 .. Len(hist) - 2
    BY <1>1, <1>2 DEF Top
  <2>2. PICK i \in 1 .. Len(pLog) : pLog[i].op = "delete" /\ pLog[i].rev = w.prev.rev
    BY <2>1, Zenon DEF CInv, PatchInv, Covered
  <2>3. pLog[i].rev < w.prev.rev
    BY <2>2, Zenon DEF CInv, WorkInv, DeletedBelow
  <2> QED
    BY <1>1, <2>2, <2>3
<1>3. w.rev = w.prev.rev + 1
  BY Zenon DEF CInv, WorkInv
<1> QED
  BY <1>1, <1>2, <1>3 DEF Top

\* What was written down under the history stays true as it grows.
LEMMA HistoryKept ==
    ASSUME CTypeOK, CNext
    PROVE  /\ \A v : v.rev \in Nat /\ IsVersion(hist, v) => IsVersion(hist', v)
           /\ \A e : e.rev \in Nat /\ Fits(hist, e) => Fits(hist', e)
           /\ Len(hist') >= Len(hist)
           /\ \A r \in 0 .. Len(hist) - 1 : hist'[r + 1] = hist[r + 1]
<1>1. CASE hist' = hist
  BY <1>1 DEF CTypeOK
<1>2. ASSUME NEW m \in Members, hist' = Append(hist, m)
      PROVE  /\ \A v : v.rev \in Nat /\ IsVersion(hist, v) => IsVersion(hist', v)
             /\ \A e : e.rev \in Nat /\ Fits(hist, e) => Fits(hist', e)
             /\ Len(hist') >= Len(hist)
             /\ \A r \in 0 .. Len(hist) - 1 : hist'[r + 1] = hist[r + 1]
  BY <1>2, HistoryGrows DEF CTypeOK
<1>3. hist' = hist \/ \E m \in Members : hist' = Append(hist, m)
  <2>1. CASE CreatePatch
    <3>1. w.prev.mem \in Members /\ w.curr \in Members
      BY Zenon DEF CTypeOK, Work
    <3>2. applyGroupMembersPatch(w.prev.mem, ToGroupMembersPatch(w.prev.mem, w.curr)) \in Members
      BY <3>1, DiffType, ApplyType, Zenon
    <3> QED
      BY <2>1, <3>2, Zenon DEF CreatePatch
  <2>2. CASE ~CreatePatch
    BY <2>2, Zenon DEF CNext, Reconcile, EndpointEvent, CacheMembers, CachePatches,
         FetchPrev, ListPatches, ApplyNext, Diff, SyncMembers,
         UpdateMembers, ListOld, Cleanup, CallFails, ControllerRestart
  <2> QED
    BY <2>1, <2>2, Zenon
<1> QED
  BY <1>1, <1>2, <1>3, Zenon

LEMMA MembersKept ==
    ASSUME CInv, CNext
    PROVE  MembersInv'
<1>1. \A v : v.rev \in Nat /\ IsVersion(hist, v) => IsVersion(hist', v)
  BY HistoryKept, Zenon DEF CInv
<1>2. \A i \in 1 .. Len(mLog) : mLog[i] \in Version /\ mLog[i].rev \in Nat
  <2>1. \A i \in 1 .. Len(mLog) : mLog[i] \in Version
    BY DEF CInv, CTypeOK
  <2> QED
    BY <2>1, Zenon DEF Version
<1>3. CASE mLog' = mLog
  <2>1. \A i \in 1 .. Len(mLog) : IsVersion(hist', mLog[i])
    BY <1>1, <1>2, Zenon DEF CInv, MembersInv
  <2>2. MembersInv
    BY Zenon DEF CInv
  <2> QED
    BY <1>3, <2>1, <2>2, Zenon DEF MembersInv
<1>4. ASSUME NEW v \in Version, mLog' = Append(mLog, v), IsVersion(hist, v), v.live,
             v.rev >= mLog[Len(mLog)].rev
      PROVE  MembersInv'
  <2>1. mLog \in Seq(Version) /\ Len(mLog) \in Nat /\ Len(mLog) >= 1
    BY DEF CInv, CTypeOK
  <2>2. Len(mLog') = Len(mLog) + 1 /\ mLog'[Len(mLog) + 1] = v
    BY <1>4, <2>1
  <2>3. \A i \in 1 .. Len(mLog) : mLog'[i] = mLog[i]
    BY <1>4, <2>1
  <2>4. v.rev \in Nat
    BY Zenon DEF Version
  <2>5. \A i \in 1 .. Len(mLog') : IsVersion(hist', mLog'[i])
    BY <1>1, <1>2, <1>4, <2>1, <2>2, <2>3, <2>4 DEF CInv, MembersInv
  <2>6. \A i \in 2 .. Len(mLog') : mLog'[i].live
    BY <1>4, <2>1, <2>2, <2>3 DEF CInv, MembersInv
  <2>7. \A i, j \in 1 .. Len(mLog') : i <= j => mLog'[i].rev <= mLog'[j].rev
    <3> SUFFICES ASSUME NEW i \in 1 .. Len(mLog'), NEW j \in 1 .. Len(mLog'), i <= j
                 PROVE  mLog'[i].rev <= mLog'[j].rev
      BY Zenon
    <3>1. \A k \in 1 .. Len(mLog) : mLog[k].rev <= mLog[Len(mLog)].rev
      BY <2>1 DEF CInv, MembersInv
    <3>2. CASE j \in 1 .. Len(mLog)
      BY <3>2, <2>1, <2>2, <2>3 DEF CInv, MembersInv
    <3>3. CASE j = Len(mLog) + 1 /\ i \in 1 .. Len(mLog)
      BY <3>1, <3>3, <1>2, <1>4, <2>1, <2>2, <2>3, <2>4
    <3>4. CASE j = Len(mLog) + 1 /\ i = j
      BY <3>4, <2>2, <2>4
    <3> QED
      BY <3>2, <3>3, <3>4, <2>1, <2>2
  <2>8. mLog'[1] = Absent
    BY <2>1, <2>3 DEF CInv, MembersInv
  <2> QED
    BY <2>5, <2>6, <2>7, <2>8, Zenon DEF MembersInv
<1>5. CASE SyncMembers \/ UpdateMembers
  <2>1. CASE mLog' = Append(mLog, Fresh) /\ ~mLog[Len(mLog)].live
    <3>2. Len(mLog) \in Nat /\ Len(mLog) >= 1
      BY DEF CInv, CTypeOK
    <3>3. Len(mLog) = 1
      <4>1. ASSUME Len(mLog) \in 2 .. Len(mLog) PROVE FALSE
        BY <2>1, <4>1, Zenon DEF CInv, MembersInv
      <4>2. ~(Len(mLog) >= 2)
        BY <3>2, <4>1
      <4>3. \A n \in Nat : n >= 1 /\ ~(n >= 2) => n = 1
        OBVIOUS
      <4> QED
        BY <3>2, <4>2, <4>3, Zenon
    <3>4. mLog[Len(mLog)].rev = 0 /\ IsVersion(hist, Absent)
      <4>1. 1 \in 1 .. Len(mLog)
        BY <3>2
      <4>2. mLog[1] = Absent /\ IsVersion(hist, mLog[1])
        BY <4>1, Zenon DEF CInv, MembersInv
      <4> QED
        BY <3>3, <4>2 DEF Absent
    <3>1. Fresh \in Version /\ Fresh.live /\ Fresh.rev = 0 /\ Fresh.mem = NoMembers
      BY NoMembersType, Zenon DEF Fresh, Version
    <3>5. IsVersion(hist, Fresh)
      BY <3>1, <3>4, Zenon DEF IsVersion, Absent
    <3>6. Fresh.rev >= mLog[Len(mLog)].rev
      BY <3>1, <3>4
    <3> QED
      BY <2>1, <3>1, <3>5, <3>6, <1>4, Zenon
  <2>2. CASE /\ mLog' = Append(mLog, [live |-> TRUE, rev |-> w.rev, mem |-> w.curr])
             /\ mLog[Len(mLog)].rev < w.rev
    <3> DEFINE v == [live |-> TRUE, rev |-> w.rev, mem |-> w.curr]
    <3>0. w.rev \in Nat /\ w.curr \in Members
      BY Zenon DEF CInv, CTypeOK, Work
    <3>1. v \in Version /\ v.live /\ v.rev = w.rev /\ v.mem = w.curr
      BY <3>0, Zenon DEF Version
    <3>2. w.rev <= Top /\ Same(w.curr, Revision(w.rev)) /\ w.rev \in Nat
      BY <1>5, <3>0, Zenon DEF CInv, WorkInv, SyncMembers, UpdateMembers
    <3>3. IsVersion(hist, v)
      BY <3>1, <3>2 DEF IsVersion, Top, Revision, CInv, CTypeOK
    <3>4. Len(mLog) \in 1 .. Len(mLog)
      BY DEF CInv, CTypeOK
    <3>5. v.rev >= mLog[Len(mLog)].rev
      BY <2>2, <3>1, <3>2, <3>4, <1>2
    <3>6. mLog' = Append(mLog, v)
      BY <2>2, Zenon
    <3> HIDE DEF v
    <3> QED
      BY <3>1, <3>3, <3>5, <3>6, <1>4, Zenon
  <2> QED
    BY <1>3, <1>5, <2>1, <2>2, Zenon DEF SyncMembers, UpdateMembers, WriteMembers
<1>6. CASE ~(SyncMembers \/ UpdateMembers)
  <2>1. mLog' = mLog
    BY <1>6, Zenon DEF CNext, Reconcile, EndpointEvent, CacheMembers, CachePatches,
         FetchPrev, ListPatches, ApplyNext, Diff, CreatePatch, ListOld, Cleanup,
         CallFails, ControllerRestart
  <2> QED
    BY <1>3, <2>1, Zenon
<1> QED
  BY <1>5, <1>6, Zenon

\* The revision in the controller's cache never falls.
LEMMA CacheMonotone ==
    ASSUME CInv, CNext
    PROVE  /\ mLog'[cm'].rev >= mLog[cm].rev
           /\ mLog'[cm'].rev \in Nat
           /\ mLog[cm].rev \in Nat
<1>1. /\ mLog \in Seq(Version) /\ cm \in 1 .. Len(mLog)
      /\ mLog' \in Seq(Version) /\ cm' \in 1 .. Len(mLog') /\ Len(mLog) \in Nat
  BY ControllerStepType DEF CInv, CTypeOK
<1>2. mLog[cm] \in Version /\ mLog'[cm'] \in Version
  BY <1>1
<1>3. mLog[cm].rev \in Nat /\ mLog'[cm'].rev \in Nat
  BY <1>2, Zenon DEF Version
<1>4. \A i, j \in 1 .. Len(mLog) : i <= j => mLog[i].rev <= mLog[j].rev
  BY Zenon DEF CInv, MembersInv
<1>5. CASE mLog' = mLog
  <2>0. cm' = cm \/ cm' = cm + 1 \/ cm' = Len(mLog)
    BY Zenon DEF CNext, Reconcile, EndpointEvent, CacheMembers, CachePatches,
         FetchPrev, ListPatches, ApplyNext, Diff, CreatePatch, SyncMembers,
         UpdateMembers, ListOld, Cleanup, CallFails, ControllerRestart
  <2>1. cm' >= cm
    BY <1>1, <2>0
  <2> QED
    BY <1>1, <1>3, <1>4, <1>5, <2>1, Zenon
<1>6. CASE mLog' # mLog
  <2>1. cm' = cm /\ \E v : mLog' = Append(mLog, v)
    BY <1>6, Zenon DEF CNext, Reconcile, EndpointEvent, CacheMembers, CachePatches,
         FetchPrev, ListPatches, ApplyNext, Diff, CreatePatch, SyncMembers,
         UpdateMembers, WriteMembers, ListOld, Cleanup, CallFails, ControllerRestart
  <2>2. mLog'[cm] = mLog[cm]
    BY <1>1, <2>1
  <2> QED
    BY <1>3, <2>1, <2>2
<1> QED
  BY <1>3, <1>5, <1>6, Zenon

LEMMA PatchKept ==
    ASSUME CInv, CNext
    PROVE  PatchInv'
<1>1. \A e : e.rev \in Nat /\ Fits(hist, e) => Fits(hist', e)
  BY HistoryKept, Zenon DEF CInv
<1>2. pLog \in Seq(PatchEvent) /\ Len(pLog) \in Nat
  BY DEF CInv, CTypeOK
<1>3. \A i \in 1 .. Len(pLog) : pLog[i].rev \in Nat
  <2>1. \A i \in 1 .. Len(pLog) : pLog[i] \in PatchEvent
    BY <1>2
  <2> QED
    BY <2>1, Zenon DEF PatchEvent
<1>4. \A n \in Nat : n >= mLog[cm].rev => DeletedBelow(pLog, n)
  BY <1>3, CacheMonotone DEF CInv, PatchInv, DeletedBelow
<1>5. CASE pLog' = pLog /\ hist' = hist
  <2>1. DeletedBelow(pLog, mLog'[cm'].rev)
    BY <1>4, CacheMonotone, Zenon
  <2> QED
    BY <1>5, <2>1, Zenon DEF CInv, PatchInv
<1>6. CASE CreatePatch /\ pLog' # pLog
  <2> DEFINE patch == ToGroupMembersPatch(w.prev.mem, w.curr)
             ev == [op |-> "create", rev |-> w.prev.rev, patch |-> patch]
             m == applyGroupMembersPatch(w.prev.mem, patch)
  <2>1. w.prev.mem \in Members /\ w.curr \in Members /\ w.prev.rev \in Nat
    BY Zenon DEF CInv, CTypeOK, Work
  <2>2. patch \in Patch
    BY <2>1, DiffType, Zenon
  <2>3. ev \in PatchEvent /\ ev.rev = w.prev.rev /\ ev.patch = patch /\ ev.op = "create"
    BY <2>1, <2>2, Zenon DEF PatchEvent
  <2>4. m \in Members
    BY <2>1, <2>2, ApplyType, Zenon
  <2>5. ~HasRev(LivePatches(pLog, Len(pLog)), w.prev.rev)
    BY <1>6, Zenon DEF CreatePatch
  <2>6. w.prev.rev = Top /\ w.rev = Top + 1
    BY <1>6, <2>5, CreatesAtTop, Zenon DEF CreatePatch
  <2>7. Top \in Nat /\ Len(hist) = Top + 1 /\ hist \in Seq(Members)
    BY DEF CInv, CTypeOK, Top
  <2>8. hist' = Append(hist, m) /\ pLog' = Append(pLog, ev) /\ UNCHANGED <<mLog, cm>>
    <3>1. w.rev > Top
      BY <2>6, <2>7
    <3> QED
      BY <1>6, <2>5, <3>1, Zenon DEF CreatePatch
  <2>9. Same(w.prev.mem, hist[Top + 1])
    BY <2>6, Zenon DEF CInv, WorkInv, IsVersion
  <2> HIDE DEF ev, m, patch
  <2>10. Same(applyGroupMembersPatch(hist[Top + 1], patch), m)
    BY <2>9, ApplyCong, SameSymmetric, Zenon DEF m
  <2>11. hist'[Top + 1] = hist[Top + 1] /\ hist'[Top + 2] = m /\ Len(hist') = Top + 2
    BY <2>4, <2>7, <2>8
  <2>12. Fits(hist', ev)
    BY <2>3, <2>6, <2>7, <2>10, <2>11 DEF Fits
  <2>13. Len(pLog') = Len(pLog) + 1 /\ pLog'[Len(pLog) + 1] = ev
         /\ \A i \in 1 .. Len(pLog) : pLog'[i] = pLog[i]
    BY <1>2, <2>3, <2>8
  <2>14. \A i \in 1 .. Len(pLog') : Fits(hist', pLog'[i])
    BY <1>1, <1>2, <1>3, <2>12, <2>13 DEF CInv, PatchInv
  <2>15. Covered(hist', pLog')
    <3> SUFFICES ASSUME NEW r \in 0 .. Len(hist') - 2
                 PROVE  \/ HasRev(LivePatches(pLog', Len(pLog')), r)
                        \/ \E i \in 1 .. Len(pLog') : pLog'[i].op = "delete" /\ pLog'[i].rev = r
      BY Zenon DEF Covered
    <3>1. CASE r = w.prev.rev
      BY <3>1, <1>2, <2>3, <2>1, <2>8, LiveAppend, Zenon
    <3>2. CASE r # w.prev.rev
      <4>1. r \in 0 .. Len(hist) - 2 /\ r \in Nat
        BY <3>2, <2>6, <2>7, <2>11
      <4>2. CASE HasRev(LivePatches(pLog, Len(pLog)), r)
        BY <3>2, <4>1, <4>2, <1>2, <2>3, <2>8, LiveAppend, Zenon
      <4>3. CASE \E i \in 1 .. Len(pLog) : pLog[i].op = "delete" /\ pLog[i].rev = r
        BY <4>3, <2>13, <1>2
      <4> QED
        BY <4>1, <4>2, <4>3, Zenon DEF CInv, PatchInv, Covered
    <3> QED
      BY <3>1, <3>2, Zenon
  <2>16. DeletedBelow(pLog', mLog'[cm'].rev)
    <3>1. DeletedBelow(pLog, mLog[cm].rev)
      BY Zenon DEF CInv, PatchInv
    <3> QED
      BY <3>1, <1>2, <2>3, <2>8, <2>13 DEF DeletedBelow
  <2> QED
    BY <2>14, <2>15, <2>16, Zenon DEF PatchInv
<1>7. CASE Cleanup /\ pLog' # pLog
  <2>1. PICK r \in w.old, e \in LivePatches(pLog, Len(pLog)) :
          /\ e.rev = r
          /\ pLog' = Append(pLog, [op |-> "delete", rev |-> r, patch |-> e.patch])
    BY <1>7, Zenon DEF Cleanup
  <2> DEFINE ev == [op |-> "delete", rev |-> r, patch |-> e.patch]
  <2>2. UNCHANGED <<mLog, cm, hist>>
    BY <1>7, Zenon DEF Cleanup
  <2>3. PICK k \in 1 .. Len(pLog) : e = [rev |-> pLog[k].rev, patch |-> pLog[k].patch]
    BY <1>2, LiveSource
  <2>4. pLog[k] \in PatchEvent
    BY <1>2
  <2>5. ev \in PatchEvent /\ ev.rev = r /\ ev.op = "delete" /\ ev.patch = pLog[k].patch
        /\ r = pLog[k].rev /\ r \in Nat
    BY <2>1, <2>3, <2>4, Zenon DEF PatchEvent
  <2>6. Fits(hist, pLog[k])
    BY Zenon DEF CInv, PatchInv
  <2> HIDE DEF ev
  <2>7. Fits(hist, ev)
    BY <2>5, <2>6, Zenon DEF Fits
  <2>8. pLog' = Append(pLog, ev)
    BY <2>1, Zenon DEF ev
  <2>9. Len(pLog') = Len(pLog) + 1 /\ pLog'[Len(pLog) + 1] = ev
        /\ \A i \in 1 .. Len(pLog) : pLog'[i] = pLog[i]
    BY <1>2, <2>5, <2>8
  <2>10. \A i \in 1 .. Len(pLog') : Fits(hist', pLog'[i])
    BY <1>2, <2>2, <2>7, <2>9 DEF CInv, PatchInv
  <2>11. Covered(hist', pLog')
    <3> SUFFICES ASSUME NEW q \in 0 .. Len(hist) - 2
                 PROVE  \/ HasRev(LivePatches(pLog', Len(pLog')), q)
                        \/ \E i \in 1 .. Len(pLog') : pLog'[i].op = "delete" /\ pLog'[i].rev = q
      BY <2>2, Zenon DEF Covered
    <3>1. CASE q = r
      BY <3>1, <1>2, <2>5, <2>9
    <3>2. CASE q # r /\ HasRev(LivePatches(pLog, Len(pLog)), q)
      <4>1. q \in Nat
        OBVIOUS
      <4> QED
        BY <3>2, <4>1, <1>2, <2>5, <2>8, LiveAppend, Zenon
    <3>3. CASE \E i \in 1 .. Len(pLog) : pLog[i].op = "delete" /\ pLog[i].rev = q
      BY <3>3, <2>9, <1>2
    <3> QED
      BY <3>1, <3>2, <3>3, Zenon DEF CInv, PatchInv, Covered
  <2>12. DeletedBelow(pLog', mLog'[cm'].rev)
    <3>1. DeletedBelow(pLog, mLog[cm].rev)
      BY Zenon DEF CInv, PatchInv
    <3>2. r < mLog[cm].rev
      BY Zenon DEF CInv, WorkInv
    <3> QED
      BY <3>1, <3>2, <1>2, <2>2, <2>5, <2>9, SMTT(30) DEF DeletedBelow
  <2> QED
    BY <2>10, <2>11, <2>12, Zenon DEF PatchInv
<1>8. pLog' = pLog => hist' = hist
  <2>1. CASE CreatePatch
    <3>1. \A ev : pLog # Append(pLog, ev)
      BY <1>2
    <3> QED
      BY <2>1, <3>1, Zenon DEF CreatePatch
  <2>2. CASE ~CreatePatch
    BY <2>2, Zenon DEF CNext, Reconcile, EndpointEvent, CacheMembers, CachePatches,
         FetchPrev, ListPatches, ApplyNext, Diff, SyncMembers,
         UpdateMembers, ListOld, Cleanup, CallFails, ControllerRestart
  <2> QED
    BY <2>1, <2>2, Zenon
<1>9. pLog' # pLog => CreatePatch \/ Cleanup
  BY Zenon DEF CNext, Reconcile, EndpointEvent, CacheMembers, CachePatches,
         FetchPrev, ListPatches, ApplyNext, Diff, SyncMembers,
         UpdateMembers, ListOld, CallFails, ControllerRestart
<1> QED
  BY <1>5, <1>6, <1>7, <1>8, <1>9, Zenon

\* Before any work: revision 0 is the empty membership.
LEMMA IdleVersion ==
    ASSUME CInv, CNext
    PROVE  IsVersion(hist, Idle.prev) /\ IsVersion(hist', Idle.prev)
<1>1. 1 \in 1 .. Len(mLog)
  BY DEF CInv, CTypeOK
<1>2. IsVersion(hist, Absent)
  BY <1>1, Zenon DEF CInv, MembersInv
<1>3. IsVersion(hist, Idle.prev) /\ Idle.prev.rev \in Nat
  BY <1>2, Zenon DEF IsVersion, Idle, Absent
<1> QED
  BY <1>3, HistoryKept, Zenon DEF CInv

\* The parts of WorkInv that speak of the local variables alone.
LEMMA ReturnKept ==
    ASSUME CInv, CNext, NEW f, Return(f)
    PROVE  WorkInv'
BY IdleVersion, Zenon DEF Return, WorkInv, Idle

\* Steps that leave the reconcile where it is.
LEMMA ElsewhereKept ==
    ASSUME CInv, CNext, UNCHANGED <<pc, w, hist, pLog, mLog>>
    PROVE  WorkInv'
<1>1. mLog'[cm'].rev >= mLog[cm].rev /\ mLog'[cm'].rev \in Nat /\ mLog[cm].rev \in Nat
  BY CacheMonotone, Zenon
<1>2. w.rev \in Nat /\ w.old \in SUBSET Nat /\ Retained \in Nat
  BY RetainedAssumption, Zenon DEF CInv, CTypeOK, Work
<1>3. pc = "listOld" => w.rev - Retained <= mLog'[cm'].rev
  BY <1>1, <1>2 DEF CInv, WorkInv
<1>4. \A r \in w.old : r < mLog'[cm'].rev
  BY <1>1, <1>2 DEF CInv, WorkInv
<1> QED
  BY <1>3, <1>4, Zenon DEF CInv, WorkInv, Top, Revision

LEMMA ReconcileKept ==
    ASSUME CInv, CNext, Reconcile
    PROVE  WorkInv'
<1>0. /\ pLog \in Seq(PatchEvent) /\ cp \in 0 .. Len(pLog) /\ Len(pLog) \in Nat
      /\ Retained \in Nat
  BY RetainedAssumption DEF CInv, CTypeOK
<1>1. /\ w.prev.rev \in Nat /\ w.prev.mem \in Members /\ w.curr \in Members
      /\ w.rev \in Nat /\ w.patches \in SUBSET Entry /\ w.old \in SUBSET Nat
  BY Zenon DEF CInv, CTypeOK, Work
<1>2. \A e \in LivePatches(pLog, cp) : Fits(hist, e)
  <2> SUFFICES ASSUME NEW e \in LivePatches(pLog, cp) PROVE Fits(hist, e)
    BY Zenon
  <2>1. PICK i \in 1 .. Len(pLog) : e = [rev |-> pLog[i].rev, patch |-> pLog[i].patch]
    BY <1>0, LiveSource, Zenon
  <2>2. Fits(hist, pLog[i])
    BY Zenon DEF CInv, PatchInv
  <2> QED
    BY <2>1, <2>2, Zenon DEF Fits
<1>3. mLog[cm].rev \in Nat /\ mLog'[cm'].rev \in Nat /\ mLog'[cm'].rev >= mLog[cm].rev
  BY CacheMonotone, Zenon
<1>4. WorkInv /\ w \in Work
  BY Zenon DEF CInv, CTypeOK
<1>5. CASE FetchPrev
  <2>1. UNCHANGED <<mLog, pLog, cm, cp, hist>> /\ pc = "idle" /\ pc' = "listPatches"
        /\ w' = [w EXCEPT !.prev = [rev |-> mLog[cm].rev, mem |-> mLog[cm].mem]]
    BY <1>5, Zenon DEF FetchPrev
  <2>2. /\ w'.prev = [rev |-> mLog[cm].rev, mem |-> mLog[cm].mem]
        /\ w'.patches = w.patches /\ w'.old = w.old
    BY <1>4, <2>1, Zenon DEF Work
  <2>3. IsVersion(hist, mLog[cm])
    BY Zenon DEF CInv, MembersInv, CTypeOK
  <2>4. IsVersion(hist, w'.prev)
    BY <2>2, <2>3 DEF IsVersion
  <2>5. DeletedBelow(pLog, w'.prev.rev)
    BY <2>2 DEF CInv, PatchInv
  <2> QED
    BY <1>4, <2>1, <2>2, <2>4, <2>5, Zenon DEF WorkInv
<1>6. CASE ListPatches
  <2>1. UNCHANGED <<mLog, pLog, cm, cp, hist>> /\ pc = "listPatches" /\ pc' = "applyPatches"
        /\ w' = [w EXCEPT !.patches = LivePatches(pLog, cp)]
    BY <1>6, Zenon DEF ListPatches
  <2>2. w'.prev = w.prev /\ w'.patches = LivePatches(pLog, cp) /\ w'.old = w.old
    BY <1>4, <2>1, Zenon DEF Work
  <2> QED
    BY <1>2, <1>4, <2>1, <2>2, Zenon DEF WorkInv
<1>7. CASE ApplyNext
  <2>1. UNCHANGED <<mLog, pLog, cm, cp, hist, pc>> /\ pc = "applyPatches"
    BY <1>7, Zenon DEF ApplyNext
  <2>2. PICK e \in w.patches : /\ e.rev = w.prev.rev
          /\ w' = [w EXCEPT !.prev = [rev |-> e.rev + 1,
                                   mem |-> applyGroupMembersPatch(w.prev.mem, e.patch)]]
    BY <1>7, Zenon DEF ApplyNext
  <2>3. /\ w'.prev = [rev |-> e.rev + 1, mem |-> applyGroupMembersPatch(w.prev.mem, e.patch)]
        /\ w'.patches = w.patches /\ w'.old = w.old
    BY <1>4, <2>2, Zenon DEF Work
  <2>4. Fits(hist, e) /\ IsVersion(hist, w.prev) /\ DeletedBelow(pLog, w.prev.rev)
    BY <1>4, <2>1, Zenon DEF WorkInv
  <2>5. IsVersion(hist, w'.prev)
    <3>1. IsVersion(hist, [rev |-> e.rev + 1,
                           mem |-> applyGroupMembersPatch(w.prev.mem, e.patch)])
      BY <1>1, <2>2, <2>4, ApplyFits, Zenon
    <3> QED
      BY <2>3, <3>1, Zenon
  <2>6. \A i \in 1 .. Len(pLog) : pLog[i].rev \in Nat
    <3>1. \A i \in 1 .. Len(pLog) : pLog[i] \in PatchEvent
      BY <1>0
    <3> QED
      BY <3>1, Zenon DEF PatchEvent
  <2>7. DeletedBelow(pLog, w'.prev.rev)
    BY <1>1, <2>2, <2>3, <2>4, <2>6, SMTT(30) DEF DeletedBelow
  <2> QED
    BY <1>4, <2>1, <2>3, <2>5, <2>7, Zenon DEF WorkInv
<1>8. CASE Diff
  <2>1. UNCHANGED <<mLog, pLog, cm, cp, hist>> /\ pc = "applyPatches"
    BY <1>8, Zenon DEF Diff
  <2> DEFINE empty == IsEmptyPatch(ToGroupMembersPatch(w.prev.mem, matched))
             n == IF empty THEN w.prev.rev ELSE w.prev.rev + 1
  <2>2. /\ w' = [w EXCEPT !.patches = {}, !.curr = matched, !.rev = n]
        /\ pc' = IF empty THEN "syncMembers" ELSE "createPatch"
    BY <1>8, Zenon DEF Diff
  <2> HIDE DEF empty
  <2>3. /\ w'.prev = w.prev /\ w'.patches = {} /\ w'.curr = matched
        /\ w'.rev = n /\ w'.old = w.old
    BY <1>4, <2>2, Zenon DEF Work
  <2>4. IsVersion(hist, w.prev) /\ DeletedBelow(pLog, w.prev.rev)
    BY <1>4, <2>1, Zenon DEF WorkInv
  <2>5. ASSUME empty PROVE w'.rev <= Top /\ Same(matched, Revision(w'.rev))
    <3>1. Same(w.prev.mem, matched)
      BY <2>5, EmptyDiff, Zenon DEF empty
    <3>2. Same(matched, hist[w.prev.rev + 1])
      BY <3>1, <2>4, SameSymmetric, SameTransitive, Zenon DEF IsVersion
    <3>3. Len(hist) \in Nat
      BY DEF CInv, CTypeOK
    <3> QED
      BY <1>1, <2>3, <2>4, <2>5, <3>2, <3>3 DEF Top, Revision, IsVersion
  <2>6. ~empty => w'.rev = w'.prev.rev + 1
    BY <2>3, Zenon
  <2>7. pc' \in {"syncMembers", "createPatch"} /\ (pc' = "syncMembers" => empty)
        /\ (pc' = "createPatch" => ~empty)
    BY <2>2, Zenon
  <2> QED
    BY <1>4, <2>1, <2>3, <2>4, <2>5, <2>6, <2>7, Zenon DEF WorkInv, Top, Revision
<1>9. CASE CreatePatch
  <2>1. CASE Return(TRUE)
    BY <2>1, ReturnKept, Zenon
  <2>2. CASE ~HasRev(LivePatches(pLog, Len(pLog)), w.prev.rev) /\ pc' = "syncMembers" /\ w' = w
    <3> DEFINE m == applyGroupMembersPatch(w.prev.mem, ToGroupMembersPatch(w.prev.mem, w.curr))
    <3>1. pc = "createPatch" /\ UNCHANGED <<mLog, cm>>
      BY <1>9, Zenon DEF CreatePatch
    <3>2. w.prev.rev = Top /\ w.rev = Top + 1
      BY <2>2, <3>1, CreatesAtTop, Zenon
    <3>3. Top \in Nat /\ Len(hist) = Top + 1 /\ hist \in Seq(Members)
      BY DEF CInv, CTypeOK, Top
    <3>4. hist' = Append(hist, m)
      <4>1. w.rev > Top
        BY <3>2, <3>3
      <4> QED
        BY <1>9, <2>2, <4>1, Zenon DEF CreatePatch
    <3>5. Same(w.curr, m)
      BY ApplyDiff, SameSymmetric, Zenon
    <3> HIDE DEF m
    <3>6. Len(hist') = Top + 2 /\ hist'[Top + 2] = m
      BY <3>3, <3>4
    <3>7. w'.rev <= Len(hist') - 1 /\ Same(w'.curr, hist'[w'.rev + 1])
      BY <2>2, <3>2, <3>3, <3>5, <3>6
    <3>8. IsVersion(hist', w.prev) /\ \A e \in w.patches : Fits(hist', e)
      <4>1. \A e \in w.patches : e.rev \in Nat /\ Fits(hist, e)
        BY <1>1, <1>4, Zenon DEF WorkInv, Entry
      <4> QED
        BY <1>1, <1>4, <4>1, HistoryKept, Zenon DEF WorkInv, CInv
    <3> QED
      BY <1>4, <2>2, <3>1, <3>7, <3>8, Zenon DEF WorkInv, Top, Revision
  <2> QED
    BY <1>9, <2>1, <2>2, Zenon DEF CreatePatch
<1>10. CASE SyncMembers \/ UpdateMembers
  <2>1. UNCHANGED <<pLog, cm, hist>> /\ pc \in {"syncMembers", "updateMembers"}
        /\ w.rev <= Top /\ Same(w.curr, Revision(w.rev)) /\ Top' = Top
        /\ Revision(w.rev)' = hist[w'.rev + 1]
    BY <1>10, <1>4, Zenon DEF SyncMembers, UpdateMembers, WorkInv, Top, Revision
  <2>2. CASE Return(TRUE)
    BY <2>2, ReturnKept, Zenon
  <2>3. mLog \in Seq(Version) /\ Len(mLog) \in Nat /\ cm \in 1 .. Len(mLog) /\ Len(mLog) \in 1 .. Len(mLog)
        /\ Top \in Nat
    BY DEF CInv, CTypeOK, Top
  <2>4. ASSUME pc' = "listOld", w' = w, w.rev - Retained <= mLog[cm].rev PROVE WorkInv'
    <3>1. w'.rev - Retained <= mLog'[cm'].rev
      BY <1>0, <1>1, <1>3, <2>4
    <3>2. \A r \in w'.old : r < mLog'[cm'].rev
      BY <1>1, <1>3, <1>4, <2>4 DEF WorkInv
    <3> QED
      BY <1>4, <2>1, <2>4, <3>1, <3>2, Zenon DEF WorkInv
  <2>5. ASSUME mLog[Len(mLog)].rev = mLog[cm].rev PROVE w.rev - Retained <= mLog[cm].rev
    BY <1>0, <1>1, <1>3, <2>1, <2>3, <2>5, SMTT(30) DEF CInv, LeadBounded
  <2>6. ASSUME mLog[Len(mLog)].rev = 0 PROVE w.rev - Retained <= mLog[cm].rev
    BY <1>0, <1>1, <1>3, <2>1, <2>3, <2>6, SMTT(30) DEF CInv, LeadBounded
  <2>7. CASE SyncMembers /\ mLog[cm].live
    <3>1. CASE mLog[cm].rev >= w.rev /\ pc' = "listOld" /\ w' = w
      <4>1. w.rev - Retained <= mLog[cm].rev
        BY <1>0, <1>1, <1>3, <3>1
      <4> QED
        BY <3>1, <4>1, <2>4, Zenon
    <3>2. CASE cm = Len(mLog) /\ pc' = "listOld" /\ w' = w
      BY <3>2, <2>4, <2>5, Zenon
    <3> QED
      BY <2>2, <2>7, <3>1, <3>2, Zenon DEF SyncMembers, WriteMembers
  <2>8. CASE SyncMembers /\ ~mLog[cm].live
    <3>1. CASE /\ mLog' = Append(mLog, Fresh)
               /\ pc' = "updateMembers" /\ w' = w
      <4>1. mLog'[Len(mLog')].rev = 0
        BY <2>3, <3>1 DEF Fresh
      <4>2. \A r \in w'.old : r < mLog'[cm'].rev
        <5>1. \A r \in w.old : r \in Nat /\ r < mLog[cm].rev
          BY <1>1, <1>4, Zenon DEF WorkInv
        <5>2. \A r \in w.old : r < mLog'[cm'].rev
          BY <1>3, <5>1
        <5> QED
          BY <3>1, <5>2, Zenon
      <4>3. w' = w /\ pc' = "updateMembers" /\ hist' = hist
        BY <2>1, <3>1, Zenon
      <4>4. w'.rev <= Top' /\ Same(w'.curr, Revision(w.rev)')
        BY <2>1, <4>3, Zenon DEF Revision
      <4>5. IsVersion(hist', w'.prev) /\ \A e \in w'.patches : Fits(hist', e)
        BY <1>4, <4>3, Zenon DEF WorkInv
      <4> QED
        BY <4>1, <4>2, <4>3, <4>4, <4>5, Zenon DEF WorkInv
    <3> QED
      BY <2>2, <2>8, <3>1, Zenon DEF SyncMembers
  <2>9. CASE UpdateMembers
    <3>1. mLog[Len(mLog)].rev = 0
      BY <1>4, <2>9, Zenon DEF UpdateMembers, WorkInv
    <3> QED
      BY <2>2, <2>4, <2>6, <2>9, <3>1, Zenon DEF UpdateMembers, WriteMembers
  <2> QED
    BY <1>10, <2>7, <2>8, <2>9, Zenon
<1>11. CASE ListOld
  <2>1. UNCHANGED <<mLog, pLog, cm, hist>> /\ pc = "listOld" /\ pc' = "cleanup"
    BY <1>11, Zenon DEF ListOld
  <2> DEFINE old == {e.rev : e \in {x \in LivePatches(pLog, cp) :
                                 x.rev < w.rev /\ w.rev - x.rev > Retained}}
  <2>2. w' = [Idle EXCEPT !.old = old]
    BY <1>11, Zenon DEF ListOld
  <2>3. \A e \in LivePatches(pLog, cp) : e.rev \in Nat
    BY <1>0, LiveType, Zenon DEF Entry
  <2>4. w.rev - Retained <= mLog[cm].rev
    BY <1>4, <2>1, Zenon DEF WorkInv
  <2>5. \A r \in old : r < mLog[cm].rev
    BY <1>0, <1>1, <1>3, <2>3, <2>4, SMTT(30)
  <2> HIDE DEF old
  <2>6. w'.prev = Idle.prev /\ w'.patches = {} /\ w'.old = old
    BY <2>2, Zenon DEF Idle
  <2> QED
    BY <2>1, <2>5, <2>6, IdleVersion, Zenon DEF WorkInv
<1>12. CASE Cleanup
  <2>1. CASE \E f \in BOOLEAN : Return(f)
    BY <2>1, ReturnKept, Zenon
  <2>2. CASE pc' = pc /\ \E r \in w.old : w' = [w EXCEPT !.old = @ \ {r}]
    <3>1. UNCHANGED <<mLog, cm, hist>> /\ pc = "cleanup"
      BY <1>12, Zenon DEF Cleanup
    <3>2. w'.prev = w.prev /\ w'.patches = w.patches /\ w'.old \subseteq w.old
      BY <1>4, <2>2, Zenon DEF Work
    <3> QED
      BY <1>4, <2>2, <3>1, <3>2, Zenon DEF WorkInv
  <2> QED
    BY <1>12, <2>1, <2>2, Zenon DEF Cleanup
<1> QED
  BY <1>5, <1>6, <1>7, <1>8, <1>9, <1>10, <1>11, <1>12, Zenon DEF Reconcile

LEMMA ControllerKept ==
    ASSUME CInv, CNext, LeadBounded'
    PROVE  CInv'
<1>1. WorkInv'
  <2>1. CASE Reconcile
    BY <2>1, ReconcileKept, Zenon
  <2>2. CASE CallFails \/ ControllerRestart
    BY <2>2, ReturnKept, Zenon DEF CallFails, ControllerRestart
  <2>3. CASE CacheMembers \/ CachePatches \/ \E m \in Members : EndpointEvent(m)
    <3>1. UNCHANGED <<pc, w, hist, pLog, mLog>>
      BY <2>3, Zenon DEF CacheMembers, CachePatches, EndpointEvent
    <3> QED
      BY <3>1, ElsewhereKept, Zenon
  <2> QED
    BY <2>1, <2>2, <2>3, Zenon DEF CNext
<1>2. CTypeOK'
  BY ControllerStepType, Zenon DEF CInv
<1> QED
  BY <1>1, <1>2, MembersKept, PatchKept, Zenon DEF CInv

------------------------------------------------------------------------------
(* What has been published once nothing is queued. *)

\* A patch is created only where there is something to say.
DiffInv == pc = "createPatch" => ~Same(w.prev.mem, w.curr)

\* No revision but the newest is what the selector matches.
NewestOnly == \A i \in 1 .. Len(hist) : Same(hist[i], matched) => i = Len(hist)

NotGiven == \A i \in 1 .. Len(hist) : ~Same(hist[i], matched)

\* The newest revision is what the selector matches, and the object has it.
Published == Same(hist[Len(hist)], matched) /\ mLog[Len(mLog)].rev = Top

QuietInv ==
    /\ NewestOnly
    /\ pc = "createPatch" => Same(w.curr, matched) \/ NotGiven
    /\ pc \in {"createPatch", "syncMembers", "updateMembers"} /\ ~queued => Same(w.curr, matched)
    /\ pc \in {"syncMembers", "updateMembers"} => w.rev = Top /\ Same(hist[Len(hist)], w.curr)
    /\ pc \in {"listOld", "cleanup", "idle"} /\ ~queued => Published

\* Where nothing the invariant reads changes but the queue and the step.
LEMMA Frame ==
    ASSUME QuietInv, UNCHANGED <<matched, mLog, hist>>,
           \/ queued' /\ pc' = "idle"
           \/ pc' \in {"listPatches", "applyPatches"}
           \/ UNCHANGED <<pc, w, queued>>
           \/ UNCHANGED queued /\ pc \in {"listOld", "cleanup"} /\ pc' \in {"cleanup", "idle"}
    PROVE  QuietInv'
<1>1. NewestOnly' /\ (NotGiven => NotGiven') /\ (Published => Published') /\ Top' = Top
  BY Zenon DEF QuietInv, NewestOnly, NotGiven, Published, Top
<1>2. CASE queued' /\ pc' = "idle"
  BY <1>1, <1>2 DEF QuietInv
<1>3. CASE pc' \in {"listPatches", "applyPatches"}
  BY <1>1, <1>3 DEF QuietInv
<1>4. CASE UNCHANGED <<pc, w, queued>>
  BY <1>1, <1>4, Zenon DEF QuietInv
<1>5. CASE UNCHANGED queued /\ pc \in {"listOld", "cleanup"} /\ pc' \in {"cleanup", "idle"}
  <2>1. ~queued' => Published'
    BY <1>1, <1>5, Zenon DEF QuietInv
  <2> QED
    BY <1>1, <1>5, <2>1 DEF QuietInv
<1> QED
  BY <1>2, <1>3, <1>4, <1>5, Zenon

\* The endpoints change to a membership that was not given out before.
LEMMA EventQuiet ==
    ASSUME CTypeOK, QuietInv, NEW m \in Members, EndpointEvent(m), NoReturn
    PROVE  QuietInv'
<1>1. matched' = m /\ m # matched /\ UNCHANGED <<mLog, pc, w, hist>>
  BY Zenon DEF EndpointEvent
<1>2. ~queued' => ~queued /\ Same(m, matched)
  BY Zenon DEF EndpointEvent
<1>3. \A i \in 1 .. Len(hist) : ~Same(hist[i], m)
  BY <1>1, SameSymmetric, Zenon DEF NoReturn
<1>4. NotGiven' /\ NewestOnly'
  BY <1>1, <1>3, Zenon DEF NotGiven, NewestOnly
<1>5. ASSUME ~queued', pc \in {"createPatch", "syncMembers", "updateMembers"}
      PROVE  Same(w.curr, m)
  BY <1>2, <1>5, SameSymmetric, SameTransitive, Zenon DEF QuietInv
<1>6. Len(hist) \in 1 .. Len(hist)
  BY DEF CTypeOK
<1>7. ASSUME ~queued', pc \in {"listOld", "cleanup", "idle"} PROVE FALSE
  <2>1. Same(hist[Len(hist)], matched) /\ Same(matched, m)
    BY <1>2, <1>7, SameSymmetric, Zenon DEF QuietInv, Published
  <2> QED
    BY <1>3, <1>6, <2>1, SameTransitive, Zenon
<1>8. Top' = Top
  BY <1>1, Zenon DEF Top
<1> QED
  BY <1>1, <1>4, <1>5, <1>7, <1>8, Zenon DEF QuietInv

LEMMA DiffQuiet == ASSUME CInv, DiffInv, QuietInv, Diff PROVE QuietInv'
<1> DEFINE empty == IsEmptyPatch(ToGroupMembersPatch(w.prev.mem, matched))
<1>1. /\ UNCHANGED <<matched, mLog, hist, queued>>
      /\ pc' = IF empty THEN "syncMembers" ELSE "createPatch"
  BY Zenon DEF Diff
<1>2. w'.curr = matched /\ (empty => w'.rev = w.prev.rev)
  <2>1. w \in Work
    BY Zenon DEF CInv, CTypeOK
  <2> QED
    BY <2>1, Zenon DEF Diff, Work
<1>3. NewestOnly' /\ Same(w'.curr, matched')
  BY <1>1, <1>2, SameReflexive, Zenon DEF QuietInv, NewestOnly
<1>4. ASSUME empty PROVE w.prev.rev = Top /\ Same(hist[Len(hist)], matched)
  <2>1. Same(w.prev.mem, matched)
    BY <1>4, EmptyDiff, Zenon
  <2>2. w.prev.rev < Len(hist) /\ Same(w.prev.mem, hist[w.prev.rev + 1])
    BY Zenon DEF CInv, WorkInv, IsVersion
  <2>3. w.prev.rev \in Nat /\ Len(hist) \in Nat
    <3>1. w.prev.rev \in Nat
      BY Zenon DEF CInv, CTypeOK, Work
    <3> QED
      BY <3>1 DEF CInv, CTypeOK
  <2>4. w.prev.rev + 1 \in 1 .. Len(hist)
    BY <2>2, <2>3
  <2>5. Same(hist[w.prev.rev + 1], matched)
    BY <2>1, <2>2, SameSymmetric, SameTransitive, Zenon
  <2>6. w.prev.rev + 1 = Len(hist)
    BY <2>4, <2>5, Zenon DEF QuietInv, NewestOnly
  <2>7. w.prev.rev = Top
    BY <2>3, <2>6 DEF Top
  <2> QED
    BY <2>5, <2>6, <2>7, Zenon
<1> HIDE DEF empty
<1>5. CASE empty
  <2>1. pc' = "syncMembers" /\ w'.rev = Top' /\ Same(hist'[Len(hist')], w'.curr)
    BY <1>1, <1>2, <1>4, <1>5, Zenon DEF Top
  <2> QED
    BY <1>3, <2>1 DEF QuietInv
<1>6. CASE ~empty
  BY <1>1, <1>3, <1>6 DEF QuietInv
<1> QED
  BY <1>5, <1>6, Zenon

LEMMA CreateQuiet == ASSUME CInv, DiffInv, QuietInv, CreatePatch PROVE QuietInv'
<1> DEFINE m == applyGroupMembersPatch(w.prev.mem, ToGroupMembersPatch(w.prev.mem, w.curr))
<1>1. UNCHANGED <<matched, mLog>> /\ pc = "createPatch"
  BY Zenon DEF CreatePatch
<1>2. CASE UNCHANGED hist /\ Return(TRUE)
  BY <1>1, <1>2, Frame, Zenon DEF Return
<1>3. CASE /\ ~HasRev(LivePatches(pLog, Len(pLog)), w.prev.rev)
           /\ hist' = IF w.rev > Top THEN Append(hist, m) ELSE hist
           /\ pc' = "syncMembers" /\ UNCHANGED <<w, queued>>
  <2>2. w.prev.rev = Top /\ w.rev = Top + 1
    BY <1>1, <1>3, CreatesAtTop, Zenon
  <2>3. hist \in Seq(Members) /\ Len(hist) \in Nat /\ Len(hist) >= 1 /\ Top + 1 = Len(hist)
        /\ Top \in Nat
    BY DEF CInv, CTypeOK, Top
  <2>4. m \in Members /\ Same(m, w.curr)
    <3>1. w.prev.mem \in Members /\ w.curr \in Members
      BY Zenon DEF CInv, CTypeOK, Work
    <3> QED
      BY <3>1, DiffType, ApplyType, ApplyDiff, Zenon
  <2> HIDE DEF m
  <2>5. hist' = Append(hist, m)
    <3>1. w.rev > Top
      BY <2>2, <2>3
    <3> QED
      BY <1>3, <3>1, Zenon
  <2>6. Len(hist') = Len(hist) + 1 /\ hist'[Len(hist) + 1] = m
        /\ \A i \in 1 .. Len(hist) : hist'[i] = hist[i]
    BY <2>3, <2>4, <2>5
  <2>7. ASSUME NEW i \in 1 .. Len(hist), Same(hist[i], matched) PROVE FALSE
    <3>1. Same(w.curr, matched) /\ i = Len(hist)
      BY <1>1, <2>7, Zenon DEF QuietInv, NotGiven, NewestOnly
    <3>2. Same(w.prev.mem, hist[Len(hist)])
      BY <2>2, <2>3, Zenon DEF CInv, WorkInv, IsVersion
    <3>3. Same(w.prev.mem, w.curr)
      BY <2>7, <3>1, <3>2, SameSymmetric, SameTransitive, Zenon
    <3> QED
      BY <1>1, <3>3, Zenon DEF DiffInv
  <2>8. NewestOnly'
    <3> SUFFICES ASSUME NEW i \in 1 .. Len(hist'), Same(hist'[i], matched')
                 PROVE  i = Len(hist')
      BY Zenon DEF NewestOnly
    <3>1. i \notin 1 .. Len(hist)
      BY <1>1, <2>6, <2>7, Zenon
    <3> QED
      BY <2>3, <2>6, <3>1
  <2>9. w'.rev = Top' /\ Same(hist'[Len(hist')], w'.curr)
    <3>1. Top' = Top + 1
      BY <2>3, <2>6 DEF Top
    <3> QED
      BY <1>3, <2>2, <2>4, <2>6, <3>1, Zenon
  <2>10. ~queued' => Same(w'.curr, matched')
    BY <1>1, <1>3, Zenon DEF QuietInv
  <2> QED
    BY <1>3, <2>8, <2>9, <2>10 DEF QuietInv
<1> QED
  BY <1>2, <1>3, Zenon DEF CreatePatch

LEMMA WriteQuiet ==
    ASSUME CInv, DiffInv, QuietInv, pc \in {"syncMembers", "updateMembers"}, UNCHANGED <<matched, hist>>,
           NEW pos \in 1 .. Len(mLog), WriteMembers(mLog[pos], pos)
    PROVE  QuietInv'
<1>1. w.rev = Top /\ Same(hist[Len(hist)], w.curr) /\ (~queued => Same(w.curr, matched))
  BY Zenon DEF QuietInv
<1>2. /\ mLog \in Seq(Version) /\ Len(mLog) \in Nat /\ Len(mLog) \in 1 .. Len(mLog)
      /\ pos <= Len(mLog) /\ Len(hist) \in Nat /\ Top = Len(hist) - 1
  BY DEF CInv, CTypeOK, Top
<1>3. mLog[pos].rev \in Nat /\ mLog[Len(mLog)].rev \in Nat
  <2>1. mLog[pos] \in Version /\ mLog[Len(mLog)] \in Version
    BY <1>2
  <2> QED
    BY <2>1, Zenon DEF Version
<1>4. mLog[pos].rev <= mLog[Len(mLog)].rev /\ mLog[Len(mLog)].rev < Len(hist)
  BY <1>2, Zenon DEF CInv, MembersInv, IsVersion
<1>5. NewestOnly' /\ Top' = Top /\ (~queued => Same(hist'[Len(hist')], matched'))
  BY <1>1, SameTransitive, Zenon DEF QuietInv, NewestOnly, Top
<1>6. CASE mLog[pos].rev >= w.rev /\ pc' = "listOld" /\ UNCHANGED <<mLog, w, queued>>
  <2>1. mLog[Len(mLog)].rev = Top
    BY <1>1, <1>2, <1>3, <1>4, <1>6
  <2>2. ~queued' => Published'
    BY <1>5, <1>6, <2>1, Zenon DEF Published
  <2> QED
    BY <1>5, <1>6, <2>2 DEF QuietInv
<1>7. CASE Return(TRUE) /\ UNCHANGED mLog
  BY <1>7, Frame, Zenon DEF Return
<1>8. CASE /\ mLog' = Append(mLog, [live |-> TRUE, rev |-> w.rev, mem |-> w.curr])
           /\ pc' = "listOld" /\ UNCHANGED <<w, queued>>
  <2>1. PICK v : v = [live |-> TRUE, rev |-> w.rev, mem |-> w.curr]
    BY Zenon
  <2>2. v.rev = w.rev /\ v \in Version
    <3>1. w.rev \in Nat /\ w.curr \in Members
      BY Zenon DEF CInv, CTypeOK, Work
    <3> QED
      BY <2>1, <3>1, Zenon DEF Version
  <2>3. mLog'[Len(mLog')] = v
    BY <1>2, <1>8, <2>1, <2>2
  <2>4. mLog'[Len(mLog')].rev = Top'
    BY <1>1, <1>5, <2>2, <2>3, Zenon
  <2>5. ~queued' => Published'
    BY <1>5, <1>8, <2>4, Zenon DEF Published
  <2> QED
    BY <1>5, <1>8, <2>5 DEF QuietInv
<1> QED
  BY <1>6, <1>7, <1>8, Zenon DEF WriteMembers

LEMMA SyncQuiet == ASSUME CInv, DiffInv, QuietInv, SyncMembers \/ UpdateMembers PROVE QuietInv'
<1>1. UNCHANGED <<matched, hist>> /\ pc \in {"syncMembers", "updateMembers"}
  BY Zenon DEF SyncMembers, UpdateMembers
<1>2. cm \in 1 .. Len(mLog) /\ Len(mLog) \in 1 .. Len(mLog)
  BY DEF CInv, CTypeOK
<1>3. CASE pc' = "updateMembers" /\ UNCHANGED <<w, queued>>
  <2>1. NewestOnly' /\ Top' = Top
    BY <1>1, Zenon DEF QuietInv, NewestOnly, Top
  <2>2. w'.rev = Top' /\ Same(hist'[Len(hist')], w'.curr) /\ (~queued' => Same(w'.curr, matched'))
    BY <1>1, <1>3, <2>1, Zenon DEF QuietInv
  <2> QED
    BY <1>3, <2>1, <2>2 DEF QuietInv
<1>4. CASE Return(TRUE) /\ UNCHANGED mLog
  BY <1>1, <1>4, Frame, Zenon DEF Return
<1>5. CASE WriteMembers(mLog[cm], cm) \/ WriteMembers(mLog[Len(mLog)], Len(mLog))
  BY <1>1, <1>2, <1>5, WriteQuiet, Zenon
<1> QED
  BY <1>3, <1>4, <1>5, Zenon DEF SyncMembers, UpdateMembers

LEMMA QuietKept == ASSUME CInv, DiffInv, QuietInv, CNext, NoReturn PROVE QuietInv'
<1>1. CASE \E m \in Members : EndpointEvent(m)
  BY <1>1, EventQuiet, Zenon DEF CInv
<1>2. CASE CacheMembers \/ CachePatches
  BY <1>2, Frame, Zenon DEF CacheMembers, CachePatches
<1>3. CASE FetchPrev \/ ListPatches \/ ApplyNext
  BY <1>3, Frame, Zenon DEF FetchPrev, ListPatches, ApplyNext
<1>4. CASE ListOld
  BY <1>4, Frame, Zenon DEF ListOld
<1>5. CASE Cleanup
  <2>1. UNCHANGED <<matched, mLog, hist>> /\ pc = "cleanup"
    BY <1>5, Zenon DEF Cleanup
  <2>2. CASE Return(FALSE)
    <3>1. pc' = "idle" /\ UNCHANGED queued
      BY <2>2 DEF Return, CInv, CTypeOK
    <3> QED
      BY <2>1, <3>1, Frame, Zenon
  <2>3. CASE Return(TRUE)
    BY <2>1, <2>3, Frame, Zenon DEF Return
  <2>4. CASE UNCHANGED <<pc, queued>>
    BY <2>1, <2>4, Frame, Zenon
  <2> QED
    BY <1>5, <2>2, <2>3, <2>4, Zenon DEF Cleanup
<1>6. CASE CallFails \/ ControllerRestart
  BY <1>6, Frame, Zenon DEF CallFails, ControllerRestart, Return
<1> QED
  BY <1>1, <1>2, <1>3, <1>4, <1>5, <1>6, DiffQuiet, CreateQuiet, SyncQuiet, Zenon
     DEF CNext, Reconcile
==============================================================================
