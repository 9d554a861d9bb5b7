--------------------------- MODULE GroupSyncProofs ---------------------------
(***************************************************************************)
(* The inductive invariant of GroupSync, and that agents hold the history  *)
(* while the GroupMembers object is at most Retained revisions behind the  *)
(* patches; and that GroupSync implements MembershipHistory: under the     *)
(* refinement mapping every step of the controller, the API server or an   *)
(* agent is a step of the abstract history or leaves it alone.             *)
(***************************************************************************)
EXTENDS GroupControllerProofs, SequenceTheorems

------------------------------------------------------------------------------
(* The inductive invariant: the agents' steps. *)

\* Each method of GroupCache keeps the cache in agreement with the history.
LEMMA CacheOps ==
    ASSUME NEW h, NEW c \in Cache, CacheInv(h, c)
    PROVE  /\ \A e \in Entry : Fits(h, e) => CacheInv(h, AddPatch(c, e))
           /\ \A v \in Version : IsVersion(h, v) => CacheInv(h, AddGroupMembership(c, v))
           /\ \A rev \in Nat : CacheInv(h, ApplyPatch(c, rev))
<1>1. ASSUME NEW e \in Entry, Fits(h, e) PROVE CacheInv(h, AddPatch(c, e))
  <2>1. CASE c.live /\ e.rev < c.rev
    BY <2>1, Zenon DEF AddPatch
  <2>2. CASE ~(c.live /\ e.rev < c.rev)
    <3> DEFINE S == {x \in c.patches : x.rev # e.rev} \cup {e}
               d == [c EXCEPT !.patches = S]
    <3>1. AddPatch(c, e) = d
      BY <2>2, Zenon DEF AddPatch
    <3>2. \A x \in S : Fits(h, x)
      BY <1>1, Zenon DEF CacheInv
    <3> HIDE DEF S
    <3>3. d.live = c.live /\ d.rev = c.rev /\ d.mem = c.mem /\ d.patches = S
      BY Zenon DEF Cache
    <3> HIDE DEF d
    <3>4. d.live => IsVersion(h, d)
      BY <3>3, Zenon DEF CacheInv, IsVersion
    <3> QED
      BY <3>1, <3>2, <3>3, <3>4, Zenon DEF CacheInv
  <2> QED
    BY <2>1, <2>2, Zenon
<1>2. ASSUME NEW v \in Version, IsVersion(h, v) PROVE CacheInv(h, AddGroupMembership(c, v))
  BY <1>2, Zenon DEF AddGroupMembership, CacheInv, IsVersion
<1>3. ASSUME NEW rev \in Nat PROVE CacheInv(h, ApplyPatch(c, rev))
  <2>1. CASE NextPatches(c) = {} \/ rev # c.rev
    BY <2>1, Zenon DEF ApplyPatch
  <2>2. CASE ~(NextPatches(c) = {} \/ rev # c.rev)
    <3> DEFINE e == CHOOSE x \in NextPatches(c) : TRUE
               m == applyGroupMembersPatch(c.mem, e.patch)
               S == {x \in c.patches : x.rev # rev}
               d == [c EXCEPT !.mem = m, !.rev = rev + 1, !.patches = S]
    <3>1. ApplyPatch(c, rev) = d
      BY <2>2, Zenon DEF ApplyPatch
    <3>2. e \in NextPatches(c)
      BY <2>2, Zenon
    <3> HIDE DEF e
    <3>3. e \in c.patches /\ c.live /\ e.rev = rev /\ c.rev = rev
      BY <2>2, <3>2, Zenon DEF NextPatches
    <3>4. IsVersion(h, c) /\ Fits(h, e)
      BY <3>3, Zenon DEF CacheInv
    <3>5. IsVersion(h, [rev |-> e.rev + 1, mem |-> m])
      BY <3>3, <3>4, ApplyFits, Zenon
    <3>6. \A x \in S : Fits(h, x)
      BY Zenon DEF CacheInv
    <3> HIDE DEF m, S
    <3>7. d.rev = rev + 1 /\ d.mem = m /\ d.patches = S
      BY Zenon DEF Cache
    <3> HIDE DEF d
    <3>8. IsVersion(h, d)
      BY <3>3, <3>5, <3>7, Zenon DEF IsVersion
    <3> QED
      BY <3>1, <3>6, <3>7, <3>8, Zenon DEF CacheInv
  <2> QED
    BY <2>1, <2>2, Zenon
<1> QED
  BY <1>1, <1>2, <1>3, Zenon

\* An agent's step changes its own cache and leaves the controller alone.
LEMMA AgentLocal ==
    ASSUME IInv, NEW a \in Agents, UNCHANGED ctl, NEW c \in Cache,
           gc' = [gc EXCEPT ![a] = c], CacheInv(hist, c), NEW x, ~dead'[a],
           held' = [held EXCEPT ![a] = x], x # None => c.live /\ c.rev = x,
           \A b \in Agents \ {a} : dead'[b] = dead[b]
    PROVE  AgentInv'
<1>1. gc'[a] = c /\ held'[a] = x
  BY Zenon DEF IInv, TypeOK
<1>2. \A b \in Agents \ {a} : gc'[b] = gc[b] /\ held'[b] = held[b]
  BY Zenon DEF IInv, TypeOK
<1>3. hist' = hist
  BY Zenon DEF ctl
<1> QED
  BY <1>1, <1>2, <1>3, ZenonT(60) DEF IInv, AgentInv

\* The same for an event handler, which leaves the reconcile alone.
LEMMA AgentEvent ==
    ASSUME IInv, NEW a \in Agents, UNCHANGED <<ctl, held, dead>>, NEW c \in Cache,
           gc' = [gc EXCEPT ![a] = c], CacheInv(hist, c),
           held[a] # None => c.live /\ c.rev = held[a]
    PROVE  AgentInv'
<1>1. gc'[a] = c /\ \A b \in Agents \ {a} : gc'[b] = gc[b]
  BY Zenon DEF IInv, TypeOK
<1>2. hist' = hist /\ held' = held /\ dead' = dead
  BY Zenon DEF ctl
<1> QED
  BY <1>1, <1>2, Zenon DEF IInv, AgentInv

\* What the GroupMembers handlers do with two versions of the object.
LEMMA HandlerKept ==
    ASSUME IInv, NEW a \in Agents, UNCHANGED <<ctl, held, dead>>,
           NEW u \in Version, NEW v \in Version, IsVersion(hist, v),
           u.live => v.live, MembersHandler(a, u, v)
    PROVE  AgentInv'
<1>1. gc[a] \in Cache /\ CacheInv(hist, gc[a])
      /\ (held[a] # None => gc[a].live /\ gc[a].rev = held[a])
  BY Zenon DEF IInv, TypeOK, AgentInv
<1>3. CASE ~u.live /\ v.live
  <2> DEFINE c == AddGroupMembership(gc[a], v)
  <2>1. c \in Cache /\ CacheInv(hist, c)
    BY <1>1, CacheTypes, CacheOps, Zenon
  <2>2. gc' = [gc EXCEPT ![a] = c]
    BY <1>3, Zenon DEF MembersHandler
  <2>3. held[a] # None => c.live /\ c.rev = held[a]
    BY <1>1, Zenon DEF AddGroupMembership
  <2> HIDE DEF c
  <2> QED
    BY <2>1, <2>2, <2>3, AgentEvent, Zenon
<1>4. CASE ~(~u.live /\ v.live)
  <2>1. gc' = gc
    BY <1>4, Zenon DEF MembersHandler
  <2> QED
    BY <2>1, Zenon DEF IInv, AgentInv, ctl
<1> QED
  BY <1>3, <1>4, Zenon

LEMMA AgentKept ==
    ASSUME IInv, NEW a \in Agents, Agent(a), UNCHANGED ctl
    PROVE  AgentInv'
<1>1. gc[a] \in Cache /\ CacheInv(hist, gc[a])
      /\ (held[a] # None => gc[a].live /\ gc[a].rev = held[a])
  BY Zenon DEF IInv, TypeOK, AgentInv
<1>2. dead' = dead => ~dead'[a] /\ \A b \in Agents \ {a} : dead'[b] = dead[b]
  BY Zenon DEF IInv, AgentInv
<1>4. /\ pLog \in Seq(PatchEvent) /\ Len(pLog) \in Nat
      /\ mLog \in Seq(Version) /\ Len(mLog) \in Nat /\ Len(mLog) >= 1
      /\ am[a] \in 0 .. Len(mLog) /\ ap[a] \in -1 .. Len(pLog)
  BY DEF IInv, TypeOK, CTypeOK
<1>5. \A i \in 1 .. Len(mLog) : mLog[i] \in Version /\ IsVersion(hist, mLog[i])
                               /\ (mLog[i].live \/ i = 1)
  <2>1. \A i \in 1 .. Len(mLog) : mLog[i] \in Version
    BY <1>4
  <2>2. \A i \in 1 .. Len(mLog) : i = 1 \/ i \in 2 .. Len(mLog)
    BY <1>4
  <2> QED
    BY <2>1, <2>2, Zenon DEF IInv, MembersInv
<1>6. CASE MembersEvent(a)
  <2>1. am[a] \in 1 .. Len(mLog) /\ am[a] + 1 \in 1 .. Len(mLog) /\ am[a] + 1 # 1
    BY <1>4, <1>6 DEF MembersEvent
  <2> QED
    BY <1>5, <1>6, <2>1, HandlerKept, Zenon DEF MembersEvent
<1>7. CASE ListMembers(a)
  <2> DEFINE u == IF am[a] = 0 THEN Absent ELSE mLog[am[a]]
  <2>1. Len(mLog) \in 1 .. Len(mLog) /\ (am[a] # 0 => am[a] \in 1 .. Len(mLog) /\ Len(mLog) # 1)
    BY <1>4, <1>7 DEF ListMembers
  <2>2. u \in Version
    <3>1. Absent \in Version
      BY NoMembersType, Zenon DEF Absent, Version
    <3> QED
      BY <1>5, <2>1, <3>1, Zenon
  <2>3. u.live => mLog[Len(mLog)].live
    <3>1. ~Absent.live
      BY Zenon DEF Absent
    <3> QED
      BY <1>5, <2>1, <3>1, Zenon
  <2>4. MembersHandler(a, u, mLog[Len(mLog)]) /\ UNCHANGED <<held, dead>>
    BY <1>7, Zenon DEF ListMembers
  <2> HIDE DEF u
  <2> QED
    BY <1>5, <2>1, <2>2, <2>3, <2>4, HandlerKept, Zenon
<1>8. CASE PatchEventSeen(a)
  <2> DEFINE e == [rev |-> pLog[ap[a] + 1].rev, patch |-> pLog[ap[a] + 1].patch]
             c == AddPatch(gc[a], e)
  <2>1. ap[a] + 1 \in 1 .. Len(pLog)
    BY <1>4, <1>8 DEF PatchEventSeen
  <2>2. pLog[ap[a] + 1] \in PatchEvent /\ Fits(hist, pLog[ap[a] + 1])
    BY <1>4, <2>1 DEF IInv, PatchInv
  <2>3. e \in Entry /\ Fits(hist, e)
    BY <2>2, Zenon DEF PatchEvent, Entry, Fits
  <2>4. UNCHANGED <<held, dead>> /\ (gc' = gc \/ gc' = [gc EXCEPT ![a] = c])
    BY <1>8, Zenon DEF PatchEventSeen
  <2> HIDE DEF e
  <2>5. c \in Cache /\ CacheInv(hist, c)
    BY <1>1, <2>3, CacheTypes, CacheOps, Zenon
  <2>6. c.live = gc[a].live /\ c.rev = gc[a].rev
    BY <1>1, Zenon DEF AddPatch, Cache
  <2> HIDE DEF c
  <2>7. CASE gc' = gc
    BY <2>4, <2>7, Zenon DEF IInv, AgentInv, ctl
  <2>8. CASE gc' = [gc EXCEPT ![a] = c]
    <3>1. held[a] # None => c.live /\ c.rev = held[a]
      BY <1>1, <2>6, Zenon
    <3> QED
      BY <2>4, <2>5, <2>8, <3>1, AgentEvent, Zenon
  <2> QED
    BY <2>4, <2>7, <2>8, Zenon
<1>9. CASE ListPatchObjects(a)
  <2> DEFINE new == {e \in LivePatches(pLog, Len(pLog)) :
                        ~HasRev(LivePatches(pLog, ap[a]), e.rev)}
             kept == {e \in new : ~(gc[a].live /\ e.rev < gc[a].rev)}
             S == {x \in gc[a].patches : ~HasRev(kept, x.rev)} \cup kept
             c == [gc[a] EXCEPT !.patches = S]
  <2>1. LivePatches(pLog, Len(pLog)) \in SUBSET Entry
    <3>1. Len(pLog) \in 0 .. Len(pLog)
      BY <1>4
    <3> QED
      BY <1>4, <3>1, LiveType, Zenon
  <2>2. \A e \in LivePatches(pLog, Len(pLog)) : Fits(hist, e)
    <3> SUFFICES ASSUME NEW e \in LivePatches(pLog, Len(pLog)) PROVE Fits(hist, e)
      BY Zenon
    <3>1. PICK i \in 1 .. Len(pLog) : e = [rev |-> pLog[i].rev, patch |-> pLog[i].patch]
      BY <1>4, LiveSource, SMTT(30)
    <3>2. Fits(hist, pLog[i])
      BY Zenon DEF IInv, PatchInv
    <3> QED
      BY <3>1, <3>2, Zenon DEF Fits
  <2>3. S \in SUBSET Entry
    BY <1>1, <2>1, Zenon DEF Cache, Entry
  <2>4. \A e \in S : Fits(hist, e)
    BY <1>1, <2>2, Zenon DEF CacheInv
  <2>5. gc' = [gc EXCEPT ![a] = c] /\ UNCHANGED <<held, dead>>
    BY <1>9, Zenon DEF ListPatchObjects, IInv, TypeOK
  <2> HIDE DEF S
  <2>6. c \in Cache
    BY <1>1, <2>3, CacheTypes, Zenon
  <2>7. c.live = gc[a].live /\ c.rev = gc[a].rev /\ c.mem = gc[a].mem /\ c.patches = S
    BY <1>1, Zenon DEF Cache
  <2> HIDE DEF c
  <2>8. CacheInv(hist, c)
    BY <1>1, <2>4, <2>7, Zenon DEF CacheInv, IsVersion
  <2>9. held[a] # None => c.live /\ c.rev = held[a]
    BY <1>1, <2>7, Zenon
  <2> QED
    BY <2>5, <2>6, <2>8, <2>9, AgentEvent, Zenon
<1>10. CASE NextPatch(a)
  <2> DEFINE x == IF NextPatches(gc[a]) = {} THEN None ELSE gc[a].rev
  <2>1. gc' = [gc EXCEPT ![a] = gc[a]] /\ held' = [held EXCEPT ![a] = x] /\ dead' = dead
    BY <1>10, Zenon DEF NextPatch, IInv, TypeOK
  <2>2. x # None => gc[a].live /\ gc[a].rev = x
    BY Zenon DEF NextPatches
  <2> HIDE DEF x
  <2> QED
    BY <1>1, <1>2, <2>1, <2>2, AgentLocal, Zenon
<1>11. CASE ReconcilePatch(a)
  <2> DEFINE c == ApplyPatch(gc[a], held[a])
  <2>1. held[a] \in Nat /\ held[a] # None /\ held' = [held EXCEPT ![a] = None]
    BY <1>11, Zenon DEF ReconcilePatch, IInv, TypeOK
  <2>2. ~ApplyPatchFatal(gc[a], held[a])
    BY <1>1, <2>1, Zenon DEF ApplyPatchFatal
  <2>3. gc' = [gc EXCEPT ![a] = c] /\ dead' = dead
    BY <1>11, <2>2, Zenon DEF ReconcilePatch
  <2>4. c \in Cache /\ CacheInv(hist, c)
    BY <1>1, <2>1, CacheTypes, CacheOps, Zenon
  <2> HIDE DEF c
  <2> QED
    BY <1>2, <2>1, <2>3, <2>4, AgentLocal, Zenon
<1>12. CASE AgentRestart(a)
  <2>1. EmptyCache \in Cache /\ CacheInv(hist, EmptyCache)
    BY NoMembersType, Zenon DEF EmptyCache, Cache, CacheInv
  <2>2. ~dead'[a] /\ \A b \in Agents \ {a} : dead'[b] = dead[b]
    BY <1>12, Zenon DEF AgentRestart, IInv, TypeOK
  <2> QED
    BY <1>12, <2>1, <2>2, AgentLocal, Zenon DEF AgentRestart
<1> QED
  BY <1>6, <1>7, <1>8, <1>9, <1>10, <1>11, <1>12, Zenon DEF Agent, AgentStep

LEMMA InitInvariant == Init => IInv
<1> SUFFICES ASSUME Init PROVE IInv
  BY Zenon
<1>1. TypeOK
  BY InitType, Zenon
<1>2. hist = <<NoMembers>> /\ mLog = <<Absent>> /\ pLog = <<>> /\ cm = 1
      /\ w = Idle /\ pc = "idle"
  BY Zenon DEF Init, CInit
<1>3. Len(hist) = 1 /\ hist[1] = NoMembers /\ Len(mLog) = 1 /\ mLog[1] = Absent
      /\ Len(pLog) = 0
  BY <1>2, Zenon
<1>4. LeadBounded
  BY <1>3, RetainedAssumption DEF LeadBounded, Top, Absent
<1>5. IsVersion(hist, Absent) /\ IsVersion(hist, Idle.prev)
  BY <1>3, SameReflexive DEF IsVersion, Absent, Idle
<1>6. MembersInv
  <2>1. \A i \in 1 .. Len(mLog) : i = 1
    BY <1>3
  <2>2. \A i \in 2 .. Len(mLog) : FALSE
    BY <1>3
  <2>3. \A i, j \in 1 .. Len(mLog) : mLog[i].rev <= mLog[j].rev
    BY <1>3, <2>1 DEF Absent
  <2>4. \A i \in 1 .. Len(mLog) : IsVersion(hist, mLog[i])
    BY <1>3, <1>5, <2>1, Zenon
  <2> QED
    BY <1>3, <2>2, <2>3, <2>4, Zenon DEF MembersInv
<1>7. PatchInv
  BY <1>3 DEF PatchInv, Covered, DeletedBelow
<1>8. WorkInv
  BY <1>2, <1>5, Zenon DEF WorkInv, Idle
<1>9. AgentInv
  BY Zenon DEF Init, AInit, AgentInv, EmptyCache, CacheInv
<1> QED
  BY <1>1, <1>4, <1>6, <1>7, <1>8, <1>9 DEF IInv

LEMMA StepInvariant ==
    ASSUME IInv, [Next /\ LeadBounded']_vars
    PROVE  IInv'
<1>1. TypeOK'
  BY StepType, Zenon DEF IInv
<1>2. CASE CNext /\ UNCHANGED avars /\ LeadBounded'
  <2>1. CInv'
    BY <1>2, ControllerKept, Zenon DEF IInv, TypeOK, CInv
  <2>2. AgentInv'
    <3> SUFFICES ASSUME NEW a \in Agents
                 PROVE  /\ CacheInv(hist', gc[a])
                        /\ held[a] # None => gc[a].live /\ gc[a].rev = held[a]
                        /\ ~dead[a]
      BY <1>2, Zenon DEF AgentInv, avars
    <3>1. gc[a] \in Cache /\ CacheInv(hist, gc[a]) /\ CTypeOK
      BY Zenon DEF IInv, TypeOK, AgentInv
    <3>2. gc[a].rev \in Nat /\ \A e \in gc[a].patches : e.rev \in Nat
      BY <3>1, Zenon DEF Cache
    <3>3. CacheInv(hist', gc[a])
      BY <1>2, <3>1, <3>2, HistoryKept, Zenon DEF CacheInv
    <3> QED
      BY <3>3, Zenon DEF IInv, AgentInv
  <2> QED
    BY <1>1, <2>1, <2>2, Zenon DEF CInv, IInv
<1>3. CASE (\E a \in Agents : Agent(a)) /\ UNCHANGED ctl
  <2>1. AgentInv'
    BY <1>3, AgentKept, Zenon
  <2>2. LeadBounded' /\ MembersInv' /\ PatchInv' /\ WorkInv'
    BY <1>3, Zenon DEF ctl, IInv, LeadBounded, MembersInv, PatchInv, WorkInv, Top, Revision
  <2> QED
    BY <1>1, <2>1, <2>2, Zenon DEF IInv
<1>4. CASE UNCHANGED vars
  BY <1>1, <1>4, Zenon DEF vars, cvars, ctl, avars, IInv, LeadBounded, MembersInv, PatchInv,
     WorkInv, AgentInv, Top, Revision
<1> QED
  BY <1>2, <1>3, <1>4, Zenon DEF Next

\* The invariant holds in every reachable state.
THEOREM Invariant == BoundedSpec => []IInv
<1>1. Init => IInv
  BY InitInvariant, Zenon
<1>2. IInv /\ [Next /\ LeadBounded']_vars => IInv'
  BY StepInvariant, Zenon
<1> QED
  BY <1>1, <1>2, PTL DEF BoundedSpec

\* What an agent shows under a revision is what the controller gave out under
\* it, for any number of agents, endpoints, changes, restarts and relists, as
\* long as patches run at most Retained ahead of the GroupMembers object.
THEOREM AgentsFollow == BoundedSpec => []AgentsHoldHistory
<1>1. IInv => AgentsHoldHistory
  <2> SUFFICES ASSUME IInv, NEW a \in Agents, gc[a].live
               PROVE  gc[a].rev <= Top /\ Same(gc[a].mem, Revision(gc[a].rev))
    BY Zenon DEF AgentsHoldHistory
  <2>1. IsVersion(hist, gc[a])
    BY Zenon DEF IInv, AgentInv, CacheInv
  <2>2. gc[a].rev \in Nat /\ Len(hist) \in Nat
    BY SMTT(30) DEF IInv, TypeOK, CTypeOK, Cache
  <2> QED
    BY <2>1, <2>2 DEF IsVersion, Top, Revision
<1> QED
  BY <1>1, Invariant, PTL

\* cleanupOldPatches never deletes a patch that leads on from the GroupMembers
\* object: an agent that lists both can rebuild the newest membership.
THEOREM PatchesSuffice == BoundedSpec => []PatchesReachTop
<1>1. IInv => PatchesReachTop
  <2> SUFFICES ASSUME IInv, NEW r \in mLog[Len(mLog)].rev .. Top - 1
               PROVE  HasRev(LivePatches(pLog, Len(pLog)), r)
    BY Zenon DEF PatchesReachTop
  <2>1. /\ cm \in 1 .. Len(mLog) /\ Len(mLog) \in 1 .. Len(mLog) /\ cm <= Len(mLog)
        /\ mLog \in Seq(Version) /\ Len(hist) \in Nat
    BY DEF IInv, TypeOK, CTypeOK
  <2>2. mLog[cm].rev <= mLog[Len(mLog)].rev
    BY <2>1, Zenon DEF IInv, MembersInv
  <2>3. mLog[cm].rev \in Nat /\ mLog[Len(mLog)].rev \in Nat
    <3>1. mLog[cm] \in Version /\ mLog[Len(mLog)] \in Version
      BY <2>1
    <3> QED
      BY <3>1, Zenon DEF Version
  <2>4. r \in 0 .. Len(hist) - 2 /\ mLog[cm].rev <= r
    BY <2>1, <2>2, <2>3 DEF Top
  <2>5. ASSUME NEW i \in 1 .. Len(pLog), pLog[i].op = "delete", pLog[i].rev = r
        PROVE  FALSE
    <3>1. pLog[i].rev < mLog[cm].rev
      BY <2>5, Zenon DEF IInv, PatchInv, DeletedBelow
    <3> QED
      BY <2>3, <2>4, <2>5, <3>1
  <2> QED
    BY <2>4, <2>5, Zenon DEF IInv, PatchInv, Covered
<1> QED
  BY <1>1, Invariant, PTL

------------------------------------------------------------------------------
(* The refinement of MembershipHistory. *)

Inv == IInv /\ DiffInv

------------------------------------------------------------------------------
(* The mapping. *)

\* The mapping tells two memberships apart exactly when their addresses differ.
LEMMA AddrOfSame ==
    ASSUME NEW m, NEW n
    PROVE  AddrOf(m) = AddrOf(n) <=> Same(m, n)
<1>1. ASSUME Same(m, n) PROVE AddrOf(m) = AddrOf(n)
  BY <1>1, Zenon DEF Same, AddrOf
<1>2. ASSUME AddrOf(m) = AddrOf(n) PROVE Same(m, n)
  <2>1. DOMAIN AddrOf(m) = DOMAIN m /\ DOMAIN AddrOf(n) = DOMAIN n
    BY Zenon DEF AddrOf
  <2>2. \A r \in DOMAIN m : AddrOf(m)[r] = m[r].addr
    BY Zenon DEF AddrOf
  <2>3. \A r \in DOMAIN n : AddrOf(n)[r] = n[r].addr
    BY Zenon DEF AddrOf
  <2> QED
    BY <1>2, <2>1, <2>2, <2>3, Zenon DEF Same
<1> QED
  BY <1>1, <1>2, Zenon

LEMMA AddrOfType ==
    ASSUME NEW m \in Members
    PROVE  AddrOf(m) \in AddrMaps
<1>1. PICK S \in SUBSET Refs : m \in [S -> Member]
  BY MembersType, Zenon
<1>2. AddrOf(m) \in [S -> Addrs]
  BY <1>1, Zenon DEF AddrOf, Member
<1> QED
  BY <1>2, Zenon DEF AddrMaps

LEMMA AppendIs ==
    ASSUME NEW S, NEW s \in Seq(S), NEW x \in S, NEW t \in Seq(S), Len(t) = Len(s) + 1,
           \A i \in 1 .. Len(s) : t[i] = s[i], t[Len(s) + 1] = x
    PROVE  t = Append(s, x)
<1>1. Append(s, x) \in Seq(S) /\ Len(Append(s, x)) = Len(s) + 1
  OBVIOUS
<1>2. \A i \in 1 .. Len(t) : t[i] = Append(s, x)[i]
  OBVIOUS
<1> QED
  BY <1>1, <1>2, SeqEqual, Zenon

\* What the mapping makes of the history and of one agent's cache.
Versions == [i \in 1 .. Len(hist) |-> AddrOf(hist[i])]

Shown(c) == [known |-> c.live, rev |-> c.rev, addrs |-> AddrOf(c.mem)]

Views == [a \in Agents |-> Shown(gc[a])]

------------------------------------------------------------------------------
(* The steps. *)

\* Equal addresses give an empty patch.
LEMMA SameNoPatch ==
    ASSUME NEW m, NEW n, Same(m, n)
    PROVE  IsEmptyPatch(ToGroupMembersPatch(m, n))
BY Zenon DEF Same, IsEmptyPatch, ToGroupMembersPatch, Only, Changed

LEMMA DiffKept ==
    ASSUME Inv, [Next]_vars
    PROVE  DiffInv'
<1> SUFFICES ASSUME pc' = "createPatch" PROVE ~Same(w'.prev.mem, w'.curr)
  BY Zenon DEF DiffInv
<1>1. CASE CNext
  <2>1. CASE Diff
    <3>1. ~IsEmptyPatch(ToGroupMembersPatch(w.prev.mem, matched))
      BY <2>1, Zenon DEF Diff
    <3>2. w \in Work
      BY Zenon DEF Inv, IInv, TypeOK, CTypeOK
    <3>3. w'.prev = w.prev /\ w'.curr = matched
      BY <2>1, <3>2, Zenon DEF Diff, Work
    <3> QED
      BY <3>1, <3>3, SameNoPatch, Zenon
  <2>2. CASE ~Diff
    <3>1. pc = "createPatch" /\ w' = w
      BY <1>1, <2>2, ZenonT(60) DEF CNext, Reconcile, EndpointEvent, CacheMembers, CachePatches,
         FetchPrev, ListPatches, ApplyNext, CreatePatch, Return, SyncMembers, UpdateMembers,
         WriteMembers, ListOld, Cleanup, CallFails, ControllerRestart
    <3> QED
      BY <3>1, Zenon DEF Inv, DiffInv
  <2> QED
    BY <2>1, <2>2, Zenon
<1>2. CASE UNCHANGED ctl
  BY <1>2, Zenon DEF ctl, Inv, DiffInv
<1> QED
  BY <1>1, <1>2, Zenon DEF Next, vars, cvars

\* The controller publishes when it creates the patch of a new revision; every
\* other step of it leaves the history alone.
LEMMA ControllerStep ==
    ASSUME Inv, CNext, UNCHANGED avars
    PROVE  \/ \E m \in AddrMaps : History!Publish(m)
           \/ UNCHANGED <<Versions, Views>>
<1>1. CInv
  BY Zenon DEF Inv, IInv, TypeOK, CInv
<1>2. Views' = Views
  BY Zenon DEF avars, Views
<1>3. CASE hist' = hist
  BY <1>2, <1>3, Zenon DEF Versions
<1>4. CASE hist' # hist
  <2> DEFINE patch == ToGroupMembersPatch(w.prev.mem, w.curr)
             m == applyGroupMembersPatch(w.prev.mem, patch)
  <2>1. CreatePatch
    BY <1>4, Zenon DEF CNext, Reconcile, EndpointEvent, CacheMembers, CachePatches,
         FetchPrev, ListPatches, ApplyNext, Diff, SyncMembers,
         UpdateMembers, ListOld, Cleanup, CallFails, ControllerRestart
  <2>2. pc = "createPatch" /\ ~HasRev(LivePatches(pLog, Len(pLog)), w.prev.rev)
        /\ hist' = Append(hist, m)
    BY <1>4, <2>1, Zenon DEF CreatePatch
  <2>3. w.prev.rev = Top
    BY <1>1, <2>2, CreatesAtTop, Zenon
  <2>4. hist \in Seq(Members) /\ Len(hist) \in Nat /\ Len(hist) >= 1 /\ Top + 1 = Len(hist)
    BY <1>1 DEF CInv, CTypeOK, Top
  <2>5. Same(w.prev.mem, hist[Len(hist)])
    BY <1>1, <2>3, <2>4, Zenon DEF CInv, WorkInv, IsVersion
  <2>6. m \in Members
    <3>1. w.prev.mem \in Members /\ w.curr \in Members
      BY <1>1, Zenon DEF CInv, CTypeOK, Work
    <3> QED
      BY <3>1, DiffType, ApplyType, Zenon
  <2>7. Same(m, w.curr)
    BY ApplyDiff, Zenon
  <2> HIDE DEF m, patch
  <2>8. ~Same(m, hist[Len(hist)])
    <3>1. ~Same(w.prev.mem, w.curr)
      BY <2>2, Zenon DEF Inv, DiffInv
    <3> QED
      BY <2>5, <2>7, <3>1, SameSymmetric, SameTransitive, Zenon
  <2>9. Versions' = Append(Versions, AddrOf(m)) /\ Len(Versions) = Len(hist)
        /\ Versions[Len(hist)] = AddrOf(hist[Len(hist)])
    <3>1. Len(hist') = Len(hist) + 1 /\ hist'[Len(hist) + 1] = m
          /\ \A i \in 1 .. Len(hist) : hist'[i] = hist[i]
      BY <2>2, <2>4, <2>6
    <3>2. Versions' = [i \in 1 .. Len(hist) + 1 |-> AddrOf(hist'[i])]
      BY <3>1, Zenon DEF Versions
    <3>3. Versions \in Seq(AddrMaps) /\ Len(Versions) = Len(hist)
      <4>1. \A i \in 1 .. Len(hist) : AddrOf(hist[i]) \in AddrMaps
        BY <2>4, AddrOfType
      <4> QED
        BY <2>4, <4>1 DEF Versions
    <3>4. AddrOf(m) \in AddrMaps
      BY <2>6, AddrOfType, Zenon
    <3>5. Versions' \in Seq(AddrMaps) /\ Len(Versions') = Len(Versions) + 1
      <4>1. \A i \in 1 .. Len(hist) + 1 : AddrOf(hist'[i]) \in AddrMaps
        BY <2>4, <3>1, <3>4, AddrOfType
      <4> QED
        BY <2>4, <3>2, <3>3, <4>1
    <3>6. /\ \A i \in 1 .. Len(hist) : Versions'[i] = Versions[i]
          /\ Versions'[Len(hist) + 1] = AddrOf(m)
      BY <2>4, <3>1, <3>2 DEF Versions
    <3>7. Versions[Len(hist)] = AddrOf(hist[Len(hist)])
      BY <2>4 DEF Versions
    <3> QED
      BY <3>3, <3>4, <3>5, <3>6, <3>7, AppendIs, Zenon
  <2>10. AddrOf(m) # Versions[Len(hist)]
    BY <2>8, <2>9, AddrOfSame, Zenon
  <2>11. AddrOf(m) \in AddrMaps
    BY <2>6, AddrOfType, Zenon
  <2>12. History!Publish(AddrOf(m))
    BY <1>2, <2>9, <2>10, Zenon DEF History!Publish, Versions, Views, Shown
  <2> QED
    BY <2>11, <2>12, Zenon
<1> QED
  BY <1>3, <1>4, Zenon

\* A cache in agreement with the history shows one of its versions.
LEMMA ShownVersion ==
    ASSUME NEW c \in Cache, c.live, IsVersion(hist, c), Len(hist) \in Nat
    PROVE  /\ Shown(c) = History!Showing(c.rev)
           /\ c.rev \in 0 .. Len(Versions) - 1
<1>1. c.rev \in Nat /\ c.rev < Len(hist) /\ c.rev + 1 \in 1 .. Len(hist)
  BY DEF Cache, IsVersion
<1>2. AddrOf(c.mem) = AddrOf(hist[c.rev + 1])
  BY AddrOfSame, Zenon DEF IsVersion
<1>3. Versions[c.rev + 1] = AddrOf(c.mem) /\ Len(Versions) = Len(hist)
  BY <1>1, <1>2 DEF Versions
<1>4. Shown(c) = [known |-> TRUE, rev |-> c.rev, addrs |-> Versions[c.rev + 1]]
  BY <1>3, Zenon DEF Shown, Cache
<1>5. History!Showing(c.rev) = [known |-> TRUE, rev |-> c.rev, addrs |-> Versions[c.rev + 1]]
  BY Zenon DEF History!Showing, Versions
<1> QED
  BY <1>1, <1>3, <1>4, <1>5

\* The agents' views after one cache has changed.
LEMMA OneView ==
    ASSUME Inv, NEW a \in Agents, NEW c \in Cache, gc' = [gc EXCEPT ![a] = c]
    PROVE  /\ Views' = [Views EXCEPT ![a] = Shown(c)]
           /\ Shown(c) = Shown(gc[a]) => Views' = Views
BY Zenon DEF Inv, IInv, TypeOK, Views

\* The first membership an agent sees is adopted; later ones are ignored.
LEMMA HandlerStep ==
    ASSUME Inv, NEW a \in Agents, UNCHANGED ctl,
           NEW u \in Version, NEW v \in Version, IsVersion(hist, v),
           u.live => v.live, MembersHandler(a, u, v)
    PROVE  History!Adopt(a) \/ UNCHANGED <<Versions, Views>>
<1>1. gc[a] \in Cache /\ Len(hist) \in Nat
  BY DEF Inv, IInv, TypeOK, CTypeOK
<1>2. Versions' = Versions
  BY Zenon DEF ctl, Versions
<1>3. CASE ~u.live /\ v.live /\ ~gc[a].live
  <2> DEFINE c == AddGroupMembership(gc[a], v)
  <2>1. gc' = [gc EXCEPT ![a] = c]
    BY <1>3, Zenon DEF MembersHandler
  <2>2. c \in Cache
    BY <1>1, CacheTypes, Zenon
  <2>3. c.live /\ c.rev = v.rev /\ c.mem = v.mem
    BY <1>3, Zenon DEF AddGroupMembership
  <2>4. IsVersion(hist, c)
    BY <2>3, Zenon DEF IsVersion
  <2> HIDE DEF c
  <2>5. Views' = [Views EXCEPT ![a] = History!Showing(c.rev)] /\ c.rev \in 0 .. Len(Versions) - 1
    BY <1>1, <2>1, <2>2, <2>3, <2>4, OneView, ShownVersion, ZenonT(60)
  <2>6. ~Views[a].known
    BY <1>3, Zenon DEF Views, Shown
  <2> QED
    BY <1>2, <2>5, <2>6, Zenon DEF History!Adopt, Versions, Views, Shown
<1>4. CASE ~(~u.live /\ v.live /\ ~gc[a].live)
  <2>1. gc' = gc
    BY <1>1, <1>4, Zenon DEF MembersHandler, AddGroupMembership, Inv, IInv, TypeOK
  <2> QED
    BY <1>2, <2>1, Zenon DEF Views
<1> QED
  BY <1>3, <1>4, Zenon

LEMMA AgentRefines ==
    ASSUME Inv, NEW a \in Agents, Agent(a), UNCHANGED ctl
    PROVE  \/ History!Adopt(a) \/ History!Advance(a) \/ History!Forget(a)
           \/ UNCHANGED <<Versions, Views>>
<1>1. /\ gc[a] \in Cache /\ CacheInv(hist, gc[a]) /\ Len(hist) \in Nat
      /\ (held[a] # None => gc[a].live /\ gc[a].rev = held[a])
  BY DEF Inv, IInv, TypeOK, CTypeOK, AgentInv
<1>2. Versions' = Versions
  BY Zenon DEF ctl, Versions
<1>3. /\ mLog \in Seq(Version) /\ Len(mLog) \in Nat /\ Len(mLog) >= 1
      /\ am[a] \in 0 .. Len(mLog) /\ ap[a] \in -1 .. Len(pLog)
  BY DEF Inv, IInv, TypeOK, CTypeOK
<1>4. \A i \in 1 .. Len(mLog) : mLog[i] \in Version /\ IsVersion(hist, mLog[i])
                               /\ (mLog[i].live \/ i = 1)
  <2>1. \A i \in 1 .. Len(mLog) : mLog[i] \in Version
    BY <1>3
  <2>2. \A i \in 1 .. Len(mLog) : i = 1 \/ i \in 2 .. Len(mLog)
    BY <1>3
  <2> QED
    BY <2>1, <2>2, Zenon DEF Inv, IInv, MembersInv
<1>5. CASE MembersEvent(a)
  <2>1. am[a] \in 1 .. Len(mLog) /\ am[a] + 1 \in 1 .. Len(mLog) /\ am[a] + 1 # 1
    BY <1>3, <1>5 DEF MembersEvent
  <2> QED
    BY <1>4, <1>5, <2>1, HandlerStep, Zenon DEF MembersEvent
<1>6. CASE ListMembers(a)
  <2> DEFINE u == IF am[a] = 0 THEN Absent ELSE mLog[am[a]]
  <2>1. Len(mLog) \in 1 .. Len(mLog) /\ (am[a] # 0 => am[a] \in 1 .. Len(mLog) /\ Len(mLog) # 1)
    BY <1>3, <1>6 DEF ListMembers
  <2>2. Absent \in Version /\ ~Absent.live
    BY NoMembersType, Zenon DEF Absent, Version
  <2>3. u \in Version /\ (u.live => mLog[Len(mLog)].live)
    BY <1>4, <2>1, <2>2, Zenon
  <2>4. MembersHandler(a, u, mLog[Len(mLog)])
    BY <1>6, Zenon DEF ListMembers
  <2> HIDE DEF u
  <2> QED
    BY <1>4, <2>1, <2>3, <2>4, HandlerStep, Zenon
<1>7. ASSUME NEW S, gc' = gc \/ gc' = [gc EXCEPT ![a].patches = S]
      PROVE  UNCHANGED <<Versions, Views>>
  <2>1. \A b \in Agents : gc'[b].live = gc[b].live /\ gc'[b].rev = gc[b].rev /\ gc'[b].mem = gc[b].mem
    <3> DEFINE d == [gc[a] EXCEPT !.patches = S]
    <3>1. d.live = gc[a].live /\ d.rev = gc[a].rev /\ d.mem = gc[a].mem
      BY <1>1, Zenon DEF Cache
    <3>2. gc' = gc \/ gc' = [gc EXCEPT ![a] = d]
      BY <1>7, Zenon
    <3> HIDE DEF d
    <3>3. gc \in [Agents -> Cache]
      BY Zenon DEF Inv, IInv, TypeOK
    <3> QED
      BY <3>1, <3>2, <3>3, Zenon
  <2> QED
    BY <1>2, <2>1, Zenon DEF Views, Shown
<1>8. CASE PatchEventSeen(a)
  <2>1. gc' = gc \/ \E e : gc' = [gc EXCEPT ![a] = AddPatch(gc[a], e)]
    BY <1>8, Zenon DEF PatchEventSeen
  <2>2. \A e : \E S : AddPatch(gc[a], e) = [gc[a] EXCEPT !.patches = S]
    BY <1>1, Zenon DEF AddPatch, Cache
  <2>3. \E S : gc' = gc \/ gc' = [gc EXCEPT ![a].patches = S]
    BY <2>1, <2>2, Zenon
  <2> QED
    BY <1>7, <2>3, Zenon
<1>9. CASE ListPatchObjects(a)
  <2>1. \E S : gc' = [gc EXCEPT ![a].patches = S]
    BY <1>9, Zenon DEF ListPatchObjects
  <2> QED
    BY <1>7, <2>1, Zenon
<1>10. CASE NextPatch(a)
  BY <1>7, <1>10, Zenon DEF NextPatch
<1>11. CASE ReconcilePatch(a)
  <2> DEFINE c == ApplyPatch(gc[a], held[a])
  <2>1. held[a] \in Nat /\ held[a] # None
    BY <1>11, Zenon DEF ReconcilePatch, Inv, IInv, TypeOK
  <2>2. gc[a].live /\ gc[a].rev = held[a] /\ ~ApplyPatchFatal(gc[a], held[a])
    BY <1>1, <2>1, Zenon DEF ApplyPatchFatal
  <2>3. gc' = [gc EXCEPT ![a] = c]
    BY <1>11, <2>2, Zenon DEF ReconcilePatch
  <2>4. c \in Cache /\ CacheInv(hist, c)
    BY <1>1, <2>1, CacheTypes, CacheOps, Zenon
  <2>5. CASE NextPatches(gc[a]) = {}
    <3>1. c = gc[a]
      BY <2>5, Zenon DEF ApplyPatch
    <3> QED
      BY <1>2, <1>1, <2>3, <3>1, OneView, Zenon
  <2>6. CASE NextPatches(gc[a]) # {}
    <3>1. c.live /\ c.rev = gc[a].rev + 1
      BY <1>1, <2>2, <2>6, Zenon DEF ApplyPatch, Cache
    <3> HIDE DEF c
    <3>2. IsVersion(hist, c)
      BY <2>4, <3>1, Zenon DEF CacheInv
    <3>3. Views' = [Views EXCEPT ![a] = History!Showing(gc[a].rev + 1)]
          /\ gc[a].rev + 1 \in 0 .. Len(Versions) - 1
      <4>1. Shown(c) = History!Showing(c.rev) /\ c.rev \in 0 .. Len(Versions) - 1
        BY <1>1, <2>4, <3>1, <3>2, ShownVersion, Zenon
      <4>2. Views' = [Views EXCEPT ![a] = Shown(c)]
        BY <2>3, <2>4, OneView, Zenon
      <4> QED
        BY <3>1, <4>1, <4>2, Zenon
    <3>4. Views[a].known /\ Views[a].rev = gc[a].rev /\ gc[a].rev \in Nat
      BY <1>1, <2>2, Zenon DEF Views, Shown, Cache
    <3>5. Views[a].rev < Len(Versions) - 1
      <4>1. Len(Versions) \in Nat
        BY <1>1, SMTT(30) DEF Versions
      <4> QED
        BY <3>3, <3>4, <4>1
    <3> QED
      BY <1>2, <3>3, <3>4, <3>5, Zenon DEF History!Advance, Versions, Views, Shown
  <2> QED
    BY <2>5, <2>6, Zenon
<1>12. CASE AgentRestart(a)
  <2>1. EmptyCache \in Cache
    BY NoMembersType, Zenon DEF EmptyCache, Cache
  <2>2. Views' = [Views EXCEPT ![a] = Shown(EmptyCache)]
    BY <1>12, <2>1, OneView, Zenon DEF AgentRestart
  <2>3. Shown(EmptyCache) = History!Nothing
    BY Zenon DEF Shown, EmptyCache, History!Nothing
  <2> QED
    BY <1>2, <2>2, <2>3, Zenon DEF History!Forget, Versions, Views, Shown
<1> QED
  BY <1>5, <1>6, <1>8, <1>9, <1>10, <1>11, <1>12, Zenon DEF Agent, AgentStep

------------------------------------------------------------------------------
\* The group controller, the API server's GroupMembers and patch objects and the
\* agents' group caches implement one history of memberships, each different
\* from the one before, through which every agent moves in order: for any number
\* of agents, endpoints, changes and faults, as long as patches run at most
\* Retained ahead of the GroupMembers object.
THEOREM Refinement == BoundedSpec => ImplementsHistory
<1>1. Init => History!Init
  <2> SUFFICES ASSUME Init PROVE History!Init
    BY Zenon
  <2>1. hist = <<NoMembers>> /\ gc = [a \in Agents |-> EmptyCache]
    BY Zenon DEF Init, CInit, AInit
  <2>2. [i \in 1 .. Len(hist) |-> AddrOf(hist[i])] = <<AddrOf(NoMembers)>>
    BY <2>1
  <2> QED
    BY <2>1, <2>2, Zenon DEF History!Init, History!Nothing, EmptyCache
<1>2. Init => Inv
  BY InitInvariant, Zenon DEF Inv, DiffInv, Init, CInit
<1>3. Inv /\ [Next /\ LeadBounded']_vars => Inv'
  <2> SUFFICES ASSUME Inv, [Next /\ LeadBounded']_vars PROVE Inv'
    BY Zenon
  <2>1. IInv'
    BY StepInvariant, Zenon DEF Inv
  <2>2. DiffInv'
    BY DiffKept, Zenon
  <2> QED
    BY <2>1, <2>2, Zenon DEF Inv
<1>4. Inv /\ [Next /\ LeadBounded']_vars => [History!Next]_(History!vars)
  <2> SUFFICES ASSUME Inv, [Next /\ LeadBounded']_vars
               PROVE  [History!Next]_(History!vars)
    BY Zenon
  <2>1. UNCHANGED <<Versions, Views>> => UNCHANGED History!vars
    BY Zenon DEF History!vars, Versions, Views, Shown
  <2>2. CASE CNext /\ UNCHANGED avars
    BY <2>1, <2>2, ControllerStep, Zenon DEF History!Next
  <2>3. ASSUME NEW a \in Agents, Agent(a), UNCHANGED ctl
        PROVE  [History!Next]_(History!vars)
    BY <2>1, <2>3, AgentRefines, Zenon DEF History!Next
  <2>4. CASE UNCHANGED vars
    BY <2>1, <2>4, Zenon DEF vars, cvars, ctl, avars, Versions, Views
  <2> QED
    BY <2>2, <2>3, <2>4, Zenon DEF Next
<1> QED
  BY <1>1, <1>2, <1>3, <1>4, PTL DEF BoundedSpec, ImplementsHistory, History!Spec

------------------------------------------------------------------------------
(* Patches are created for the newest revision. *)

\* A reconcile only ever creates the patch of the newest revision, so that no
\* revision gets a second one, as long as patches run at most Retained ahead of
\* the GroupMembers object.  (Further ahead a patch that is still needed is cleaned
\* up, and its name is free again.)
THEOREM PatchesInOrder == BoundedSpec => []PatchForLatestRevision
<1>1. Init => PatchForLatestRevision
  <2> SUFFICES ASSUME Init PROVE PatchForLatestRevision
    OBVIOUS
  <2>1. Len(pLog) = 0
    BY Zenon DEF Init, CInit
  <2> QED
    BY <2>1 DEF PatchForLatestRevision
<1>2. IInv /\ PatchForLatestRevision /\ [Next /\ LeadBounded']_vars => PatchForLatestRevision'
  <2> SUFFICES ASSUME IInv, PatchForLatestRevision, [Next /\ LeadBounded']_vars
               PROVE  PatchForLatestRevision'
    OBVIOUS
  <2>1. CInv /\ pLog \in Seq(PatchEvent) /\ Len(pLog) \in Nat /\ Len(pLog) \in 0 .. Len(pLog)
    BY DEF IInv, TypeOK, CTypeOK, CInv
  <2>2. CASE UNCHANGED pLog
    BY <2>2, Zenon DEF PatchForLatestRevision
  <2>3. ASSUME NEW e \in PatchEvent, pLog' = Append(pLog, e),
               e.op = "create" => e.rev = Top
        PROVE  PatchForLatestRevision'
    <3>1. Len(pLog') = Len(pLog) + 1 /\ pLog'[Len(pLog) + 1] = e
          /\ \A i \in 1 .. Len(pLog) : pLog'[i] = pLog[i]
      BY <2>1, <2>3
    <3>2. \A i \in 1 .. Len(pLog) : pLog[i].rev < Top
      <4>1. \A i \in 1 .. Len(pLog) : pLog[i].rev + 1 < Len(hist)
        BY Zenon DEF IInv, PatchInv, Fits
      <4>2. \A i \in 1 .. Len(pLog) : pLog[i].rev \in Nat
        <5>1. \A i \in 1 .. Len(pLog) : pLog[i] \in PatchEvent
          BY <2>1
        <5> QED
          BY <5>1, Zenon DEF PatchEvent
      <4>3. Len(hist) \in Nat
        BY <2>1 DEF CInv, CTypeOK
      <4> QED
        BY <4>1, <4>2, <4>3 DEF Top
    <3> SUFFICES ASSUME NEW i \in 1 .. Len(pLog'), NEW j \in 1 .. Len(pLog'), i < j,
                        pLog'[i].op = "create", pLog'[j].op = "create"
                 PROVE  pLog'[i].rev < pLog'[j].rev
      BY Zenon DEF PatchForLatestRevision
    <3>3. i \in 1 .. Len(pLog)
      BY <2>1, <3>1
    <3>4. CASE j \in 1 .. Len(pLog)
      BY <3>1, <3>3, <3>4, Zenon DEF PatchForLatestRevision
    <3>5. CASE j \notin 1 .. Len(pLog)
      <4>1. j = Len(pLog) + 1
        BY <2>1, <3>1, <3>5
      <4>2. pLog'[i] = pLog[i] /\ pLog'[j] = e
        BY <3>1, <3>3, <4>1, Zenon
      <4>3. e.op = "create"
        BY <4>2, Zenon
      <4>4. e.rev = Top /\ pLog[i].rev < Top
        BY <2>3, <3>2, <3>3, <4>3, Zenon
      <4> QED
        BY <4>2, <4>4, Zenon
    <3> QED
      BY <3>4, <3>5, Zenon
  <2>4. CASE CreatePatch
    <3> DEFINE e == [op |-> "create", rev |-> w.prev.rev,
                     patch |-> ToGroupMembersPatch(w.prev.mem, w.curr)]
    <3>1. CASE pc = "createPatch" /\ ~HasRev(LivePatches(pLog, Len(pLog)), w.prev.rev)
               /\ pLog' = Append(pLog, e)
      <4>1. w.prev.rev = Top
        BY <2>1, <3>1, CreatesAtTop, Zenon
      <4>2. e \in PatchEvent /\ e.rev = w.prev.rev
        <5>1. w.prev.rev \in Nat /\ w.prev.mem \in Members /\ w.curr \in Members
          BY <2>1, Zenon DEF CInv, CTypeOK, Work
        <5> QED
          BY <5>1, DiffType, Zenon DEF PatchEvent
      <4> HIDE DEF e
      <4> QED
        BY <2>3, <3>1, <4>1, <4>2, Zenon
    <3> QED
      BY <2>2, <2>4, <3>1, Zenon DEF CreatePatch
  <2>5. CASE Cleanup
    <3>1. CASE \E r \in w.old : \E x \in LivePatches(pLog, Len(pLog)) :
                 /\ x.rev = r
                 /\ pLog' = Append(pLog, [op |-> "delete", rev |-> r, patch |-> x.patch])
      <4>1. PICK r \in w.old, x \in LivePatches(pLog, Len(pLog)) :
                 /\ x.rev = r
                 /\ pLog' = Append(pLog, [op |-> "delete", rev |-> r, patch |-> x.patch])
        BY <3>1, Zenon
      <4>2. x \in Entry
        BY <2>1, LiveType, Zenon
      <4> DEFINE e == [op |-> "delete", rev |-> r, patch |-> x.patch]
      <4>3. e.op = "delete" /\ pLog' = Append(pLog, e)
        BY <4>1, Zenon
      <4>4. r \in Nat /\ x.patch \in Patch
        BY <4>1, <4>2, Zenon DEF Entry
      <4>5. e \in PatchEvent
        BY <4>4 DEF PatchEvent
      <4> HIDE DEF e
      <4>6. e.op = "create" => e.rev = Top
        BY <4>3, Zenon
      <4> QED
        BY <2>3, <4>3, <4>5, <4>6, Zenon
    <3> QED
      BY <2>2, <2>5, <3>1, Zenon DEF Cleanup
  <2>6. CASE UNCHANGED ctl
    BY <2>2, <2>6, Zenon DEF ctl
  <2>7. CASE CNext /\ ~CreatePatch /\ ~Cleanup
    <3>1. CASE \E m \in Members : EndpointEvent(m)
      BY <2>2, <3>1, Zenon DEF EndpointEvent
    <3>2. CASE CacheMembers
      BY <2>2, <3>2, Zenon DEF CacheMembers
    <3>3. CASE CachePatches
      BY <2>2, <3>3, Zenon DEF CachePatches
    <3>4. CASE FetchPrev
      BY <2>2, <3>4, Zenon DEF FetchPrev
    <3>5. CASE ListPatches
      BY <2>2, <3>5, Zenon DEF ListPatches
    <3>6. CASE ApplyNext
      BY <2>2, <3>6, Zenon DEF ApplyNext
    <3>7. CASE Diff
      BY <2>2, <3>7, Zenon DEF Diff
    <3>8. CASE SyncMembers
      BY <2>2, <3>8, Zenon DEF SyncMembers
    <3>9. CASE UpdateMembers
      BY <2>2, <3>9, Zenon DEF UpdateMembers
    <3>10. CASE ListOld
      BY <2>2, <3>10, Zenon DEF ListOld
    <3>11. CASE CallFails
      BY <2>2, <3>11, Zenon DEF CallFails
    <3>12. CASE ControllerRestart
      BY <2>2, <3>12, Zenon DEF ControllerRestart
    <3> QED
      BY <2>7, <3>1, <3>2, <3>3, <3>4, <3>5, <3>6, <3>7, <3>8,
         <3>9, <3>10, <3>11, <3>12, Zenon DEF CNext, Reconcile
  <2> QED
    BY <2>4, <2>5, <2>6, <2>7, Zenon DEF Next, vars, cvars
<1> QED
  BY <1>1, <1>2, InitInvariant, StepInvariant, Invariant, PTL DEF BoundedSpec

------------------------------------------------------------------------------
(* What has been published once nothing is queued. *)

\* The behaviours in which, besides, the endpoints do not return to a membership
\* already given out.
SettlingSpec == Init /\ [][Next /\ LeadBounded' /\ NoReturn]_vars

\* Once the group is out of the queue and no reconcile runs, the GroupMembers
\* object holds what the selector matches, for any endpoints and addresses and
\* wherever calls fail or the controller restarts, if patches run at most Retained
\* ahead of the object and the endpoints do not return to a membership already
\* given out: a reconcile that starts from an old revision finds the next patch
\* taken and comes again, or has nothing to say only if its revision is the newest.
THEOREM PublishedWhenQuiet == SettlingSpec => []QuietInSync
<1>1. Init => Inv /\ QuietInv
  <2> SUFFICES ASSUME Init PROVE Inv /\ QuietInv
    OBVIOUS
  <2>1. pc = "idle" /\ queued /\ hist = <<NoMembers>> /\ Len(hist) = 1
    BY Zenon DEF Init, CInit
  <2>2. NewestOnly
    BY <2>1 DEF NewestOnly
  <2>3. QuietInv
    BY <2>1, <2>2 DEF QuietInv
  <2>4. DiffInv
    BY <2>1 DEF DiffInv
  <2> QED
    BY <2>3, <2>4, InitInvariant, Zenon DEF Inv
<1>2. Inv /\ QuietInv /\ [Next /\ LeadBounded' /\ NoReturn]_vars => Inv' /\ QuietInv'
  <2> SUFFICES ASSUME Inv, QuietInv, [Next /\ LeadBounded' /\ NoReturn]_vars
               PROVE  Inv' /\ QuietInv'
    OBVIOUS
  <2>1. Inv'
    BY StepInvariant, DiffKept, Zenon DEF Inv
  <2>2. CASE CNext /\ NoReturn
    BY <2>1, <2>2, QuietKept, Zenon DEF Inv, IInv, TypeOK, CInv
  <2>3. CASE UNCHANGED ctl
    <3>1. UNCHANGED <<matched, mLog, hist, pc, w, queued>>
      BY <2>3, Zenon DEF ctl
    <3> QED
      BY <2>1, <3>1, Frame, Zenon
  <2> QED
    BY <2>2, <2>3, Zenon DEF Next, vars, cvars
<1>3. Inv /\ QuietInv => QuietInSync
  <2> SUFFICES ASSUME Inv, QuietInv, pc = "idle", ~queued
               PROVE  Same(mLog[Len(mLog)].mem, matched)
    BY Zenon DEF QuietInSync
  <2>1. Same(hist[Len(hist)], matched) /\ mLog[Len(mLog)].rev = Top
    BY DEF QuietInv, Published
  <2>2. Len(mLog) \in 1 .. Len(mLog) /\ Len(hist) \in Nat
    BY DEF Inv, IInv, TypeOK, CTypeOK
  <2>3. IsVersion(hist, mLog[Len(mLog)])
    BY <2>2, Zenon DEF Inv, IInv, MembersInv
  <2>4. Top + 1 = Len(hist)
    BY <2>2 DEF Top
  <2>5. Same(mLog[Len(mLog)].mem, hist[Len(hist)])
    BY <2>1, <2>3, <2>4, Zenon DEF IsVersion
  <2> QED
    BY <2>1, <2>5, SameTransitive, Zenon
<1> QED
  BY <1>1, <1>2, <1>3, PTL DEF SettlingSpec
===============================================================================
