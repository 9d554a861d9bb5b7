------------------------------ MODULE GroupSync ------------------------------
(***************************************************************************)
(* One group from end to end: the group controller, the API server and the *)
(* agents that rebuild the membership from GroupMembers and                *)
(* GroupMembersPatch events.  The group stays active throughout.           *)
(***************************************************************************)
EXTENDS GroupController, TLC

CONSTANTS Agents

VARIABLES
    am, ap,   \* positions of each agent's informers, 0: not listed yet
    gc,       \* each agent's GroupCache
    pq,       \* the group's key is in the patch controller's queue
    held,     \* revision of the patch ReconcilePatch has read, or None
    dead      \* ApplyPatch met a revision it did not expect

avars == <<am, ap, gc, pq, held, dead>>
vars == <<cvars, avars>>

None == -1

AInit ==
    /\ am = [a \in Agents |-> 0]
    /\ ap = [a \in Agents |-> -1]
    /\ gc = [a \in Agents |-> EmptyCache]
    /\ pq = [a \in Agents |-> FALSE]
    /\ held = [a \in Agents |-> None]
    /\ dead = [a \in Agents |-> FALSE]

Init == CInit /\ AInit

\* (Mutant: the group is not queued for the patches that came first.)
MembersHandlerNoQueue(a, u, v) ==
    CASE ~u.live /\ v.live ->
            /\ gc' = [gc EXCEPT ![a] = AddGroupMembership(@, v)]
            /\ UNCHANGED pq
      [] OTHER -> UNCHANGED <<gc, pq>>

\* The GroupMembers handlers, for the change from version u to version v:
\* only creations and deletions are handled, updates are ignored.
MembersHandler(a, u, v) ==
    CASE ~u.live /\ v.live ->
            /\ gc' = [gc EXCEPT ![a] = AddGroupMembership(@, v)]
            /\ pq' = [pq EXCEPT ![a] = TRUE]
      [] u.live /\ ~v.live ->
            /\ gc' = [gc EXCEPT ![a] = DelGroupMembership(@)]
            /\ UNCHANGED pq
      [] OTHER -> UNCHANGED <<gc, pq>>

MembersEvent(a) ==
    /\ am[a] > 0 /\ am[a] < Len(mLog)
    /\ am' = [am EXCEPT ![a] = @ + 1]
    /\ MembersHandler(a, mLog[am[a]], mLog[am[a] + 1])
    /\ UNCHANGED <<ap, held, dead>>

\* The first list of an informer, and the list after a watch broke.
Lists(first) == (first /\ UNCHANGED faults) \/ (~first /\ Fault)

\* A (re)list compares the informer's store with the current object.
ListMembers(a) ==
    /\ am[a] < Len(mLog)
    /\ Lists(am[a] = 0)
    /\ am' = [am EXCEPT ![a] = Len(mLog)]
    /\ MembersHandler(a, IF am[a] = 0 THEN Absent ELSE mLog[am[a]],
                      mLog[Len(mLog)])
    /\ UNCHANGED <<ap, held, dead>>

\* Patches are handled when they are created; their deletion is ignored.
PatchEventSeen(a) ==
    /\ ap[a] >= 0 /\ ap[a] < Len(pLog)
    /\ ap' = [ap EXCEPT ![a] = @ + 1]
    /\ LET e == pLog[ap[a] + 1] IN
         IF e.op = "create"
         THEN /\ gc' = [gc EXCEPT ![a] =
                          AddPatch(@, [rev |-> e.rev, patch |-> e.patch])]
              /\ pq' = [pq EXCEPT ![a] = TRUE]
         ELSE UNCHANGED <<gc, pq>>
    /\ UNCHANGED <<am, held, dead>>

\* A (re)list of the patches: the ones the store does not hold are created.
\* They have distinct names, so the order of their events does not matter.
ListPatchObjects(a) ==
    /\ ap[a] < Len(pLog)
    /\ Lists(ap[a] < 0)
    /\ ap' = [ap EXCEPT ![a] = Len(pLog)]
    /\ LET new == {e \in LivePatches(pLog, Len(pLog)) :
                      ~HasRev(LivePatches(pLog, ap[a]), e.rev)}
           kept == {e \in new : ~(gc[a].live /\ e.rev < gc[a].rev)}
       IN /\ gc' = [gc EXCEPT ![a].patches =
                      {x \in @ : ~HasRev(kept, x.rev)} \cup kept]
          /\ pq' = [pq EXCEPT ![a] = @ \/ new # {}]
    /\ UNCHANGED <<am, held, dead>>

\* ReconcilePatch reads the next patch before it takes the reconciler lock, ...
NextPatch(a) ==
    /\ pq[a] /\ held[a] = None
    /\ pq' = [pq EXCEPT ![a] = FALSE]
    /\ held' = [held EXCEPT ![a] =
                  IF NextPatches(gc[a]) = {} THEN None ELSE gc[a].rev]
    /\ UNCHANGED <<am, ap, gc, dead>>

\* ... and applies it, with the lock, after it synchronised the rules.
ReconcilePatch(a) ==
    /\ held[a] # None
    /\ held' = [held EXCEPT ![a] = None]
    /\ IF ApplyPatchFatal(gc[a], held[a])
       THEN /\ dead' = [dead EXCEPT ![a] = TRUE]
            /\ UNCHANGED <<gc, pq>>
       ELSE /\ gc' = [gc EXCEPT ![a] = ApplyPatch(@, held[a])]
            /\ pq' = [pq EXCEPT ![a] = @ \/ PatchLen(ApplyPatch(gc[a], held[a]))]
            /\ UNCHANGED dead
    /\ UNCHANGED <<am, ap>>

\* The agent process restarts and lists everything again.
AgentRestart(a) ==
    /\ Fault
    /\ am' = [am EXCEPT ![a] = 0]
    /\ ap' = [ap EXCEPT ![a] = -1]
    /\ gc' = [gc EXCEPT ![a] = EmptyCache]
    /\ pq' = [pq EXCEPT ![a] = FALSE]
    /\ held' = [held EXCEPT ![a] = None]
    /\ dead' = [dead EXCEPT ![a] = FALSE]

AgentStep(a) ==
    /\ MembersEvent(a) \/ PatchEventSeen(a) \/ NextPatch(a) \/ ReconcilePatch(a)
    /\ UNCHANGED faults

Agent(a) ==
    \/ AgentStep(a)
    \/ ListMembers(a)
    \/ ListPatchObjects(a)
    \/ AgentRestart(a)

Next ==
    \/ CNext /\ UNCHANGED avars
    \/ (\E a \in Agents : Agent(a)) /\ UNCHANGED ctl

Spec == Init /\ [][Next]_vars

------------------------------------------------------------------------------
\* The caches and queues of the agents have their types.
TypeOK ==
    /\ CTypeOK
    /\ am \in [Agents -> 0 .. Len(mLog)]
    /\ ap \in [Agents -> -1 .. Len(pLog)]
    /\ gc \in [Agents -> Cache]
    /\ pq \in [Agents -> BOOLEAN]
    /\ held \in [Agents -> Nat \cup {None}]
    /\ dead \in [Agents -> BOOLEAN]

\* How far the newest patch is ahead of the GroupMembers object.
LeadBounded == Top - mLog[Len(mLog)].rev <= Retained

\* The behaviours in which the object never falls further behind.
BoundedSpec == Init /\ [][Next /\ LeadBounded']_vars

\* An agent that shows a group at revision r shows the membership that the
\* controller gave out as revision r, however its GroupMembers and patch
\* events were delayed, relisted or overtaken by deletions of old patches.
AgentsHoldHistory ==
    \A a \in Agents : gc[a].live =>
        /\ gc[a].rev <= Top
        /\ Same(gc[a].mem, Revision(gc[a].rev))

\* cleanupOldPatches leaves every patch between the GroupMembers object and
\* the newest revision, so that whoever lists both can reach the newest one.
PatchesReachTop ==
    \A r \in mLog[Len(mLog)].rev .. Top - 1 :
        HasRev(LivePatches(pLog, Len(pLog)), r)

------------------------------------------------------------------------------
(* Convergence. *)

WatchMembers(a) == MembersEvent(a) \/ (am[a] = 0 /\ ListMembers(a))
WatchPatches(a) == PatchEventSeen(a) \/ (ap[a] < 0 /\ ListPatchObjects(a))
PatchWorker(a) == NextPatch(a) \/ ReconcilePatch(a)

\* Watches deliver, workers take what is queued and an agent lists at startup.
Fairness ==
    /\ WF_vars(CacheMembers /\ UNCHANGED avars)
    /\ WF_vars(CachePatches /\ UNCHANGED avars)
    /\ WF_vars(Reconcile /\ UNCHANGED avars)
    /\ \A a \in Agents :
          /\ WF_vars(WatchMembers(a) /\ UNCHANGED cvars)
          /\ WF_vars(WatchPatches(a) /\ UNCHANGED cvars)
          /\ WF_vars(PatchWorker(a) /\ UNCHANGED cvars)

FairSpec == Init /\ [][Next /\ NoReturn]_vars /\ Fairness

\* Every patch an agent still needs is in its cache, or will be.
InReach(a) ==
    gc[a].live =>
        \A r \in gc[a].rev .. Top - 1 :
            \/ HasRev(gc[a].patches, r)
            \/ ap[a] < 0 /\ HasRev(LivePatches(pLog, Len(pLog)), r)
            \/ ap[a] >= 0 /\ \E i \in ap[a] + 1 .. Len(pLog) :
                                pLog[i].op = "create" /\ pLog[i].rev = r

Converged(a) == gc[a].live /\ Same(gc[a].mem, matched)

\* Once the endpoints stay as they are, every agent comes to enforce the
\* addresses the selector matches and stays there: through conflicts and
\* retries, failed calls, restarts and relists, as long as none of the
\* patches an agent still needs is cleaned up before it saw it.
AgentsConverge ==
    <>[](\A a \in Agents : InReach(a) => Converged(a))

------------------------------------------------------------------------------
(* The abstract specification under the refinement mapping. *)

AddrOf(m) == [r \in DOMAIN m |-> m[r].addr]

AddrMaps == UNION {[S -> Addrs] : S \in SUBSET Refs}

History == INSTANCE MembershipHistory WITH
    versions <- [i \in 1 .. Len(hist) |-> AddrOf(hist[i])],
    view <- [a \in Agents |-> [known |-> gc[a].live, rev |-> gc[a].rev,
                               addrs |-> AddrOf(gc[a].mem)]],
    NoAddrs <- AddrOf(NoMembers)

\* The controller, the API server's objects and the agents' caches implement
\* one history of memberships through which every agent moves in order.
ImplementsHistory == History!Spec

------------------------------------------------------------------------------
(* For TLC: two changes of the endpoints, the second to a group that is not  *)
(* empty, and no fault; or one change and up to two faults.                  *)

Small == changes <= 1 \/ (faults = 0 /\ (changes = MaxChanges => DOMAIN matched # {}))

SmallSpec == Init /\ [][Next /\ LeadBounded' /\ Small']_vars

Symmetry == Permutations(Addrs)
===============================================================================
