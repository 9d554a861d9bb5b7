--------------------------- MODULE GroupController ---------------------------
(***************************************************************************)
(* The group controller's handling of one EndpointGroup: the reconcile of  *)
(* an active group against the API server, read through informer caches.   *)
(*                                                                         *)
(* The API server's GroupMembers object and GroupMembersPatch objects are  *)
(* two logs of versions, as a watch delivers them; a reader's informer     *)
(* cache is a position in each log.  An Update succeeds only from the      *)
(* newest version (resourceVersion), a Create only if the name is free.    *)
(***************************************************************************)
EXTENDS Integers, Sequences, GroupPatch

CONSTANTS Retained,    \* NumOfRetainedGroupMembersPatches
          MaxChanges,  \* bound: changes of the selected endpoints
          MaxFaults    \* bound: failed calls, restarts, broken watches

ASSUME RetainedAssumption == Retained \in Nat
ASSUME MaxAssumption == MaxChanges \in Nat /\ MaxFaults \in Nat

VARIABLES
    matched,  \* what the selector matches in the Endpoint informer cache
    mLog,     \* versions of the GroupMembers object, newest last
    pLog,     \* creations and deletions of GroupMembersPatch objects
    cm, cp,   \* positions of the controller's caches in mLog and pLog
    queued,   \* the group's key is in the work queue
    pc, w,    \* step and local variables of the reconcile in progress
    hist,     \* history: hist[r + 1] is the membership of revision r
    changes, faults

ctl == <<matched, mLog, pLog, cm, cp, queued, pc, w, hist, changes>>
cvars == <<ctl, faults>>

------------------------------------------------------------------------------
(* The API server. *)

\* The zero GroupMembers value: what a Get that finds nothing leaves behind.
Absent == [live |-> FALSE, rev |-> 0, mem |-> NoMembers]

\* A GroupMembers object as syncGroupMembers creates it.
Fresh == [live |-> TRUE, rev |-> 0, mem |-> NoMembers]

Version == [live : BOOLEAN, rev : Nat, mem : Members]

\* A patch object is named after the revision it applies to.
Entry == [rev : Nat, patch : Patch]

PatchEvent == [op : {"create", "delete"}, rev : Nat, patch : Patch]

\* The patches that exist after the first n events: a name is reused only
\* after its deletion, so an entry lives until the next event on its name.
Lives(log, n, i) ==
    /\ log[i].op = "create"
    /\ \A k \in (i + 1) .. n : log[k].rev # log[i].rev

LivePatches(log, n) ==
    {[rev |-> log[i].rev, patch |-> log[i].patch] :
        i \in {j \in 1 .. n : Lives(log, n, j)}}

HasRev(entries, rev) == \E e \in entries : e.rev = rev

\* The newest revision the controller has given out.
Top == Len(hist) - 1

Revision(r) == hist[r + 1]

------------------------------------------------------------------------------
(* The reconcile. *)

Idle == [prev |-> [rev |-> 0, mem |-> NoMembers], patches |-> {},
         curr |-> NoMembers, rev |-> 0, old |-> {}]

Work == [prev : [rev : Nat, mem : Members], patches : SUBSET Entry,
         curr : Members, rev : Nat, old : SUBSET Nat]

Steps == {"idle", "listPatches", "applyPatches", "createPatch", "syncMembers",
          "updateMembers", "listOld", "cleanup"}

CInit ==
    /\ matched \in Members
    /\ mLog = <<Absent>>
    /\ pLog = <<>>
    /\ cm = 1 /\ cp = 0
    /\ queued = TRUE
    /\ pc = "idle" /\ w = Idle
    /\ hist = <<NoMembers>>
    /\ changes = 0 /\ faults = 0

\* (Mutant: the error is dropped.)
ReturnDropsError(failed) ==
    /\ pc' = "idle"
    /\ w' = Idle
    /\ UNCHANGED queued

\* A reconcile that returns: with an error the queue takes the key again.
Return(failed) ==
    /\ pc' = "idle"
    /\ w' = Idle
    /\ queued' = (queued \/ failed)

\* Endpoint and Namespace events.  The handlers enqueue the group unless the
\* event leaves labels, IPs and agents alone: a change of ports is dropped.
EndpointEvent(m) ==
    /\ changes < MaxChanges
    /\ m # matched
    /\ matched' = m
    /\ changes' = changes + 1
    /\ queued' = (queued \/ ~Same(m, matched))
    /\ UNCHANGED <<mLog, pLog, cm, cp, pc, w, hist, faults>>

\* The informer caches follow the API server, each at its own pace.
CacheMembers ==
    /\ cm < Len(mLog)
    /\ cm' = cm + 1
    /\ UNCHANGED <<matched, mLog, pLog, cp, queued, pc, w, hist, changes, faults>>

CachePatches ==
    /\ cp < Len(pLog)
    /\ cp' = cp + 1
    /\ UNCHANGED <<matched, mLog, pLog, cm, queued, pc, w, hist, changes, faults>>

\* fetchPrevGroupMembers: the cached GroupMembers, ...
FetchPrev ==
    /\ pc = "idle" /\ queued
    /\ queued' = FALSE
    /\ pc' = "listPatches"
    /\ w' = [w EXCEPT !.prev = [rev |-> mLog[cm].rev, mem |-> mLog[cm].mem]]
    /\ UNCHANGED <<matched, mLog, pLog, cm, cp, hist, changes, faults>>

\* ... the cached patches, ...
ListPatches ==
    /\ pc = "listPatches"
    /\ pc' = "applyPatches"
    /\ w' = [w EXCEPT !.patches = LivePatches(pLog, cp)]
    /\ UNCHANGED <<matched, mLog, pLog, cm, cp, queued, hist, changes, faults>>

\* ... and one turn of the loop of ApplyGroupMembersPatches.
ApplyNext ==
    /\ pc = "applyPatches"
    /\ \E e \in w.patches :
          /\ e.rev = w.prev.rev
          /\ w' = [w EXCEPT !.prev =
                     [rev |-> e.rev + 1,
                      mem |-> applyGroupMembersPatch(w.prev.mem, e.patch)]]
    /\ UNCHANGED <<matched, mLog, pLog, cm, cp, queued, pc, hist, changes, faults>>

\* (Mutant: an empty difference gets a revision and a patch too.)
DiffAlways ==
    /\ pc = "applyPatches"
    /\ ~HasRev(w.patches, w.prev.rev)
    /\ pc' = "createPatch"
    /\ w' = [w EXCEPT !.patches = {}, !.curr = matched, !.rev = w.prev.rev + 1]
    /\ UNCHANGED <<matched, mLog, pLog, cm, cp, queued, hist, changes, faults>>

\* No patch is left to apply: fetchCurrGroupMembers and the difference.
Diff ==
    /\ pc = "applyPatches"
    /\ ~HasRev(w.patches, w.prev.rev)
    /\ LET empty == IsEmptyPatch(ToGroupMembersPatch(w.prev.mem, matched)) IN
          /\ pc' = IF empty THEN "syncMembers" ELSE "createPatch"
          /\ w' = [w EXCEPT !.patches = {},
                            !.curr = matched,
                            !.rev = IF empty THEN w.prev.rev
                                             ELSE w.prev.rev + 1]
    /\ UNCHANGED <<matched, mLog, pLog, cm, cp, queued, hist, changes, faults>>

\* (Mutant: a create that failed is taken for done.)
CreatePatchUnchecked ==
    /\ pc = "createPatch"
    /\ hist' = IF w.rev > Top THEN Append(hist, w.curr) ELSE hist
    /\ pc' = "syncMembers"
    /\ UNCHANGED <<matched, mLog, pLog, cm, cp, queued, w, changes, faults>>

\* syncGroupMembersPatch.  Creating a patch is what makes a revision exist:
\* everyone who holds the one before can now compute it.
CreatePatch ==
    /\ pc = "createPatch"
    /\ LET patch == ToGroupMembersPatch(w.prev.mem, w.curr)
           taken == HasRev(LivePatches(pLog, Len(pLog)), w.prev.rev)
       IN \/ /\ taken
             /\ Return(TRUE)
             /\ UNCHANGED <<pLog, hist>>
          \/ /\ ~taken
             /\ pLog' = Append(pLog, [op |-> "create", rev |-> w.prev.rev,
                                      patch |-> patch])
             /\ hist' = IF w.rev > Top
                        THEN Append(hist, applyGroupMembersPatch(w.prev.mem, patch))
                        ELSE hist
             /\ pc' = "syncMembers"
             /\ UNCHANGED <<w, queued>>
    /\ UNCHANGED <<matched, mLog, cm, cp, changes, faults>>

\* The end of syncGroupMembers, from the version "base" that was read at
\* position "pos": skip, conflict, or write the new revision.
WriteMembers(base, pos) ==
    \/ /\ base.rev >= w.rev
       /\ pc' = "listOld"
       /\ UNCHANGED <<mLog, w, queued>>
    \/ /\ base.rev < w.rev
       /\ pos # Len(mLog)
       /\ Return(TRUE)
       /\ UNCHANGED mLog
    \/ /\ base.rev < w.rev
       /\ pos = Len(mLog)
       /\ mLog' = Append(mLog, [live |-> TRUE, rev |-> w.rev, mem |-> w.curr])
       /\ pc' = "listOld"
       /\ UNCHANGED <<w, queued>>

\* syncGroupMembers: create the object if the cache has none, or update it.
SyncMembers ==
    /\ pc = "syncMembers"
    /\ \/ /\ ~mLog[cm].live
          /\ ~mLog[Len(mLog)].live
          /\ mLog' = Append(mLog, Fresh)
          /\ pc' = "updateMembers"
          /\ UNCHANGED <<w, queued>>
       \/ /\ ~mLog[cm].live
          /\ mLog[Len(mLog)].live
          /\ Return(TRUE)
          /\ UNCHANGED mLog
       \/ /\ mLog[cm].live
          /\ WriteMembers(mLog[cm], cm)
    /\ UNCHANGED <<matched, pLog, cm, cp, hist, changes, faults>>

\* The update of the object just created.
UpdateMembers ==
    /\ pc = "updateMembers"
    /\ WriteMembers(mLog[Len(mLog)], Len(mLog))
    /\ UNCHANGED <<matched, pLog, cm, cp, hist, changes, faults>>

\* cleanupOldPatches: list the cached patches, then delete one at a time.
ListOld ==
    /\ pc = "listOld"
    /\ pc' = "cleanup"
    /\ w' = [Idle EXCEPT !.old = {e.rev : e \in {x \in LivePatches(pLog, cp) :
                                 x.rev < w.rev /\ w.rev - x.rev > Retained}}]
    /\ UNCHANGED <<matched, mLog, pLog, cm, cp, queued, hist, changes, faults>>

Cleanup ==
    /\ pc = "cleanup"
    /\ \/ /\ w.old = {}
          /\ Return(FALSE)
          /\ UNCHANGED pLog
       \/ \E r \in w.old :
             \/ /\ ~HasRev(LivePatches(pLog, Len(pLog)), r)
                /\ Return(TRUE)
                /\ UNCHANGED pLog
             \/ \E e \in LivePatches(pLog, Len(pLog)) :
                  /\ e.rev = r
                  /\ pLog' = Append(pLog, [op |-> "delete", rev |-> r,
                                           patch |-> e.patch])
                  /\ w' = [w EXCEPT !.old = @ \ {r}]
                  /\ UNCHANGED <<pc, queued>>
    /\ UNCHANGED <<matched, mLog, cm, cp, hist, changes, faults>>

Fault ==
    /\ faults < MaxFaults
    /\ faults' = faults + 1

\* A call to the API server fails, before or after it took effect.
CallFails ==
    /\ Fault
    /\ pc \in {"createPatch", "syncMembers", "updateMembers", "listOld", "cleanup"}
    /\ Return(TRUE)
    /\ UNCHANGED <<matched, mLog, pLog, cm, cp, hist, changes>>

\* The controller restarts anywhere: its caches are listed anew, and the
\* group's create event puts the key in the queue.
ControllerRestart ==
    /\ Fault
    /\ Return(TRUE)
    /\ cm' = Len(mLog)
    /\ cp' = Len(pLog)
    /\ UNCHANGED <<matched, mLog, pLog, hist, changes>>

Reconcile ==
    \/ FetchPrev \/ ListPatches \/ ApplyNext \/ Diff \/ CreatePatch
    \/ SyncMembers \/ UpdateMembers \/ ListOld \/ Cleanup

CNext ==
    \/ \E m \in Members : EndpointEvent(m)
    \/ CacheMembers
    \/ CachePatches
    \/ Reconcile
    \/ CallFails
    \/ ControllerRestart

CSpec == CInit /\ [][CNext]_cvars

\* The selected endpoints do not return to a membership already given out.
NoReturn == matched' # matched => \A i \in 1 .. Len(hist) : ~Same(matched', hist[i])

CNoReturnSpec == CInit /\ [][CNext /\ NoReturn]_cvars

------------------------------------------------------------------------------
\* The API objects, caches and local variables of the controller have their types.
CTypeOK ==
    /\ matched \in Members
    /\ mLog \in Seq(Version) /\ mLog # <<>>
    /\ pLog \in Seq(PatchEvent)
    /\ cm \in 1 .. Len(mLog)
    /\ cp \in 0 .. Len(pLog)
    /\ queued \in BOOLEAN
    /\ pc \in Steps
    /\ w \in Work
    /\ hist \in Seq(Members) /\ hist # <<>>
    /\ changes \in 0 .. MaxChanges
    /\ faults \in 0 .. MaxFaults

\* fetchPrevGroupMembers calculates the latest revision, so a patch is only
\* ever created for the latest revision and no revision gets a second one.
PatchForLatestRevision ==
    \A i, j \in 1 .. Len(pLog) :
        i < j /\ pLog[i].op = "create" /\ pLog[j].op = "create"
            => pLog[i].rev < pLog[j].rev

\* The GroupMembers object holds what the selector matches once the group is
\* out of the queue, no reconcile is running and the caches are current.
QuietInSync ==
    pc = "idle" /\ ~queued /\ cm = Len(mLog) /\ cp = Len(pLog)
        => Same(mLog[Len(mLog)].mem, matched)
===============================================================================
