-------------------------- MODULE RelocationSteps --------------------------
(***************************************************************************)
(* Proofs about Relocation, for any set of volumes: the types, and what    *)
(* the steps of the passes are to the claims.                              *)
(*                                                                         *)
(* Type correctness, and the property that needs no assumption about what  *)
(* the user and Ramen do: a PV is orphaned in three ways only.  Whatever a *)
(* pass does to the claims it does by a step of PVCHandover, so that what  *)
(* is proved of the handover is true within a relocation.                  *)
(***************************************************************************)
EXTENDS Relocation, TLAPS

HP == INSTANCE PVCHandoverProofs

-----------------------------------------------------------------------------
(* The steps of the passes are steps of the handover *)

\* PVCHandover is instantiated twice, in Relocation and in the module of its
\* proofs: both speak of the same state,
LEMMA SameHandover ==
    /\ H!TypeOK <=> HP!TypeOK
    /\ H!TypeOK' <=> HP!TypeOK'
    /\ H!Init <=> HP!Init
    /\ H!vars = HP!vars
  BY DEF H!TypeOK, HP!TypeOK, H!Init, HP!Init, H!vars, HP!vars,
         H!Claims, HP!Claims, H!ClaimRefs, HP!ClaimRefs, H!Ops, HP!Ops, H!Phases,
         HP!Phases, H!Kinds, HP!Kinds, H!Finalizers, HP!Finalizers, H!Steps, HP!Steps,
         H!Absent, HP!Absent, H!Idle, HP!Idle, H!Reserved, HP!Reserved

\* ... and of the same steps.
LEMMA SameSteps == H!Next <=> HP!Next
<1>1. H!Create <=> HP!Create
  BY DEF H!Create, HP!Create, H!EnsureTmp, HP!EnsureTmp, H!RepointTmp, HP!RepointTmp,
         H!Unguard, HP!Unguard,
         H!Fresh, HP!Fresh, H!Idle, HP!Idle, H!Exists, HP!Exists, H!Reserved, HP!Reserved,
         H!Absent, HP!Absent, H!Release, HP!Release, H!Settle, HP!Settle, H!Follow,
         HP!Follow
<1>2. H!Restore <=> HP!Restore
  BY DEF H!Restore, HP!Restore, H!RestoreWaits, HP!RestoreWaits, H!ClearMain,
         HP!ClearMain, H!RestoreMain, HP!RestoreMain,
         H!RepointMain, HP!RepointMain, H!DeleteTmp, HP!DeleteTmp,
         H!Fresh, HP!Fresh, H!Idle, HP!Idle, H!Exists, HP!Exists, H!Reserved, HP!Reserved,
         H!Absent, HP!Absent, H!Release, HP!Release, H!Settle, HP!Settle, H!Follow,
         HP!Follow, H!Finalizers, HP!Finalizers
<1>3. H!Operator <=> HP!Operator
  BY <1>1, <1>2 DEF H!Operator, HP!Operator, H!AddGuard, HP!AddGuard, H!ForgetBinding,
                    HP!ForgetBinding, H!Abort, HP!Abort, H!Idle, HP!Idle, H!Exists,
                    HP!Exists, H!Reserved, HP!Reserved, H!Absent, HP!Absent
<1>4. H!Cluster <=> HP!Cluster
  BY DEF H!Cluster, HP!Cluster, H!Bind, HP!Bind, H!Lose, HP!Lose, H!Unprotect,
         HP!Unprotect, H!Reclaim, HP!Reclaim, H!DeleteMain, HP!DeleteMain, H!InService,
         HP!InService, H!Exists, HP!Exists, H!Reserved, HP!Reserved, H!Absent, HP!Absent,
         H!Release, HP!Release, H!Settle, HP!Settle, H!Follow, HP!Follow
<1>5. QED
  BY <1>3, <1>4 DEF H!Next, HP!Next
-----------------------------------------------------------------------------
(* Types *)

\* What a reconciler keeps while it runs, the Sources and the movers of VolSync.
Passes == [at: Stages, list: SUBSET Items, lost: SUBSET Items, todo: SUBSET Items,
           cur: SUBSET Items, did: {"nothing", "cleared", "written"}, ok: BOOLEAN, gate: BOOLEAN, stale: BOOLEAN]
Sources == [exists: BOOLEAN, paused: BOOLEAN, source: H!Kinds,
            trigger: {"schedule", "final"}, last: {"none", "final"}]
Movers == [on: H!Kinds \cup {"none"}, torn: BOOLEAN]

\* The types of all that is not the claims' and the PVs'.
LocalOK ==
    /\ rs \in [Volumes -> Sources]
    /\ rd \in [Volumes -> {"none", "created", "ready"}]
    /\ mover \in [Volumes -> Movers]
    /\ app \in [Volumes -> BOOLEAN] /\ dirty \in [Volumes -> BOOLEAN]
    /\ match \in [Volumes -> [H!Kinds -> BOOLEAN]]
    /\ vrg \in {"primary", "relocate"} /\ near \in VRGPlaces
    /\ other \in {"none", "replicating", "relocating", "synced", "away", "back"}
    /\ vgr \in [spec: {"primary", "secondary"}, status: {"primary", "secondary"}]
    /\ pass \in Passes
    /\ wake \in BOOLEAN /\ behind \subseteq Unseen

\* The pass keeps these fields.
Same == /\ pass'.list = pass.list /\ pass'.lost = pass.lost
        /\ pass'.gate = pass.gate /\ pass'.stale = pass.stale

\* What becomes of the pass when an item is finished or taken up.
LEMMA PassItem ==
    ASSUME pass \in Passes, NEW i \in Items
    PROVE  /\ Done(i) => /\ pass' \in Passes /\ Same
                         /\ pass'.at = pass.at /\ pass'.todo = pass.todo \ {i}
                         /\ pass'.cur = {} /\ pass'.ok = pass.ok
           /\ DoneNot(i) => /\ pass' \in Passes /\ Same
                            /\ pass'.at = pass.at /\ pass'.todo = pass.todo \ {i}
                            /\ pass'.cur = {} /\ pass'.ok = FALSE
           /\ TakeUp(i) => /\ pass' \in Passes /\ Same
                           /\ pass'.at = pass.at /\ pass'.todo = pass.todo
                           /\ pass'.cur = {i} /\ pass'.ok = pass.ok
                           /\ pass'.did = pass.did
<1>1. pass.todo \ {i} \in SUBSET Items /\ {i} \in SUBSET Items /\ {} \in SUBSET Items
  BY DEF Passes
<1>2. CASE Done(i)
  BY <1>1, <1>2 DEF Done, DoneNot, TakeUp, Passes, Same
<1>3. CASE DoneNot(i)
  BY <1>1, <1>3 DEF Done, DoneNot, TakeUp, Passes, Same
<1>4. CASE TakeUp(i)
  BY <1>1, <1>4 DEF Done, DoneNot, TakeUp, Passes, Same
<1>5. QED
  BY <1>2, <1>3, <1>4

\* One call for the item in hand is made.
LEMMA PassGoes ==
    ASSUME pass \in Passes, NEW did \in {"nothing", "cleared", "written"}, Go(did)
    PROVE  /\ pass' \in Passes /\ Same
           /\ pass'.at = pass.at /\ pass'.todo = pass.todo /\ pass'.cur = pass.cur
           /\ pass'.ok = pass.ok /\ pass'.did = did
  BY DEF Go, Passes, Same

\* The pass ends, turns to its next stage, or begins.
LEMMA PassTurn ==
    ASSUME pass \in Passes, wake \in BOOLEAN
    PROVE  /\ \A again \in BOOLEAN : EndPass(again) =>
                 /\ pass' \in Passes /\ wake' \in BOOLEAN /\ pass'.at = "none"
                 /\ pass'.todo = {} /\ pass'.cur = {}
           /\ \A to \in Stages, work \in SUBSET Items : GoTo(to, work) =>
                 /\ pass' \in Passes /\ Same
                 /\ pass'.at = to /\ pass'.todo = work /\ pass'.ok = TRUE
                 /\ pass'.cur = pass.cur
           /\ \A to \in Stages, gate \in BOOLEAN, work \in SUBSET Items : Begin(to, gate, work) =>
                 /\ pass' \in Passes /\ pass'.at = to /\ pass'.list = Listed
                 /\ pass'.todo = work /\ pass'.cur = {} /\ pass'.ok = TRUE
                 /\ pass'.gate = gate /\ pass'.stale = FALSE
<1>1. ASSUME NEW again \in BOOLEAN, EndPass(again)
      PROVE  pass' \in Passes /\ wake' \in BOOLEAN /\ pass'.at = "none"
             /\ pass'.todo = {} /\ pass'.cur = {}
  BY <1>1 DEF EndPass, NoPass, Passes, Stages
<1>2. ASSUME NEW to \in Stages, NEW work \in SUBSET Items, GoTo(to, work)
      PROVE  /\ pass' \in Passes /\ Same
             /\ pass'.at = to /\ pass'.todo = work /\ pass'.ok = TRUE
             /\ pass'.cur = pass.cur
  BY <1>2 DEF GoTo, Passes, Same
<1>3. ASSUME NEW to \in Stages, NEW gate \in BOOLEAN, NEW work \in SUBSET Items,
             Begin(to, gate, work)
      PROVE  /\ pass' \in Passes /\ pass'.at = to /\ pass'.list = Listed
             /\ pass'.todo = work /\ pass'.cur = {} /\ pass'.ok = TRUE
             /\ pass'.gate = gate /\ pass'.stale = FALSE
  <2>1. Listed \in SUBSET Items /\ {i \in Listed : Claim(i).phase = "lost"} \in SUBSET Items
    BY DEF Listed
  <2>2. QED
    BY <1>3, <2>1 DEF Begin, Passes
<1>4. QED
  BY <1>1, <1>2, <1>3

\* A change of the VGR only makes the pass stale.
LEMMA PassNotified ==
    ASSUME pass \in Passes, NotifyVGR
    PROVE  /\ pass' \in Passes /\ wake' \in BOOLEAN
           /\ pass'.at = pass.at /\ pass'.todo = pass.todo /\ pass'.list = pass.list
           /\ pass'.lost = pass.lost /\ pass'.cur = pass.cur /\ pass'.did = pass.did
           /\ pass'.ok = pass.ok /\ pass'.gate = pass.gate
           /\ pass'.stale = (pass.stale \/ pass.at # "none")
  BY DEF NotifyVGR, Passes

\* The writes to the sources, the destinations and the movers.
LEMMA SourceTypes ==
    /\ NoSource \in Sources /\ Scheduled \in Sources /\ Stopped \in Movers
    /\ Scheduled.exists /\ ~Scheduled.paused /\ Scheduled.source = "main"
    /\ Scheduled.trigger = "schedule" /\ Scheduled.last = "none"
    /\ ~NoSource.exists /\ ~NoSource.paused /\ NoSource.source = "main"
    /\ NoSource.trigger = "schedule" /\ NoSource.last = "none"
    /\ Stopped.on = "none" /\ ~Stopped.torn
  BY DEF NoSource, Scheduled, Stopped, Sources, Movers, H!Kinds

\* Only the source of v is written, and it becomes this.
SourceBecomes(v, exists, paused, source, trigger, last) ==
    /\ rs' \in [Volumes -> Sources]
    /\ \A w \in Volumes : w # v => rs'[w] = rs[w]
    /\ rs'[v].exists = exists /\ rs'[v].paused = paused /\ rs'[v].source = source
    /\ rs'[v].trigger = trigger /\ rs'[v].last = last

\* Every write to the source of v, as a change of that source alone: a pause, ...
LEMMA SourcePaused ==
    ASSUME rs \in [Volumes -> Sources], NEW v \in Volumes, rs' = [rs EXCEPT ![v].paused = TRUE]
    PROVE  SourceBecomes(v, rs[v].exists, TRUE, rs[v].source, rs[v].trigger, rs[v].last)
  BY SourceTypes DEF SourceBecomes, Sources

\* ... a repair, ...
LEMMA SourceRepaired ==
    ASSUME rs \in [Volumes -> Sources], NEW v \in Volumes, rs[v].exists,
           rs' = [rs EXCEPT ![v].source = "main", ![v].trigger = "schedule"]
    PROVE  SourceBecomes(v, TRUE, rs[v].paused, "main", "schedule", rs[v].last)
<1> DEFINE s == [rs[v] EXCEPT !.source = "main", !.trigger = "schedule"]
<1>1. /\ s \in Sources /\ s.exists = rs[v].exists /\ s.paused = rs[v].paused
      /\ s.source = "main" /\ s.trigger = "schedule" /\ s.last = rs[v].last
  BY DEF Sources, H!Kinds
<1>2. rs' = [rs EXCEPT ![v] = s]
  OBVIOUS
<1>3. rs[v].exists = TRUE
  BY DEF Sources
<1> HIDE DEF s
<1>4. QED
  BY <1>1, <1>2, <1>3 DEF SourceBecomes

\* ... the creation, ...
LEMMA SourceCreated ==
    ASSUME rs \in [Volumes -> Sources], NEW v \in Volumes, rs' = [rs EXCEPT ![v] = Scheduled]
    PROVE  SourceBecomes(v, TRUE, FALSE, "main", "schedule", "none")
<1>1. Scheduled.exists = TRUE /\ Scheduled.paused = FALSE
  BY DEF Scheduled, NoSource
<1>2. QED
  BY <1>1, SourceTypes DEF SourceBecomes

\* ... a final sync, ...
LEMMA SourceTriggered ==
    ASSUME rs \in [Volumes -> Sources], NEW v \in Volumes,
           rs' = [rs EXCEPT ![v].paused = FALSE, ![v].source = "tmp", ![v].trigger = "final"]
    PROVE  SourceBecomes(v, rs[v].exists, FALSE, "tmp", "final", rs[v].last)
<1> DEFINE s == [rs[v] EXCEPT !.paused = FALSE, !.source = "tmp", !.trigger = "final"]
<1>1. /\ s \in Sources /\ s.exists = rs[v].exists /\ s.paused = FALSE
      /\ s.source = "tmp" /\ s.trigger = "final" /\ s.last = rs[v].last
  BY DEF Sources, H!Kinds
<1>2. rs' = [rs EXCEPT ![v] = s]
  OBVIOUS
<1> HIDE DEF s
<1>3. QED
  BY <1>1, <1>2 DEF SourceBecomes

\* ... the deletion, ...
LEMMA SourceDeleted ==
    ASSUME rs \in [Volumes -> Sources], NEW v \in Volumes, rs' = [rs EXCEPT ![v] = NoSource]
    PROVE  SourceBecomes(v, FALSE, FALSE, "main", "schedule", "none")
  BY SourceTypes DEF SourceBecomes

\* ... and the end of a sync.
LEMMA SourceSynced ==
    ASSUME rs \in [Volumes -> Sources], NEW v \in Volumes, NEW last \in {"none", "final"},
           rs' = [rs EXCEPT ![v].last = last]
    PROVE  SourceBecomes(v, rs[v].exists, rs[v].paused, rs[v].source, rs[v].trigger, last)
  BY DEF SourceBecomes, Sources

\* The constant VRGPlaces holds truth values only.
LEMMA NearType == near \in VRGPlaces => near \in BOOLEAN
  BY VRGPlacesAssumption

\* An item of the pass, and its volume.
LEMMA ItemTypes ==
    pass \in Passes =>
        /\ \A i \in pass.todo \cup pass.cur \cup pass.list \cup pass.lost :
              i \in Items /\ i[1] \in Volumes /\ i[2] \in H!Kinds /\ i = <<i[1], i[2]>>
        /\ MainItems \in SUBSET Items /\ pass.list \in SUBSET Items
  BY DEF Passes, Items, MainItems

\* What a pass lists are items.
LEMMA ListedTypes ==
    /\ Listed \in SUBSET Items /\ {i \in Listed : i[2] = "main"} \in SUBSET Items
    /\ {<<v, "main">> : v \in {u \in Volumes : SourceSeen(u) /\ ~rs[u].paused}} \in SUBSET Items
  BY DEF Listed, Items, H!Kinds

\* The initial state has these types,
LEMMA LocalInit == Init => LocalOK
  <1>1. NoPass \in Passes
    BY DEF NoPass, Passes, Stages
  <1>2. QED
    BY <1>1, SourceTypes, OthersAssumption DEF Init, LocalOK

\* ... every step keeps those of the pass,
LEMMA PassStep == LocalOK /\ [Next]_vars => pass' \in Passes /\ wake' \in BOOLEAN
<1> SUFFICES ASSUME LocalOK, [Next]_vars PROVE pass' \in Passes /\ wake' \in BOOLEAN
  OBVIOUS
<1> DEFINE Typed == pass' \in Passes /\ wake' \in BOOLEAN
<1>t. pass \in Passes /\ wake \in BOOLEAN /\ near \in BOOLEAN
  BY NearType DEF LocalOK
<1>a. pass.stale \in BOOLEAN
  BY <1>t DEF Passes
<1>1. ASSUME StartPrimary \/ StartSecondary PROVE Typed
  <2>1. CASE StartPrimary
    BY <1>t, <2>1, PassTurn, ListedTypes DEF StartPrimary, Stages
  <2>2. CASE StartSecondary
    BY <1>t, <2>2, PassTurn, ListedTypes DEF StartSecondary, Stages
  <2>3. QED
    BY <1>1, <2>1, <2>2
<1>2. ASSUME PauseSource \/ SkipTerminating \/ TakeSource \/ GuardSource PROVE Typed
  <2>1. CASE PauseSource
    BY <1>t, <2>1, PassItem, ItemTypes DEF PauseSource
  <2>2. CASE SkipTerminating \/ TakeSource
    BY <1>t, <2>2, PassItem, ItemTypes DEF SkipTerminating, TakeSource
  <2>3. CASE GuardSource
    BY <1>t, <2>3, PassItem, ItemTypes DEF GuardSource
  <2>4. QED
    BY <1>2, <2>1, <2>2, <2>3
<1>3. ASSUME ForgetLostTmp \/ SkipTmp \/ ParkTerminating \/ NotTerminating PROVE Typed
  <2>1. CASE ForgetLostTmp \/ SkipTmp
    BY <1>t, <2>1, PassItem, ItemTypes DEF ForgetLostTmp, SkipTmp
  <2>2. CASE ParkTerminating \/ NotTerminating
    BY <1>t, <2>2, PassItem, ItemTypes DEF ParkTerminating, NotTerminating
  <2>3. QED
    BY <1>3, <2>1, <2>2
<1>0. ASSUME DropDestination \/ WriteSource \/ DropSource \/ CreateDestination PROVE Typed
  <2>1. CASE DropDestination \/ DropSource
    BY <1>t, <2>1, PassGoes DEF DropDestination, DropSource
  <2>2. CASE WriteSource
    BY <1>t, <2>2, PassGoes DEF WriteSource
  <2>3. CASE CreateDestination
    BY <1>t, <2>3, PassGoes DEF CreateDestination
  <2>4. QED
    BY <1>0, <2>1, <2>2, <2>3
<1>4. ASSUME FindInUse \/ TriggerFinalSync \/ NoTmp \/ RestoreTmp \/ NothingToRestore PROVE Typed
  <2>1. CASE FindInUse
    BY <1>t, <2>1, PassItem, ItemTypes DEF FindInUse
  <2>2. CASE TriggerFinalSync
    BY <1>t, <2>2, PassItem, ItemTypes DEF TriggerFinalSync
  <2>3. CASE NoTmp
    BY <1>t, <2>3, PassItem, ItemTypes DEF NoTmp
  <2>4. CASE RestoreTmp \/ NothingToRestore
    BY <1>t, <2>4, PassItem, ItemTypes DEF RestoreTmp, NothingToRestore
  <2>5. QED
    BY <1>4, <2>1, <2>2, <2>3, <2>4
<1>5. ASSUME TmpNotReady \/ ParkDemoted \/ TakeDestination \/ GuardDestination PROVE Typed
  <2>1. CASE TmpNotReady \/ ParkDemoted
    BY <1>t, <2>1, PassItem, ItemTypes DEF TmpNotReady, ParkDemoted
  <2>2. CASE TakeDestination \/ GuardDestination
    BY <1>t, <2>2, PassItem, ItemTypes DEF TakeDestination, GuardDestination
  <2>3. QED
    BY <1>5, <2>1, <2>2
<1>6. ASSUME EndPause \/ EndProtect \/ HoldBack \/ ForgetLost \/ EndDemote
      PROVE  Typed
  <2>1. CASE EndPause \/ EndProtect \/ EndDemote
    BY <1>t, <1>a, <2>1, PassTurn DEF EndPause, EndProtect, EndDemote
  <2>2. CASE HoldBack \/ ForgetLost
    BY <1>t, <2>2, PassTurn DEF HoldBack, ForgetLost
  <2>3. QED
    BY <1>6, <2>1, <2>2
<1>7. ASSUME FailHandover \/ FailPass \/ Handover PROVE Typed
  BY <1>t, <1>7, PassTurn DEF FailHandover, FailPass, Handover
<1>8. ASSUME EndPark \/ EndTrigger PROVE Typed
  BY <1>t, <1>8, PassTurn, ItemTypes DEF EndPark, EndTrigger, Stages
<1>9. ASSUME EndRestore PROVE Typed
  <2>1. CASE pass.gate /\ ~AllFinalSyncsComplete
    BY <1>t, <1>a, <1>9, <2>1, PassTurn DEF EndRestore
  <2>2. CASE ~(pass.gate /\ ~AllFinalSyncsComplete)
    BY <1>t, <1>9, <2>2, PassTurn, ItemTypes DEF EndRestore, Stages
  <2>3. QED
    BY <2>1, <2>2
<1>10. ASSUME Demote \/ Promote PROVE Typed
  BY <1>t, <1>10, PassNotified DEF Demote, Promote
<1>11. ASSUME UNCHANGED pass, wake' \in BOOLEAN PROVE Typed
  BY <1>t, <1>11
<1>12. ASSUME \/ Relocate \/ Return \/ \E object \in behind : CatchUp(object)
              \/ OtherRelocate \/ OtherSynced \/ OtherDemoted \/ OtherReturn
              \/ \E v \in Volumes :
                   \/ StopApp(v) \/ StartApp(v) \/ Write(v) \/ DeleteClaim(v)
                   \/ StartSync(v) \/ EndSync(v) \/ GiveAddress(v)
                   \/ BindOrLose(v) \/ Unprotect(v) \/ OtherPauses(v)
              \/ UNCHANGED vars
       PROVE  UNCHANGED pass /\ wake' \in BOOLEAN
  <2>1. CASE Relocate \/ Return \/ \E object \in behind : CatchUp(object)
    BY <1>t, <2>1 DEF Relocate, Return, CatchUp, NotifyVRG
  <2>2. CASE OtherRelocate \/ OtherSynced \/ OtherDemoted \/ OtherReturn
    BY <1>t, <2>2 DEF OtherRelocate, OtherSynced, OtherDemoted, OtherReturn, OtherMoves
  <2>3. CASE \E v \in Volumes : StopApp(v) \/ StartApp(v) \/ Write(v) \/ DeleteClaim(v)
    BY <1>t, <2>3 DEF StopApp, StartApp, Write, DeleteClaim
  <2>4. CASE \E v \in Volumes : \/ StartSync(v) \/ EndSync(v) \/ GiveAddress(v)
                                \/ BindOrLose(v) \/ Unprotect(v) \/ OtherPauses(v)
    BY <1>t, <2>4 DEF StartSync, EndSync, GiveAddress, BindOrLose, Unprotect, OtherPauses
  <2>5. CASE UNCHANGED vars
    BY <1>t, <2>5 DEF vars
  <2>6. QED
    BY <1>12, <2>1, <2>2, <2>3, <2>4, <2>5
<1> HIDE DEF Typed
<1>13. Typed
  BY <1>0, <1>1, <1>2, <1>3, <1>4, <1>5, <1>6, <1>7, <1>8, <1>9, <1>10, <1>11, <1>12
     DEF Next, Operator, Primary, Secondary, Environment
<1>14. QED
  BY <1>13 DEF Typed
-----------------------------------------------------------------------------
(* Who writes what *)

\* The actions that write each variable.
WritesRs ==
    \/ PauseSource \/ WriteSource \/ HoldBack \/ TriggerFinalSync \/ DropSource
    \/ \E v \in Volumes : EndSync(v) \/ OtherPauses(v)
WritesRd ==
    \/ DropDestination \/ CreateDestination
    \/ \E v \in Volumes : GiveAddress(v)
WritesMover ==
    \/ PauseSource \/ EndPause \/ FindInUse \/ HoldBack \/ DropSource
    \/ \E v \in Volumes : Write(v) \/ StartSync(v) \/ EndSync(v) \/ OtherPauses(v)
WritesApp == \E v \in Volumes : StopApp(v) \/ StartApp(v)
WritesDirty == \E v \in Volumes : Write(v) \/ EndSync(v)
WritesMatch == ParkTerminating \/ ParkDemoted \/ RestoreTmp
WritesIntent ==
    EndProtect \/ EndDemote \/ Relocate \/ Demote \/ Return \/ Promote
WritesBehind ==
    \/ WriteSource \/ CreateDestination \/ Relocate \/ Return
    \/ \E object \in behind : CatchUp(object)
WritesOther == OtherRelocate \/ OtherSynced \/ OtherDemoted \/ OtherReturn
WritesClaims ==
    \/ GuardSource \/ ForgetLostTmp \/ ParkTerminating \/ RestoreTmp
    \/ ForgetLost \/ ParkDemoted \/ GuardDestination \/ Handover \/ FailHandover
    \/ \E v \in Volumes : DeleteClaim(v) \/ BindOrLose(v) \/ Unprotect(v)

\* A step leaves a variable alone or is one of the actions that write it.
Written ==
    /\ UNCHANGED rs \/ WritesRs
    /\ UNCHANGED rd \/ WritesRd
    /\ UNCHANGED mover \/ WritesMover
    /\ UNCHANGED app \/ WritesApp
    /\ UNCHANGED dirty \/ WritesDirty
    /\ UNCHANGED match \/ WritesMatch
    /\ UNCHANGED <<vrg, vgr>> \/ WritesIntent
    /\ UNCHANGED near
    /\ UNCHANGED other \/ WritesOther
    /\ UNCHANGED behind \/ WritesBehind
    /\ UNCHANGED <<main, tmp, ref, op>> \/ WritesClaims

\* Every variable but the pass is left alone by all but a few actions.
LEMMA Writers == [Next]_vars => Written
<1> USE DEF cluster, replication, data, intent, place
<1>1. ASSUME PauseSource \/ GuardSource \/ WriteSource \/ DropDestination PROVE Written
  BY <1>1 DEF PauseSource, GuardSource, WriteSource, DropDestination,
              Written, WritesRs, WritesRd, WritesMover, WritesClaims, WritesBehind
<1>2. ASSUME StartPrimary \/ EndPause \/ SkipTerminating \/ TakeSource \/ EndProtect
      PROVE  Written
  BY <1>2 DEF StartPrimary, EndPause, SkipTerminating, TakeSource, EndProtect,
              Written, WritesMover, WritesIntent
<1>3. ASSUME StartSecondary \/ SkipTmp \/ NotTerminating \/ EndPark \/ NoTmp \/ EndTrigger
      PROVE  Written
  <2>1. CASE StartSecondary
    BY <2>1 DEF StartSecondary, Written
  <2>2. CASE SkipTmp \/ NotTerminating
    BY <2>2 DEF SkipTmp, NotTerminating, Written
  <2>3. CASE EndPark \/ NoTmp
    BY <2>3 DEF EndPark, NoTmp, Written
  <2>4. CASE EndTrigger
    BY <2>4 DEF EndTrigger, Written
  <2>5. QED
    BY <1>3, <2>1, <2>2, <2>3, <2>4
<1>4. ASSUME \/ ForgetLostTmp \/ ParkTerminating \/ FindInUse \/ HoldBack
             \/ TriggerFinalSync \/ RestoreTmp
      PROVE  Written
  <2>1. CASE ForgetLostTmp \/ ParkTerminating
    BY <2>1 DEF ForgetLostTmp, ParkTerminating, LabelTmp, Written, WritesMatch, WritesClaims
  <2>2. CASE FindInUse
    BY <2>2 DEF FindInUse, Written, WritesMover
  <2>3. CASE HoldBack
    BY <2>3 DEF HoldBack, Written, WritesRs, WritesMover
  <2>4. CASE TriggerFinalSync
    <3>1. UNCHANGED <<cluster, op, rd, mover, behind, data, intent, wake>>
      BY <2>4, Zenon DEF TriggerFinalSync
    <3>2. QED
      BY <2>4, <3>1 DEF Written, WritesRs
  <2>5. CASE RestoreTmp
    BY <2>5 DEF RestoreTmp, Written, WritesMatch, WritesClaims
  <2>6. QED
    BY <1>4, <2>1, <2>2, <2>3, <2>4, <2>5
<1>5. ASSUME NothingToRestore \/ EndRestore \/ TmpNotReady \/ TakeDestination \/ EndDemote
      PROVE  Written
  BY <1>5 DEF NothingToRestore, EndRestore, TmpNotReady, TakeDestination, EndDemote,
              Written, WritesIntent
<1>6. ASSUME ForgetLost \/ ParkDemoted \/ DropSource \/ CreateDestination \/ GuardDestination
      PROVE  Written
  BY <1>6 DEF ForgetLost, ParkDemoted, DropSource, CreateDestination, GuardDestination,
              Written, WritesRs, WritesRd, WritesMover, WritesMatch, WritesClaims, WritesBehind
<1>7. ASSUME Handover \/ FailHandover \/ FailPass PROVE Written
  BY <1>7 DEF Handover, FailHandover, FailPass, Written, WritesClaims
<1>8. ASSUME \/ Relocate \/ Demote \/ Return \/ Promote \/ WritesOther
             \/ \E object \in behind : CatchUp(object)
      PROVE  Written
  BY <1>8 DEF Relocate, Demote, Return, Promote, WritesOther, OtherRelocate, OtherSynced,
              OtherDemoted, OtherReturn, OtherMoves, CatchUp,
              Written, WritesIntent, WritesBehind
<1>9. ASSUME NEW v \in Volumes, StopApp(v) \/ StartApp(v) \/ Write(v) \/ DeleteClaim(v)
      PROVE  Written
  BY <1>9 DEF StopApp, StartApp, Write, DeleteClaim,
              Written, WritesApp, WritesDirty, WritesMover, WritesClaims
<1>10. ASSUME NEW v \in Volumes, StartSync(v) \/ EndSync(v) \/ GiveAddress(v)
       PROVE  Written
  BY <1>10 DEF StartSync, EndSync, GiveAddress,
               Written, WritesRs, WritesRd, WritesMover, WritesDirty
<1>11. ASSUME NEW v \in Volumes, BindOrLose(v) \/ Unprotect(v) \/ OtherPauses(v)
       PROVE  Written
  BY <1>11 DEF BindOrLose, Unprotect, OtherPauses, Written, WritesClaims, WritesRs, WritesMover
<1>12. CASE UNCHANGED vars
  BY <1>12 DEF vars, Written
<1>13. QED
  BY <1>1, <1>2, <1>3, <1>4, <1>5, <1>6, <1>7, <1>8, <1>9, <1>10, <1>11, <1>12
     DEF Next, Operator, Primary, Secondary, Environment, WritesOther

\* Jobs and pods of VolSync are deleted: no mover starts on another claim, and one
\* that starts again has nothing torn.
Halts ==
    /\ mover' \in [Volumes -> Movers]
    /\ \A v \in Volumes :
          /\ mover'[v].on \in {mover[v].on, "none"}
          /\ mover'[v].torn => mover[v].torn

HaltsAt(v) == Halts /\ \A w \in Volumes : w # v => mover'[w] = mover[w]

\* Such is the mover whose job or pod is deleted, ...
LEMMA MoverHalts ==
    ASSUME LocalOK, NEW v \in Volumes, NEW m \in JobDeleted(v) \cup PodDeleted(v),
           mover' = [mover EXCEPT ![v] = m]
    PROVE  HaltsAt(v)
<1>1. mover \in [Volumes -> Movers]
  BY DEF LocalOK
<1>2. m \in Movers /\ m.on \in {mover[v].on, "none"} /\ (m.torn => mover[v].torn)
  BY <1>1, SourceTypes DEF JobDeleted, PodDeleted, Movers
<1>3. QED
  BY <1>1, <1>2 DEF Halts, HaltsAt

\* ... and such are all of them at the end of a pause.
LEMMA AllHalt == LocalOK /\ EndPause => Halts
<1> SUFFICES ASSUME LocalOK, NEW gone \in SUBSET Volumes,
                    mover' = [v \in Volumes |-> IF v \in gone THEN Stopped
                                               ELSE [mover[v] EXCEPT !.torn = FALSE]]
             PROVE  Halts
  BY DEF EndPause
<1>1. \A v \in Volumes :
        LET m == [mover[v] EXCEPT !.torn = FALSE]
        IN  m \in Movers /\ m.on = mover[v].on /\ m.torn = FALSE
  BY DEF LocalOK, Movers
<1>2. QED
  BY <1>1, SourceTypes DEF Halts

\* What the writers of the sources make of them.
LEMMA PauseEffect ==
    LocalOK /\ PauseSource => \E i \in pass.todo : LET v == i[1] IN
        /\ v \in Volumes /\ pass.at = "pause"
        /\ SourceBecomes(v, rs[v].exists, TRUE, rs[v].source, rs[v].trigger, rs[v].last)
        /\ HaltsAt(v)
<1> SUFFICES ASSUME LocalOK, NEW i \in pass.todo, NEW m \in JobDeleted(i[1]),
                    rs' = [rs EXCEPT ![i[1]].paused = TRUE],
                    mover' = [mover EXCEPT ![i[1]] = m]
             PROVE  LET v == i[1] IN
        /\ v \in Volumes
        /\ SourceBecomes(v, rs[v].exists, TRUE, rs[v].source, rs[v].trigger, rs[v].last)
        /\ HaltsAt(v)
  BY DEF PauseSource, Running
<1>1. i[1] \in Volumes /\ rs \in [Volumes -> Sources]
  BY ItemTypes DEF LocalOK
<1>2. SourceBecomes(i[1], rs[i[1]].exists, TRUE, rs[i[1]].source, rs[i[1]].trigger,
                    rs[i[1]].last)
  BY <1>1, SourcePaused
<1>3. HaltsAt(i[1])
  BY <1>1, MoverHalts
<1>4. QED
  BY <1>1, <1>2, <1>3

\* ensureReplicationSource of the primary creates the source, or repairs it,
LEMMA WriteEffect ==
    LocalOK /\ WriteSource => \E i \in pass.cur : LET v == i[1] IN
        /\ v \in Volumes /\ pass.at = "protect" /\ pass.did = "cleared" /\ Go("written")
        /\ \/ /\ rs[v].exists
              /\ SourceBecomes(v, TRUE, rs[v].paused, "main", "schedule", rs[v].last)
           \/ /\ ~rs[v].exists
              /\ SourceBecomes(v, TRUE, FALSE, "main", "schedule", "none")
<1> SUFFICES ASSUME LocalOK, NEW i \in pass.cur,
                    \/ /\ SourceSeen(i[1])
                       /\ rs' = [rs EXCEPT ![i[1]].source = "main", ![i[1]].trigger = "schedule"]
                    \/ /\ ~rs[i[1]].exists
                       /\ rs' = [rs EXCEPT ![i[1]] = Scheduled]
             PROVE  LET v == i[1] IN
        /\ v \in Volumes
        /\ \/ /\ rs[v].exists
              /\ SourceBecomes(v, TRUE, rs[v].paused, "main", "schedule", rs[v].last)
           \/ /\ ~rs[v].exists
              /\ SourceBecomes(v, TRUE, FALSE, "main", "schedule", "none")
  BY DEF WriteSource, Running
<1>1. i[1] \in Volumes /\ rs \in [Volumes -> Sources]
  BY ItemTypes DEF LocalOK
<1>2. CASE SourceSeen(i[1]) /\ rs' = [rs EXCEPT ![i[1]].source = "main", ![i[1]].trigger = "schedule"]
  <2>1. rs[i[1]].exists
    BY <1>2 DEF SourceSeen
  <2>2. SourceBecomes(i[1], TRUE, rs[i[1]].paused, "main", "schedule", rs[i[1]].last)
    BY <1>1, <1>2, <2>1, SourceRepaired, Zenon
  <2>3. QED
    BY <1>1, <2>1, <2>2
<1>3. CASE ~rs[i[1]].exists /\ rs' = [rs EXCEPT ![i[1]] = Scheduled]
  <2>1. SourceBecomes(i[1], TRUE, FALSE, "main", "schedule", "none")
    BY <1>1, <1>3, SourceCreated
  <2>2. QED
    BY <1>1, <1>3, <2>1
<1>4. QED
  BY <1>2, <1>3

\* ... the hold-back and the passes of another VGR pause it,
LEMMA HoldEffect ==
    LocalOK /\ HoldBack => \E v \in Volumes :
        /\ pass.at = "trigger" /\ rs[v].exists
        /\ SourceBecomes(v, rs[v].exists, TRUE, rs[v].source, rs[v].trigger, rs[v].last)
        /\ HaltsAt(v)
<1> SUFFICES ASSUME LocalOK, NEW i \in pass.cur, rs[i[1]].exists,
                    NEW m \in JobDeleted(i[1]),
                    rs' = [rs EXCEPT ![i[1]].paused = TRUE],
                    mover' = [mover EXCEPT ![i[1]] = m]
             PROVE  LET v == i[1] IN
        /\ v \in Volumes
        /\ SourceBecomes(v, rs[v].exists, TRUE, rs[v].source, rs[v].trigger, rs[v].last)
        /\ HaltsAt(v)
  BY DEF HoldBack, Running, SourceSeen, JobDeleted
<1>1. i[1] \in Volumes /\ rs \in [Volumes -> Sources]
  BY ItemTypes DEF LocalOK
<1>2. SourceBecomes(i[1], rs[i[1]].exists, TRUE, rs[i[1]].source, rs[i[1]].trigger,
                    rs[i[1]].last)
  BY <1>1, SourcePaused
<1>3. HaltsAt(i[1])
  BY <1>1, MoverHalts
<1>4. QED
  BY <1>1, <1>2, <1>3

\* ... when another group is there,
LEMMA OtherEffect ==
    ASSUME LocalOK, NEW v \in Volumes, OtherPauses(v)
    PROVE  /\ near /\ other # "none" /\ rs[v].exists
           /\ SourceBecomes(v, rs[v].exists, TRUE, rs[v].source, rs[v].trigger, rs[v].last)
           /\ HaltsAt(v)
<1>1. rs \in [Volumes -> Sources]
  BY DEF LocalOK
<1>2. PICK m \in JobDeleted(v) \cup PodDeleted(v) : mover' = [mover EXCEPT ![v] = m]
  BY DEF OtherPauses
<1>3. HaltsAt(v)
  BY <1>2, MoverHalts
<1>4. SourceBecomes(v, rs[v].exists, TRUE, rs[v].source, rs[v].trigger, rs[v].last)
  <2>1. rs' = [rs EXCEPT ![v].paused = TRUE]
    BY DEF OtherPauses
  <2>2. QED
    BY <1>1, <2>1, SourcePaused
<1>5. near /\ other # "none" /\ rs[v].exists
  BY DEF OtherPauses, SourceSeen
<1>6. QED
  BY <1>3, <1>4, <1>5

\* ... isPVCInUse deletes the pod it finds,
LEMMA FindEffect ==
    LocalOK /\ FindInUse => \E i \in pass.todo :
        /\ i[1] \in Volumes /\ pass.at = "trigger" /\ InUse(i[1]) /\ TakeUp(i)
        /\ Halts
<1> SUFFICES ASSUME LocalOK, NEW i \in pass.todo,
                    UNCHANGED mover
                      \/ \E m \in PodDeleted(i[1]) : mover' = [mover EXCEPT ![i[1]] = m]
             PROVE  i[1] \in Volumes /\ Halts
  BY DEF FindInUse, Running, InUse
<1>1. i[1] \in Volumes
  BY ItemTypes DEF LocalOK
<1>2. CASE UNCHANGED mover
  <2>1. mover \in [Volumes -> Movers]
    BY DEF LocalOK
  <2>2. mover' = mover
    BY <1>2
  <2>3. QED
    BY <1>1, <2>1, <2>2 DEF Halts
<1>3. CASE \E m \in PodDeleted(i[1]) : mover' = [mover EXCEPT ![i[1]] = m]
  BY <1>1, <1>3, MoverHalts DEF HaltsAt
<1>4. QED
  BY <1>1, <1>2, <1>3

\* ... the final sync points it to the temporary claim,
LEMMA TriggerEffect ==
    LocalOK /\ TriggerFinalSync => \E i \in pass.todo : LET v == i[1] IN
        /\ v \in Volumes /\ pass.at = "trigger" /\ op.pc = "idle"
        /\ H!Exists(tmp[v]) /\ ~InUse(v) /\ rs[v].exists
        /\ SourceBecomes(v, rs[v].exists, FALSE, "tmp", "final", rs[v].last)
        /\ IF rs[v].last = "final" THEN Done(i) ELSE DoneNot(i)
<1> SUFFICES ASSUME LocalOK, TriggerFinalSync
             PROVE  \E i \in pass.todo : LET v == i[1] IN
        /\ v \in Volumes /\ pass.at = "trigger" /\ op.pc = "idle"
        /\ H!Exists(tmp[v]) /\ ~InUse(v) /\ rs[v].exists
        /\ SourceBecomes(v, rs[v].exists, FALSE, "tmp", "final", rs[v].last)
        /\ IF rs[v].last = "final" THEN Done(i) ELSE DoneNot(i)
  OBVIOUS
<1>1. PICK i \in pass.todo :
          /\ pass.at = "trigger" /\ op.pc = "idle"
          /\ H!Exists(tmp[i[1]]) /\ ~InUse(i[1]) /\ SourceSeen(i[1])
          /\ rs' = [rs EXCEPT ![i[1]].paused = FALSE, ![i[1]].source = "tmp",
                              ![i[1]].trigger = "final"]
          /\ IF rs[i[1]].last = "final" THEN Done(i) ELSE DoneNot(i)
  BY Zenon DEF TriggerFinalSync, Running
<1>2. i[1] \in Volumes /\ rs \in [Volumes -> Sources]
  BY ItemTypes DEF LocalOK
<1>3. SourceBecomes(i[1], rs[i[1]].exists, FALSE, "tmp", "final", rs[i[1]].last)
  BY <1>1, <1>2, SourceTriggered, Zenon
<1>4. rs[i[1]].exists
  BY <1>1 DEF SourceSeen
<1>5. QED
  BY <1>1, <1>2, <1>3, <1>4, Zenon

\* ... the demotion deletes it,
LEMMA DropEffect ==
    LocalOK /\ DropSource => \E i \in pass.cur : LET v == i[1] IN
        /\ v \in Volumes /\ pass.at = "demote" /\ pass.did = "nothing" /\ Go("cleared")
        /\ \/ /\ rs[v].exists
              /\ SourceBecomes(v, FALSE, FALSE, "main", "schedule", "none")
              /\ rs'[v] = NoSource
              /\ mover' = [mover EXCEPT ![v] = Stopped]
           \/ ~SourceSeen(v) /\ UNCHANGED <<rs, mover>>
<1> SUFFICES ASSUME LocalOK, NEW i \in pass.cur, rs[i[1]].exists,
                    rs' = [rs EXCEPT ![i[1]] = NoSource]
             PROVE  /\ SourceBecomes(i[1], FALSE, FALSE, "main", "schedule", "none")
                    /\ rs'[i[1]] = NoSource
  BY ItemTypes DEF DropSource, Running, SourceSeen, LocalOK
<1>1. i[1] \in Volumes /\ rs \in [Volumes -> Sources]
  BY ItemTypes DEF LocalOK
<1>2. SourceBecomes(i[1], FALSE, FALSE, "main", "schedule", "none")
  BY <1>1, SourceDeleted
<1>3. QED
  BY <1>1, <1>2, SourceTypes DEF LocalOK

\* ... and VolSync records the sync it has done.
LEMMA EndSyncEffect ==
    ASSUME LocalOK, NEW v \in Volumes, EndSync(v)
    PROVE  /\ mover[v].on # "none"
           /\ SourceBecomes(v, rs[v].exists, rs[v].paused, rs[v].source, rs[v].trigger,
                            IF rs[v].trigger = "final" THEN "final" ELSE "none")
           /\ mover' = [mover EXCEPT ![v] = Stopped]
<1>1. (IF rs[v].trigger = "final" THEN "final" ELSE "none") \in {"none", "final"}
  OBVIOUS
<1>2. PICK last \in {"none", "final"} :
          /\ last = IF rs[v].trigger = "final" THEN "final" ELSE "none"
          /\ rs' = [rs EXCEPT ![v].last = last]
  BY <1>1, Zenon DEF EndSync
<1>3. SourceBecomes(v, rs[v].exists, rs[v].paused, rs[v].source, rs[v].trigger, last)
  BY <1>2, SourceSynced DEF LocalOK
<1>4. mover[v].on # "none" /\ mover' = [mover EXCEPT ![v] = Stopped]
  BY DEF EndSync
<1>5. QED
  BY <1>2, <1>3, <1>4

\* ... and those of everything else.
LEMMA LocalStep == LocalOK /\ [Next]_vars => LocalOK'
<1> SUFFICES ASSUME LocalOK, [Next]_vars PROVE LocalOK'
  OBVIOUS
<1>w. Written
  BY Writers
<1>1. pass' \in Passes /\ wake' \in BOOLEAN
  BY PassStep
<1>2. rs' \in [Volumes -> Sources]
  <2>1. CASE PauseSource \/ HoldBack \/ \E v \in Volumes : OtherPauses(v)
    BY <2>1, PauseEffect, HoldEffect, OtherEffect DEF SourceBecomes
  <2>2. CASE WriteSource
    BY <2>2, WriteEffect DEF SourceBecomes
  <2>3. CASE TriggerFinalSync
    BY <2>3, TriggerEffect DEF SourceBecomes
  <2>4. CASE DropSource
    BY <2>4, DropEffect DEF SourceBecomes, LocalOK
  <2>5. CASE \E v \in Volumes : EndSync(v)
    BY <2>5, EndSyncEffect DEF SourceBecomes
  <2>6. CASE UNCHANGED rs
    BY <2>6 DEF LocalOK
  <2>7. QED
    BY <1>w, <2>1, <2>2, <2>3, <2>4, <2>5, <2>6 DEF Written, WritesRs
<1>3. rd' \in [Volumes -> {"none", "created", "ready"}]
  BY <1>w, ItemTypes DEF Written, WritesRd, LocalOK, DropDestination, CreateDestination,
                         GiveAddress
<1>4. mover' \in [Volumes -> Movers]
  <2>1. CASE PauseSource \/ EndPause \/ HoldBack \/ \E v \in Volumes : OtherPauses(v)
    BY <2>1, PauseEffect, AllHalt, HoldEffect, OtherEffect DEF Halts, HaltsAt
  <2>7. CASE FindInUse
    BY <2>7, FindEffect DEF Halts
  <2>8. CASE DropSource
    BY <2>8, DropEffect, SourceTypes DEF LocalOK
  <2>2. ASSUME NEW v \in Volumes, Write(v) PROVE mover' \in [Volumes -> Movers]
    <3> DEFINE torn == mover[v].on = "main"
    <3>1. torn \in BOOLEAN
      OBVIOUS
    <3>2. mover' = [mover EXCEPT ![v].torn = torn]
      BY <2>2 DEF Write
    <3> HIDE DEF torn
    <3>3. QED
      BY <3>1, <3>2 DEF Movers, LocalOK
  <2>3. ASSUME NEW v \in Volumes, StartSync(v) PROVE mover' \in [Volumes -> Movers]
    <3>1. [on |-> rs[v].source, torn |-> FALSE] \in Movers
      BY DEF LocalOK, Sources, Movers
    <3>2. QED
      BY <2>3, <3>1 DEF StartSync, LocalOK
  <2>4. ASSUME NEW v \in Volumes, EndSync(v) PROVE mover' \in [Volumes -> Movers]
    BY <2>4, SourceTypes DEF EndSync, LocalOK
  <2>5. CASE UNCHANGED mover
    BY <2>5 DEF LocalOK
  <2>6. QED
    BY <1>w, <2>1, <2>2, <2>3, <2>4, <2>5, <2>7, <2>8 DEF Written, WritesMover
<1>5. app' \in [Volumes -> BOOLEAN]
  BY <1>w DEF Written, WritesApp, StopApp, StartApp, LocalOK
<1>6. dirty' \in [Volumes -> BOOLEAN]
  <2>1. \A v \in Volumes : mover[v].torn \in BOOLEAN
    BY DEF LocalOK, Movers
  <2>2. QED
    BY <1>w, <2>1 DEF Written, WritesDirty, Write, EndSync, LocalOK
<1>7. match' \in [Volumes -> [H!Kinds -> BOOLEAN]]
  <2>1. ASSUME NEW v \in Volumes, LabelTmp(v) \/ RelabelTmp(v) \/ LabelRestored(v)
        PROVE  match' \in [Volumes -> [H!Kinds -> BOOLEAN]]
    BY <2>1, SwitchesAssumption DEF LabelTmp, RelabelTmp, LabelRestored, LocalOK, H!Kinds
  <2>2. CASE ParkTerminating \/ ParkDemoted \/ RestoreTmp
    BY <2>1, <2>2, ItemTypes DEF ParkTerminating, ParkDemoted, RestoreTmp, LocalOK
  <2>3. QED
    BY <1>w, <2>2 DEF Written, WritesMatch, LocalOK
<1>8. vrg' \in {"primary", "relocate"}
  BY <1>w DEF Written, WritesIntent, LocalOK, EndProtect, EndDemote, Relocate, Demote,
              Return, Promote
<1>9. vgr' \in [spec: {"primary", "secondary"}, status: {"primary", "secondary"}]
  BY <1>w DEF Written, WritesIntent, LocalOK, EndProtect, EndDemote, Relocate, Demote,
              Return, Promote, intent
<1>10. /\ near' \in VRGPlaces
       /\ other' \in {"none", "replicating", "relocating", "synced", "away", "back"}
  BY <1>w DEF Written, LocalOK, WritesOther, OtherRelocate, OtherSynced, OtherDemoted,
              OtherReturn, OtherMoves
<1>11. behind' \subseteq Unseen
  <2>1. behind \subseteq Unseen
    BY DEF LocalOK
  <2>2. CASE WriteSource \/ CreateDestination
    BY <2>1, <2>2 DEF WriteSource, CreateDestination, Changed
  <2>3. CASE Relocate \/ Return
    BY <2>1, <2>3 DEF Relocate, Return, NotifyVRG, Changed
  <2>4. CASE \E object \in behind : CatchUp(object)
    BY <2>1, <2>4 DEF CatchUp
  <2>5. QED
    BY <1>w, <2>1, <2>2, <2>3, <2>4 DEF Written, WritesBehind
<1>12. QED
  BY <1>1, <1>2, <1>3, <1>4, <1>5, <1>6, <1>7, <1>8, <1>9, <1>10, <1>11 DEF LocalOK
-----------------------------------------------------------------------------
(* The handover within the passes *)

\* Whatever a pass does to the claims, it does by a step of PVCHandover.
LEMMA HandoverStep == LocalOK /\ [Next]_vars => [H!Next]_(H!vars)
<1> SUFFICES ASSUME LocalOK, [Next]_vars, ~UNCHANGED <<main, tmp, ref, op>>
             PROVE  H!Next
  BY DEF H!vars
<1>i. \A i \in pass.todo \cup pass.cur : i[1] \in Volumes
  BY ItemTypes DEF LocalOK
<1>1. CASE GuardSource \/ GuardDestination
  <2>1. \E v \in Volumes : H!AddGuard(v)
    BY <1>1, <1>i DEF GuardSource, GuardDestination, cluster
  <2>2. QED
    BY <2>1 DEF H!Next, H!Operator
<1>2. CASE ForgetLostTmp \/ ForgetLost
  <2>1. \E v \in Volumes : H!ForgetBinding(v, main, tmp) \/ H!ForgetBinding(v, tmp, main)
    BY <1>2, <1>i DEF ForgetLostTmp, ForgetLost
  <2>2. QED
    BY <2>1 DEF H!Next, H!Operator
<1>3. CASE ParkTerminating \/ ParkDemoted
  <2>1. \E v \in Volumes : \E rm \in BOOLEAN : H!EnsureTmp(v, rm)
    BY <1>3, <1>i DEF ParkTerminating, ParkDemoted
  <2>2. QED
    BY <2>1 DEF H!Next, H!Operator, H!Create
<1>4. CASE RestoreTmp
  <2>1. \E v \in Volumes : H!RestoreWaits(v) \/ H!RestoreMain(v)
    BY <1>4, <1>i DEF RestoreTmp
  <2>2. QED
    BY <2>1 DEF H!Next, H!Operator, H!Restore
<1>5. CASE Handover
  BY <1>5 DEF Handover, H!Next, H!Operator, H!Create, H!Restore
<1>6. CASE FailHandover
  BY <1>6 DEF FailHandover, H!Next, H!Operator
<1>7. CASE \E v \in Volumes : DeleteClaim(v) \/ BindOrLose(v) \/ Unprotect(v)
  BY <1>7 DEF DeleteClaim, BindOrLose, Unprotect, H!Next, H!Cluster
<1>8. QED
  BY <1>1, <1>2, <1>3, <1>4, <1>5, <1>6, <1>7, Writers DEF Written, WritesClaims

\* PVCHandover and the module of its proofs are instantiated side by side; what
\* is proved of the one is said of the other.
LEMMA TypeInit == Init => TypeOK
<1>1. Init => H!TypeOK
  BY HP!TypeInit, SameHandover, HandoverAssumption DEF Init, H!Steps, HP!Steps
<1>2. QED
  BY <1>1, LocalInit DEF TypeOK, LocalOK, Passes, Sources, Movers

\* ... and by that every step keeps the types.
LEMMA TypeStep == TypeOK /\ [Next]_vars => TypeOK'
<1> SUFFICES ASSUME TypeOK, [Next]_vars PROVE TypeOK'
  OBVIOUS
<1>1. LocalOK /\ H!TypeOK
  BY DEF TypeOK, LocalOK, Passes, Sources, Movers
<1>2. [HP!Next]_(HP!vars)
  BY <1>1, HandoverStep, SameSteps DEF H!vars, HP!vars
<1>3. H!TypeOK'
  BY <1>1, <1>2, HP!TypeStep, SameHandover, HandoverAssumption DEF H!Steps, HP!Steps
<1>4. LocalOK'
  BY <1>1, LocalStep
<1>5. QED
  BY <1>3, <1>4 DEF TypeOK, LocalOK, Passes, Sources, Movers

\* Type correctness of the passes, the claims, VolSync and the intent of Ramen,
\* whatever call of a pass fails and wherever the operator stops.
THEOREM TypeCorrect == Spec => []TypeOK
  BY TypeInit, TypeStep, PTL DEF Spec

\* A relocation is a behaviour of the handover.
LEMMA IsHandover == Spec => HP!Spec
<1>1. Init => HP!Init
  BY SameHandover DEF Init
<1>2. TypeOK /\ [Next]_vars => [HP!Next]_(HP!vars)
  <2>1. TypeOK => LocalOK
    BY DEF TypeOK, LocalOK, Passes, Sources, Movers
  <2>2. QED
    BY <2>1, HandoverStep, SameSteps DEF H!vars, HP!vars
<1>3. QED
  BY <1>1, <1>2, TypeCorrect, PTL DEF Spec, HP!Spec

\* Within the passes, as outside them, a PV loses its claim in the three ways that
\* OrphanedOnlyBy names and no other, whatever fails and whatever is deleted.
THEOREM Orphaned == Spec => OrphanedOnlyBy
<1>1. HP!Spec => HP!OrphanedOnlyBy
  BY HP!Orphaned, HandoverAssumption DEF H!Steps, HP!Steps
<1>2. HP!OrphanedOnlyBy => OrphanedOnlyBy
  BY DEF OrphanedOnlyBy, HP!OrphanedOnlyBy, H!OrphanedOnlyBy, H!vars, HP!vars
<1>3. QED
  BY <1>1, <1>2, IsHandover
-----------------------------------------------------------------------------
(* Frames *)

\* The claims, the intent of Ramen and VolSync's side are written by different
\* actions.
LEMMA Apart ==
    /\ WritesRs \/ WritesRd \/ WritesMover \/ WritesApp \/ WritesDirty =>
         UNCHANGED <<main, tmp, ref, op, vrg, vgr, match>>
    /\ WritesIntent => UNCHANGED <<main, tmp, ref, op, rs, rd, mover, app, dirty, match>>
    /\ WritesClaims => UNCHANGED <<rs, rd, mover, app, dirty, vrg, vgr>>
    /\ WritesOther \/ (\E object \in behind : CatchUp(object)) =>
         UNCHANGED <<main, tmp, ref, op, rs, rd, mover, app, dirty, match, vrg, vgr, pass>>
<1> USE DEF cluster, replication, data, intent, place
<1>1. ASSUME \/ PauseSource \/ EndPause \/ WriteSource \/ FindInUse \/ HoldBack
             \/ TriggerFinalSync \/ DropSource
      PROVE  UNCHANGED <<main, tmp, ref, op, vrg, vgr, match>>
  <2>1. CASE PauseSource \/ EndPause \/ WriteSource
    BY <2>1 DEF PauseSource, EndPause, WriteSource
  <2>2. CASE FindInUse
    BY <2>2 DEF FindInUse
  <2>3. CASE HoldBack \/ DropSource
    BY <2>3 DEF HoldBack, DropSource
  <2>4. CASE TriggerFinalSync
    <3>1. UNCHANGED <<cluster, op, intent, match>>
      BY <2>4, Zenon DEF TriggerFinalSync
    <3>2. QED
      BY <3>1
  <2>5. QED
    BY <1>1, <2>1, <2>2, <2>3, <2>4
<1>2. ASSUME DropDestination \/ CreateDestination
      PROVE  UNCHANGED <<main, tmp, ref, op, vrg, vgr, match>>
  BY <1>2 DEF DropDestination, CreateDestination
<1>3. ASSUME NEW v \in Volumes, \/ EndSync(v) \/ GiveAddress(v) \/ Write(v) \/ StartSync(v)
                                \/ StopApp(v) \/ StartApp(v) \/ OtherPauses(v)
      PROVE  UNCHANGED <<main, tmp, ref, op, vrg, vgr, match>>
  BY <1>3 DEF EndSync, GiveAddress, Write, StartSync, StopApp, StartApp, OtherPauses
<1>4. ASSUME WritesIntent
      PROVE  UNCHANGED <<main, tmp, ref, op, rs, rd, mover, app, dirty, match>>
  BY <1>4 DEF WritesIntent, EndProtect, EndDemote, Relocate, Demote, Return, Promote
<1>5. ASSUME WritesClaims PROVE UNCHANGED <<rs, rd, mover, app, dirty, vrg, vgr>>
  <2>1. CASE \/ GuardSource \/ ForgetLostTmp \/ ParkTerminating \/ RestoreTmp
             \/ ForgetLost \/ ParkDemoted \/ GuardDestination
    BY <2>1 DEF GuardSource, ForgetLostTmp, ParkTerminating, RestoreTmp,
                ForgetLost, ParkDemoted, GuardDestination
  <2>2. CASE Handover \/ FailHandover
    BY <2>2 DEF Handover, FailHandover
  <2>3. CASE \E v \in Volumes : DeleteClaim(v) \/ BindOrLose(v) \/ Unprotect(v)
    BY <2>3 DEF DeleteClaim, BindOrLose, Unprotect
  <2>4. QED
    BY <1>5, <2>1, <2>2, <2>3 DEF WritesClaims
<1>6. ASSUME WritesOther \/ \E object \in behind : CatchUp(object)
      PROVE  UNCHANGED <<main, tmp, ref, op, rs, rd, mover, app, dirty, match, vrg, vgr, pass>>
  BY <1>6 DEF WritesOther, OtherRelocate, OtherSynced, OtherDemoted, OtherReturn, OtherMoves,
              CatchUp
<1>7. QED
  BY <1>1, <1>2, <1>3, <1>4, <1>5, <1>6
     DEF WritesRs, WritesRd, WritesMover, WritesApp, WritesDirty
=============================================================================
