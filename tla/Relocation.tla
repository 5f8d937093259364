------------------------------ MODULE Relocation ------------------------------
(***************************************************************************)
(* The operator on the cluster an application relocates away from, and     *)
(* back to: the reconcile passes of PrimaryReconciler, SecondaryReconciler *)
(* and FinalSyncHandler over the volumes of one VolumeGroupReplication,    *)
(* with Ramen's VRG, the application, VolSync and Kubernetes around them.  *)
(*                                                                         *)
(* The passes call the procedures of PVCHandover, one Kubernetes write per *)
(* step, so a pass may be overtaken by any of the others between two       *)
(* writes, and may end before any of them.  There is one worker, so passes *)
(* do not overlap.  A pass reads the VRG, the sources and the destinations *)
(* from the manager's cache, which may be behind the API server.           *)
(***************************************************************************)
EXTENDS FiniteSets

CONSTANTS
    Volumes,      \* the application PVCs the VGR's selector matches at first
    NoVolume,     \* op.vol while no handover procedure runs
    FaultSteps,   \* the handover steps that may fail
    PassFaults,   \* "write": a pass may end before any other write;
                  \* "readVRG": ShouldRunFinalSync may fail to read the VRG;
                  \* "listVRG": checkVRGConflict may fail to list the VRGs;
                  \* "lagRS", "lagRD", "lagVRG": the cache may be behind the API server,
                  \* on the sources, on the destinations, on the VRG
    EagerDelete,  \* TRUE: the user may delete a claim at any time
    VRGPlaces,    \* the values of near to start from
    Others,       \* the values of other to start from
    Cancel,       \* TRUE: Ramen may take a relocation back before it is done
    Rounds,       \* TRUE: the application returns after a relocation
    SelectorKept  \* TRUE: the VGR's selector asks for labels a restored PVC keeps

ASSUME PassFaultsAssumption ==
    PassFaults \subseteq {"write", "readVRG", "listVRG", "lagRS", "lagRD", "lagVRG"}
ASSUME VRGPlacesAssumption == VRGPlaces \subseteq BOOLEAN
ASSUME OthersAssumption == Others \subseteq {"none", "replicating"}
ASSUME SwitchesAssumption == Cancel \in BOOLEAN /\ Rounds \in BOOLEAN /\ SelectorKept \in BOOLEAN

VARIABLES
    main, tmp, ref, op,   \* the claims, the PVs and the procedure, as in PVCHandover
    rs,      \* rs[v]: the ReplicationSource of v
    rd,      \* rd[v]: the ReplicationDestination of v
    mover,   \* mover[v]: VolSync's data mover for rs[v]
    app,     \* app[v]: a pod of the application uses the main claim
    dirty,   \* dirty[v]: v holds writes that no completed sync has copied
    match,   \* match[v][k]: the labels of that claim, if it exists, match the selector
    vrg,     \* Ramen's intent: "primary", or "relocate" (Relocate and Secondary)
    behind,  \* what the manager's cache does not show yet: sources, destinations, the VRG
    near,    \* the VRG lives in the namespace of the VGR
    other,   \* another group in the namespace of the VGR, its VRG beside this one's:
             \* "replicating"; "relocating", its VRG Secondary; "synced", its final
             \* syncs done; "away", its sources gone; "back", replicating again
    vgr,     \* the VGR: spec.replicationState and status.state
    pass,    \* the reconcile pass in progress
    wake     \* a reconcile request is queued or scheduled

cluster == <<main, tmp, ref>>
replication == <<rs, rd, mover, behind>>
data == <<app, dirty, match>>
place == <<near, other>>
intent == <<vrg, vgr, place>>
vars == <<cluster, op, replication, data, intent, pass, wake>>

H == INSTANCE PVCHandover

ASSUME HandoverAssumption ==
    NoVolume \notin Volumes /\ FaultSteps \subseteq H!Steps /\ EagerDelete \in BOOLEAN

-----------------------------------------------------------------------------
(* Types *)

Items == Volumes \X H!Kinds   \* PVCs as a list returns them

NoSource == [exists |-> FALSE, paused |-> FALSE, source |-> "main",
             trigger |-> "schedule", last |-> "none"]
Scheduled == [NoSource EXCEPT !.exists = TRUE]

Stages == {"none", "pause", "protect", "park", "trigger", "restore", "demote"}
NoPass == [at |-> "none", list |-> {}, lost |-> {}, todo |-> {}, cur |-> {},
           did |-> "nothing", ok |-> TRUE, gate |-> FALSE, stale |-> FALSE]

\* What the cache may miss: a source or a destination made since, a change of the VRG.
VRGObject == <<"vrg", NoVolume>>
Unseen ==
    {o \in ({"rs", "rd"} \X Volumes) \cup {VRGObject} :
        \/ o[1] = "rs" /\ "lagRS" \in PassFaults
        \/ o[1] = "rd" /\ "lagRD" \in PassFaults
        \/ o[1] = "vrg" /\ "lagVRG" \in PassFaults}

TypeOK ==
    /\ H!TypeOK
    /\ rs \in [Volumes -> [exists: BOOLEAN, paused: BOOLEAN, source: H!Kinds,
                           trigger: {"schedule", "final"}, last: {"none", "final"}]]
    /\ rd \in [Volumes -> {"none", "created", "ready"}]
    /\ mover \in [Volumes -> [on: H!Kinds \cup {"none"}, torn: BOOLEAN]]
    /\ app \in [Volumes -> BOOLEAN] /\ dirty \in [Volumes -> BOOLEAN]
    /\ match \in [Volumes -> [H!Kinds -> BOOLEAN]]
    /\ vrg \in {"primary", "relocate"} /\ near \in VRGPlaces
    /\ other \in {"none", "replicating", "relocating", "synced", "away", "back"}
    /\ vgr \in [spec: {"primary", "secondary"}, status: {"primary", "secondary"}]
    /\ pass \in [at: Stages, list: SUBSET Items, lost: SUBSET Items,
                 todo: SUBSET Items, cur: SUBSET Items,
                 did: {"nothing", "cleared", "written"}, ok: BOOLEAN, gate: BOOLEAN, stale: BOOLEAN]
    /\ wake \in BOOLEAN /\ behind \subseteq Unseen

Claim(i) == IF i[2] = "main" THEN main[i[1]] ELSE tmp[i[1]]
Stopped == [on |-> "none", torn |-> FALSE]

\* Mutant of InUse: only VolSync's pods are looked for.
InUseByVolSync(v) == mover[v].on = "main"

\* isPVCInUse, for the main claim: a pod of the application or of VolSync.
InUse(v) == app[v] \/ mover[v].on = "main"

\* What the cache shows.
VRGSeen == IF VRGObject \notin behind THEN vrg
           ELSE IF vrg = "primary" THEN "relocate" ELSE "primary"
SourceSeen(v) == rs[v].exists /\ <<"rs", v>> \notin behind
DestinationSeen(v) == rd[v] # "none" /\ <<"rd", v>> \notin behind

\* The VRG of the other group is Secondary, its ReplicationSources are in the way.
OtherSecondary == other \in {"relocating", "synced", "away"}
OtherUnsynced == other \in {"replicating", "relocating", "back"}

\* checkVRGConflict: the VGR is to be primary, and any VRG in the namespace of the
\* VGR is already Secondary, be it its own or another group's.
VRGConflict == near /\ (VRGSeen = "relocate" \/ OtherSecondary)

\* Mutant of FinalSyncWanted: the VGR's spec is compared instead of its status.
FinalSyncWantedBySpec == VRGSeen = "relocate" /\ vgr.spec # "secondary"

\* ShouldRunFinalSync, when the VRG can be read: from the cache.
FinalSyncWanted == VRGSeen = "relocate" /\ vgr.status # "secondary"

\* Mutants of AllFinalSyncsComplete: a final sync that was asked for counts as
\* complete; one complete source is enough.
AllFinalSyncsTriggered == \A v \in Volumes : SourceSeen(v) => rs[v].trigger = "final"
AnyFinalSyncComplete ==
    (\E v \in Volumes : SourceSeen(v)) =>
        \E v \in Volumes : SourceSeen(v) /\ rs[v].last = "final"

\* AreAllRSFinalSyncsComplete asks it of every ReplicationSource in the namespace,
\* those of other VGRs too: true when there is none at all.
OwnComplete == \A v \in Volumes : SourceSeen(v) => rs[v].last = "final"
AllFinalSyncsComplete == OwnComplete /\ ~OtherUnsynced

\* A group replicating from this cluster, as a completed primary pass leaves it.
Init ==
    /\ H!Init
    /\ rs = [v \in Volumes |-> Scheduled]
    /\ rd = [v \in Volumes |-> "none"]
    /\ mover = [v \in Volumes |-> Stopped]
    /\ app = [v \in Volumes |-> TRUE]
    /\ dirty = [v \in Volumes |-> FALSE]
    /\ match = [v \in Volumes |-> [k \in H!Kinds |-> TRUE]]
    /\ vrg = "primary" /\ near \in VRGPlaces /\ other \in Others
    /\ vgr = [spec |-> "primary", status |-> "primary"]
    /\ pass = NoPass
    /\ wake = TRUE
    /\ behind = {}

-----------------------------------------------------------------------------
(* Starting and ending a pass *)

Running(stage) == pass.at = stage /\ op.pc = "idle"

EndPass(again) == pass' = NoPass /\ wake' = (wake \/ again)

\* The pass goes on to the stage `to` over the items `work`.
GoTo(to, work) == pass' = [pass EXCEPT !.at = to, !.todo = work, !.ok = TRUE]

Done(i) == pass' = [pass EXCEPT !.todo = @ \ {i}, !.cur = {}, !.did = "nothing"]
DoneNot(i) ==
    pass' = [pass EXCEPT !.todo = @ \ {i}, !.cur = {}, !.did = "nothing", !.ok = FALSE]

\* ReconcileRS and ReconcileRD ask once whether the PVC is terminating, and then
\* make their calls one after the other: pass.cur holds the item past that
\* question, pass.did says how far they have come.
Free(i) == i \in pass.todo /\ pass.cur = {}
TakeUp(i) == pass' = [pass EXCEPT !.cur = {i}]
Go(did) == pass' = [pass EXCEPT !.did = did]

\* The cache need not show an object at once that has been created or changed.
Changed(object) == \E late \in SUBSET ({object} \cap Unseen) : behind' = behind \cup late

\* The PVCs that the selector lists.
Listed == {i \in Items : H!Exists(Claim(i)) /\ match[i[1]][i[2]]}
MainItems == {i \in pass.list : i[2] = "main"}

Begin(to, gate, work) ==
    pass' = [at |-> to, list |-> Listed, todo |-> work, cur |-> {}, did |-> "nothing",
             ok |-> TRUE, gate |-> gate, stale |-> FALSE, lost |-> {i \in Listed : Claim(i).phase = "lost"}]

\* The pass keeps the VGR it read: spec, and the status that ShouldRunFinalSync
\* compares; pass.stale says that the VGR has changed since.

\* Mutant of StartPrimary: Reconcile dispatches on the VGR's status.
StartPrimaryByStatus ==
    /\ Running("none") /\ wake /\ vgr.spec = "primary" /\ vgr.status = "primary"
    /\ IF VRGConflict
       THEN Begin("pause", FALSE,
                  {<<v, "main">> : v \in {u \in Volumes : SourceSeen(u) /\ ~rs[u].paused}})
       ELSE Begin("protect", FALSE, {i \in Listed : i[2] = "main"})
    /\ wake' = FALSE
    /\ UNCHANGED <<cluster, op, replication, data, intent>>

\* PrimaryReconciler.Reconcile: checkVRGConflict, then the list of PVCs; with
\* none listed it only asks for another pass.  When the VRGs cannot be listed it
\* goes on without the check.
StartPrimary ==
    /\ Running("none") /\ wake /\ vgr.spec = "primary"
    /\ \/ /\ VRGConflict
          /\ Begin("pause", FALSE,
                   {<<v, "main">> : v \in {u \in Volumes : SourceSeen(u) /\ ~rs[u].paused}})
       \/ /\ ~VRGConflict \/ "listVRG" \in PassFaults
          /\ Listed # {}
          /\ Begin("protect", FALSE, {i \in Listed : i[2] = "main"})
    /\ wake' = FALSE
    /\ UNCHANGED <<cluster, op, replication, data, intent>>

\* SecondaryReconciler.Reconcile up to the choice handleFinalSync makes; with no
\* PVC listed it only asks for another pass.  ProcessFinalSync reads the VRG once
\* more, and takes a failure to read it for a completed final sync.
StartSecondary ==
    /\ Running("none") /\ wake /\ vgr.spec = "secondary"
    /\ Listed # {}
    /\ \/ /\ ~FinalSyncWanted \/ "readVRG" \in PassFaults
          /\ Begin("restore", FALSE, Listed)
       \/ /\ FinalSyncWanted
          /\ AllFinalSyncsComplete \/ "readVRG" \in PassFaults
          /\ Begin("restore", TRUE, Listed)
       \/ /\ FinalSyncWanted /\ ~AllFinalSyncsComplete
          /\ Begin("park", TRUE, Listed)
    /\ wake' = FALSE
    /\ UNCHANGED <<cluster, op, replication, data, intent>>

-----------------------------------------------------------------------------
(* The primary pass *)

\* A job that is deleted may leave its pod to end by itself; a pod that is deleted
\* may be started again by its job.
JobDeleted(v) == {mover[v], Stopped}
PodDeleted(v) == {[mover[v] EXCEPT !.torn = FALSE], Stopped}

\* pauseAllReplicationSources: pause one source, then delete its job.  If the pass
\* ends between the two, the next finds the source paused and leaves the job alone.
PauseSource ==
    \E i \in pass.todo : \E m \in JobDeleted(i[1]) :
        /\ Running("pause")
        /\ rs' = [rs EXCEPT ![i[1]].paused = TRUE]
        /\ mover' = [mover EXCEPT ![i[1]] = m]
        /\ Done(i)
        /\ UNCHANGED <<cluster, op, rd, behind, data, intent, wake>>

\* ... then VolSync's pods are deleted, and the pass ends without a requeue.
EndPause ==
    /\ Running("pause") /\ pass.todo = {}
    /\ \E gone \in SUBSET Volumes :
         mover' = [v \in Volumes |-> IF v \in gone THEN Stopped
                                    ELSE [mover[v] EXCEPT !.torn = FALSE]]
    /\ EndPass(pass.stale)
    /\ UNCHANGED <<cluster, op, rs, rd, behind, data, intent>>

\* ReconcileRS skips a terminating PVC.
SkipTerminating ==
    \E i \in pass.todo :
        /\ Running("protect") /\ Free(i)
        /\ Claim(i).deleting
        /\ Done(i)
        /\ UNCHANGED <<cluster, op, replication, data, intent, wake>>

TakeSource ==
    \E i \in pass.todo :
        /\ Running("protect") /\ Free(i)
        /\ ~Claim(i).deleting
        /\ TakeUp(i)
        /\ UNCHANGED <<cluster, op, replication, data, intent, wake>>

\* Mutant of DropDestination: it is not looked for beside a source.
DropDestinationOnce ==
    \E i \in pass.cur : LET v == i[1] IN
        /\ Running("protect") /\ pass.did = "nothing"
        /\ rd' = IF DestinationSeen(v) /\ ~rs[v].exists THEN [rd EXCEPT ![v] = "none"] ELSE rd
        /\ Go("cleared")
        /\ UNCHANGED <<cluster, op, rs, mover, behind, data, intent, wake>>

\* DeleteRD before anything else: a destination the cache does not show is taken
\* for absent.
DropDestination ==
    \E i \in pass.cur : LET v == i[1] IN
        /\ Running("protect") /\ pass.did = "nothing"
        /\ rd' = IF DestinationSeen(v) THEN [rd EXCEPT ![v] = "none"] ELSE rd
        /\ Go("cleared")
        /\ UNCHANGED <<cluster, op, rs, mover, behind, data, intent, wake>>

\* Mutant of WriteSource: a new source starts paused.
WriteSourcePaused ==
    \E i \in pass.cur : LET v == i[1] IN
        /\ Running("protect") /\ pass.did = "cleared"
        /\ ~rs[v].exists
        /\ rs' = [rs EXCEPT ![v] = [Scheduled EXCEPT !.paused = TRUE]]
        /\ Changed(<<"rs", v>>)
        /\ Go("written")
        /\ UNCHANGED <<cluster, op, rd, mover, data, intent, wake>>

\* createOrUpdateRS: source and trigger are set, spec.paused is left alone.  When
\* the cache does not show a source that exists, the Create fails (see FailPass).
WriteSource ==
    \E i \in pass.cur : LET v == i[1] IN
        /\ Running("protect") /\ pass.did = "cleared"
        /\ \/ /\ SourceSeen(v)
              /\ rs' = [rs EXCEPT ![v].source = "main", ![v].trigger = "schedule"]
              /\ UNCHANGED behind
           \/ /\ ~rs[v].exists
              /\ rs' = [rs EXCEPT ![v] = Scheduled]
              /\ Changed(<<"rs", v>>)
        /\ Go("written")
        /\ UNCHANGED <<cluster, op, rd, mover, data, intent, wake>>

\* The source is in place; addFinalizerToPVC, and on to the next PVC.
GuardSource ==
    \E i \in pass.cur : LET v == i[1] IN
        /\ Running("protect") /\ pass.did = "written"
        /\ IF H!Exists(main[v]) /\ "mock" \notin main[v].holds
           THEN H!AddGuard(v) ELSE UNCHANGED <<cluster, op>>
        /\ Done(i)
        /\ UNCHANGED <<replication, data, intent, wake>>

\* updateStatus: the group is reported as primary and replicating; the write
\* fails if the VGR has changed since the pass read it.
EndProtect ==
    /\ Running("protect") /\ pass.todo = {}
    /\ vgr' = IF pass.stale THEN vgr ELSE [vgr EXCEPT !.status = "primary"]
    /\ EndPass(TRUE)
    /\ UNCHANGED <<cluster, op, replication, data, vrg, place>>

-----------------------------------------------------------------------------
(* The secondary pass: final sync *)

\* handleLostTemporaryPVC on a claim that was Lost when it was listed; if it has
\* changed since, the Update fails and the pass with it (see FailPass).
ForgetLostTmp ==
    \E i \in pass.todo \cap pass.lost :
        /\ Running("park")
        /\ i[2] = "tmp"
        /\ H!ForgetBinding(i[1], tmp, main)
        /\ Done(i)
        /\ UNCHANGED <<replication, data, intent, wake>>

SkipTmp ==
    \E i \in pass.todo \ pass.lost :
        /\ Running("park")
        /\ i[2] = "tmp"
        /\ Done(i)
        /\ UNCHANGED <<cluster, op, replication, data, intent, wake>>

\* A new temporary claim takes all the labels of the application's claim.
LabelTmp(v) ==
    match' = [match EXCEPT ![v]["tmp"] = IF H!Exists(tmp[v]) THEN @ ELSE match[v]["main"]]

\* handleTerminatingPVC: the rest of CreateTemporaryPVCFromTerminating follows.
ParkTerminating ==
    \E i \in pass.todo :
        /\ Running("park")
        /\ i[2] = "main"
        /\ H!EnsureTmp(i[1], FALSE)
        /\ LabelTmp(i[1])
        /\ Done(i)
        /\ UNCHANGED <<replication, app, dirty, intent, wake>>

NotTerminating ==
    \E i \in pass.todo :
        /\ Running("park")
        /\ i[2] = "main"
        /\ ~main[i[1]].deleting
        /\ DoneNot(i)
        /\ UNCHANGED <<cluster, op, replication, data, intent, wake>>

\* Every listed PVC must be terminating before any final sync is triggered.
EndPark ==
    /\ Running("park") /\ pass.todo = {}
    /\ IF pass.ok THEN GoTo("trigger", MainItems) /\ UNCHANGED wake
                  ELSE EndPass(TRUE)
    /\ UNCHANGED <<cluster, op, replication, data, intent>>

\* isPVCInUse looks at the first pod it finds on the main claim: if it is VolSync's
\* it is deleted, and the claim counts as in use all the same.
FindInUse ==
    \E i \in pass.todo : LET v == i[1] IN
        /\ Running("trigger") /\ Free(i)
        /\ H!Exists(tmp[v])
        /\ \/ /\ app[v]
              /\ UNCHANGED mover
           \/ /\ mover[v].on = "main"
              /\ \E m \in PodDeleted(v) : mover' = [mover EXCEPT ![v] = m]
        /\ TakeUp(i)
        /\ UNCHANGED <<cluster, op, rs, rd, behind, data, intent, wake>>

\* ... then pauseReplicationSource, which deletes the job of a source it has just
\* paused, and leaves one that is paused already alone; the pass ends with an error.
HoldBack ==
    \E i \in pass.cur : LET v == i[1] IN
        /\ Running("trigger")
        /\ SourceSeen(v)
        /\ rs' = [rs EXCEPT ![v].paused = TRUE]
        /\ \E m \in IF rs[v].paused THEN {mover[v]} ELSE JobDeleted(v) :
             mover' = [mover EXCEPT ![v] = m]
        /\ EndPass(TRUE)
        /\ UNCHANGED <<cluster, op, rd, behind, data, intent>>

\* triggerFinalSyncForPVC: sync once more, from the temporary claim.
TriggerFinalSync ==
    \E i \in pass.todo : LET v == i[1] IN
        /\ Running("trigger") /\ Free(i)
        /\ H!Exists(tmp[v])
        /\ ~InUse(v)
        /\ SourceSeen(v)
        /\ rs' = [rs EXCEPT ![v].paused = FALSE, ![v].source = "tmp", ![v].trigger = "final"]
        /\ IF rs[v].last = "final" THEN Done(i) ELSE DoneNot(i)
        /\ UNCHANGED <<cluster, op, rd, mover, behind, data, intent, wake>>

\* HasTemporaryPVC is false: the PVC is passed over, and not counted as complete.
NoTmp ==
    \E i \in pass.todo :
        /\ Running("trigger") /\ Free(i)
        /\ ~H!Exists(tmp[i[1]])
        /\ DoneNot(i)
        /\ UNCHANGED <<cluster, op, replication, data, intent, wake>>

\* Mutant of EndTrigger: no requeue while the final sync is in progress.
EndTriggerUnscheduled ==
    /\ Running("trigger") /\ pass.todo = {}
    /\ IF pass.ok THEN GoTo("restore", pass.list) /\ wake' = TRUE
                  ELSE EndPass(FALSE)
    /\ UNCHANGED <<cluster, op, replication, data, intent>>

\* ProcessFinalSync and UpdateFinalSyncStatus set conditions with the time of day;
\* their update is an event in itself.
EndTrigger ==
    /\ Running("trigger") /\ pass.todo = {}
    /\ IF pass.ok THEN GoTo("restore", pass.list) /\ wake' = TRUE
                  ELSE EndPass(TRUE)
    /\ UNCHANGED <<cluster, op, replication, data, intent>>

-----------------------------------------------------------------------------
(* The secondary pass: restore and demotion *)

\* While the application's claim is terminating its labels are copied once more.
RelabelTmp(v) == match' = [match EXCEPT ![v]["tmp"] = match[v]["main"]]

\* A claim created anew keeps only the owner labels and the consistency group.
LabelRestored(v) ==
    match' = [match EXCEPT ![v]["main"] =
                 IF H!Exists(main[v]) THEN @ ELSE match[v]["tmp"] /\ SelectorKept]

\* restoreTemporaryPVCs: the temporary claim of this PVC, or of the one it is
\* named after, is restored; ClearMain ends the pass with an error.
RestoreTmp ==
    \E i \in pass.todo :
        /\ Running("restore")
        /\ \/ H!RestoreWaits(i[1]) /\ RelabelTmp(i[1])
           \/ H!RestoreMain(i[1]) /\ LabelRestored(i[1])
        /\ Done(i)
        /\ UNCHANGED <<replication, app, dirty, intent, wake>>

NothingToRestore ==
    \E i \in pass.todo :
        /\ Running("restore")
        /\ ~H!Exists(tmp[i[1]])
        /\ Done(i)
        /\ UNCHANGED <<cluster, op, replication, data, intent, wake>>

\* Reconcile asks again whether the final syncs are complete; if not it returns
\* without a requeue.
EndRestore ==
    /\ Running("restore") /\ pass.todo = {}
    /\ IF pass.gate /\ ~AllFinalSyncsComplete
       THEN EndPass(pass.stale)
       ELSE GoTo("demote", pass.list) /\ UNCHANGED wake
    /\ UNCHANGED <<cluster, op, replication, data, intent>>

\* handleLostPVC, and the pass returns an error.
ForgetLost ==
    \E i \in pass.todo \cap pass.lost :
        /\ Running("demote") /\ Free(i)
        /\ IF i[2] = "main" THEN H!ForgetBinding(i[1], main, tmp)
                           ELSE H!ForgetBinding(i[1], tmp, main)
        /\ EndPass(TRUE)
        /\ UNCHANGED <<replication, data, intent>>

\* ReconcileRD of a temporary PVC only looks for a source of that name.
TmpNotReady ==
    \E i \in pass.todo \ pass.lost :
        /\ Running("demote") /\ Free(i)
        /\ i[2] = "tmp"
        /\ DoneNot(i)
        /\ UNCHANGED <<cluster, op, replication, data, intent, wake>>

\* ReconcileRD of a terminating PVC: park its volume and let go of it.
ParkDemoted ==
    \E i \in pass.todo \ pass.lost :
        /\ Running("demote") /\ Free(i)
        /\ i[2] = "main"
        /\ H!EnsureTmp(i[1], TRUE)
        /\ LabelTmp(i[1])
        /\ DoneNot(i)
        /\ UNCHANGED <<replication, app, dirty, intent, wake>>

TakeDestination ==
    \E i \in pass.todo \ pass.lost :
        /\ Running("demote") /\ Free(i)
        /\ i[2] = "main"
        /\ H!Exists(Claim(i)) /\ ~Claim(i).deleting
        /\ TakeUp(i)
        /\ UNCHANGED <<cluster, op, replication, data, intent, wake>>

\* DeleteRS, before the destination is created; VolSync's mover goes with it.  A
\* source the cache does not show is taken for absent.
DropSource ==
    \E i \in pass.cur : LET v == i[1] IN
        /\ Running("demote") /\ pass.did = "nothing"
        /\ IF SourceSeen(v)
           THEN /\ rs' = [rs EXCEPT ![v] = NoSource]
                /\ mover' = [mover EXCEPT ![v] = Stopped]
           ELSE UNCHANGED <<rs, mover>>
        /\ Go("cleared")
        /\ UNCHANGED <<cluster, op, rd, behind, data, intent, wake>>

\* createOrUpdateRD, whatever has become of the source.  When the cache does not
\* show a destination that exists, the Create fails (see FailPass).
CreateDestination ==
    \E i \in pass.cur : LET v == i[1] IN
        /\ Running("demote") /\ pass.did = "cleared"
        /\ \/ /\ DestinationSeen(v)
              /\ UNCHANGED <<rd, behind>>
           \/ /\ rd[v] = "none"
              /\ rd' = [rd EXCEPT ![v] = "created"]
              /\ Changed(<<"rd", v>>)
        /\ Go("written")
        /\ UNCHANGED <<cluster, op, rs, mover, data, intent, wake>>

\* The destination is in place; addFinalizerToPVC, and on to the next PVC.  It
\* is ready once VolSync has given it an address.
GuardDestination ==
    \E i \in pass.cur : LET v == i[1] IN
        /\ Running("demote") /\ pass.did = "written"
        /\ IF H!Exists(main[v]) /\ "mock" \notin main[v].holds
           THEN H!AddGuard(v) ELSE UNCHANGED <<cluster, op>>
        /\ IF rd[v] = "ready" THEN Done(i) ELSE DoneNot(i)
        /\ UNCHANGED <<replication, data, intent, wake>>

\* Mutant of EndDemote: it does not wait for every destination.
EndDemoteEarly ==
    /\ Running("demote") /\ pass.todo = {}
    /\ vgr' = IF pass.stale THEN vgr ELSE [vgr EXCEPT !.status = "secondary"]
    /\ EndPass(TRUE)
    /\ UNCHANGED <<cluster, op, replication, data, vrg, place>>

\* updateStatus: secondary once every destination is ready.
EndDemote ==
    /\ Running("demote") /\ pass.todo = {}
    /\ vgr' = IF pass.ok /\ ~pass.stale
              THEN [vgr EXCEPT !.status = "secondary"] ELSE vgr
    /\ EndPass(TRUE)
    /\ UNCHANGED <<cluster, op, replication, data, vrg, place>>

-----------------------------------------------------------------------------
(* The handover procedures within a pass *)

\* A procedure in progress goes on; RestorePVCFromTemporary that has stripped the
\* main claim returns an error, and the pass ends.
Handover ==
    /\ \E v \in Volumes :
         \/ /\ H!RepointTmp(v) \/ H!Unguard(v) \/ H!RepointMain(v) \/ H!DeleteTmp(v)
            /\ UNCHANGED <<pass, wake>>
         \/ /\ H!ClearMain(v)
            /\ EndPass(TRUE)
    /\ UNCHANGED <<replication, data, intent>>

\* A handover step fails, or the operator crashes, and the pass ends.
FailHandover ==
    /\ H!Abort
    /\ EndPass(TRUE)
    /\ UNCHANGED <<replication, data, intent>>

\* What the pass read is out of date and its next call cannot succeed: an item
\* listed as Lost has changed, a listed PVC is gone, a source is missing, an object
\* is to be created that the cache does not show, or the finalizer is to be added
\* to a PVC that has meanwhile been deleted.
Outdated(i) ==
    \/ pass.at \in {"park", "demote"} /\ i \in pass.lost /\ Claim(i).phase # "lost"
    \/ pass.at = "demote" /\ i[2] = "main" /\ ~H!Exists(Claim(i))
    \/ i \in pass.cur /\ Claim(i).deleting /\ "mock" \notin Claim(i).holds
    \/ pass.at = "trigger" /\ ~SourceSeen(i[1])
    \/ pass.did = "cleared" /\ {<<"rs", i[1]>>, <<"rd", i[1]>>} \cap behind # {}
    \/ ref[i[1]].claim = "none"

\* Any other write fails, or the operator crashes; with one worker the request
\* is queued again, or the new leader's first list queues it.
FailPass ==
    /\ ~Running("none") /\ op.pc = "idle"
    /\ "write" \in PassFaults \/ \E i \in pass.todo : Outdated(i)
    /\ EndPass(TRUE)
    /\ UNCHANGED <<cluster, op, replication, data, intent>>

-----------------------------------------------------------------------------
(* Ramen and the application *)

\* A change of the VGR's spec is an event, one of the VRG's replication state only if
\* the VRG lives in the namespace of the VGR (vrgToVGRRequests), and once the cache
\* shows it.
NotifyVGR ==
    /\ pass' = IF pass.at # "none" THEN [pass EXCEPT !.stale = TRUE] ELSE pass
    /\ wake' = TRUE

NotifyVRG ==
    /\ IF VRGObject \in behind THEN behind' = behind \ {VRGObject} ELSE Changed(VRGObject)
    /\ wake' = (wake \/ (near /\ VRGObject \notin behind'))

CatchUp(object) ==
    /\ object \in behind
    /\ behind' = behind \ {object}
    /\ wake' = (wake \/ (near /\ object = VRGObject))
    /\ UNCHANGED <<cluster, op, rs, rd, mover, data, intent, pass>>

Relocate ==
    /\ vrg = "primary" /\ vgr = [spec |-> "primary", status |-> "primary"]
    /\ \A v \in Volumes : H!InService(v)
    /\ vrg' = "relocate"
    /\ NotifyVRG
    /\ UNCHANGED <<cluster, op, rs, rd, mover, data, vgr, place, pass>>

Demote ==
    /\ vrg = "relocate" /\ vgr.spec = "primary"
    /\ vgr' = [vgr EXCEPT !.spec = "secondary"]
    /\ NotifyVGR
    /\ UNCHANGED <<cluster, op, replication, data, vrg, place>>

\* The application comes back to this cluster, or its relocation is cancelled.
Return ==
    /\ vrg = "relocate"
    /\ \/ Cancel
       \/ Rounds /\ vgr = [spec |-> "secondary", status |-> "secondary"]
    /\ vrg' = "primary"
    /\ NotifyVRG
    /\ UNCHANGED <<cluster, op, rs, rd, mover, data, vgr, place, pass>>

Promote ==
    /\ vrg = "primary" /\ vgr.spec = "secondary"
    /\ vgr' = [vgr EXCEPT !.spec = "primary"]
    /\ NotifyVGR
    /\ UNCHANGED <<cluster, op, replication, data, vrg, place>>

\* The other group relocates too: its VRG becomes Secondary, its sources complete
\* their final syncs, and they go when its VGR is demoted, which waits for the
\* sources of this one; it comes back.  A change of its VRG is an event for every
\* VGR of the namespace.
OtherMoves(from, to) ==
    /\ other = from /\ other' = to
    /\ UNCHANGED <<cluster, op, replication, data, vrg, near, vgr, pass>>

OtherRelocate ==
    /\ \E from \in {"replicating", "back"} : OtherMoves(from, "relocating")
    /\ wake' = (wake \/ near)
OtherReturn == OtherMoves("away", "back") /\ wake' = (wake \/ near)
OtherSynced == OtherMoves("relocating", "synced") /\ UNCHANGED wake
OtherDemoted == OwnComplete /\ OtherMoves("synced", "away") /\ UNCHANGED wake

\* A primary pass of the other VGR finds a Secondary VRG, its own or this group's,
\* and pauses every source of the namespace, this group's too.
OtherPauses(v) ==
    /\ near /\ (other = "relocating" \/ (other \in {"replicating", "back"} /\ VRGSeen = "relocate"))
    /\ SourceSeen(v)
    /\ rs' = [rs EXCEPT ![v].paused = TRUE]
    /\ \E m \in JobDeleted(v) \cup PodDeleted(v) : mover' = [mover EXCEPT ![v] = m]
    /\ UNCHANGED <<cluster, op, rd, behind, data, intent, pass, wake>>

StopApp(v) ==
    /\ vrg = "relocate" /\ app[v]
    /\ app' = [app EXCEPT ![v] = FALSE]
    /\ UNCHANGED <<cluster, op, replication, dirty, match, intent, pass, wake>>

StartApp(v) ==
    /\ vrg = "primary" /\ vgr = [spec |-> "primary", status |-> "primary"]
    /\ ~app[v] /\ main[v].phase = "bound" /\ ~main[v].deleting
    /\ app' = [app EXCEPT ![v] = TRUE]
    /\ UNCHANGED <<cluster, op, replication, dirty, match, intent, pass, wake>>

\* A running pod keeps the volume mounted whatever becomes of its claim.
Write(v) ==
    /\ app[v]
    /\ dirty' = [dirty EXCEPT ![v] = TRUE]
    /\ mover' = [mover EXCEPT ![v].torn = mover[v].on = "main"]
    /\ UNCHANGED <<cluster, op, rs, rd, behind, app, match, intent, pass, wake>>

\* Without EagerDelete, the application's PVC is deleted once in a relocation,
\* while it is a source.
DeleteClaim(v) ==
    /\ EagerDelete \/ (vrg = "relocate" /\ rs[v].exists)
    /\ H!DeleteMain(v)
    /\ UNCHANGED <<replication, data, intent, pass, wake>>

-----------------------------------------------------------------------------
(* VolSync and Kubernetes *)

\* A data mover starts: its pod needs a bound claim that is not terminating.  A
\* manual trigger asks for one sync.
StartSync(v) ==
    /\ rs[v].exists /\ ~rs[v].paused
    /\ rs[v].trigger = "schedule" \/ rs[v].last # "final"
    /\ mover[v].on = "none"
    /\ LET c == Claim(<<v, rs[v].source>>) IN c.phase = "bound" /\ ~c.deleting
    /\ mover' = [mover EXCEPT ![v] = [on |-> rs[v].source, torn |-> FALSE]]
    /\ UNCHANGED <<cluster, op, rs, rd, behind, data, intent, pass, wake>>

\* Mutant of EndSync: the status takes whatever trigger is in force.
EndSyncAnyTrigger(v) ==
    /\ mover[v].on # "none"
    /\ rs' = [rs EXCEPT ![v].last = rs[v].trigger]
    /\ dirty' = [dirty EXCEPT ![v] = @ /\ mover[v].torn]
    /\ mover' = [mover EXCEPT ![v] = Stopped]
    /\ UNCHANGED <<cluster, op, rd, behind, app, match, intent, pass, wake>>

\* It completes: what it copied is what it found when it started, and
\* status.lastManualSync takes the tag of the trigger in force.
EndSync(v) ==
    /\ mover[v].on # "none"
    /\ rs' = [rs EXCEPT ![v].last = IF rs[v].trigger = "final" THEN "final" ELSE "none"]
    /\ dirty' = [dirty EXCEPT ![v] = @ /\ mover[v].torn]
    /\ mover' = [mover EXCEPT ![v] = Stopped]
    /\ UNCHANGED <<cluster, op, rd, behind, app, match, intent, pass, wake>>

GiveAddress(v) ==
    /\ rd[v] = "created"
    /\ rd' = [rd EXCEPT ![v] = "ready"]
    /\ UNCHANGED <<cluster, op, rs, mover, behind, data, intent, pass, wake>>

\* The PV controller, and the PVC-protection controller once no pod is left.
BindOrLose(v) ==
    /\ \/ H!Bind(v, "main", main, tmp)
       \/ H!Bind(v, "tmp", tmp, main)
       \/ H!Lose(v, "main", main, tmp)
       \/ H!Lose(v, "tmp", tmp, main)
       \/ H!Reclaim(v)
    /\ UNCHANGED <<replication, data, intent, pass, wake>>

Unprotect(v) ==
    /\ \/ ~InUse(v) /\ H!Unprotect(v, "main", main, tmp)
       \/ mover[v].on # "tmp" /\ H!Unprotect(v, "tmp", tmp, main)
    /\ UNCHANGED <<replication, data, intent, pass, wake>>

-----------------------------------------------------------------------------
Primary ==
    \/ StartPrimary \/ PauseSource \/ EndPause
    \/ SkipTerminating \/ TakeSource \/ DropDestination \/ WriteSource \/ GuardSource \/ EndProtect

Secondary ==
    \/ StartSecondary
    \/ ForgetLostTmp \/ SkipTmp \/ ParkTerminating \/ NotTerminating \/ EndPark
    \/ FindInUse \/ HoldBack \/ TriggerFinalSync \/ NoTmp \/ EndTrigger
    \/ RestoreTmp \/ NothingToRestore \/ EndRestore
    \/ ForgetLost \/ TmpNotReady \/ ParkDemoted
    \/ TakeDestination \/ DropSource \/ CreateDestination \/ GuardDestination \/ EndDemote

Operator == Primary \/ Secondary \/ Handover

Environment ==
    \/ Relocate \/ Demote \/ Return \/ Promote
    \/ OtherRelocate \/ OtherSynced \/ OtherDemoted \/ OtherReturn
    \/ \E object \in behind : CatchUp(object)
    \/ \E v \in Volumes :
         \/ StopApp(v) \/ StartApp(v) \/ Write(v) \/ DeleteClaim(v)
         \/ StartSync(v) \/ EndSync(v) \/ GiveAddress(v)
         \/ BindOrLose(v) \/ Unprotect(v) \/ OtherPauses(v)

Next == Operator \/ FailHandover \/ FailPass \/ Environment

Spec == Init /\ [][Next]_vars

\* The work queue hands every request to the worker and a pass runs to its end;
\* Ramen, the application, VolSync and Kubernetes do what they have begun.
Fairness ==
    /\ WF_vars(Operator) /\ WF_vars(FailHandover) /\ WF_vars(FailPass)
    /\ WF_vars(Demote) /\ WF_vars(Promote)
    /\ WF_vars(OtherSynced) /\ WF_vars(OtherDemoted)
    /\ \A object \in Unseen : WF_vars(CatchUp(object))
    /\ \A v \in Volumes :
         /\ WF_vars(StopApp(v)) /\ WF_vars(DeleteClaim(v))
         /\ WF_vars(StartSync(v)) /\ WF_vars(EndSync(v)) /\ WF_vars(GiveAddress(v))
         /\ WF_vars(BindOrLose(v)) /\ WF_vars(Unprotect(v))

FairSpec == Spec /\ Fairness

-----------------------------------------------------------------------------
(* Properties *)

\* No write is left behind: once any volume has a ReplicationDestination, which
\* overwrites it, the application has stopped on every volume of the group and a
\* sync has copied the last write of each (handleFinalSync gates
\* reconcileReplicationDestinations).
SyncedBeforeDemotion ==
    (\E v \in Volumes : rd[v] # "none") => \A v \in Volumes : ~app[v] /\ ~dirty[v]

\* When the secondary goes on because "all ReplicationSources ... have completed
\* final sync" (finalsync_handler.go:80), every source has copied its volume since
\* the application last wrote to it, unless the VGR has been promoted meanwhile.
CompleteMeansSynced ==
    pass.gate /\ pass.at = "demote" /\ ~pass.stale =>
        \A v \in Volumes : rs[v].exists => ~dirty[v]

\* RestorePVCFromTemporary takes every finalizer, pvc-protection included, from
\* the terminating claim: by then no pod uses it, its volume is parked, and
\* everything written to it has been copied.
LetGoSafely ==
    op.pc = "clearMain" =>
        ~InUse(op.vol) /\ ~dirty[op.vol] /\ ref[op.vol].claim = "tmp"

\* The final sync copies a volume that has come to rest: VolSync reads it through
\* the temporary claim only after the application has let go of it.
FinalSyncAtRest ==
    \A v \in Volumes : mover[v].on = "tmp" => ~app[v]

\* What status.state Secondary tells Ramen: the application claim is back, owns
\* its volume and is protected, a destination is ready and no source is left.
SecondarySettled ==
    vrg = "relocate" /\ vgr = [spec |-> "secondary", status |-> "secondary"] =>
        \A v \in Volumes :
            /\ H!Exists(main[v]) /\ ~main[v].deleting /\ "mock" \in main[v].holds
            /\ ref[v].claim = "main" /\ ref[v].uid # "gone"
            /\ rd[v] = "ready" /\ ~rs[v].exists

\* Nobody but a pass of this VGR pauses its sources, and no pass misses a Secondary VRG.
Undisturbed == (near => other = "none") /\ "listVRG" \notin PassFaults

\* A primary pass that is about to report "volume group is promoted to primary
\* and replicating to secondary" (primary_reconciler.go:427) has left a source of
\* the application's claim for every claim that is not terminating; VolSync will
\* sync from it, unless a pass of another VGR pauses every source of the namespace
\* (231-240), or the VRGs could not be listed (200-203).
ReportedReplicating ==
    pass.at = "protect" /\ pass.todo = {} =>
        \A v \in Volumes :
            <<v, "main">> \in pass.list /\ ~main[v].deleting =>
                /\ rs[v].exists /\ rs[v].source = "main"
                /\ Undisturbed => ~rs[v].paused

\* The volumes' custody, kept by the passes even when any handover step may fail:
\* a volume is let go of only after its final sync, and that needed the volume
\* to be parked, whichever step of the parking had failed before.
CustodyKept == H!CustodySpec

\* Under every fault, and whatever order the passes and the user take, a volume
\* is orphaned only in the three ways PVCHandover names.
OrphanedOnlyBy == H!OrphanedOnlyBy

\* docs/VGR_CREATION_GUIDE.md:20: "The same PVCs (with matching labels) are
\* discovered automatically" by the secondary.  RestorePVCFromTemporary creates the
\* claim with three labels of its own (handler.go:1105-1115), and a selector by an
\* application label, as in every example of the guide, does not match it again.
SamePVCsDiscovered ==
    vgr.spec = "secondary" =>
        \A v \in Volumes :
            H!Exists(main[v]) /\ ~main[v].deleting => <<v, "main">> \in Listed

\* While the group relocates no source appears in the namespace: the other group does
\* not come back.  Otherwise AreAllRSFinalSyncsComplete may be true before the restores
\* and false after them, and the pass is over without a requeue.
NoneAppears == vrg = "relocate" => other # "back"

\* A relocation that is asked for, and not taken back, completes, unless another
\* group goes on replicating from the namespace, whose sources never complete a
\* final sync (finalsync_handler.go:99).
RelocationCompletes ==
    []NoneAppears =>
        (vrg = "relocate" ~> (vgr.status = "secondary" \/ other = "replicating"))

\* A group that is promoted again is reported as primary, unless a Secondary VRG in
\* its namespace holds it back (primary_reconciler.go:208-222).
PromotionCompletes ==
    vrg = "primary" ~> (vgr.status = "primary" \/ vrg = "relocate" \/ VRGConflict)

\* A pass whose cache hides a source or a destination leaves a volume both source
\* and destination (handler.go:461, 488); later passes see both and keep the one
\* that the VGR asks for, unless a Secondary VRG holds the group back.
OneDirectionAgain ==
    []NoneAppears =>
        \A v \in Volumes :
            (rs[v].exists /\ rd[v] # "none")
                ~> (~rs[v].exists \/ rd[v] = "none" \/ VRGConflict)
==============================================================================
