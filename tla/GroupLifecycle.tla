--------------------------- MODULE GroupLifecycle ---------------------------
(***************************************************************************)
(* The life of VolumeGroupReplications (VGRs) in one cluster: how a pass   *)
(* of the reconciler gives them ReplicationSources, ReplicationDestinations*)
(* and guarded PVCs, and how DeleteReconciler takes these back by label    *)
(* before the VGR may go (volumegroupreplication_controller.go,            *)
(* delete_reconciler.go, volsync/handler.go).                              *)
(*                                                                         *)
(* One worker runs one pass at a time, one action per API call.  It reads  *)
(* through the manager's cache, which may be behind what is stored; users, *)
(* administrators and the controllers of Kubernetes step in between.       *)
(* What a secondary pass does for the final sync and for the temporary     *)
(* PVCs is the subject of modules Relocation and PVCHandover: here such a  *)
(* pass may just end early, and parks the volume of a terminating PVC.     *)
(***************************************************************************)
EXTENDS Naturals

CONSTANTS
    Groups,      \* VGRs, each known by its name and its namespace
    Claims,      \* PVCs that may be replicated
    Names,       \* names of VGRs
    Namespaces,
    None,        \* no group, no claim
    Sites,       \* the clusters considered: what exists in them, and where
    Acts,        \* bound: how often users and administrators act
    Mishaps      \* bound: how many calls may fail, cache updates lag, deletions be revised

ASSUME LifecycleAssumption ==
    /\ None \notin Groups /\ None \notin Claims
    /\ Acts \in Nat /\ Mishaps \in Nat
    /\ \A s \in Sites :
          /\ s.name \in [Groups -> Names]
          /\ s.home \in [Groups -> Namespaces]
          /\ s.place \in [Claims -> Namespaces]
          /\ s.owner \in [Claims -> Groups \cup {None}]
          /\ s.groups \subseteq Groups
          /\ s.claims \subseteq Claims

VARIABLES
    site,        \* the cluster: never changes
    class,       \* the VolumeGroupReplicationClass exists
    vgr,         \* vgr[g]: the group's VGR
    sync,        \* sync[k][p]: whose ReplicationSource or Destination p has
    claim,       \* claim[p]: the PVC
    volume,      \* volume[p]: the PersistentVolume bound to it
    chosen,      \* <<g, p>>: the labels of p match the selector of g
    syncSeen,    \* sync as the cache shows it
    claimSeen,   \* claim as the cache shows it
    pass,        \* the pass the worker is executing
    acts,        \* acts of users that may still happen
    mishaps,     \* mishaps that may still happen
    missed       \* <<what, p>>: overlooked because the cache was behind

stored == <<vgr, sync, claim, volume>>
seen == <<syncSeen, claimSeen>>
vars == <<site, class, stored, chosen, seen, pass, acts, mishaps, missed>>

-----------------------------------------------------------------------------
(* Types *)

Owners == Groups \cup {None}
Kinds == {"rs", "rd"}
States == {"primary", "secondary"}
Phases == {"absent", "live", "deleting"}

VGRs == [at: Phases, fin: BOOLEAN, state: States]

\* owner: the VGR that the two owner labels name; guard: the VGR whose pass put
\* the operator's finalizer on the PVC, None if it does not carry it.
PVCs == [at: Phases, owner: Owners, guard: Owners]

Volumes == [retain: BOOLEAN, fate: {"bound", "parked", "released", "destroyed"}]

NoVGR == [at |-> "absent", fin |-> FALSE, state |-> "primary"]

Steps == {"none", "next", "label", "sync", "guard"}
           \cup Kinds \cup {"pvc", "unguard", "drop"}

\* as: spec.replicationState as the pass read it; todo: what it listed and has
\* not handled; on: the PVC in hand; stale: the VGR was updated since it was read.
Passes == [group: Owners, step: Steps, as: States, todo: SUBSET Claims,
           on: Claims \cup {None}, stale: BOOLEAN]

Idle == [group |-> None, step |-> "none", as |-> "primary", todo |-> {},
         on |-> None, stale |-> FALSE]

TypeOK ==
    /\ site \in Sites
    /\ class \in BOOLEAN
    /\ vgr \in [Groups -> VGRs]
    /\ sync \in [Kinds -> [Claims -> Owners]]
    /\ claim \in [Claims -> PVCs]
    /\ volume \in [Claims -> Volumes]
    /\ chosen \subseteq Groups \X Claims
    /\ syncSeen \in [Kinds -> [Claims -> Owners]]
    /\ claimSeen \in [Claims -> PVCs]
    /\ pass \in Passes
    /\ acts \in 0 .. Acts
    /\ mishaps \in 0 .. Mishaps
    /\ missed \subseteq (Kinds \cup {"both", "pvc"}) \X Claims
    /\ pass.group = None <=> pass.step = "none"
    /\ pass.on = None <=> pass.step \notin {"label", "sync", "guard", "unguard", "drop"}

-----------------------------------------------------------------------------
(* Ownership, and what the passes see of it *)

Gone(g) == vgr[g].at = "absent"

\* p is in the namespace of g.
Near(g, p) == site.place[p] = site.home[g]

\* The owner-name label o is the name of g, whatever the namespace label says.
Named(o, g) == o # None /\ site.name[o] = site.name[g]

Reconciling == pass.step \in {"next", "label", "sync", "guard"}
Deleting == pass.step \in Kinds \cup {"pvc", "unguard", "drop"}

\* ReconcileRS makes "rs" and removes "rd"; ReconcileRD the other way round.
Makes == IF pass.as = "primary" THEN "rs" ELSE "rd"
Removes == IF pass.as = "primary" THEN "rd" ELSE "rs"

\* The PVCs a pass of g lists: the primary in every namespace those that match
\* the selector and carry the owner label, the secondary in its own namespace
\* those that match the selector.
Selected(g) ==
    {p \in Claims :
        /\ claimSeen[p].at # "absent"
        /\ <<g, p>> \in chosen
        /\ IF vgr[g].state = "primary" THEN Named(claimSeen[p].owner, g)
                                       ELSE Near(g, p)}

\* What the deletion of g lists: by the owner-name label, ReplicationSources and
\* Destinations in the namespace of g, PVCs in every namespace.
SyncsOf(k, g) == {p \in Claims : Near(g, p) /\ Named(syncSeen[k][p], g)}

ClaimsOf(g) ==
    {p \in Claims : claimSeen[p].at # "absent" /\ Named(claimSeen[p].owner, g)}

\* What SyncsOf(k, g) misses because the cache is behind.
Overlooked(k, g) ==
    {<<k, p>> : p \in {q \in Claims : Near(g, q) /\ sync[k][q] = g} \ SyncsOf(k, g)}

\* Writes of stored objects.  The cache follows at once, or later.
WriteSync(k, p, o) ==
    /\ sync' = [sync EXCEPT ![k][p] = o]
    /\ \/ /\ syncSeen' = [syncSeen EXCEPT ![k][p] = o]
          /\ UNCHANGED mishaps
       \/ /\ mishaps > 0 /\ sync[k][p] # o
          /\ mishaps' = mishaps - 1
          /\ UNCHANGED syncSeen

WriteClaim(p, c) ==
    /\ claim' = [claim EXCEPT ![p] = c]
    /\ \/ /\ claimSeen' = [claimSeen EXCEPT ![p] = c]
          /\ UNCHANGED mishaps
       \/ /\ mishaps > 0 /\ claim[p] # c
          /\ mishaps' = mishaps - 1
          /\ UNCHANGED claimSeen

SyncsKept == UNCHANGED <<sync, syncSeen>>
ClaimsKept == UNCHANGED <<claim, claimSeen>>

\* An Update of what Get returned from the cache: refused when it is not what is
\* stored.
Current(p) == claimSeen[p] = claim[p]

Goto(s) == pass' = [pass EXCEPT !.step = s]
Take(s, p) == pass' = [pass EXCEPT !.step = s, !.on = p]

\* Mutant of Handled: the PVC in hand is not forgotten.
HandledKept(s, p) == pass' = [pass EXCEPT !.step = s, !.todo = @ \ {p}]

Handled(s, p) == pass' = [pass EXCEPT !.step = s, !.on = None, !.todo = @ \ {p}]
End == pass' = Idle

-----------------------------------------------------------------------------
(* A pass over a VGR that is not being deleted *)

\* Reconcile adds the finalizer before it does anything else.
Adopt(g) ==
    /\ pass = Idle /\ class
    /\ vgr[g].at = "live" /\ ~vgr[g].fin
    /\ vgr' = [vgr EXCEPT ![g].fin = TRUE]
    /\ UNCHANGED <<sync, claim, volume, class, chosen, seen, pass, mishaps, missed>>

\* Mutant of StartReconcile: the VGR need not carry the finalizer yet.
StartUnadopted(g) ==
    /\ pass = Idle /\ class
    /\ vgr[g].at = "live"
    /\ Selected(g) # {}
    /\ pass' = [Idle EXCEPT !.group = g, !.step = "next", !.as = vgr[g].state,
                            !.todo = Selected(g)]
    /\ UNCHANGED <<stored, class, chosen, seen, mishaps, missed>>

\* A pass that lists nothing changes nothing.
StartReconcile(g) ==
    /\ pass = Idle /\ class
    /\ vgr[g].at = "live" /\ vgr[g].fin
    /\ Selected(g) # {}
    /\ pass' = [Idle EXCEPT !.group = g, !.step = "next", !.as = vgr[g].state,
                            !.todo = Selected(g)]
    /\ UNCHANGED <<stored, class, chosen, seen, mishaps, missed>>

\* The cache shows p as live.  The primary goes on as well if p is gone.
Visible(p) ==
    \/ claimSeen[p].at = "live"
    \/ claimSeen[p].at = "absent" /\ pass.as = "primary"

\* The primary leaves a terminating PVC alone.
Skip(p) ==
    /\ pass.step = "next" /\ p \in pass.todo
    /\ pass.as = "primary" /\ claimSeen[p].at = "deleting"
    /\ Handled("next", p)
    /\ UNCHANGED <<stored, class, chosen, seen, mishaps, missed>>

\* The secondary moves its volume to a temporary PVC and removes the finalizer
\* (CreateTemporaryPVCFromTerminating; its steps are those of PVCHandover).
Park(p) ==
    /\ pass.step = "next" /\ p \in pass.todo
    /\ pass.as = "secondary" /\ claimSeen[p].at = "deleting"
    /\ Current(p) \/ claimSeen[p].guard = None
    /\ IF claimSeen[p].guard = None
       THEN ClaimsKept /\ UNCHANGED mishaps
       ELSE WriteClaim(p, [claim[p] EXCEPT !.guard = None])
    /\ volume' = [volume EXCEPT ![p].fate = IF @ = "bound" THEN "parked" ELSE @]
    /\ Handled("next", p)
    /\ SyncsKept
    /\ UNCHANGED <<vgr, class, chosen, missed>>

\* Mutant of ClearOther: the other direction is not cleaned up first.
ClearNothing(p) ==
    /\ pass.step = "next" /\ p \in pass.todo
    /\ Visible(p)
    /\ Take(IF pass.as = "primary" THEN "label" ELSE "sync", p)
    /\ UNCHANGED <<stored, class, chosen, seen, mishaps, missed>>

\* DeleteRD before a ReplicationSource is made, DeleteRS before a Destination:
\* found in the cache, it is deleted by name, and that it is not there is an error.
ClearOther(p) ==
    /\ pass.step = "next" /\ p \in pass.todo
    /\ Visible(p)
    /\ IF syncSeen[Removes][p] = None
       THEN /\ SyncsKept /\ UNCHANGED mishaps
            /\ missed' = IF sync[Removes][p] = None THEN missed
                         ELSE missed \cup {<<"both", p>>}
       ELSE /\ sync[Removes][p] # None
            /\ WriteSync(Removes, p, None)
            /\ missed' = missed \ {<<"both", p>>}
    /\ Take(IF pass.as = "primary" THEN "label" ELSE "sync", p)
    /\ ClaimsKept /\ UNCHANGED <<vgr, volume, class, chosen>>

\* ensurePVCLabels
Label(p) ==
    /\ pass.step = "label" /\ p = pass.on
    /\ IF claimSeen[p].at = "absent" \/ claimSeen[p].owner = pass.group
       THEN ClaimsKept /\ UNCHANGED mishaps
       ELSE Current(p) /\ WriteClaim(p, [claim[p] EXCEPT !.owner = pass.group])
    /\ Goto("sync")
    /\ SyncsKept /\ UNCHANGED <<vgr, volume, class, chosen, missed>>

\* createOrUpdateRS, createOrUpdateRD: Create is refused when the object exists
\* already, Update when it is not what the cache shows.
MakeSync(p) ==
    /\ pass.step = "sync" /\ p = pass.on
    /\ IF syncSeen[Makes][p] = pass.group
       THEN SyncsKept /\ UNCHANGED <<mishaps, missed>>
       ELSE /\ syncSeen[Makes][p] = sync[Makes][p]
            /\ WriteSync(Makes, p, pass.group)
            /\ missed' = missed \ {<<Makes, p>>}
    /\ Goto("guard")
    /\ ClaimsKept /\ UNCHANGED <<vgr, volume, class, chosen>>

\* addFinalizerToPVC: a finalizer cannot be added to a terminating PVC.
Guard(p) ==
    /\ pass.step = "guard" /\ p = pass.on
    /\ IF claimSeen[p].at = "absent" \/ claimSeen[p].guard # None
       THEN ClaimsKept /\ UNCHANGED <<mishaps, missed>>
       ELSE /\ Current(p) /\ claim[p].at = "live"
            /\ WriteClaim(p, [claim[p] EXCEPT !.guard = pass.group])
            /\ missed' = missed \ {<<"pvc", p>>}
    /\ Handled("next", p)
    /\ SyncsKept /\ UNCHANGED <<vgr, volume, class, chosen>>

\* The pass is over, or ends here: the VRG is secondary, the final sync goes on,
\* the PSK secret is missing, a call failed, the operator restarted.
EndReconcile ==
    /\ Reconciling
    /\ End
    /\ UNCHANGED <<stored, class, chosen, seen, mishaps, missed>>

-----------------------------------------------------------------------------
(* DeleteReconciler: a pass over a VGR that is being deleted *)

\* Reconcile reads the VGR and its class; without the class it goes no further.
\* DeleteRSByLabel lists.
StartDelete(g) ==
    /\ pass = Idle /\ class
    /\ vgr[g].at = "deleting"
    /\ pass' = [Idle EXCEPT !.group = g, !.step = "rs", !.as = vgr[g].state,
                            !.todo = SyncsOf("rs", g)]
    /\ missed' = missed \cup Overlooked("rs", g)
    /\ UNCHANGED <<stored, class, chosen, seen, mishaps>>

\* One Delete of DeleteRSByLabel or DeleteRDByLabel; it may be gone already.
DeleteSync(p) ==
    /\ pass.step \in Kinds /\ p \in pass.todo
    /\ WriteSync(pass.step, p, None)
    /\ Handled(pass.step, p)
    /\ ClaimsKept /\ UNCHANGED <<vgr, volume, class, chosen, missed>>

\* Mutant of ListDestinations: it lists the ReplicationSources again.
ListSourcesAgain ==
    /\ pass.step = "rs" /\ pass.todo = {}
    /\ pass' = [pass EXCEPT !.step = "rd", !.todo = SyncsOf("rs", pass.group)]
    /\ missed' = missed \cup Overlooked("rd", pass.group)
    /\ UNCHANGED <<stored, class, chosen, seen, mishaps>>

\* DeleteRDByLabel lists.
ListDestinations ==
    /\ pass.step = "rs" /\ pass.todo = {}
    /\ pass' = [pass EXCEPT !.step = "rd", !.todo = SyncsOf("rd", pass.group)]
    /\ missed' = missed \cup Overlooked("rd", pass.group)
    /\ UNCHANGED <<stored, class, chosen, seen, mishaps>>

\* DeletePVCsByLabel and RemoveFinalizersFromPVCsByLabel list.
ListClaims ==
    /\ pass.step = "rd" /\ pass.todo = {}
    /\ pass' = [pass EXCEPT !.step = "pvc", !.todo = ClaimsOf(pass.group)]
    /\ UNCHANGED <<stored, class, chosen, seen, mishaps, missed>>

\* Mutant of Doom: whatever the replication state.
DoomAlways(p) ==
    /\ pass.step = "pvc" /\ p \in pass.todo
    /\ volume' = [volume EXCEPT ![p].retain = FALSE]
    /\ Take("unguard", p)
    /\ UNCHANGED <<vgr, sync, claim, class, chosen, seen, mishaps, missed>>

\* DeletePVCsByLabel: the volume is no longer to be retained.
Doom(p) ==
    /\ pass.step = "pvc" /\ p \in pass.todo
    /\ pass.as = "secondary"
    /\ volume' = [volume EXCEPT ![p].retain = FALSE]
    /\ Take("unguard", p)
    /\ UNCHANGED <<vgr, sync, claim, class, chosen, seen, mishaps, missed>>

\* removeFinalizerFromPVC: nothing to do when the cache shows no finalizer.
Unguard(p) ==
    IF claimSeen[p].guard = None
    THEN /\ missed' = IF claim[p].guard = None THEN missed
                      ELSE missed \cup {<<"pvc", p>>}
         /\ ClaimsKept /\ UNCHANGED mishaps
    ELSE /\ Current(p)
         /\ WriteClaim(p, [claim[p] EXCEPT !.guard = None])
         /\ UNCHANGED missed

\* It fails: the cache is behind, or the API server refuses.
UnguardRefused(p) ==
    /\ claimSeen[p].guard # None
    /\ \/ ~Current(p) /\ UNCHANGED mishaps
       \/ mishaps > 0 /\ mishaps' = mishaps - 1

\* RemoveFinalizersFromPVCsByLabel stops at the first failure.
Release(p) ==
    /\ pass.step = "pvc" /\ p \in pass.todo
    /\ pass.as = "primary"
    /\ Unguard(p)
    /\ Handled("pvc", p)
    /\ SyncsKept /\ UNCHANGED <<vgr, volume, class, chosen>>

\* Mutant of ReleaseRefused: the failure is ignored, as in DeletePVCsByLabel.
ReleaseSkipped(p) ==
    /\ pass.step = "pvc" /\ p \in pass.todo
    /\ pass.as = "primary"
    /\ UnguardRefused(p)
    /\ Handled("pvc", p)
    /\ UNCHANGED <<stored, class, chosen, seen, missed>>

ReleaseRefused(p) ==
    /\ pass.step = "pvc" /\ p \in pass.todo
    /\ pass.as = "primary"
    /\ UnguardRefused(p)
    /\ End
    /\ UNCHANGED <<stored, class, chosen, seen, missed>>

\* DeletePVCsByLabel goes on to delete the PVC although the removal failed.
ReleaseDoomed(p) ==
    /\ pass.step = "unguard" /\ p = pass.on
    /\ Unguard(p)
    /\ Goto("drop")
    /\ SyncsKept /\ UNCHANGED <<vgr, volume, class, chosen>>

IgnoreRefusal(p) ==
    /\ pass.step = "unguard" /\ p = pass.on
    /\ UnguardRefused(p)
    /\ Goto("drop")
    /\ UNCHANGED <<stored, class, chosen, seen, missed>>

\* Delete of the PVC; it may be terminating or gone already.
Drop(p) ==
    /\ pass.step = "drop" /\ p = pass.on
    /\ IF claim[p].at = "live"
       THEN WriteClaim(p, [claim[p] EXCEPT !.at = "deleting"])
       ELSE ClaimsKept /\ UNCHANGED mishaps
    /\ Handled("pvc", p)
    /\ SyncsKept /\ UNCHANGED <<vgr, volume, class, chosen, missed>>

\* Mutant of Finish: the VGR without its finalizer is not written.
FinishUnsaved ==
    /\ pass.step = "pvc" /\ pass.todo = {}
    /\ End
    /\ UNCHANGED <<stored, class, chosen, seen, mishaps, missed>>

\* removeFinalizer: refused if the VGR was updated since the pass read it.
Finish ==
    /\ pass.step = "pvc" /\ pass.todo = {}
    /\ vgr' = IF pass.stale THEN vgr ELSE [vgr EXCEPT ![pass.group] = NoVGR]
    /\ End
    /\ UNCHANGED <<sync, claim, volume, class, chosen, seen, mishaps, missed>>

\* Any other call fails, or the operator restarts.
FailDelete ==
    /\ Deleting
    /\ mishaps > 0 /\ mishaps' = mishaps - 1
    /\ End
    /\ UNCHANGED <<stored, class, chosen, seen, missed>>

-----------------------------------------------------------------------------
(* Users and administrators *)

CreateVGR(g, s) ==
    /\ g \in site.groups /\ Gone(g)
    /\ vgr' = [vgr EXCEPT ![g] = [at |-> "live", fin |-> FALSE, state |-> s]]
    /\ UNCHANGED <<sync, claim, volume, class, chosen, seen, pass, mishaps, missed>>

\* The group is promoted or demoted; one that is being deleted, only by mishap.
SetState(g, s) ==
    /\ ~Gone(g) /\ vgr[g].state # s
    /\ IF vgr[g].at = "live" THEN UNCHANGED mishaps
                             ELSE mishaps > 0 /\ mishaps' = mishaps - 1
    /\ vgr' = [vgr EXCEPT ![g].state = s]
    /\ pass' = [pass EXCEPT !.stale = @ \/ (Deleting /\ pass.group = g)]
    /\ UNCHANGED <<sync, claim, volume, class, chosen, seen, missed>>

DeleteVGR(g) ==
    /\ vgr[g].at = "live"
    /\ vgr' = [vgr EXCEPT ![g] = IF @.fin THEN [@ EXCEPT !.at = "deleting"] ELSE NoVGR]
    /\ UNCHANGED <<sync, claim, volume, class, chosen, seen, pass, mishaps, missed>>

\* Read at the start of a pass only, so that its changes during one are no different.
SetClass ==
    /\ pass = Idle
    /\ class' = ~class
    /\ UNCHANGED <<stored, chosen, seen, pass, mishaps, missed>>

\* The label that the selectors ask for is taken off a PVC.
Unlabel(p) ==
    /\ chosen' = chosen \ (Groups \X {p})
    /\ chosen' # chosen
    /\ UNCHANGED <<stored, class, seen, pass, mishaps, missed>>

DeletePVC(p) ==
    /\ claim[p].at = "live"
    /\ WriteClaim(p, [claim[p] EXCEPT !.at = "deleting"])
    /\ SyncsKept /\ UNCHANGED <<vgr, volume, class, chosen, pass, missed>>

-----------------------------------------------------------------------------
(* Kubernetes *)

\* A terminating PVC that nothing guards disappears and releases its volume, unless
\* that was parked.  Its record keeps the owner that its labels named.
Vanish(p) ==
    /\ claim[p].at = "deleting" /\ claim[p].guard = None
    /\ WriteClaim(p, [claim[p] EXCEPT !.at = "absent"])
    /\ volume' = [volume EXCEPT ![p].fate = IF @ = "bound" THEN "released" ELSE @]
    /\ SyncsKept /\ UNCHANGED <<vgr, class, chosen, pass, missed>>

\* The PV controller destroys a released volume that is not to be retained.
Reclaim(p) ==
    /\ volume[p].fate = "released" /\ ~volume[p].retain
    /\ volume' = [volume EXCEPT ![p].fate = "destroyed"]
    /\ UNCHANGED <<vgr, sync, claim, class, chosen, seen, pass, mishaps, missed>>

\* The cache catches up with what is stored.
CatchUp ==
    /\ seen # <<sync, claim>>
    /\ syncSeen' = sync /\ claimSeen' = claim
    /\ UNCHANGED <<stored, class, chosen, pass, mishaps, missed>>

-----------------------------------------------------------------------------

Init ==
    /\ site \in Sites
    /\ class = TRUE
    /\ \E s \in [Groups -> States] :
          vgr = [g \in Groups |-> IF g \in site.groups
                                  THEN [at |-> "live", fin |-> FALSE, state |-> s[g]]
                                  ELSE NoVGR]
    /\ sync = [k \in Kinds |-> [p \in Claims |-> None]]
    /\ claim = [p \in Claims |->
                   [at |-> IF p \in site.claims THEN "live" ELSE "absent",
                    owner |-> site.owner[p], guard |-> None]]
    /\ volume = [p \in Claims |-> [retain |-> TRUE, fate |-> "bound"]]
    /\ chosen = Groups \X Claims
    /\ syncSeen = sync /\ claimSeen = claim
    /\ pass = Idle
    /\ acts = Acts
    /\ mishaps = Mishaps
    /\ missed = {}

ReconcileStep(p) ==
    \/ Skip(p) \/ Park(p) \/ ClearOther(p)
    \/ Label(p) \/ MakeSync(p) \/ Guard(p)

DeleteStep(p) ==
    \/ DeleteSync(p) \/ Doom(p) \/ Release(p) \/ ReleaseRefused(p)
    \/ ReleaseDoomed(p) \/ IgnoreRefusal(p) \/ Drop(p)

WorkerStep ==
    \/ \E p \in Claims : ReconcileStep(p) \/ DeleteStep(p)
    \/ EndReconcile \/ ListDestinations \/ ListClaims \/ Finish

Start(g) == Adopt(g) \/ StartReconcile(g) \/ StartDelete(g)

UserAct ==
    \/ \E g \in Groups :
          \/ \E s \in States : CreateVGR(g, s) \/ SetState(g, s)
          \/ DeleteVGR(g)
    \/ \E p \in Claims : Unlabel(p) \/ DeletePVC(p)
    \/ SetClass

Kubernetes == CatchUp \/ \E p \in Claims : Vanish(p) \/ Reclaim(p)

Next ==
    /\ \/ /\ (\E g \in Groups : Start(g)) \/ WorkerStep \/ FailDelete \/ Kubernetes
          /\ UNCHANGED acts
       \/ /\ UserAct
          /\ acts > 0 /\ acts' = acts - 1
    /\ UNCHANGED site

Spec == Init /\ [][Next]_vars

\* The work queue is a FIFO and failed requests are queued again, so that no VGR
\* waits for ever while the worker is free now and then; a pass goes on; the
\* cache is brought up to date.
Fairness ==
    /\ \A g \in Groups : SF_vars(Start(g) /\ UNCHANGED <<site, acts>>)
    /\ WF_vars(WorkerStep /\ UNCHANGED <<site, acts>>)
    /\ WF_vars(CatchUp /\ UNCHANGED <<site, acts>>)

FairSpec == Spec /\ Fairness

-----------------------------------------------------------------------------
(* Properties *)

\* DeleteRSByLabel and DeleteRDByLabel (handler.go:594-631): when a VGR has gone,
\* none of its ReplicationSources and ReplicationDestinations is left.  One is
\* left only outside the namespace of the VGR, where the primary makes them too
\* but the deletion does not look, or where the cache had not shown it yet.
NothingLeftBehind ==
    \A k \in Kinds, p \in Claims, g \in Groups :
        sync[k][p] = g /\ Gone(g) => ~Near(g, p) \/ <<k, p>> \in missed

\* RemoveFinalizersFromPVCsByLabel and DeletePVCsByLabel (handler.go:634-702): a
\* PVC does not stay guarded by a VGR that has gone, unless it never carried the
\* owner label of that name, is terminating after a removal that failed and was
\* ignored, or the cache did not show the finalizer.
ClaimsLetGo ==
    \A p \in Claims, g \in Groups :
        claim[p].guard = g /\ Gone(g) =>
            \/ ~Named(claim[p].owner, g)
            \/ claim[p].at = "deleting"
            \/ <<"pvc", p>> \in missed

\* What g holds, as far as its deletion can and must take it back.
Things == (Kinds \cup {"pvc"}) \X Claims

Holds(g, k, p) ==
    IF k = "pvc"
    THEN claim[p].guard = g /\ claim[p].at = "live" /\ Named(claim[p].owner, g)
    ELSE sync[k][p] = g /\ Near(g, p)

Held(g) == {x \in Things : Holds(g, x[1], x[2])}

Promise == INSTANCE GroupPromise WITH
    present <- {g \in Groups : vgr[g].fin},
    held <- [g \in Groups |-> Held(g) \ missed]

\* The finalizer of a VGR (controller.go:93-100, delete_reconciler.go:124-136) keeps
\* the promise of GroupPromise: a group acquires something only while it carries it,
\* and loses it only when it holds nothing.
KeepsPromise == Promise!Spec

\* ReconcileRS and ReconcileRD remove the object of the other direction first
\* (handler.go:145, 367): a PVC is replicated both ways only if the cache hid it.
OneWay ==
    \A p \in Claims :
        sync["rs"][p] # None /\ sync["rd"][p] # None => <<"both", p>> \in missed

\* handlePVCDeletion (delete_reconciler.go:93): the reclaim policy of a volume is
\* turned to Delete only while a VGR of the name on its PVC is being deleted as
\* secondary, or was promoted after the pass had read it.
OnlySecondaryDestroys ==
    [][\A p \in Claims :
          volume[p].retain /\ ~volume'[p].retain =>
             \E g \in Groups :
                /\ Named(claim[p].owner, g)
                /\ vgr[g].at = "deleting"
                /\ vgr[g].state = "secondary" \/ pass.stale]_vars

\* Reconcile and DeleteReconciler: a VGR that is being deleted goes, whatever
\* calls fail on the way, unless its class was deleted first: Reconcile then
\* returns an error before it looks at the deletion (controller.go:71-78).
DeletionCompletes ==
    \A g \in Groups : vgr[g].at = "deleting" ~> Gone(g) \/ ~class

=============================================================================
