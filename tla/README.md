# mock-storage-operator in TLA+

A verification project for the mock storage operator (`src/`): a Kubernetes
operator, driven by Ramen, that replicates the PersistentVolumeClaims (PVCs) of
an application with VolSync. A `VolumeGroupReplication` (VGR) asks each cluster
to be *primary* (the volumes are sources) or *secondary* (they are destinations).
The modules model the operator's reconcile passes call by call, with Ramen,
the application, VolSync and Kubernetes as the environment that may step between
any two calls; TLC checks them on small instances. TLAPS proves the safety
properties that these runs check, for every instance: the handover of the volumes
and the relocation of a group for every number of volumes, the life of the VGRs,
deletion included, for every number of VGRs and PVCs, the schedule for every interval.

Paths below are relative to `src/`; `handler.go` is `internal/volsync/handler.go`
and the other Go files are under `internal/controller/` unless said otherwise.

## 1. Inventory

| Component | State it keeps | Operations | What makes it correct |
|---|---|---|---|
| VGR controller (`volumegroupreplication_controller.go`) | the VGR: spec, status, finalizer | `Reconcile` dispatches on `spec.replicationState`; watches VGRs and VRGs, nothing else; requeues | every request leads to a pass; passes do not overlap |
| Primary reconciler (`primary_reconciler.go`) | ReplicationSources (RS), status | `checkVRGConflict` and `pauseAllReplicationSources`; list PVCs, `ReconcileRS` for each, `updateStatus` | what it reports is replicating has its sources; a volume that is source and destination at once does not stay so |
| Secondary reconciler (`secondary_reconciler.go`) | ReplicationDestinations (RD), status | final sync, restore of temporary PVCs, `ReconcileRD` for each PVC, `updateStatus` | nothing is demoted before the whole group is synced; state Secondary is true when reported |
| Final sync (`finalsync_handler.go`) | RS trigger and `status.lastManualSync`, conditions | `ShouldRunFinalSync`, park every terminating PVC, wait for pods, trigger, wait for completion | the last write is copied; the sync reads a volume at rest |
| PVC handover (`handler.go` 836-1164) | main PVC, `<pvc>-tmp`, the PV's `claimRef`, finalizers | `CreateTemporaryPVCFromTerminating`, `RestorePVCFromTemporary`, `handleLostPVC`, `handleLostTemporaryPVC` | the PV is never released |
| Deletion (`delete_reconciler.go`, `handler.go` 574-702) | RS, RD, PVC labels, reclaim policy, VGR finalizer | cleanup by label, two PVC policies | nothing is left behind or shared by mistake |
| Scheduling (`handler.go` 1178-1228, `primary_reconciler.go`) | none | interval to cron, schedule window | the cron spec means the interval |
| Selection (list calls of both reconcilers, labels in `ReconcileRS`, `RestorePVCFromTemporary`) | labels of PVCs | selector and owner label | a volume of the group is found again after a restore |
| `cmd/main.go`, `internal/volsync/types.go`, `rollback.go`, `scripts/`, `config/`, `docs/`, `examples/` | - | start-up, unused types, a stub, a shell script, manifests | not part of the protocol |

Interactions. Ramen writes the VRG and `spec.replicationState`, and reads the
VGR's status and conditions. The operator writes RS and RD objects, and VolSync's
movers run from them. The operator, the PV controller, the PVC-protection
controller and the user all write PVCs and PVs; every one of the operator's
writes is a separate API call with optimistic concurrency and a possible
failure. Two components share memory only through these objects.

What is hard, and has no test in the repository:

* a pass may end, or the operator crash, between any two of the calls that move
  a PV between its two claims;
* Kubernetes and the pods act between those calls: a claim with no finalizer left
  disappears, a claim whose PV refers elsewhere becomes Lost;
* a pass lists PVCs and reads statuses first and acts on them later;
* with several volumes the gate is the group's, the work is per volume;
* passes that return without a requeue rely on an event that follows;
* Ramen may take a relocation back half-way; `finalsync_handler.go:171` itself
  logs "Waiting for PVCs to be terminated or final sync be canceled".

`PROJECT.json` lists these hazards at their lines, and the properties for each.

## 2. Modules and plan

Written:

| Module | Role |
|---|---|
| `VolumeCustody` | abstract: who holds a volume, and whether its application claim is being deleted |
| `PVCHandover` | the two handover procedures, one action per mutating call, under any calling order |
| `PVCHandoverProofs` | inductive invariant, type correctness, safety and refinement of `VolumeCustody` |
| `Relocation` | the primary and secondary passes with final sync; composes `PVCHandover` (`H == INSTANCE PVCHandover`) |
| `RelocationSteps` | who writes what in a pass, every step on the claims as a step of `PVCHandover`; types, `OrphanedOnlyBy` |
| `RelocationMoves` | the inductive invariant `RelocationInv`, and what each group of actions does to one volume |
| `RelocationProofs` | the invariant is kept; the other safety properties and the refinement of `VolumeCustody` follow |
| `GroupPromise` | abstract: a group acquires things only while it carries its finalizer, and leaves when it holds nothing |
| `GroupLifecycle` | several VGRs: selection, finalizers, replication objects, and `DeleteReconciler`, against a lagging cache |
| `GroupLifecycleProofs` | inductive invariants, all safety properties of `GroupLifecycle`, refinement of `GroupPromise` |
| `Scheduling` | from the interval of the class to the times of the syncs, and the failover window |
| `SchedulingProofs` | its three properties, for every interval and horizon |
| `MCPVCHandover`, `MCRelocation`, `MCGroupLifecycle` | symmetry and sites for TLC |

`Relocation` and `GroupLifecycle` look at the same passes from two sides. The first
follows one group through a relocation, with everything that happens to its
volumes; the second follows several groups through their lives, keeps of a pass
what it acquires and gives back, and lets it end at any point where the first says
why it ends.

Left for later: restored PVCs in `GroupLifecycle`.

## 3. PVCHandover

State. `main[v]` and `tmp[v]` are the two claims of volume v: phase, whether the
deletion timestamp is set, and which finalizers remain (`mock`, the operator's
`finalizers`, and `kube`, pvc-protection). `ref[v]` is the PV's `spec.claimRef`:
the claim it names and whether its UID is unset, that of the existing claim, or
that of a claim that is gone. `op` is the procedure the operator is in, with what
it read: an Update of an object that changed since is refused by the API server,
which the guards `ref[v] = op.seen` and `main[v] = op.seenMain` say, and `Abort`
is the error that follows.

| Action | Code |
|---|---|
| `EnsureTmp` | `CreateTemporaryPVCFromTerminating`: reads, checks, `Create` of the temporary PVC |
| `RepointTmp` | ... `Update` of the PV: claimRef to the temporary PVC, UID cleared |
| `Unguard` | ... `removeFinalizerFromPVC`, when asked for (only `ReconcileRD` asks) |
| `RestoreWaits`, `ClearMain` | `RestorePVCFromTemporary` on a terminating main PVC: remove all finalizers, return an error |
| `RestoreMain`, `RepointMain`, `DeleteTmp` | ... otherwise: `Create` main, `Update` PV, `Delete` temporary |
| `AddGuard` | `addFinalizerToPVC` |
| `ForgetBinding` | `handleLostPVC`, `handleLostTemporaryPVC` |
| `Abort` | a call fails or the operator crashes (`FaultSteps` says before which) |
| `Bind`, `Lose`, `Reclaim`, `Unprotect`, `DeleteMain` | external: PV controller, PVC-protection controller, user |

A procedure may start on any volume its guards allow: the order that the passes
impose is left to `Relocation`, so what holds here holds for any caller.

Properties: `VolumeKept`, `GuardedUntilParked`, `LetGoOnlyParked`, the refinement
`CustodySpec` of `VolumeCustody` (`holder` is the claim in `claimRef`, `retiring`
the deletion timestamp of the main claim), and `OrphanedOnlyBy`, which says in
what ways a PV can be released when nothing about faults and users is assumed.

## 4. Relocation

The four variables of `PVCHandover`, and: `rs`, `rd` and `mover` (VolSync's
objects and its running job), `app` and `dirty` (a pod uses the volume; there are
writes no completed sync copied), `vrg` and `vgr` (Ramen's intent, and the VGR's
spec and status), `near` (the VRG lives in the VGR's namespace; fixed from the start),
`match` (whether the labels of a claim match the VGR's selector), `other` (another
group in the namespace of the VGR, with its VRG and its ReplicationSources), `behind`
(the sources, the destinations and the change of the VRG that the manager's cache does
not show yet), `pass` (the running pass) and `wake` (a request is queued).

A pass is a sequence of *stages*, each with a set `todo` of items still to visit:
`pause` or `protect` for the primary; `park`, `trigger`, `restore`, `demote` for
the secondary. `pass.list` is the list of PVCs read when the pass begins,
`pass.lost` those that were Lost in it, `pass.gate` whether a final sync is
required by what was read then, `pass.stale` whether Ramen has changed the VGR
since, in which case the final `Status().Update` is refused. `pass.cur` is the item
inside `ReconcileRS` or `ReconcileRD`, past the one question whether it is
terminating, and `pass.did` how far these have come: the object of the other
direction deleted, if the cache shows it (`DropDestination`, `DropSource`), that of
this one written, whatever has become of the other (`WriteSource`,
`CreateDestination`), the finalizer added (`GuardSource`, `GuardDestination`). Nothing
but this order and the cache keeps the two apart. In `isPVCInUse`, `pass.cur` is the
PVC found in use (`FindInUse`), whose source is paused next (`HoldBack`). Every write is a step, so all the environment's actions interleave;
a list iterates in any order, a superset of the API's order. The primary's pass
is `StartPrimary` .. `EndPause` or `EndProtect`, the secondary's `StartSecondary`
.. `EndDemote`; `PROJECT.json` maps each action to its lines.

There is no time: a requeue, with or without delay, sets `wake`; a pass that ends
without one leaves it as it was. The controller watches VGRs and VRGs only, so the
other wake-ups are Ramen's changes of the two (`NotifyVGR`, `NotifyVRG`) and the condition set by
`UpdateFinalSyncStatus`. `vrgToVGRRequests` looks for VGRs in the VRG's own namespace
only, and `checkVRGConflict` for VRGs in the VGR's: where the two differ
(`near = FALSE`) a change of the VRG wakes nobody and
the primary does not see it; nothing VolSync or Kubernetes does wakes the operator.

A temporary claim takes all labels of the application's claim (`LabelTmp`,
`RelabelTmp`); a restored one keeps three (`LabelRestored`), which match a selector
that asks for these only (`SelectorKept`).

Another group in the namespace is there in three ways, for the code looks at every
VRG and every source there, not at its own. `checkVRGConflict` holds a primary pass
back when any VRG is Secondary (`VRGConflict`). A primary pass of the other VGR pauses
every source, ours too (`OtherPauses`), and nothing unpauses them. And
`AreAllRSFinalSyncsComplete` asks every source. `other` says where that group is: it
replicates, its VRG becomes Secondary (`OtherRelocate`), its sources complete
(`OtherSynced`) and go when its VGR is demoted, which waits for ours in turn
(`OtherDemoted`), and it may come back (`OtherReturn`). When the VRGs cannot be listed,
`checkVRGConflict` is skipped (`"listVRG"` in `PassFaults`).

A job or a pod of VolSync that is deleted need not end the mover: the job may start
its pod again, the pod of a deleted job may end by itself (`JobDeleted`,
`PodDeleted`). After a failure between the pause of a source and the deletion of its
job the next pass finds the source paused and leaves the job alone; the mover then goes on.

Properties:

| Property | Says | Violated by, for instance |
|---|---|---|
| `SyncedBeforeDemotion` | no destination anywhere in the group before every volume's last write is copied | taking a triggered sync for a completed one |
| `CompleteMeansSynced` | going on after the final sync means every source has copied its volume | the same; a `lastManualSync` left over |
| `LetGoSafely` | finalizers are stripped only with no pod, volume parked, data copied | comparing the VGR's spec where the code compares its status |
| `FinalSyncAtRest` | the final sync reads through the temporary claim only when the application has let go | looking for VolSync's pods only |
| `SecondarySettled` | state Secondary reported means main claims back and protected, destinations ready, no source | not waiting for every destination |
| `ReportedReplicating` | a primary pass that reports its state has left a source on every claim of the application, not paused when no other group pauses it | a new source that starts paused |
| `CustodyKept` | the passes keep `VolumeCustody`'s promise even with every handover fault | skipping the final sync |
| `RelocationCompletes`, `PromotionCompletes` | a relocation reaches Secondary, a return Primary, unless another group is in the way | a pass that forgets to requeue |
| `OneDirectionAgain` | a volume that is source and destination at once, as the cache hid one of them, does not stay so | looking for the other direction only once |

`CustodyKept` is stronger than what `PVCHandover` alone gives. There, a failure of
the PV update right after the temporary PVC is created must be excluded. In the
passes it need not be: a restore only follows a final sync, and VolSync can run it
only from a temporary claim that was bound, hence parked. That is the reason TLAPS
checks too, for any number of volumes (section 9).

## 5. GroupLifecycle

State. `vgr[g]` is a VGR (phase, finalizer, replication state), `sync[k][p]` the VGR
that the owner labels of PVC p's ReplicationSource (`"rs"`) or Destination (`"rd"`)
name, `claim[p]` the PVC (phase, the VGR its owner labels name, whose pass put the
operator's finalizer on it) and `volume[p]` its PV (reclaim policy, fate). `chosen`
says which PVCs match which selector. `syncSeen` and `claimSeen` are what the manager's
cache shows: `WriteSync` and `WriteClaim` change what is stored and the cache, or what
is stored only, and `CatchUp` brings the cache up to date. Each call reads from the
cache; an Update of what the cache shows fails if it is not what is stored
(`Current`). `site` is the cluster: names and namespaces of VGRs and PVCs.

`pass` is the pass of the one worker: its group, the replication state it read,
what it listed and has not handled (`todo`), and the PVC in hand (`on`).

| Action | Code |
|---|---|
| `Adopt` | `Reconcile`: the finalizer is added before anything else |
| `StartReconcile` | ... the class, then the list of the primary or of the secondary (`Selected`) |
| `Skip`, `Park` | a terminating PVC: left alone by the primary, parked by the secondary |
| `ClearOther` | `DeleteRD` in `ReconcileRS`, `DeleteRS` in `ReconcileRD` |
| `Label`, `MakeSync`, `Guard` | `ensurePVCLabels`, `createOrUpdateRS` or `createOrUpdateRD`, `addFinalizerToPVC` |
| `EndReconcile` | the pass is over or ends early, for whatever reason |
| `StartDelete`, `DeleteSync`, `ListDestinations`, `ListClaims` | `DeleteReconciler`: the two cleanups by label, then the PVCs by label |
| `Release`, `ReleaseRefused` | primary: `RemoveFinalizersFromPVCsByLabel`, which stops at the first failure |
| `Doom`, `ReleaseDoomed`, `IgnoreRefusal`, `Drop` | secondary: `DeletePVCsByLabel`, which ignores a finalizer it could not remove |
| `Finish`, `FailDelete` | the finalizer of the VGR; any other failure, or a restart |
| the rest | external: Ramen, users, the PV controller, the cache |

Properties:

| Property | Says | Violated by, for instance |
|---|---|---|
| `NothingLeftBehind` | replication objects of a VGR that has gone are outside its namespace or were hidden by the cache | listing the wrong kind |
| `ClaimsLetGo` | a PVC still guarded by a VGR that has gone never had the label of that name, is being deleted, or the cache hid the finalizer | going on after a failed removal |
| `OneWay` | a PVC is source and destination at once only if the cache hid one | not deleting the other direction |
| `OnlySecondaryDestroys` | a reclaim policy becomes Delete only for a VGR of the name on the PVC, being deleted as secondary | ignoring the replication state |
| `KeepsPromise` | refinement of `GroupPromise`, with `present` the VGRs that carry the finalizer and `held` what they must give back | reconciling before the finalizer is stored |
| `DeletionCompletes` | a VGR being deleted goes, unless its class has gone first | not storing the VGR without its finalizer |

Every exception in these statements is a behaviour TLC shows: the primary lists
PVCs in all namespaces, but `listByOwner` only looks in that of the VGR; a PVC listed
by a secondary never gets the owner label, so that its finalizer stays; a PVC whose
finalizer could not be removed is deleted and stays terminating; `missed` records
what a deletion overlooked in the cache. PVCs are matched by the name of the VGR
alone: the VGR of that name in another namespace is enough to destroy them, which is
why `OnlySecondaryDestroys` says "a VGR of the name".

What is left out: `Park` is one step here and `PVCHandover` there, and temporary PVCs
are not listed; membership in a selector is read afresh by each pass, and so is the
VGR (`stale` is when it was updated since); PVCs do not come back.

## 6. Scheduling

The clock counts in the unit of the interval, `at` is what the cron field of that
unit shows, and `since` the time since the last sync. `Configured` is the primary's
reading of `schedulingInterval`, `ConvertSchedulingIntervalToCronSpec` the handler's
conversion: a field, a step, and whether the text is one that cron can read, as the
characters between number and unit are copied. Cron starts every field anew in each
cycle and syncs at least at its first value.

`NeverLate`: an interval that names a positive number is never exceeded, whatever
cron makes of a step that does not divide its cycle or exceeds it; syncs bunch at the
end of a cycle instead. `0h`, `0d` and `0M` are accepted by the conversion and give
a step VolSync never follows. `Evenly`: an interval that divides its cycle is kept exactly.
`WindowClear`: for the intervals from 5 to 15 that divide the hour, while
`isWithinScheduleWindow` is true a sync is neither less than a minute old nor due.

## 7. Runs

| Run | Instance | Shows |
|---|---|---|
| `handover` | 2 volumes, every fault but at `repointTmp`, claims deleted only in service | custody, refinement |
| `handover_any_fault` | 2 volumes, every fault, any deletion | the three ways to release a PV, and no other |
| `handover_fault` | 1 volume, every fault | violation of `LetGoOnlyParked`: finding 1 |
| `relocation_faults` | 1 volume, alone or beside another group that relocates, returns and pauses, every write may fail, any number of relocations and returns | all safety properties |
| `relocation_group` | 2 volumes, one relocation, the list of the VRGs may fail | the properties that relate volumes |
| `relocation_anything` | 1 volume, any deletion, cancelled relocations, a VRG that cannot be read or is out of date in the cache, failing writes | a PV is released in three ways only, when the protocol around the operator is not kept either |
| `relocation_liveness` | 1 volume, alone or beside another relocating group, returns allowed, no failed writes, new destinations hidden by the cache for a while, `FairSpec` | the three liveness properties |
| `cancelled_paused` | 1 volume, relocations taken back | violation of `ReportedReplicating`: finding 2 |
| `cancelled_stale` | the same | violation of `CompleteMeansSynced`: finding 3 |
| `selector_lost` | 1 volume, one relocation, a selector by an application label | violation of `SamePVCsDiscovered`: finding 4 |
| `lifecycle` | 3 clusters of two VGRs and one or two PVCs, two acts of users, one mishap, `FairSpec` | what a deletion leaves, destroys and completes |
| `scheduling` | numbers 0 to 65, three units in both cases and a wrong one, four forms | spacing of the syncs, failover window |

Bounds. In `PVCHandover` and `Relocation` there are no counters; the only bound is the number of volumes, and all
else (rounds, retries, crashes) is unbounded. In `PVCHandover` volumes meet only in
`op`, of which there is one, so two show every interference. In `Relocation` volumes
meet in the group's gates (`AllFinalSyncsComplete`, `EndPark`, `EndTrigger`,
`EndDemote`) and in the pass's list; each compares one volume with the rest, which
two show; by the proofs the safety properties hold for any number. `NoVolume` is
`op.vol` when no procedure runs.
`VRGPlaces` are the values of `near` a run starts from: both, but in `cancelled_paused`,
where only a VRG beside the VGR makes the primary pause.
Symmetry over volumes is used in safety runs only. Before it was proved, the inductive
invariant of `Relocation` was checked with TLC: on the instance of `relocation_faults`
(94,368 states), there with the list of VRGs failing (97,817), with a selector that
restored claims do not match (31,899), and for two volumes with the list failing and
without, the latter with the other selector (1,969,820 and 825,908 states). The proof
has taken its place: no run repeats it.

In `GroupLifecycle`, `Acts` bounds how often users and administrators act, `Mishaps` how often a
call fails, the cache lags or a VGR under deletion is updated. Two acts let a group be
deleted after another act (a change of state, of the class, of a label, a deleted
PVC), or both groups be deleted; one mishap is one failure at any place, after which the next pass
meets what the failed one left. The safety properties hold for any bounds by
the proofs; three acts were checked before these were written. `Sites` are the three ways VGRs and PVCs can meet:
PVCs within and outside the namespace, two VGRs on one PVC of one namespace, two VGRs
of one name. In `Scheduling`, `MaxNum` lies beyond every field (60, 24, 31) and
`Horizon` spans two cycles of each, and four months of days.

Deadlock is checked, except where the instance may really stop: after a PV has
been released and its claims are gone (`EagerDelete`, or the fault of finding 1)
nothing is left to do for the volume. The runs with another group allow a stop too: when
the two groups wait for each other (see the limits). In `lifecycle` users need not act, and the clock
of `scheduling` stops at its horizon.

### Fairness

`FairSpec` assumes weak fairness of: the operator's steps together (the work queue
hands each queued request to the one worker, `MaxConcurrentReconciles` being its
default 1, and a pass runs to its end or fails); Ramen's demotion and promotion
after its intent; the application's stop and the deletion of its PVC, which Ramen
orders in a relocation; each VolSync step; the PV controller and the PVC-protection
controller, each per volume. The last two are separate controllers and have
separate conditions: under one condition the binding of the main claim could
starve the removal of the temporary claim's protection for ever, as each restore
that finds the temporary claim still there reserves the PV anew
(`handler.go:1117-1150`). Nothing is assumed of `Relocate`, `Return`, `StartApp` and
`Write`, of `OtherRelocate`, `OtherReturn` and `OtherPauses`. The final syncs and the
demotion of the other VGR in the namespace are fair too, and so is the cache
(`CatchUp`): an informer shows every change in the end. No strong fairness is used here.

In `GroupLifecycle`, `FairSpec` assumes weak fairness of the worker's steps within a pass
and of the cache, and strong fairness of starting a pass over each VGR: the work
queue is first in, first out, each pass that fails is queued again with back-off and each
change of a VGR is an event, so that a VGR waiting for the worker gets it, although
it is taken for other VGRs again and again. Weak fairness would not say so, as the
worker is busy infinitely often. Failures are bounded by `Mishaps`; nothing is assumed of
users.

### Limits of what is shown

* The properties of a relocation other than `OrphanedOnlyBy` are stated of a careful
  world, in the runs as in the theorems (`Careful`, section 9). None of its
  conditions can be dropped. The VRG can be read: `ShouldRunFinalSync` returns no
  error to its caller and takes a failure for "not required" (`finalsync_handler.go:60`),
  and with such failures TLC finds `SyncedBeforeDemotion` violated. A relocation is
  not taken back before it is done: findings 2 and 3. PVCs are deleted while in service
  and in a relocation only: otherwise TLC finds `CustodyKept` violated.
  `relocation_anything` has all of these and checks what still holds.
* The cache shows the VRG of the relocation when it shows the VGR's demotion. They come
  from two informers, and `finalsync_handler.go:60` reads the cache: with a VRG that is behind
  (`"lagVRG"`) TLC finds a demotion without final sync, `SyncedBeforeDemotion` violated,
  and the relocation not completed.
* The cache shows a source once it is made (`"lagRS"`). Otherwise, and likewise when
  another group comes back to the namespace while this one relocates,
  `AreAllRSFinalSyncsComplete` may be true before the restores and false after them; the
  pass ends without a requeue (`secondary_reconciler.go:101`), the restored claims are not
  parked again, and TLC finds the relocation waiting for ever (`NoneAppears`).
  A destination that the cache hides is checked (`OneDirectionAgain`). That the cache
  goes on showing a deleted object, and a lag of PVCs, of the VGR or of an RS's status,
  is not modelled; `GroupLifecycle` has the lag of PVCs.
* Beside another group `ReportedReplicating` does not say that the sources are not
  paused: a pass of the other VGR pauses them as soon as any VRG of the namespace is
  Secondary, and no pass clears `spec.paused` while the group stays primary. Nor does `PromotionCompletes`
  say that a group returns while another VRG is Secondary: `checkVRGConflict` ends each of its
  passes without a requeue. When the other group's gate then waits for this group's
  sources, which never complete a final sync, neither goes on.
* What our passes do to the sources of the other group is left out: `other` completes its
  final syncs by fairness. The deletion of VolSync's pods at the end of a pause (`EndPause`)
  is one step with any subset of the pods ended.
* The safety properties hold with either selector. With one that restored claims do not
  match (finding 4) they hold partly because such a relocation is never reported:
  `SelectorInv` in `RelocationMoves` says why.
* Liveness of a relocation is checked for one volume without failed writes.
* A group relocates only if the groups that share its namespace complete their
  final syncs too: without the fairness of `OtherSynced`, TLC finds
  `RelocationCompletes` violated. Nor does it hold once a relocation was taken
  back late: the main PVC stays terminating, as no primary pass restores it.
* A pass that meets an incomplete source of the other group ends without a requeue
  (`secondary_reconciler.go:101`) and is woken by its own status update, whose
  conditions carry the time. Two passes within one second write the same times, and
  then that update is no event; the model leaves this case out, and without the
  event TLC finds the group waiting for ever.

## 8. Findings

1. `handler.go:988`. If the PV update fails after the temporary PVC was created, and
   the restore runs next, it takes the temporary PVC as proof that the volume is
   parked, and strips the terminating PVC whose PV is still reserved for it: the PV
   is released. In a relocation the final sync stands in between
   (`CustodyKept`); when no final sync is required nothing does.
2. `primary_reconciler.go:427`. Sources paused for a relocation stay paused when it is
   taken back: `createOrUpdateRS` never clears `spec.paused`.
3. `finalsync_handler.go:80`. The manual trigger tag is one constant, and a
   `lastManualSync` of a relocation that was taken back is taken for the completion
   of the next one.
4. `handler.go:1105`. `docs/VGR_CREATION_GUIDE.md:20` promises that the secondary discovers
   "the same PVCs (with matching labels)". A restored PVC keeps the owner labels and
   the consistency group only, so a selector by a label of the application, as in the
   guide's examples, does not find it after a relocation.

Disagreements seen while modelling that no run shows:

* `docs/VGR_CREATION_GUIDE.md`, scenario 3: taking the label off a PVC is said to make
  the operator clean up its ReplicationSource; no pass looks at PVCs that are no longer listed.
* The same guide, scenarios 1 and 2: a new PVC needs the owner label before a primary
  lists it; the interval in a PVC's annotation is read by the secondary only
  (`secondary_reconciler.go:337`), which makes no schedule of it.
* `README.md:304`, `docs/USER_GUIDE.md:521` and `docs/VGR_CREATION_GUIDE.md:253` allow a cron
  expression as interval; only a number with `m`, `h` or `d` is accepted.
* `docs/USER_GUIDE.md:212` and `:249` use `0m` for Metro; the code reads it as `5m`.
* `docs/USER_GUIDE.md:217` describes non-global classes; `isGlobal` is only logged, and the primary
  lists PVCs in every namespace.
* `primary_reconciler.go:481` says that only 5, 10 and 15 minutes are checked; every
  interval from 5 to 15 is.
* `delete_reconciler.go:90` says that the PVCs of a secondary are deleted; only those are
  that carry the owner label, which a secondary pass does not put on them.

## 9. Proofs

`PVCHandoverProofs`, checked by TLAPS for every set `Volumes`, every `NoVolume`
outside it, and:

| Theorem | From | Says |
|---|---|---|
| `TypeCorrect` | the module's constants only | `Spec => []TypeOK` |
| `Kept`, `Guarded`, `LetGo` | `CarefulWorld` | `VolumeKept`, `GuardedUntilParked`, `LetGoOnlyParked` |
| `ImplementsCustody` | `CarefulWorld` | `Spec => CustodySpec` |
| `Orphaned` | the module's constants only | `Spec => OrphanedOnlyBy` |

`CarefulWorld` says `"repointTmp" \notin FaultSteps` and `EagerDelete = FALSE`: the PV
update after the creation of the temporary claim does not fail, and claims
are deleted only in service. Finding 1 is why the first is needed, the terminating
temporary claim and the unprotected main claim of `OrphanedOnlyBy` why the second is.

None of the three properties is inductive. A restore takes the existence of a
temporary claim for the proof that the volume is parked, and the procedure in
progress relies on what it read some steps ago; the strengthening `HandoverInv`
says why both are right. Per volume (`VolumeInv`): the PV was never released; the
claim it is reserved for exists; and when a terminating main claim still owns its
volume, it is guarded and there is no temporary claim beside it, unless the
operator is at `repointTmp` for that very volume. For the procedure in progress
(`OpInv`): what holds of its volume at each of its steps. Preservation is proved in
four lemmas, `CreateStep`, `RestoreStep`, `OperatorStep` and `ClusterStep`, with one
step per action; `Invariance` combines them. The refinement maps `Unprotect`, `ClearMain` and
`Unguard` to `Vacate` when they take the last finalizer, `RepointTmp` to `Park`,
`RepointMain` to `Return`, `DeleteMain` to `Retire`, and all else to a stutter.

`Orphaned` needs no assumption on faults or users, and a weaker invariant,
`OrphanInv`: the operator removes its finalizer only while the PV no longer names
the claim, and only a claim that exists carries a deletion mark.

`GroupLifecycleProofs`, checked for every set of groups, claims and sites and for all
bounds, from `LifecycleAssumption` alone:

| Theorem | Says |
|---|---|
| `TypeCorrect` | `Spec => []TypeOK` |
| `LeavesNothing`, `LetsGo`, `NeverBothWays` | `NothingLeftBehind`, `ClaimsLetGo`, `OneWay` are invariant |
| `DestroysSecondary` | `Spec => OnlySecondaryDestroys` |
| `ImplementsPromise` | `Spec => KeepsPromise`, the refinement of `GroupPromise` |

`NothingLeftBehind` and `ClaimsLetGo` speak of a VGR that has gone, and one step,
`Finish`, could break them; the invariant has to say what a deletion has
achieved by every step before it. `LifecycleInv` is `TypeOK`, what the pass in
progress relies on (`PassInv`: its group still exists and carries the finalizer, and
it listed only what it may act on; an owner label changes only among VGRs of one
name; the cache shows every PVC that lives), what a VGR without the finalizer cannot
have (`Kept`), and how far a deletion has come (`Progress`: from the second list on
no source that its list could show is left, from the third on no destination, and
each PVC not in `todo` any more is let go of, except for what `missed` records). `KeepsPromise` uses it at two places:
nothing is acquired by a group without the finalizer, and `Finish` finds `held` empty.
Every other step of the worker gives something back or maps to a stutter. `OneWay`
needs only `Cleared` beside it: between `ClearOther` and `MakeSync` the other direction is gone
or recorded in `missed`, and one worker means that no other pass brings it back.
Type correctness is proved action by action in one lemma, the others for each
conjunct an action disturbs.

`RelocationSteps` and `RelocationProofs`, checked for every set `Volumes`:

| Theorem | From | Says |
|---|---|---|
| `TypeCorrect` | the module's constants only | `Spec => []TypeOK` |
| `Orphaned` | the module's constants only | `Spec => OrphanedOnlyBy` |
| `Synced`, `Complete` | `Careful` | `SyncedBeforeDemotion`, `CompleteMeansSynced` |
| `AtRest`, `LetGo` | `Careful` | `FinalSyncAtRest`, `LetGoSafely` |
| `SettledWhenSecondary`, `Reported` | `Careful` | `SecondarySettled`, `ReportedReplicating` |
| `Custody` | `Careful` | `Spec => CustodyKept`, the refinement of `VolumeCustody` |

`Careful` says `EagerDelete = FALSE`, `Cancel = FALSE` and `PassFaults \subseteq {"write",
"listVRG"}`: the VRG can be read and the cache is not behind. It leaves open which writes
fail, whether the VRGs can be listed, which handover step fails (`FaultSteps` is any set),
where the VRG lives, what another group of the namespace does, how often the group
relocates, and the selector. `Reported` says for all of these that every listed claim has
its source; that it is not paused is proved when no other VGR pauses it (`Undisturbed`).

`HandoverStep` shows that every step of `Relocation` on the claims is one of
`PVCHandover` or leaves the claims alone; thus `Orphaned` and the types of the claims
carry over from `PVCHandoverProofs`. `Kept` and its companions do not, as they
exclude the fault at `repointTmp`: `Custody` has an argument of its own.

The invariant, `RelocationInv`, has its crux in `RestInv`: while the group is reported as
primary, no volume returns to the application's claim, loses its source or
becomes a destination (`Returning`) before `AllRest`, when no application of the group
writes, nothing is left to copy and every source that is left has done its final
sync. `AllRest` is reached volume by volume while nothing returns, and lasts until
the status is secondary. The other parts say why the code cannot take the
gate for open too early:

* `SourceInv`: a final sync runs only from a temporary claim that has the PV, of a volume
  without an application, so that `lastManualSync` means what it says;
* `PassInv`: what a stage has achieved for the items it has been over, and that its list
  names every volume; a stage that ends has then done it for the group;
* `ClaimInv`, `ProcInv`: a claim that is being deleted is guarded until its PV is reserved for the
  temporary one, and what the handover in progress read still holds;
* `ClearedInv`: what a pass has deleted for the item in hand and what it may write next; with
  a cache that is not behind, the other direction is gone by then;
* `CycleInv`, `ServingInv`, `SettledInv`, `PauseInv`: what VRG, VGR, stage and the reported
  state say of the sources and destinations;
* `TakenInv`, `MatchInv`, `SelectorInv`: which claims the selector finds. Without the labels a
  restored volume is found by its temporary claim only, or not at all; a list of a
  group at rest always names a temporary claim, which never counts as ready, so
  that the group is never reported as secondary.

`Relocation` has many actions and the invariant many parts. `RelocationMoves` therefore first
shows that each group of actions is one of a few *moves*, relations between the old and
the new state of one volume at a stage of the pass (`ClaimMoves`, `PassMoves`,
`IntentMoves`, `SourceMoves`, `MatchMoves`, `ItemMoves`); the proof that a part is kept (`CycleStep`
.. `SelectorStep`, combined in `InvStep`) goes through the moves. `Custody` maps each step
as in `PVCHandover`, with the invariant where that module needed `CarefulWorld`.

`SchedulingProofs`, checked for every `MaxNum` and `Horizon` in `Nat`, so for every interval:

| Theorem | Says |
|---|---|
| `Punctual` | `NeverLate` is invariant |
| `Even` | `Spec => Evenly` |
| `Clear` | `WindowClear` is invariant |

The invariant ties the three clocks together: `at` is the position of `now` in the cycle
where the cycle has one length (`ClockInv`), and `since` is the remainder of `at`, counted
from the first value of the field, by the step (`SinceInv`). What a tick does to a
remainder is the lemma `NextRemainder`. `Even` and `Clear` then need that the interval
divides the cycle.

Only model-checked: the four liveness properties (`RelocationCompletes`,
`PromotionCompletes`, `OneDirectionAgain`, `DeletionCompletes`), as liveness under fairness is outside what the
prover does, and the violations of the findings, which are counterexamples.

## 10. Not modelled

* Annotations copied between PVCs and per-PVC configuration; selectors as expressions
  over labels (a selector is the set of PVCs it matches).
* Conditions and messages, except where a property is about them.
* A class of another provisioner, for which `Reconcile` returns at once.
* `checkFailoverSafety`, commented out of `Reconcile` (the window it asks for is in
  `Scheduling`); `updatePVCAnnotations` and
  `generateVolSyncReplicationSecret`, which nothing calls; the ServiceExport and the
  PSK secret, which the protocol does not read back.
* The peer cluster: the final sync's completion stands for the data being there.
* `cmd/main.go` (start-up) beyond the one worker and the cache, unused types, the rollback stub, `scripts/migrate.sh`.
