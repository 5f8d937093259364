----------------------------- MODULE PVCHandover -----------------------------
(***************************************************************************)
(* The handover of a PersistentVolume from the application's claim "main"  *)
(* to the temporary claim "tmp" (<pvc>-tmp) and back, one action per       *)
(* mutating Kubernetes call of CreateTemporaryPVCFromTerminating and       *)
(* RestorePVCFromTemporary (internal/volsync/handler.go).  Between two     *)
(* calls the PV controller, the PVC-protection controller and the user may *)
(* step, a call may fail, and the operator may crash.                      *)
(*                                                                         *)
(* The callers are over-approximated: any procedure may start on any       *)
(* volume whose claims allow it, in any order.  The order a reconcile pass *)
(* imposes is the subject of module Relocation.                            *)
(***************************************************************************)
EXTENDS FiniteSets

CONSTANTS
    Volumes,      \* one replicated volume per application PVC
    NoVolume,     \* the value of op.vol while no procedure runs
    FaultSteps,   \* the steps before which the operator may crash or its call fail
    EagerDelete   \* TRUE: the user deletes claims that are not in service yet

Steps == {"repointTmp", "unguard", "clearMain", "repointMain", "deleteTmp"}

ASSUME NoVolumeAssumption == NoVolume \notin Volumes
ASSUME FaultStepsAssumption == FaultSteps \subseteq Steps
ASSUME EagerDeleteAssumption == EagerDelete \in BOOLEAN

VARIABLES
    main,   \* main[v]: the application's claim
    tmp,    \* tmp[v]: the temporary claim
    ref,    \* ref[v]: the PV's spec.claimRef
    op      \* the handover procedure the operator is executing

vars == <<main, tmp, ref, op>>

-----------------------------------------------------------------------------
(* Types *)

Kinds == {"main", "tmp"}
Finalizers == {"mock", "kube"}   \* the operator's own, and pvc-protection
Phases == {"absent", "pending", "bound", "lost"}

Claims == [phase: Phases, deleting: BOOLEAN, holds: SUBSET Finalizers]

\* claimRef: the claim it names, and whether its UID is unset, that of the
\* existing claim of that name, or that of a claim that is gone.  "none" is a
\* volume that was released and reclaimed.
ClaimRefs == [claim: Kinds \cup {"none"}, uid: {"unset", "live", "gone"}]

Absent == [phase |-> "absent", deleting |-> FALSE, holds |-> {}]
Reserved(k) == [claim |-> k, uid |-> "unset"]

\* What Create makes of a claim: pvc-protection is added at admission.
Fresh == [phase |-> "pending", deleting |-> FALSE, holds |-> {"kube"}]

\* A claim that is being deleted disappears with its last finalizer.
Settle(c) == IF c.deleting /\ c.holds = {} THEN Absent ELSE c

Release(c, f) == Settle([c EXCEPT !.holds = @ \ f])

\* The claimRef r once the claim k has become c: it dangles if c is gone.
Follow(r, k, c) ==
    IF c.phase = "absent" /\ r = [claim |-> k, uid |-> "live"]
    THEN [r EXCEPT !.uid = "gone"] ELSE r

Idle ==
    [pc |-> "idle", vol |-> NoVolume, rm |-> FALSE,
     seen |-> Reserved("none"), seenMain |-> Absent]

Ops == [pc: Steps \cup {"idle"}, vol: Volumes \cup {NoVolume}, rm: BOOLEAN,
        seen: ClaimRefs, seenMain: Claims]

TypeOK ==
    /\ main \in [Volumes -> Claims]
    /\ tmp \in [Volumes -> Claims]
    /\ ref \in [Volumes -> ClaimRefs]
    /\ op \in Ops
    /\ op.pc # "idle" => op.vol \in Volumes

Exists(c) == c.phase # "absent"

\* The application's claim owns its volume, is protected, and no handover is
\* pending on it.
InService(v) ==
    /\ main[v].phase = "bound"
    /\ ~main[v].deleting
    /\ "mock" \in main[v].holds
    /\ ref[v] = [claim |-> "main", uid |-> "live"]
    /\ ~Exists(tmp[v])
    /\ op.vol # v

Init ==
    /\ main = [v \in Volumes |->
                 [phase |-> "bound", deleting |-> FALSE, holds |-> Finalizers]]
    /\ tmp = [v \in Volumes |-> Absent]
    /\ ref = [v \in Volumes |-> [claim |-> "main", uid |-> "live"]]
    /\ op = Idle

-----------------------------------------------------------------------------
(* CreateTemporaryPVCFromTerminating *)

\* Mutants of EnsureTmp: the finalizer is removed before the PV is updated; the PV
\* is left alone by the call that creates the temporary claim.
EnsureTmpUnguardFirst(v, rm) ==
    /\ op.pc = "idle"
    /\ main[v].deleting /\ ref[v].claim # "none"
    /\ tmp' = [tmp EXCEPT ![v] = IF Exists(@) THEN @ ELSE Fresh]
    /\ op' = [Idle EXCEPT !.pc = IF rm THEN "unguard" ELSE "repointTmp",
                          !.vol = v, !.rm = rm, !.seen = ref[v]]
    /\ UNCHANGED <<main, ref>>

EnsureTmpRepointLater(v, rm) ==
    /\ op.pc = "idle"
    /\ main[v].deleting /\ ref[v].claim # "none"
    /\ tmp' = [tmp EXCEPT ![v] = IF Exists(@) THEN @ ELSE Fresh]
    /\ op' = IF Exists(tmp[v]) /\ ref[v].claim # "tmp"
             THEN [Idle EXCEPT !.pc = "repointTmp", !.vol = v, !.rm = rm, !.seen = ref[v]]
             ELSE Idle
    /\ UNCHANGED <<main, ref>>

\* The main claim is terminating (the callers ask IsPVCTerminating): read it
\* and its PV, and create the temporary claim unless there is one already.
EnsureTmp(v, rm) ==
    /\ op.pc = "idle"
    /\ Exists(main[v]) /\ main[v].deleting
    /\ ref[v].claim # "none"
    /\ tmp' = [tmp EXCEPT ![v] = IF Exists(@) THEN @ ELSE Fresh]
    /\ op' = IF ref[v].claim # "tmp"
             THEN [Idle EXCEPT !.pc = "repointTmp", !.vol = v, !.rm = rm, !.seen = ref[v]]
             ELSE IF rm THEN [Idle EXCEPT !.pc = "unguard", !.vol = v, !.rm = rm]
                        ELSE Idle
    /\ UNCHANGED <<main, ref>>

\* Mutant of RepointTmp: the PVC whose finalizer is removed next is forgotten.
RepointTmpForgetful(v) ==
    /\ op.pc = "repointTmp" /\ op.vol = v
    /\ ref[v] = op.seen
    /\ ref' = [ref EXCEPT ![v] = Reserved("tmp")]
    /\ op' = IF op.rm THEN [Idle EXCEPT !.pc = "unguard"] ELSE Idle
    /\ UNCHANGED <<main, tmp>>

\* Update the PV read by EnsureTmp: claimRef names the temporary claim, no UID.
RepointTmp(v) ==
    /\ op.pc = "repointTmp" /\ op.vol = v
    /\ ref[v] = op.seen
    /\ ref' = [ref EXCEPT ![v] = Reserved("tmp")]
    /\ op' = IF op.rm THEN [Idle EXCEPT !.pc = "unguard", !.vol = v, !.rm = TRUE]
                      ELSE Idle
    /\ UNCHANGED <<main, tmp>>

\* removeFinalizerFromPVC on the main claim, asked for by the secondary only.
Unguard(v) ==
    /\ op.pc = "unguard" /\ op.vol = v
    /\ LET c == Release(main[v], {"mock"}) IN
         /\ main' = [main EXCEPT ![v] = c]
         /\ ref' = [ref EXCEPT ![v] = Follow(@, "main", c)]
    /\ op' = Idle
    /\ UNCHANGED tmp

-----------------------------------------------------------------------------
(* RestorePVCFromTemporary *)

\* A temporary claim exists and the main claim is still terminating: copy its
\* labels to the temporary claim, and go on to remove its finalizers.
RestoreWaits(v) ==
    /\ op.pc = "idle"
    /\ Exists(tmp[v])
    /\ ref[v].claim # "none"
    /\ Exists(main[v]) /\ main[v].deleting
    /\ op' = [Idle EXCEPT !.pc = "clearMain", !.vol = v, !.seenMain = main[v]]
    /\ UNCHANGED <<main, tmp, ref>>

\* Remove every finalizer of the main claim read by RestoreWaits; the procedure
\* then returns an error and is run again by a later pass.
ClearMain(v) ==
    /\ op.pc = "clearMain" /\ op.vol = v
    /\ main[v] = op.seenMain
    /\ LET c == Release(main[v], Finalizers) IN
         /\ main' = [main EXCEPT ![v] = c]
         /\ ref' = [ref EXCEPT ![v] = Follow(@, "main", c)]
    /\ op' = Idle
    /\ UNCHANGED tmp

\* Mutants of RestoreMain: a terminating main claim is taken as it is, too; the
\* temporary claim is deleted before the PV is updated.
RestoreMainEarly(v) ==
    /\ op.pc = "idle"
    /\ Exists(tmp[v]) /\ ref[v].claim # "none"
    /\ main' = [main EXCEPT ![v] = IF Exists(@) THEN @ ELSE Fresh]
    /\ op' = [Idle EXCEPT !.pc = "repointMain", !.vol = v, !.seen = ref[v]]
    /\ UNCHANGED <<tmp, ref>>

RestoreMainDeleteFirst(v) ==
    /\ op.pc = "idle"
    /\ Exists(tmp[v]) /\ ref[v].claim # "none"
    /\ ~main[v].deleting
    /\ main' = [main EXCEPT ![v] = IF Exists(@) THEN @ ELSE Fresh]
    /\ op' = [Idle EXCEPT !.pc = "deleteTmp", !.vol = v]
    /\ UNCHANGED <<tmp, ref>>

\* A temporary claim exists and the main claim is not terminating: create it
\* again; a claim of that name that is there already is taken as it is.
RestoreMain(v) ==
    /\ op.pc = "idle"
    /\ Exists(tmp[v])
    /\ ref[v].claim # "none"
    /\ ~main[v].deleting
    /\ main' = [main EXCEPT ![v] = IF Exists(@) THEN @ ELSE Fresh]
    /\ op' = [Idle EXCEPT !.pc = "repointMain", !.vol = v, !.seen = ref[v]]
    /\ UNCHANGED <<tmp, ref>>

\* Update the PV read by RestoreMain, whatever its claimRef was.
RepointMain(v) ==
    /\ op.pc = "repointMain" /\ op.vol = v
    /\ ref[v] = op.seen
    /\ ref' = [ref EXCEPT ![v] = Reserved("main")]
    /\ op' = [Idle EXCEPT !.pc = "deleteTmp", !.vol = v]
    /\ UNCHANGED <<main, tmp>>

\* Delete the temporary claim; it never carries the operator's finalizer.
DeleteTmp(v) ==
    /\ op.pc = "deleteTmp" /\ op.vol = v
    /\ tmp' = [tmp EXCEPT ![v] = IF Exists(@) THEN Settle([@ EXCEPT !.deleting = TRUE])
                                              ELSE @]
    /\ op' = Idle
    /\ UNCHANGED <<main, ref>>

-----------------------------------------------------------------------------
(* The operator's other writes to claims *)

\* addFinalizerToPVC, by ReconcileRS and ReconcileRD.
AddGuard(v) ==
    /\ op.pc = "idle"
    /\ Exists(main[v]) /\ ~main[v].deleting
    /\ "mock" \notin main[v].holds
    /\ main' = [main EXCEPT ![v].holds = @ \cup {"mock"}]
    /\ UNCHANGED <<tmp, ref, op>>

\* handleLostPVC, handleLostTemporaryPVC: a Lost claim loses its bind-completed
\* annotation, and the PV controller may bind it again.
ForgetBinding(v, claim, other) ==
    /\ op.pc = "idle"
    /\ claim[v].phase = "lost"
    /\ claim' = [claim EXCEPT ![v].phase = "pending"]
    /\ UNCHANGED <<other, ref, op>>

\* The operator crashes, or its next call fails and the pass returns an error.
\* A PV or PVC that changed since it was read makes the Update fail in any case.
Abort ==
    /\ op.pc # "idle"
    /\ \/ op.pc \in FaultSteps
       \/ op.pc \in {"repointTmp", "repointMain"} /\ ref[op.vol] # op.seen
       \/ op.pc = "clearMain" /\ main[op.vol] # op.seenMain
    /\ op' = Idle
    /\ UNCHANGED <<main, tmp, ref>>

-----------------------------------------------------------------------------
(* Kubernetes and the user *)

\* The PV controller binds a claim to the PV reserved for its name.
Bind(v, k, claim, other) ==
    /\ claim[v].phase = "pending"
    /\ ref[v] = Reserved(k)
    /\ claim' = [claim EXCEPT ![v].phase = "bound"]
    /\ ref' = [ref EXCEPT ![v].uid = "live"]
    /\ UNCHANGED <<other, op>>

\* The PV controller finds a bound claim whose PV refers to another UID.
Lose(v, k, claim, other) ==
    /\ claim[v].phase = "bound"
    /\ ref[v] # [claim |-> k, uid |-> "live"]
    /\ claim' = [claim EXCEPT ![v].phase = "lost"]
    /\ UNCHANGED <<other, ref, op>>

\* The PV controller releases a PV whose claim is gone; with the reclaim policy
\* Delete its data is destroyed.
Reclaim(v) ==
    /\ ref[v].uid = "gone"
    /\ ref[v].claim # "none"
    /\ ref' = [ref EXCEPT ![v].claim = "none"]
    /\ UNCHANGED <<main, tmp, op>>

\* pvc-protection: no pod uses the terminating claim any more.
Unprotect(v, k, claim, other) ==
    /\ claim[v].deleting
    /\ "kube" \in claim[v].holds
    /\ LET c == Release(claim[v], {"kube"}) IN
         /\ claim' = [claim EXCEPT ![v] = c]
         /\ ref' = [ref EXCEPT ![v] = Follow(@, k, c)]
    /\ UNCHANGED <<other, op>>

\* The application, or Ramen on its behalf, deletes its claim.
DeleteMain(v) ==
    /\ Exists(main[v]) /\ ~main[v].deleting
    /\ EagerDelete \/ InService(v)
    /\ main' = [main EXCEPT ![v] = Settle([@ EXCEPT !.deleting = TRUE])]
    /\ UNCHANGED <<tmp, ref, op>>

-----------------------------------------------------------------------------
Create == \E v \in Volumes :
    \/ \E rm \in BOOLEAN : EnsureTmp(v, rm)
    \/ RepointTmp(v)
    \/ Unguard(v)

Restore == \E v \in Volumes :
    \/ RestoreWaits(v)
    \/ ClearMain(v)
    \/ RestoreMain(v)
    \/ RepointMain(v)
    \/ DeleteTmp(v)

Operator ==
    \/ Create
    \/ Restore
    \/ \E v \in Volumes :
         \/ AddGuard(v)
         \/ ForgetBinding(v, main, tmp)
         \/ ForgetBinding(v, tmp, main)
    \/ Abort

Cluster == \E v \in Volumes :
    \/ Bind(v, "main", main, tmp)
    \/ Bind(v, "tmp", tmp, main)
    \/ Lose(v, "main", main, tmp)
    \/ Lose(v, "tmp", tmp, main)
    \/ Unprotect(v, "main", main, tmp)
    \/ Unprotect(v, "tmp", tmp, main)
    \/ Reclaim(v)
    \/ DeleteMain(v)

Next == Operator \/ Cluster

Spec == Init /\ [][Next]_vars
-----------------------------------------------------------------------------
(* Properties *)

\* The custody of every volume: its PV is reserved for one of its two claims,
\* that claim exists, and it is the very claim the PV refers to, so no step of
\* Kubernetes can release the PV (handler.go, the order Create tmp, Update PV,
\* remove finalizer, and Create main, Update PV, Delete tmp).
VolumeKept ==
    \A v \in Volumes :
        /\ ref[v].uid # "gone"
        /\ ref[v].claim = "main" => Exists(main[v])
        /\ ref[v].claim = "tmp" => Exists(tmp[v]) /\ ~tmp[v].deleting

\* While the application's claim is being deleted and still owns its volume,
\* the operator's finalizer keeps it: pvc-protection alone would let it go with
\* the last pod (addFinalizerToPVC before, removeFinalizerFromPVC after).
GuardedUntilParked ==
    \A v \in Volumes :
        main[v].deleting /\ ref[v].claim = "main" => "mock" \in main[v].holds

\* When RestorePVCFromTemporary is about to strip the main claim of its
\* finalizers, "the PV bound to the temporary PVC" (handler.go:1061) is reserved
\* for the temporary claim.
LetGoOnlyParked ==
    op.pc = "clearMain" => ref[op.vol].claim = "tmp"

\* The handover keeps the promise of VolumeCustody.
Custody == INSTANCE VolumeCustody WITH
    holder <- [v \in Volumes |-> ref[v].claim],
    retiring <- [v \in Volumes |-> main[v].deleting]

CustodySpec == Custody!Spec

\* With every fault and every early deletion, there are three ways to orphan a
\* PV and no other: RestorePVCFromTemporary strips a claim whose PV was never
\* parked, a claim without the operator's finalizer is deleted, or a temporary
\* claim that is already terminating is taken for a new one (handler.go:961-976).
\* CreateTemporaryPVCFromTerminating never lets go of a claim too early.
OrphanedOnlyBy ==
    [][\A v \in Volumes :
         ref[v].uid # "gone" /\ ref'[v].uid = "gone" =>
            \/ op.pc = "clearMain" /\ op.vol = v
            \/ ref[v].claim = "main" /\ main[v].deleting /\ "mock" \notin main[v].holds
            \/ ref[v].claim = "tmp" /\ tmp[v].deleting]_vars
==============================================================================
