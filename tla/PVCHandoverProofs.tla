-------------------------- MODULE PVCHandoverProofs --------------------------
(***************************************************************************)
(* Proofs about PVCHandover, for any set of volumes.                       *)
(*                                                                         *)
(* TypeOK is invariant whatever fails.  The custody of the volumes holds   *)
(* under the two conditions of CarefulWorld, and TLC shows each of them to *)
(* be necessary.                                                           *)
(***************************************************************************)
EXTENDS PVCHandover, TLAPS

\* The PV update of CreateTemporaryPVCFromTerminating follows the creation of
\* the temporary claim, and only claims in service are deleted.
CarefulWorld == "repointTmp" \notin FaultSteps /\ EagerDelete = FALSE

-----------------------------------------------------------------------------
(* The inductive invariant *)

\* The custody of v, and what its deletion may find: a claim being deleted that
\* still owns its PV is guarded, and has no temporary claim beside it unless
\* the operator is about to update the PV.
VolumeInv(v) ==
    /\ ref[v].uid # "gone"
    /\ ref[v].claim # "none"
    /\ ref[v].claim = "main" => Exists(main[v])
    /\ ref[v].claim = "tmp" => Exists(tmp[v]) /\ ~tmp[v].deleting
    /\ main[v].deleting => Exists(main[v])
    /\ main[v].deleting /\ ref[v].claim = "main" =>
         /\ ref[v].uid = "live"
         /\ "mock" \in main[v].holds
         /\ Exists(tmp[v]) => op.pc = "repointTmp" /\ op.vol = v

\* What the procedure in progress may rely on at each of its steps.
OpInv ==
    LET v == op.vol IN
    /\ op.pc = "repointTmp" =>
         /\ main[v].deleting
         /\ Exists(tmp[v]) /\ ~tmp[v].deleting
         /\ ref[v] = op.seen
         /\ ref[v].claim = "main"
    /\ op.pc = "unguard" => ref[v].claim = "tmp"
    /\ op.pc = "clearMain" => ref[v].claim = "tmp" /\ op.seenMain.deleting
    /\ op.pc = "repointMain" => Exists(main[v]) /\ ~main[v].deleting
    /\ op.pc = "deleteTmp" =>
         ref[v].claim = "main" /\ Exists(main[v]) /\ ~main[v].deleting

HandoverInv ==
    /\ TypeOK
    /\ \A v \in Volumes : VolumeInv(v)
    /\ OpInv
-----------------------------------------------------------------------------
(* The operators on claims *)

\* Removing finalizers yields a claim; it vanishes only if it is being deleted
\* and no other finalizer holds it.
LEMMA ReleaseClaim ==
    ASSUME NEW c \in Claims, NEW f \in SUBSET Finalizers
    PROVE  /\ Release(c, f) \in Claims
           /\ Release(c, f) = Absent
              \/ Release(c, f) = [c EXCEPT !.holds = @ \ f]
           /\ c.holds \ f # {} => Release(c, f) = [c EXCEPT !.holds = @ \ f]
  BY DEF Release, Settle, Claims, Absent, Phases, Finalizers

\* Asking for the deletion of a claim that a finalizer holds only marks it.
LEMMA DeleteClaim ==
    ASSUME NEW c \in Claims
    PROVE  /\ Settle([c EXCEPT !.deleting = TRUE]) \in Claims
           /\ c.holds # {} => Settle([c EXCEPT !.deleting = TRUE])
                                 = [c EXCEPT !.deleting = TRUE]
  BY DEF Settle, Claims, Absent, Phases, Finalizers

\* A claimRef stays as it is unless it names the claim that vanished.
LEMMA FollowRef ==
    ASSUME NEW r \in ClaimRefs, NEW k \in Kinds, NEW c \in Claims
    PROVE  /\ Follow(r, k, c) \in ClaimRefs
           /\ Follow(r, k, c).claim = r.claim
           /\ r.claim # k \/ c.phase # "absent" => Follow(r, k, c) = r
  BY DEF Follow, ClaimRefs, Kinds, Claims

LEMMA Constants ==
    /\ Absent \in Claims
    /\ Fresh \in Claims
    /\ \A k \in Kinds \cup {"none"} : Reserved(k) \in ClaimRefs
    /\ Idle \in Ops
  BY DEF Absent, Fresh, Reserved, Idle, Claims, ClaimRefs, Ops, Phases,
         Finalizers, Kinds, Steps

-----------------------------------------------------------------------------
(* Type correctness *)

LEMMA TypeInit == Init => TypeOK
  BY Constants DEF Init, TypeOK, Idle, Claims, ClaimRefs, Phases, Finalizers, Kinds

LEMMA TypeStep == TypeOK /\ [Next]_vars => TypeOK'
<1> SUFFICES ASSUME TypeOK, [Next]_vars PROVE TypeOK'
  OBVIOUS
<1> USE Constants DEF TypeOK
<1>1. ASSUME NEW v \in Volumes, NEW rm \in BOOLEAN, EnsureTmp(v, rm) PROVE TypeOK'
  BY <1>1 DEF EnsureTmp, Idle, Ops, Steps
<1>2. ASSUME NEW v \in Volumes, RepointTmp(v) PROVE TypeOK'
  BY <1>2 DEF RepointTmp, Idle, Ops, Steps, Kinds
<1>3. ASSUME NEW v \in Volumes, Unguard(v) PROVE TypeOK'
  <2>1. Release(main[v], {"mock"}) \in Claims
    BY ReleaseClaim DEF Finalizers
  <2>2. Follow(ref[v], "main", Release(main[v], {"mock"})) \in ClaimRefs
    BY <2>1, FollowRef DEF Kinds
  <2>3. QED
    BY <1>3, <2>1, <2>2 DEF Unguard, Idle
<1>4. ASSUME NEW v \in Volumes, RestoreWaits(v) PROVE TypeOK'
  BY <1>4 DEF RestoreWaits, Idle, Ops, Steps
<1>5. ASSUME NEW v \in Volumes, ClearMain(v) PROVE TypeOK'
  <2>1. Release(main[v], Finalizers) \in Claims
    BY ReleaseClaim
  <2>2. Follow(ref[v], "main", Release(main[v], Finalizers)) \in ClaimRefs
    BY <2>1, FollowRef DEF Kinds
  <2>3. QED
    BY <1>5, <2>1, <2>2 DEF ClearMain, Idle
<1>6. ASSUME NEW v \in Volumes, RestoreMain(v) PROVE TypeOK'
  BY <1>6 DEF RestoreMain, Idle, Ops, Steps
<1>7. ASSUME NEW v \in Volumes, RepointMain(v) PROVE TypeOK'
  BY <1>7 DEF RepointMain, Idle, Ops, Steps, Kinds
<1>8. ASSUME NEW v \in Volumes, DeleteTmp(v) PROVE TypeOK'
  BY <1>8, DeleteClaim DEF DeleteTmp, Idle
<1>9. ASSUME NEW v \in Volumes, AddGuard(v) PROVE TypeOK'
  BY <1>9 DEF AddGuard, Claims, Finalizers
<1>10. ASSUME NEW v \in Volumes,
              ForgetBinding(v, main, tmp) \/ ForgetBinding(v, tmp, main)
       PROVE  TypeOK'
  <2>1. CASE ForgetBinding(v, main, tmp)
    BY <2>1 DEF ForgetBinding, Claims, Phases
  <2>2. CASE ForgetBinding(v, tmp, main)
    BY <2>2 DEF ForgetBinding, Claims, Phases
  <2>3. QED
    BY <1>10, <2>1, <2>2
<1>11. ASSUME Abort PROVE TypeOK'
  BY <1>11 DEF Abort, Idle
<1>12. ASSUME NEW v \in Volumes,
              Bind(v, "main", main, tmp) \/ Bind(v, "tmp", tmp, main)
       PROVE  TypeOK'
  <2>1. CASE Bind(v, "main", main, tmp)
    BY <2>1 DEF Bind, Claims, Phases, ClaimRefs
  <2>2. CASE Bind(v, "tmp", tmp, main)
    BY <2>2 DEF Bind, Claims, Phases, ClaimRefs
  <2>3. QED
    BY <1>12, <2>1, <2>2
<1>13. ASSUME NEW v \in Volumes,
              Lose(v, "main", main, tmp) \/ Lose(v, "tmp", tmp, main)
       PROVE  TypeOK'
  <2>1. CASE Lose(v, "main", main, tmp)
    BY <2>1 DEF Lose, Claims, Phases
  <2>2. CASE Lose(v, "tmp", tmp, main)
    BY <2>2 DEF Lose, Claims, Phases
  <2>3. QED
    BY <1>13, <2>1, <2>2
<1>14. ASSUME NEW v \in Volumes, Reclaim(v) PROVE TypeOK'
  BY <1>14 DEF Reclaim, ClaimRefs
<1>15. ASSUME NEW v \in Volumes, Unprotect(v, "main", main, tmp) PROVE TypeOK'
  <2>1. Release(main[v], {"kube"}) \in Claims
    BY ReleaseClaim DEF Finalizers
  <2>2. Follow(ref[v], "main", Release(main[v], {"kube"})) \in ClaimRefs
    BY <2>1, FollowRef DEF Kinds
  <2>3. QED
    BY <1>15, <2>1, <2>2 DEF Unprotect
<1>16. ASSUME NEW v \in Volumes, Unprotect(v, "tmp", tmp, main) PROVE TypeOK'
  <2>1. Release(tmp[v], {"kube"}) \in Claims
    BY ReleaseClaim DEF Finalizers
  <2>2. Follow(ref[v], "tmp", Release(tmp[v], {"kube"})) \in ClaimRefs
    BY <2>1, FollowRef DEF Kinds
  <2>3. QED
    BY <1>16, <2>1, <2>2 DEF Unprotect
<1>17. ASSUME NEW v \in Volumes, DeleteMain(v) PROVE TypeOK'
  BY <1>17, DeleteClaim DEF DeleteMain
<1>18. CASE UNCHANGED vars
  BY <1>18 DEF vars
<1>19. QED
  BY <1>1, <1>2, <1>3, <1>4, <1>5, <1>6, <1>7, <1>8, <1>9, <1>10, <1>11, <1>12,
     <1>13, <1>14, <1>15, <1>16, <1>17, <1>18
     DEF Next, Operator, Cluster, Create, Restore

\* Every reachable state is well typed, whatever fails and whoever deletes.
THEOREM TypeCorrect == Spec => []TypeOK
  BY TypeInit, TypeStep, PTL DEF Spec
-----------------------------------------------------------------------------
(* Custody *)

LEMMA InvInit == Init => HandoverInv
  BY TypeInit DEF Init, HandoverInv, VolumeInv, OpInv, Idle, Exists, Finalizers

\* The actions of CreateTemporaryPVCFromTerminating.
LEMMA CreateStep == HandoverInv /\ Create => HandoverInv'
<1> SUFFICES ASSUME HandoverInv, Create PROVE (\A v \in Volumes : VolumeInv(v))' /\ OpInv'
  BY TypeStep DEF HandoverInv, Next, Operator
<1> USE Constants DEF HandoverInv, TypeOK, VolumeInv, OpInv, Exists
<1>1. ASSUME NEW v \in Volumes, NEW rm \in BOOLEAN, EnsureTmp(v, rm)
      PROVE  (\A w \in Volumes : VolumeInv(w))' /\ OpInv'
  <2>1. ASSUME NEW w \in Volumes PROVE VolumeInv(w)'
    BY <1>1 DEF EnsureTmp, Fresh, Claims, ClaimRefs, Ops, Steps, Kinds, Idle, Reserved
  <2>2. OpInv'
    BY <1>1 DEF EnsureTmp, Fresh, Claims, ClaimRefs, Ops, Steps, Kinds, Idle, Reserved
  <2>3. QED
    BY <2>1, <2>2
<1>2. ASSUME NEW v \in Volumes, RepointTmp(v)
      PROVE  (\A w \in Volumes : VolumeInv(w))' /\ OpInv'
  <2>1. ASSUME NEW w \in Volumes PROVE VolumeInv(w)'
    BY <1>2 DEF RepointTmp, Claims, ClaimRefs, Ops, Steps, Kinds, Idle, Reserved
  <2>2. OpInv'
    BY <1>2 DEF RepointTmp, Claims, ClaimRefs, Ops, Steps, Kinds, Idle, Reserved
  <2>3. QED
    BY <2>1, <2>2
<1>3. ASSUME NEW v \in Volumes, Unguard(v)
      PROVE  (\A w \in Volumes : VolumeInv(w))' /\ OpInv'
  <2> DEFINE c == Release(main[v], {"mock"})
  <2>1. /\ c \in Claims
        /\ c.phase = "absent" => ~c.deleting
    BY ReleaseClaim DEF Finalizers, Claims, Absent
  <2>2. ref' = ref
    BY <1>3, <2>1, FollowRef DEF Unguard, Ops, Steps, ClaimRefs, Kinds
  <2>3. ASSUME NEW w \in Volumes PROVE VolumeInv(w)'
    BY <1>3, <2>1, <2>2 DEF Unguard, Idle
  <2>4. OpInv'
    BY <1>3 DEF Unguard, Idle
  <2>5. QED
    BY <2>3, <2>4
<1>4. QED
  BY <1>1, <1>2, <1>3 DEF Create

\* The actions of RestorePVCFromTemporary.
LEMMA RestoreStep == HandoverInv /\ Restore => HandoverInv'
<1> SUFFICES ASSUME HandoverInv, Restore PROVE (\A w \in Volumes : VolumeInv(w))' /\ OpInv'
  BY TypeStep DEF HandoverInv, Next, Operator
<1> USE Constants DEF HandoverInv, TypeOK, VolumeInv, OpInv, Exists
<1>1. ASSUME NEW v \in Volumes, RestoreWaits(v)
      PROVE  (\A w \in Volumes : VolumeInv(w))' /\ OpInv'
  <2>1. ASSUME NEW w \in Volumes PROVE VolumeInv(w)'
    BY <1>1 DEF RestoreWaits, Claims, ClaimRefs, Ops, Steps, Kinds, Idle, Reserved
  <2>2. OpInv'
    BY <1>1 DEF RestoreWaits, Claims, ClaimRefs, Ops, Steps, Kinds, Idle, Reserved
  <2>3. QED
    BY <2>1, <2>2
<1>2. ASSUME NEW v \in Volumes, ClearMain(v)
      PROVE  (\A w \in Volumes : VolumeInv(w))' /\ OpInv'
  <2>1. /\ Release(main[v], Finalizers) \in Claims
        /\ Release(main[v], Finalizers).phase = "absent" => ~Release(main[v], Finalizers).deleting
    BY ReleaseClaim DEF Finalizers, Claims, Absent
  <2>2. ref' = ref
    BY <1>2, <2>1, FollowRef DEF ClearMain, Ops, Steps, ClaimRefs, Kinds
  <2>3. ASSUME NEW w \in Volumes PROVE VolumeInv(w)'
    BY <1>2, <2>1, <2>2 DEF ClearMain, Idle
  <2>4. OpInv'
    BY <1>2, <2>1, <2>2 DEF ClearMain, Idle
  <2>5. QED
    BY <2>3, <2>4
<1>3. ASSUME NEW v \in Volumes, RestoreMain(v)
      PROVE  (\A w \in Volumes : VolumeInv(w))' /\ OpInv'
  <2>1. ASSUME NEW w \in Volumes PROVE VolumeInv(w)'
    BY <1>3 DEF RestoreMain, Fresh, Claims, ClaimRefs, Ops, Steps, Kinds, Idle, Reserved
  <2>2. OpInv'
    BY <1>3 DEF RestoreMain, Fresh, Claims, ClaimRefs, Ops, Steps, Kinds, Idle, Reserved
  <2>3. QED
    BY <2>1, <2>2
<1>4. ASSUME NEW v \in Volumes, RepointMain(v)
      PROVE  (\A w \in Volumes : VolumeInv(w))' /\ OpInv'
  <2>1. ASSUME NEW w \in Volumes PROVE VolumeInv(w)'
    BY <1>4 DEF RepointMain, Claims, ClaimRefs, Ops, Steps, Kinds, Idle, Reserved
  <2>2. OpInv'
    BY <1>4 DEF RepointMain, Claims, ClaimRefs, Ops, Steps, Kinds, Idle, Reserved
  <2>3. QED
    BY <2>1, <2>2
<1>5. ASSUME NEW v \in Volumes, DeleteTmp(v)
      PROVE  (\A w \in Volumes : VolumeInv(w))' /\ OpInv'
  <2>1. ASSUME NEW w \in Volumes PROVE VolumeInv(w)'
    BY <1>5 DEF DeleteTmp, Settle, Absent, Claims, ClaimRefs, Ops, Steps, Kinds, Idle, Reserved
  <2>2. OpInv'
    BY <1>5 DEF DeleteTmp, Settle, Absent, Claims, ClaimRefs, Ops, Steps, Kinds, Idle, Reserved
  <2>3. QED
    BY <2>1, <2>2
<1>6. QED
  BY <1>1, <1>2, <1>3, <1>4, <1>5 DEF Restore

\* The operator's other steps.  Abort is where CarefulWorld is needed: the PV
\* cannot have changed since EnsureTmp read it, so only a fault could leave the
\* temporary claim without its PV.
LEMMA OperatorStep == CarefulWorld /\ HandoverInv /\ Operator => HandoverInv'
<1> SUFFICES ASSUME CarefulWorld, HandoverInv, Operator,
                    ~Create, ~Restore
             PROVE  (\A w \in Volumes : VolumeInv(w))' /\ OpInv'
  BY TypeStep, CreateStep, RestoreStep DEF HandoverInv, Next
<1> USE Constants DEF HandoverInv, TypeOK, VolumeInv, OpInv, Exists
<1>1. ASSUME NEW v \in Volumes, AddGuard(v)
      PROVE  (\A w \in Volumes : VolumeInv(w))' /\ OpInv'
  <2>1. ASSUME NEW w \in Volumes PROVE VolumeInv(w)'
    BY <1>1 DEF AddGuard, Claims, ClaimRefs, Ops, Steps, Kinds, Idle, Reserved
  <2>2. OpInv'
    BY <1>1 DEF AddGuard, Claims, ClaimRefs, Ops, Steps, Kinds, Idle, Reserved
  <2>3. QED
    BY <2>1, <2>2
<1>2. ASSUME NEW v \in Volumes, ForgetBinding(v, main, tmp)
      PROVE  (\A w \in Volumes : VolumeInv(w))' /\ OpInv'
  <2>1. ASSUME NEW w \in Volumes PROVE VolumeInv(w)'
    BY <1>2 DEF ForgetBinding, Claims, ClaimRefs, Ops, Steps, Kinds, Idle, Reserved
  <2>2. OpInv'
    BY <1>2 DEF ForgetBinding, Claims, ClaimRefs, Ops, Steps, Kinds, Idle, Reserved
  <2>3. QED
    BY <2>1, <2>2
<1>3. ASSUME NEW v \in Volumes, ForgetBinding(v, tmp, main)
      PROVE  (\A w \in Volumes : VolumeInv(w))' /\ OpInv'
  <2>1. ASSUME NEW w \in Volumes PROVE VolumeInv(w)'
    BY <1>3 DEF ForgetBinding, Claims, ClaimRefs, Ops, Steps, Kinds, Idle, Reserved
  <2>2. OpInv'
    BY <1>3 DEF ForgetBinding, Claims, ClaimRefs, Ops, Steps, Kinds, Idle, Reserved
  <2>3. QED
    BY <2>1, <2>2
<1>4. ASSUME Abort
      PROVE  (\A w \in Volumes : VolumeInv(w))' /\ OpInv'
  <2>1. op.pc # "repointTmp"
    BY <1>4 DEF Abort, CarefulWorld
  <2>2. ASSUME NEW w \in Volumes PROVE VolumeInv(w)'
    BY <1>4, <2>1 DEF Abort, Idle
  <2>3. OpInv'
    BY <1>4 DEF Abort, Idle
  <2>4. QED
    BY <2>2, <2>3
<1>5. QED
  BY <1>1, <1>2, <1>3, <1>4 DEF Operator

\* The steps of Kubernetes and of the user.
LEMMA ClusterStep == CarefulWorld /\ HandoverInv /\ Cluster => HandoverInv'
<1> SUFFICES ASSUME CarefulWorld, HandoverInv, Cluster
             PROVE  (\A w \in Volumes : VolumeInv(w))' /\ OpInv'
  BY TypeStep DEF HandoverInv, Next
<1> USE Constants DEF HandoverInv, TypeOK, VolumeInv, OpInv, Exists
<1>1. ASSUME NEW v \in Volumes, Bind(v, "main", main, tmp)
      PROVE  (\A w \in Volumes : VolumeInv(w))' /\ OpInv'
  <2>1. ASSUME NEW w \in Volumes PROVE VolumeInv(w)'
    BY <1>1 DEF Bind, Claims, ClaimRefs, Ops, Steps, Kinds, Idle, Reserved
  <2>2. OpInv'
    BY <1>1 DEF Bind, Claims, ClaimRefs, Ops, Steps, Kinds, Idle, Reserved
  <2>3. QED
    BY <2>1, <2>2
<1>2. ASSUME NEW v \in Volumes, Bind(v, "tmp", tmp, main)
      PROVE  (\A w \in Volumes : VolumeInv(w))' /\ OpInv'
  <2>1. ASSUME NEW w \in Volumes PROVE VolumeInv(w)'
    BY <1>2 DEF Bind, Claims, ClaimRefs, Ops, Steps, Kinds, Idle, Reserved
  <2>2. OpInv'
    BY <1>2 DEF Bind, Claims, ClaimRefs, Ops, Steps, Kinds, Idle, Reserved
  <2>3. QED
    BY <2>1, <2>2
<1>3. ASSUME NEW v \in Volumes, Lose(v, "main", main, tmp)
      PROVE  (\A w \in Volumes : VolumeInv(w))' /\ OpInv'
  <2>1. ASSUME NEW w \in Volumes PROVE VolumeInv(w)'
    BY <1>3 DEF Lose, Claims, ClaimRefs, Ops, Steps, Kinds, Idle, Reserved
  <2>2. OpInv'
    BY <1>3 DEF Lose, Claims, ClaimRefs, Ops, Steps, Kinds, Idle, Reserved
  <2>3. QED
    BY <2>1, <2>2
<1>4. ASSUME NEW v \in Volumes, Lose(v, "tmp", tmp, main)
      PROVE  (\A w \in Volumes : VolumeInv(w))' /\ OpInv'
  <2>1. ASSUME NEW w \in Volumes PROVE VolumeInv(w)'
    BY <1>4 DEF Lose, Claims, ClaimRefs, Ops, Steps, Kinds, Idle, Reserved
  <2>2. OpInv'
    BY <1>4 DEF Lose, Claims, ClaimRefs, Ops, Steps, Kinds, Idle, Reserved
  <2>3. QED
    BY <2>1, <2>2
<1>5. ASSUME NEW v \in Volumes, Unprotect(v, "main", main, tmp)
      PROVE  (\A w \in Volumes : VolumeInv(w))' /\ OpInv'
  <2>1. ASSUME NEW w \in Volumes PROVE VolumeInv(w)'
    BY <1>5 DEF Unprotect, Release, Settle, Follow, Absent, Finalizers, Claims, ClaimRefs, Ops, Steps, Kinds, Idle, Reserved
  <2>2. OpInv'
    BY <1>5 DEF Unprotect, Release, Settle, Follow, Absent, Finalizers, Claims, ClaimRefs, Ops, Steps, Kinds, Idle, Reserved
  <2>3. QED
    BY <2>1, <2>2
<1>6. ASSUME NEW v \in Volumes, Unprotect(v, "tmp", tmp, main)
      PROVE  (\A w \in Volumes : VolumeInv(w))' /\ OpInv'
  <2>1. ASSUME NEW w \in Volumes PROVE VolumeInv(w)'
    BY <1>6 DEF Unprotect, Release, Settle, Follow, Absent, Finalizers, Claims, ClaimRefs, Ops, Steps, Kinds, Idle, Reserved
  <2>2. OpInv'
    BY <1>6 DEF Unprotect, Release, Settle, Follow, Absent, Finalizers, Claims, ClaimRefs, Ops, Steps, Kinds, Idle, Reserved
  <2>3. QED
    BY <2>1, <2>2
<1>7. ASSUME NEW v \in Volumes, Reclaim(v)
      PROVE  (\A w \in Volumes : VolumeInv(w))' /\ OpInv'
  <2>1. ASSUME NEW w \in Volumes PROVE VolumeInv(w)'
    BY <1>7 DEF Reclaim
  <2>2. OpInv'
    BY <1>7 DEF Reclaim
  <2>3. QED
    BY <2>1, <2>2
<1>8. ASSUME NEW v \in Volumes, DeleteMain(v)
      PROVE  (\A w \in Volumes : VolumeInv(w))' /\ OpInv'
  <2>1. ASSUME NEW w \in Volumes PROVE VolumeInv(w)'
    BY <1>8 DEF DeleteMain, InService, CarefulWorld, Settle, Absent, Claims, ClaimRefs, Ops, Steps, Kinds, Idle, Reserved
  <2>2. OpInv'
    BY <1>8 DEF DeleteMain, InService, CarefulWorld, Settle, Absent, Claims, ClaimRefs, Ops, Steps, Kinds, Idle, Reserved
  <2>3. QED
    BY <2>1, <2>2
<1>9. QED
  BY <1>1, <1>2, <1>3, <1>4, <1>5, <1>6, <1>7, <1>8 DEF Cluster

LEMMA InvStep == CarefulWorld /\ HandoverInv /\ [Next]_vars => HandoverInv'
<1>1. ASSUME HandoverInv, UNCHANGED vars PROVE HandoverInv'
  BY <1>1 DEF HandoverInv, TypeOK, VolumeInv, OpInv, vars
<1>2. QED
  BY <1>1, OperatorStep, ClusterStep DEF Next

\* HandoverInv holds in every reachable state of a careful world.
LEMMA Invariance == CarefulWorld => (Spec => []HandoverInv)
<1>1. CarefulWorld /\ HandoverInv /\ [Next]_vars => HandoverInv'
  BY InvStep
<1> SUFFICES ASSUME CarefulWorld PROVE Spec => []HandoverInv
  OBVIOUS
<1>2. QED
  BY <1>1, InvInit, PTL DEF Spec

-----------------------------------------------------------------------------
(* Theorems *)

\* No volume loses its custody: the PV is reserved for an existing claim of its
\* own, across crashes and failed calls at every other step of the handover.
THEOREM Kept == CarefulWorld => (Spec => []VolumeKept)
<1>1. HandoverInv => VolumeKept
  BY DEF HandoverInv, VolumeInv, VolumeKept
<1> SUFFICES ASSUME CarefulWorld PROVE Spec => []VolumeKept
  OBVIOUS
<1>2. QED
  BY <1>1, Invariance, PTL

\* A terminating claim that owns its PV is held by the operator's finalizer.
THEOREM Guarded == CarefulWorld => (Spec => []GuardedUntilParked)
<1>1. HandoverInv => GuardedUntilParked
  BY DEF HandoverInv, VolumeInv, GuardedUntilParked
<1> SUFFICES ASSUME CarefulWorld PROVE Spec => []GuardedUntilParked
  OBVIOUS
<1>2. QED
  BY <1>1, Invariance, PTL

\* Finalizers are stripped only from claims whose PV is parked.
THEOREM LetGo == CarefulWorld => (Spec => []LetGoOnlyParked)
<1>1. HandoverInv => LetGoOnlyParked
  BY DEF HandoverInv, OpInv, LetGoOnlyParked
<1> SUFFICES ASSUME CarefulWorld PROVE Spec => []LetGoOnlyParked
  OBVIOUS
<1>2. QED
  BY <1>1, Invariance, PTL

-----------------------------------------------------------------------------
(* PVCHandover implements VolumeCustody *)

\* A step that changes no claimRef's name and no deletion mark is a stutter of
\* VolumeCustody.
LEMMA Stutter ==
    ASSUME \A v \in Volumes : ref[v].claim = ref'[v].claim,
           \A v \in Volumes : main[v].deleting = main'[v].deleting
    PROVE  UNCHANGED Custody!custodyVars
  BY DEF Custody!custodyVars

\* A main claim that vanishes for good has its volume parked.
LEMMA VacateStep ==
    ASSUME NEW v \in Volumes, NEW f \in SUBSET Finalizers, TypeOK, main[v].deleting,
           main' = [main EXCEPT ![v] = Release(main[v], f)],
           ref' = [ref EXCEPT ![v] = Follow(ref[v], "main", Release(main[v], f))],
           ref[v].claim = "tmp" \/ main[v].holds \ f # {},
           \A w \in Volumes : ref[w].claim # "none"
    PROVE  [Custody!Next]_(Custody!custodyVars)
<1> DEFINE c == Release(main[v], f)
<1>1. c \in Claims /\ (c = Absent \/ c = [main[v] EXCEPT !.holds = @ \ f])
  BY ReleaseClaim DEF TypeOK
<1>2. ASSUME NEW w \in Volumes PROVE ref'[w].claim = ref[w].claim
  <2>1. Follow(ref[v], "main", c).claim = ref[v].claim
    BY <1>1, FollowRef DEF TypeOK, Kinds
  <2>2. QED
    BY <2>1 DEF TypeOK
<1>3. \A w \in Volumes : w # v => main'[w] = main[w]
  BY DEF TypeOK
<1>4. main'[v] = c
  BY DEF TypeOK
<1>5. CASE c # Absent
  <2>1. c.deleting = main[v].deleting
    BY <1>1, <1>5 DEF TypeOK, Claims
  <2>2. QED
    BY <1>2, <1>3, <1>4, <2>1, Stutter
<1>6. CASE c = Absent
  <2>1. ref[v].claim = "tmp"
    BY <1>6, ReleaseClaim DEF TypeOK, Claims, Absent
  <2>2. [w \in Volumes |-> main'[w].deleting]
          = [[w \in Volumes |-> main[w].deleting] EXCEPT ![v] = FALSE]
    <3>1. main'[v].deleting = FALSE
      BY <1>4, <1>6 DEF Absent
    <3>2. ASSUME NEW w \in Volumes
          PROVE  main'[w].deleting = IF w = v THEN FALSE ELSE main[w].deleting
      <4>1. CASE w = v
        BY <3>1, <4>1
      <4>2. CASE w # v
        BY <1>3, <4>2
      <4>3. QED
        BY <4>1, <4>2
    <3>3. QED
      BY <3>2
  <2>3. [w \in Volumes |-> ref'[w].claim] = [w \in Volumes |-> ref[w].claim]
    BY <1>2
  <2>4. Custody!Vacate(v)
    BY <2>1, <2>2, <2>3 DEF Custody!Vacate
  <2>5. QED
    BY <2>4 DEF Custody!Next
<1>7. QED
  BY <1>5, <1>6

LEMMA RefineInit == Init => Custody!Init
  BY DEF Init, Custody!Init

LEMMA RefineStep ==
    CarefulWorld /\ HandoverInv /\ [Next]_vars => [Custody!Next]_(Custody!custodyVars)
<1> SUFFICES ASSUME CarefulWorld, HandoverInv, [Next]_vars
             PROVE  [Custody!Next]_(Custody!custodyVars)
  OBVIOUS
<1> USE DEF HandoverInv, TypeOK
<1>1. ASSUME NEW v \in Volumes, NEW rm \in BOOLEAN, EnsureTmp(v, rm)
      PROVE  UNCHANGED Custody!custodyVars
  BY <1>1, Stutter DEF EnsureTmp
<1>2. ASSUME NEW v \in Volumes, RepointTmp(v) PROVE Custody!Park(v)
  BY <1>2 DEF RepointTmp, Custody!Park, OpInv, Reserved
<1>3. ASSUME NEW v \in Volumes, Unguard(v)
      PROVE  [Custody!Next]_(Custody!custodyVars)
  <2>1. ref[v].claim = "tmp" /\ (~main[v].deleting => Release(main[v], {"mock"}).deleting = FALSE)
    BY <1>3, ReleaseClaim DEF Unguard, OpInv, Claims, Absent, Finalizers
  <2>2. CASE main[v].deleting
    BY <1>3, <2>1, <2>2, VacateStep DEF Unguard, Finalizers, VolumeInv
  <2>3. CASE ~main[v].deleting
    <3>1. Follow(ref[v], "main", Release(main[v], {"mock"})) = ref[v]
      BY <2>1, ReleaseClaim, FollowRef DEF Kinds, Finalizers
    <3>2. QED
      BY <1>3, <2>1, <2>3, <3>1, Stutter DEF Unguard, Claims
  <2>4. QED
    BY <2>2, <2>3
<1>4. ASSUME NEW v \in Volumes, RestoreWaits(v)
      PROVE  UNCHANGED Custody!custodyVars
  BY <1>4, Stutter DEF RestoreWaits
<1>5. ASSUME NEW v \in Volumes, ClearMain(v)
      PROVE  [Custody!Next]_(Custody!custodyVars)
  <2>1. ref[v].claim = "tmp" /\ main[v].deleting
    BY <1>5 DEF ClearMain, OpInv
  <2>2. QED
    BY <1>5, <2>1, VacateStep DEF ClearMain, VolumeInv
<1>6. ASSUME NEW v \in Volumes, RestoreMain(v)
      PROVE  UNCHANGED Custody!custodyVars
  <2>1. main'[v].deleting = main[v].deleting
    BY <1>6 DEF RestoreMain, Fresh, Claims
  <2>2. QED
    BY <1>6, <2>1, Stutter DEF RestoreMain
<1>7. ASSUME NEW v \in Volumes, RepointMain(v)
      PROVE  [Custody!Next]_(Custody!custodyVars)
  <2>1. ~main[v].deleting
    BY <1>7 DEF RepointMain, OpInv
  <2>2. CASE ref[v].claim = "main"
    BY <1>7, <2>2, Stutter DEF RepointMain, Reserved
  <2>3. CASE ref[v].claim = "tmp"
    <3>1. Custody!Return(v)
      BY <1>7, <2>1, <2>3 DEF RepointMain, Custody!Return, Reserved
    <3>2. QED
      BY <3>1 DEF Custody!Next
  <2>4. QED
    BY <2>2, <2>3 DEF VolumeInv, ClaimRefs, Kinds
<1>8. ASSUME NEW v \in Volumes, DeleteTmp(v)
      PROVE  UNCHANGED Custody!custodyVars
  BY <1>8, Stutter DEF DeleteTmp
<1>9. ASSUME NEW v \in Volumes, AddGuard(v)
      PROVE  UNCHANGED Custody!custodyVars
  BY <1>9, Stutter DEF AddGuard, Claims
<1>10. ASSUME NEW v \in Volumes,
              ForgetBinding(v, main, tmp) \/ ForgetBinding(v, tmp, main)
       PROVE  UNCHANGED Custody!custodyVars
  <2>1. CASE ForgetBinding(v, main, tmp)
    BY <2>1, Stutter DEF ForgetBinding, Claims
  <2>2. CASE ForgetBinding(v, tmp, main)
    BY <2>2, Stutter DEF ForgetBinding
  <2>3. QED
    BY <1>10, <2>1, <2>2
<1>11. ASSUME Abort PROVE UNCHANGED Custody!custodyVars
  BY <1>11, Stutter DEF Abort
<1>12. ASSUME NEW v \in Volumes,
              Bind(v, "main", main, tmp) \/ Bind(v, "tmp", tmp, main)
       PROVE  UNCHANGED Custody!custodyVars
  <2>1. CASE Bind(v, "main", main, tmp)
    BY <2>1, Stutter DEF Bind, Claims, ClaimRefs
  <2>2. CASE Bind(v, "tmp", tmp, main)
    BY <2>2, Stutter DEF Bind, ClaimRefs
  <2>3. QED
    BY <1>12, <2>1, <2>2
<1>13. ASSUME NEW v \in Volumes,
              Lose(v, "main", main, tmp) \/ Lose(v, "tmp", tmp, main)
       PROVE  UNCHANGED Custody!custodyVars
  <2>1. CASE Lose(v, "main", main, tmp)
    BY <2>1, Stutter DEF Lose, Claims
  <2>2. CASE Lose(v, "tmp", tmp, main)
    BY <2>2, Stutter DEF Lose
  <2>3. QED
    BY <1>13, <2>1, <2>2
<1>14. ASSUME NEW v \in Volumes, Unprotect(v, "main", main, tmp)
       PROVE  [Custody!Next]_(Custody!custodyVars)
  <2>1. ref[v].claim = "tmp" \/ main[v].holds \ {"kube"} # {}
    BY <1>14 DEF Unprotect, VolumeInv, ClaimRefs, Kinds
  <2>2. QED
    BY <1>14, <2>1, VacateStep DEF Unprotect, Finalizers, VolumeInv
<1>15. ASSUME NEW v \in Volumes, Unprotect(v, "tmp", tmp, main)
       PROVE  UNCHANGED Custody!custodyVars
  <2>1. Follow(ref[v], "tmp", Release(tmp[v], {"kube"})).claim = ref[v].claim
    BY ReleaseClaim, FollowRef DEF Kinds, Finalizers
  <2>2. QED
    BY <1>15, <2>1, Stutter DEF Unprotect
<1>16. ASSUME NEW v \in Volumes, Reclaim(v) PROVE FALSE
  BY <1>16 DEF Reclaim, VolumeInv
<1>17. ASSUME NEW v \in Volumes, DeleteMain(v) PROVE Custody!Retire(v)
  <2>1. ref[v].claim = "main" /\ ~main[v].deleting /\ main[v].holds # {}
    BY <1>17 DEF DeleteMain, InService, CarefulWorld
  <2>2. Settle([main[v] EXCEPT !.deleting = TRUE]) = [main[v] EXCEPT !.deleting = TRUE]
    BY <2>1, DeleteClaim
  <2>3. QED
    BY <1>17, <2>1, <2>2 DEF DeleteMain, Custody!Retire, Claims
<1>18. CASE UNCHANGED vars
  BY <1>18, Stutter DEF vars
<1>19. QED
  BY <1>1, <1>2, <1>3, <1>4, <1>5, <1>6, <1>7, <1>8, <1>9, <1>10, <1>11, <1>12,
     <1>13, <1>14, <1>15, <1>16, <1>17, <1>18
     DEF Next, Operator, Cluster, Create, Restore, Custody!Next

\* The handover implements VolumeCustody: volumes move to the temporary claim
\* only while the application's claim is being deleted, come back only once that
\* claim is gone, and are never without a claim in between.
THEOREM ImplementsCustody == CarefulWorld => (Spec => CustodySpec)
<1>1. CarefulWorld /\ HandoverInv /\ [Next]_vars => [Custody!Next]_(Custody!custodyVars)
  BY RefineStep
<1> SUFFICES ASSUME CarefulWorld PROVE Spec => CustodySpec
  OBVIOUS
<1>2. QED
  BY <1>1, RefineInit, Invariance, PTL DEF Spec, CustodySpec, Custody!Spec

-----------------------------------------------------------------------------
(* How a volume is orphaned, whatever fails and whatever is deleted *)

\* Only a claim that exists is being deleted, and
\* CreateTemporaryPVCFromTerminating takes the finalizer only from a claim whose
\* PV no longer names it: no assumption on the faults is needed.
OrphanInv ==
    /\ TypeOK
    /\ \A v \in Volumes : main[v].deleting => Exists(main[v])
    /\ op.pc = "unguard" => ref[op.vol].claim # "main"

\* A claim that is left without a finalizer takes its deletion mark with it.
LEMMA MarkGone ==
    ASSUME NEW c \in Claims, NEW f \in SUBSET Finalizers, Exists(c)
    PROVE  /\ Release(c, f).deleting => Exists(Release(c, f))
           /\ Settle([c EXCEPT !.deleting = TRUE]).deleting =>
                Exists(Settle([c EXCEPT !.deleting = TRUE]))
  BY DEF Release, Settle, Claims, Exists, Absent, Finalizers

\* The deletion mark, over the actions that write a main claim.
LEMMA MarkStep ==
    OrphanInv /\ [Next]_vars => \A v \in Volumes : main'[v].deleting => Exists(main'[v])
<1> SUFFICES ASSUME OrphanInv, [Next]_vars, NEW w \in Volumes
             PROVE  main'[w].deleting => Exists(main'[w])
  OBVIOUS
<1> USE DEF OrphanInv, TypeOK
<1>1. ASSUME NEW v \in Volumes, NEW f \in SUBSET Finalizers, Exists(main[v]),
             main' = [main EXCEPT ![v] = Release(main[v], f)]
      PROVE  main'[w].deleting => Exists(main'[w])
  BY <1>1, MarkGone
<1>2. ASSUME main' = main PROVE main'[w].deleting => Exists(main'[w])
  BY <1>2
<1>3. ASSUME NEW v \in Volumes, Unguard(v) PROVE main'[w].deleting => Exists(main'[w])
  <2>1. main' = [main EXCEPT ![v] = Release(main[v], {"mock"})]
    BY <1>3 DEF Unguard
  <2>2. CASE Exists(main[v])
    BY <1>1, <2>1, <2>2 DEF Finalizers
  <2>3. CASE ~Exists(main[v])
    BY <2>1, <2>3 DEF Release, Settle, Absent, Exists, Claims
  <2>4. QED
    BY <2>2, <2>3
<1>4. ASSUME NEW v \in Volumes, ClearMain(v) PROVE main'[w].deleting => Exists(main'[w])
  <2>1. main' = [main EXCEPT ![v] = Release(main[v], Finalizers)]
    BY <1>4 DEF ClearMain
  <2>2. CASE Exists(main[v])
    BY <1>1, <2>1, <2>2
  <2>3. CASE ~Exists(main[v])
    BY <2>1, <2>3 DEF Release, Settle, Absent, Exists, Claims
  <2>4. QED
    BY <2>2, <2>3
<1>5. ASSUME NEW v \in Volumes, Unprotect(v, "main", main, tmp)
      PROVE  main'[w].deleting => Exists(main'[w])
  <2>1. main' = [main EXCEPT ![v] = Release(main[v], {"kube"})] /\ Exists(main[v])
    BY <1>5 DEF Unprotect
  <2>2. QED
    BY <1>1, <2>1 DEF Finalizers
<1>6. ASSUME NEW v \in Volumes, DeleteMain(v) PROVE main'[w].deleting => Exists(main'[w])
  BY <1>6, MarkGone DEF DeleteMain, Finalizers
<1>7. ASSUME NEW v \in Volumes,
             \/ RestoreMain(v) \/ AddGuard(v) \/ ForgetBinding(v, main, tmp)
             \/ Bind(v, "main", main, tmp) \/ Lose(v, "main", main, tmp)
      PROVE  main'[w].deleting => Exists(main'[w])
  <2>1. CASE RestoreMain(v)
    BY <2>1 DEF RestoreMain, Fresh, Exists
  <2>2. CASE AddGuard(v)
    BY <2>2 DEF AddGuard, Exists, Claims
  <2>3. CASE ForgetBinding(v, main, tmp)
    BY <2>3 DEF ForgetBinding, Exists, Claims
  <2>4. CASE Bind(v, "main", main, tmp)
    BY <2>4 DEF Bind, Exists, Claims
  <2>5. CASE Lose(v, "main", main, tmp)
    BY <2>5 DEF Lose, Exists, Claims
  <2>6. QED
    BY <1>7, <2>1, <2>2, <2>3, <2>4, <2>5
<1>8. ASSUME NEW v \in Volumes,
             \/ \E rm \in BOOLEAN : EnsureTmp(v, rm)
             \/ RepointTmp(v) \/ RestoreWaits(v) \/ RepointMain(v) \/ DeleteTmp(v)
             \/ ForgetBinding(v, tmp, main) \/ Bind(v, "tmp", tmp, main)
             \/ Lose(v, "tmp", tmp, main) \/ Reclaim(v) \/ Unprotect(v, "tmp", tmp, main)
      PROVE  main' = main
  <2>1. CASE \E rm \in BOOLEAN : EnsureTmp(v, rm)
    BY <2>1 DEF EnsureTmp
  <2>2. CASE RepointTmp(v) \/ RestoreWaits(v) \/ RepointMain(v) \/ DeleteTmp(v)
    BY <2>2 DEF RepointTmp, RestoreWaits, RepointMain, DeleteTmp
  <2>3. CASE \/ ForgetBinding(v, tmp, main) \/ Bind(v, "tmp", tmp, main)
             \/ Lose(v, "tmp", tmp, main) \/ Reclaim(v) \/ Unprotect(v, "tmp", tmp, main)
    BY <2>3 DEF ForgetBinding, Bind, Lose, Reclaim, Unprotect
  <2>4. QED
    BY <1>8, <2>1, <2>2, <2>3
<1>9. CASE Abort \/ UNCHANGED vars
  BY <1>2, <1>9 DEF Abort, vars
<1> HIDE DEF OrphanInv, TypeOK
<1>10. QED
  BY <1>2, <1>3, <1>4, <1>5, <1>6, <1>7, <1>8, <1>9
     DEF Next, Operator, Cluster, Create, Restore

\* The claimRef at the removal of the finalizer.
LEMMA UnguardStep ==
    OrphanInv /\ [Next]_vars => (op'.pc = "unguard" => ref'[op'.vol].claim # "main")
<1> SUFFICES ASSUME OrphanInv, [Next]_vars, op'.pc = "unguard"
             PROVE  ref'[op'.vol].claim # "main"
  OBVIOUS
<1>1. ASSUME NEW v \in Volumes, NEW rm \in BOOLEAN, EnsureTmp(v, rm)
      PROVE  ref'[op'.vol].claim # "main"
  BY <1>1 DEF EnsureTmp, Idle
<1>2. ASSUME NEW v \in Volumes, RepointTmp(v) PROVE ref'[op'.vol].claim # "main"
  BY <1>2 DEF RepointTmp, Idle, Reserved, OrphanInv, TypeOK
<1>3. ASSUME NEW v \in Volumes, Unguard(v) \/ ClearMain(v) \/ DeleteTmp(v) \/ Abort
      PROVE  FALSE
  <2>1. op' = Idle
    BY <1>3 DEF Unguard, ClearMain, DeleteTmp, Abort
  <2>2. QED
    BY <2>1 DEF Idle
<1>4. ASSUME NEW v \in Volumes, RestoreWaits(v) \/ RestoreMain(v) \/ RepointMain(v)
      PROVE  FALSE
  <2>1. op'.pc \in {"clearMain", "repointMain", "deleteTmp"}
    <3>1. CASE RestoreWaits(v)
      BY <3>1 DEF RestoreWaits, Idle
    <3>2. CASE RestoreMain(v)
      BY <3>2 DEF RestoreMain, Idle
    <3>3. CASE RepointMain(v)
      BY <3>3 DEF RepointMain, Idle
    <3>4. QED
      BY <1>4, <3>1, <3>2, <3>3
  <2>2. QED
    BY <2>1
<1>5. ASSUME UNCHANGED <<ref, op>> PROVE ref'[op'.vol].claim # "main"
  BY <1>5 DEF OrphanInv
<1>6. ASSUME NEW v \in Volumes,
             \/ AddGuard(v) \/ ForgetBinding(v, main, tmp) \/ ForgetBinding(v, tmp, main)
             \/ Lose(v, "main", main, tmp) \/ Lose(v, "tmp", tmp, main) \/ DeleteMain(v)
      PROVE  UNCHANGED <<ref, op>>
  BY <1>6 DEF AddGuard, ForgetBinding, Lose, DeleteMain
<1>7. ASSUME NEW v \in Volumes,
             \/ Bind(v, "main", main, tmp) \/ Bind(v, "tmp", tmp, main) \/ Reclaim(v)
             \/ Unprotect(v, "main", main, tmp) \/ Unprotect(v, "tmp", tmp, main)
      PROVE  ref'[op'.vol].claim # "main"
  <2>1. op' = op /\ op.vol \in Volumes /\ ref[op.vol].claim # "main"
    <3>1. op' = op
      BY <1>7 DEF Bind, Reclaim, Unprotect
    <3>2. QED
      BY <3>1 DEF OrphanInv, TypeOK
  <2>2. ref'[op.vol].claim = ref[op.vol].claim \/ ref'[op.vol].claim = "none"
    BY <1>7, <2>1 DEF Bind, Reclaim, Unprotect, Follow, OrphanInv, TypeOK, ClaimRefs
  <2>3. QED
    BY <2>1, <2>2
<1>8. CASE UNCHANGED vars
  BY <1>5, <1>8 DEF vars
<1>9. CASE Abort
  BY <1>9 DEF Abort, Idle
<1>10. QED
  BY <1>1, <1>2, <1>3, <1>4, <1>5, <1>6, <1>7, <1>8, <1>9
     DEF Next, Operator, Cluster, Create, Restore

\* What must have been the case for the PV of v to be orphaned.
Cause(v) ==
    \/ op.pc = "clearMain" /\ op.vol = v
    \/ ref[v].claim = "main" /\ main[v].deleting /\ "mock" \notin main[v].holds
    \/ ref[v].claim = "tmp" /\ tmp[v].deleting

\* Only a claim that goes with its last finalizer leaves a dangling claimRef.
LEMMA OrphanStep ==
    ASSUME OrphanInv, [Next]_vars, NEW v \in Volumes,
           ref[v].uid # "gone", ref'[v].uid = "gone"
    PROVE  Cause(v)
<1>1. CASE Unguard(v)
  <2>1. ref'[v] = Follow(ref[v], "main", Release(main[v], {"mock"})) /\ ref[v].claim # "main"
    BY <1>1 DEF Unguard, OrphanInv, TypeOK
  <2>2. QED
    BY <2>1 DEF Follow
<1>2. CASE ClearMain(v)
  BY <1>2 DEF ClearMain, Cause
<1>3. CASE Unprotect(v, "main", main, tmp)
  <2>1. /\ ref'[v] = Follow(ref[v], "main", Release(main[v], {"kube"}))
        /\ main[v].deleting /\ main[v] \in Claims /\ Exists(main[v])
    BY <1>3 DEF Unprotect, OrphanInv, TypeOK
  <2>2. ref[v].claim = "main" /\ ~Exists(Release(main[v], {"kube"}))
    BY <2>1 DEF Follow, Exists
  <2>3. main[v].holds \ {"kube"} = {}
    BY <2>1, <2>2 DEF Release, Settle, Claims, Exists
  <2>4. QED
    BY <2>1, <2>2, <2>3 DEF Cause
<1>4. CASE Unprotect(v, "tmp", tmp, main)
  <2>1. ref'[v] = Follow(ref[v], "tmp", Release(tmp[v], {"kube"})) /\ tmp[v].deleting
    BY <1>4 DEF Unprotect, OrphanInv, TypeOK
  <2>2. ref[v].claim = "tmp"
    BY <2>1 DEF Follow
  <2>3. QED
    BY <2>1, <2>2 DEF Cause
<1>5. ASSUME NEW w \in Volumes, w # v,
             \/ Unguard(w) \/ ClearMain(w) \/ Unprotect(w, "main", main, tmp)
             \/ Unprotect(w, "tmp", tmp, main)
      PROVE  FALSE
  <2>1. ref'[v] = ref[v]
    BY <1>5 DEF Unguard, ClearMain, Unprotect, OrphanInv, TypeOK
  <2>2. QED
    BY <2>1
<1>6. ASSUME NEW w \in Volumes, RepointTmp(w) \/ RepointMain(w) PROVE FALSE
  BY <1>6 DEF RepointTmp, RepointMain, Reserved, OrphanInv, TypeOK
<1>7. ASSUME NEW w \in Volumes,
             Reclaim(w) \/ Bind(w, "main", main, tmp) \/ Bind(w, "tmp", tmp, main)
      PROVE  FALSE
  BY <1>7 DEF Reclaim, Bind, ClaimRefs, OrphanInv, TypeOK
<1>8. ASSUME NEW w \in Volumes,
             \/ \E rm \in BOOLEAN : EnsureTmp(w, rm)
             \/ RestoreWaits(w) \/ RestoreMain(w) \/ DeleteTmp(w) \/ AddGuard(w)
             \/ ForgetBinding(w, main, tmp) \/ ForgetBinding(w, tmp, main)
             \/ Lose(w, "main", main, tmp) \/ Lose(w, "tmp", tmp, main) \/ DeleteMain(w)
      PROVE  FALSE
  <2>1. CASE \E rm \in BOOLEAN : EnsureTmp(w, rm)
    BY <2>1 DEF EnsureTmp
  <2>2. CASE RestoreWaits(w) \/ RestoreMain(w) \/ DeleteTmp(w) \/ AddGuard(w) \/ DeleteMain(w)
    BY <2>2 DEF RestoreWaits, RestoreMain, DeleteTmp, AddGuard, DeleteMain
  <2>3. CASE \/ ForgetBinding(w, main, tmp) \/ ForgetBinding(w, tmp, main)
             \/ Lose(w, "main", main, tmp) \/ Lose(w, "tmp", tmp, main)
    BY <2>3 DEF ForgetBinding, Lose
  <2>4. QED
    BY <1>8, <2>1, <2>2, <2>3
<1>9. ~Abort /\ ~UNCHANGED vars
  BY DEF Abort, vars
<1>10. PICK w \in Volumes :
         \/ Unguard(w) \/ ClearMain(w) \/ Unprotect(w, "main", main, tmp)
         \/ Unprotect(w, "tmp", tmp, main)
  BY <1>6, <1>7, <1>8, <1>9 DEF Next, Operator, Cluster, Create, Restore
<1>11. QED
  BY <1>1, <1>2, <1>3, <1>4, <1>5, <1>10

\* Whatever fails and whatever is deleted, a PV is orphaned by a restore that
\* strips its claim, by the deletion of an unguarded claim, or with a temporary
\* claim that was terminating when the PV was given to it.
THEOREM Orphaned == Spec => OrphanedOnlyBy
<1>1. Init => OrphanInv
  BY TypeInit DEF Init, OrphanInv, Idle
<1>2. OrphanInv /\ [Next]_vars => OrphanInv'
  BY TypeStep, MarkStep, UnguardStep DEF OrphanInv, Exists
<1>3. OrphanInv /\ [Next]_vars =>
        [\A v \in Volumes : ref[v].uid # "gone" /\ ref'[v].uid = "gone" => Cause(v)]_vars
  BY OrphanStep
<1>4. QED
  BY <1>1, <1>2, <1>3, PTL DEF Spec, OrphanedOnlyBy, Cause
==============================================================================
