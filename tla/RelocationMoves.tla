-------------------------- MODULE RelocationMoves --------------------------
(***************************************************************************)
(* The inductive invariant of Relocation, and what its proof needs to know *)
(* of the steps.                                                           *)
(*                                                                         *)
(* The invariant is about a careful world: see Careful.  Each group of     *)
(* actions is then shown to be a few moves that say what changes for one   *)
(* volume, at which stage of the pass: the proof that the invariant is     *)
(* kept reads the moves and never the actions again.                       *)
(***************************************************************************)
EXTENDS RelocationSteps

-----------------------------------------------------------------------------
(* The inductive invariant *)

\* The conditions of the runs: claims are deleted in service and only in a
\* relocation, a relocation is not taken back before it is done, ShouldRunFinalSync
\* can read the VRG, and the cache is not behind.  Without any one of them a
\* property below is violated.
Careful ==
    /\ EagerDelete = FALSE /\ Cancel = FALSE
    /\ PassFaults \subseteq {"write", "listVRG"}

\* From the demotion of the VGR until it is reported as secondary.
Leaving == vgr.spec = "secondary" /\ vgr.status = "primary"

\* Where the group stands between the VRG, the VGR and the stage of the pass.
CycleInv ==
    /\ vgr.spec # vgr.status => (vrg = "relocate" <=> vgr.spec = "secondary")
    /\ pass.at \in {"park", "trigger"} => Leaving /\ pass.gate
    /\ pass.at \in {"restore", "demote"} =>
         /\ ~pass.stale => vgr.spec = "secondary"
         /\ pass.gate = (vgr.status = "primary")
         /\ pass.gate => Leaving
    /\ pass.at = "protect" => vgr.spec = "primary" \/ (pass.stale /\ Leaving)
    /\ pass.at = "pause" =>
         near /\ (other = "none" => vrg = "relocate" /\ vgr.status = "primary")

\* The two claims of v and the claimRef of its PV: a claim being deleted is guarded
\* until the PV is reserved for the temporary one, which is there only while the
\* group is leaving.
ClaimInv(v) ==
    /\ ref[v].claim # "none" /\ ref[v].uid # "gone"
    /\ ref[v].claim = "main" => H!Exists(main[v])
    /\ ref[v].claim = "tmp" => H!Exists(tmp[v]) /\ Leaving
    /\ main[v].deleting =>
         /\ H!Exists(main[v]) /\ "mock" \in main[v].holds
         /\ vrg = "relocate" /\ vgr.status = "primary" /\ rs[v].exists
    /\ tmp[v].deleting => H!Exists(tmp[v]) /\ ref[v].claim = "main" /\ ~main[v].deleting
    /\ H!Exists(tmp[v]) /\ ~tmp[v].deleting => Leaving
    /\ tmp[v].phase = "bound" /\ main[v].deleting => ref[v].claim = "tmp"
    /\ vrg = "relocate" /\ vgr.status = "primary" /\ H!Exists(tmp[v]) =>
         main[v].deleting \/ ~rs[v].exists \/ rs[v].trigger = "final"

\* The source of v: a final sync runs from the temporary claim, of a volume
\* without an application, and what it copied is all there is.
SourceInv(v) ==
    /\ ~rs[v].exists => rs[v].trigger = "schedule" /\ ~rs[v].paused
    /\ mover[v].on # "none" => rs[v].exists
    /\ rs[v].source = "tmp" <=> rs[v].trigger = "final"
    /\ rs[v].trigger = "final" => Leaving /\ ~app[v]
    /\ mover[v].on = "main" => rs[v].trigger = "schedule"
    /\ mover[v].on = "tmp" =>
          /\ rs[v].trigger = "final" /\ rs[v].last # "final"
          /\ ~mover[v].torn /\ ref[v].claim = "tmp"
    /\ rs[v].last = "final" =>
          /\ rs[v].trigger = "final" /\ ~dirty[v] /\ mover[v].on = "none"
          /\ main[v].deleting => ref[v].claim = "tmp"
    /\ rs[v].trigger = "final" /\ ~main[v].deleting => "mock" \notin main[v].holds
    /\ rs[v].trigger = "final" /\ main[v].deleting => H!Exists(tmp[v])
    /\ rd[v] # "none" => ~rs[v].exists

\* Every write of the application has been copied, and none can follow.
AllRest ==
    \A v \in Volumes : ~app[v] /\ ~dirty[v] /\ (rs[v].exists => rs[v].last = "final")

\* The volume has gone, or is going, back to the application's claim.
Returning(v) ==
    \/ Leaving /\ ~rs[v].exists
    \/ rd[v] # "none"
    \/ ref[v].claim = "tmp" /\ ~main[v].deleting
    \/ rs[v].trigger = "final" /\ ~main[v].deleting

\* The crux: no volume returns before every volume of the group has come to rest.
RestInv ==
    /\ vgr.status = "secondary" => \A v \in Volumes : ~app[v] /\ ~dirty[v]
    /\ vgr.status = "primary" /\ pass.at \in {"restore", "demote"} => AllRest
    /\ vgr.status = "primary" => \A v \in Volumes : Returning(v) => AllRest

\* A group that serves keeps its sources on their schedule.
ServingInv ==
    vgr.status = "primary" /\ (vgr.spec = "primary" \/ pass.at \in {"protect", "pause"}) =>
       \A v \in Volumes : rd[v] = "none" /\ rs[v].exists /\ rs[v].trigger = "schedule"

\* The volume is a destination, and its claim is guarded for the way back.
Settled(v) == "mock" \in main[v].holds /\ rd[v] = "ready" /\ ~rs[v].exists

\* What status secondary reports.
SettledInv ==
    vgr.status = "secondary" /\ vgr.spec = "secondary" => \A v \in Volumes : Settled(v)

\* The application's claim has the PV again, and the temporary claim goes.
Restored(v) ==
    /\ ref[v].claim = "main" /\ ~main[v].deleting
    /\ H!Exists(tmp[v]) => tmp[v].deleting

\* What the handover in progress may rely on, and the stage that called it.
ProcInv ==
    LET v == op.vol IN
    /\ op.pc # "unguard"
    /\ op.pc = "repointTmp" => /\ pass.at = "park" /\ ~op.rm
                               /\ main[v].deleting /\ H!Exists(tmp[v])
    /\ op.pc \in {"clearMain", "repointMain", "deleteTmp"} => pass.at = "restore"
    /\ op.pc = "clearMain" => ref[v].claim = "tmp" /\ op.seenMain.deleting
    /\ op.pc \in {"repointMain", "deleteTmp"} => H!Exists(main[v]) /\ ~main[v].deleting
    /\ op.pc = "deleteTmp" => ref[v].claim = "main"

\* A paused source is that of a group about to leave, when no other group is there
\* to pause it.
PauseInv ==
    Undisturbed /\ (vrg = "primary" \/ pass.at = "protect" \/ (~near /\ vgr.spec = "primary")) =>
       \A v \in Volumes : ~rs[v].paused

\* The pass has been over the item i of its list.
Handled(i) == i \in pass.list /\ i \notin pass.todo

\* What a pass has achieved for the items it has been over: its stages end with all
\* of them, and that is what the reported states rest on.
PassInv ==
    /\ pass.at \in {"restore", "demote", "park", "trigger"} =>
         \A v \in Volumes : \/ <<v, "main">> \in pass.list \/ <<v, "tmp">> \in pass.list
                            \/ ~SelectorKept /\ AllRest /\ Restored(v)
    /\ pass.at = "protect" => \A v \in Volumes :
         /\ <<v, "main">> \in pass.list
         /\ <<v, "main">> \notin pass.todo =>
              rd[v] = "none" /\ rs[v].exists /\ rs[v].trigger = "schedule"
    /\ pass.at \in {"park", "trigger"} => AllRest \/ \A v \in Volumes : <<v, "main">> \in pass.list
    /\ pass.at = "trigger" /\ pass.ok => \A v \in Volumes :
          Handled(<<v, "main">>) => rs[v].last = "final"
    /\ pass.at = "restore" => \A i \in Items : Handled(i) =>
          Restored(i[1]) \/ (op.pc # "idle" /\ op.vol = i[1])
    /\ pass.at = "demote" => \A v \in Volumes : Restored(v)
    /\ pass.at = "demote" /\ pass.ok => \A i \in Items : Handled(i) => Settled(i[1])

\* ReconcileRS and ReconcileRD write for claims of the application only, a pause for
\* sources that are there.
TakenInv ==
    /\ pass.at \in {"protect", "trigger"} => \A i \in pass.todo : i[2] = "main"
    /\ pass.at = "pause" => \A i \in pass.todo : rs[i[1]].exists
    /\ \A i \in pass.cur : i[2] = "main"

\* What the calls for the item in hand have achieved: the order of the calls is what
\* keeps a volume from being source and destination at once.
ClearedInv ==
    /\ \A i, j \in pass.cur : i = j
    /\ pass.did # "nothing" => pass.at \in {"protect", "demote"} /\ pass.cur # {}
    /\ \A i \in pass.cur : LET v == i[1] IN
         /\ pass.at = "protect" /\ pass.did \in {"cleared", "written"} => rd[v] = "none"
         /\ pass.at = "protect" /\ pass.did = "written" =>
              rs[v].exists /\ rs[v].trigger = "schedule"
         /\ pass.at = "demote" /\ pass.did \in {"cleared", "written"} => ~rs[v].exists

\* A claim restored without the labels that are selected on, which the group
\* never gets over.
Unfound(v) == ~SelectorKept /\ Leaving /\ AllRest /\ ~main[v].deleting

\* Every claim is found by the selector, but those that are restored without it.
MatchInv ==
    \A v \in Volumes :
        /\ match[v]["tmp"]
        /\ match[v]["main"] \/ Unfound(v)
        /\ ~SelectorKept /\ Leaving /\ (rs[v].trigger = "final" \/ ~rs[v].exists)
             /\ H!Exists(main[v]) /\ ~main[v].deleting => ~match[v]["main"]

\* Without the labels no demotion is reported: when the group is at rest a pass
\* lists nothing but claims that are being deleted, and their temporary claims,
\* which count as not ready.
SelectorInv ==
    ~SelectorKept =>
        /\ vgr.status = "primary"
        /\ pass.at \in {"park", "trigger"} => pass.list # {}
        /\ pass.at = "park" \/ (pass.at = "trigger" /\ pass.ok) =>
             \A v \in Volumes : rs[v].trigger = "final" /\ <<v, "main">> \in pass.list =>
                <<v, "tmp">> \in pass.list
        /\ pass.at \in {"restore", "demote"} => \E v \in Volumes : <<v, "tmp">> \in pass.list
        /\ pass.at = "demote" /\ pass.ok => \A v \in Volumes : ~Handled(<<v, "tmp">>)

RelocationInv ==
    /\ CycleInv
    /\ \A v \in Volumes : ClaimInv(v) /\ SourceInv(v)
    /\ RestInv /\ ServingInv /\ SettledInv /\ ProcInv /\ PauseInv /\ PassInv
    /\ TakenInv /\ ClearedInv /\ MatchInv /\ SelectorInv

\* In a careful world the cache shows what is there.
LEMMA Current ==
    ASSUME Careful, TypeOK
    PROVE  /\ VRGSeen = vrg
           /\ \A v \in Volumes : /\ SourceSeen(v) <=> rs[v].exists
                                 /\ DestinationSeen(v) <=> rd[v] # "none"
<1>1. Unseen = {}
  BY DEF Careful, Unseen
<1>2. behind = {}
  BY <1>1 DEF TypeOK
<1>3. QED
  BY <1>2 DEF VRGSeen, SourceSeen, DestinationSeen
-----------------------------------------------------------------------------
(* What becomes of the claims *)

\* No other volume is concerned.
Elsewhere(v) ==
    \A w \in Volumes : w # v => main'[w] = main[w] /\ tmp'[w] = tmp[w] /\ ref'[w] = ref[w]

\* The claim changes only in its phase.
SameClaim(c, d) == H!Exists(d) = H!Exists(c) /\ d.deleting = c.deleting /\ d.holds = c.holds

\* What TypeOK says of the claims of one volume.
LEMMA ClaimTypes ==
    TypeOK =>
        /\ main \in [Volumes -> H!Claims] /\ tmp \in [Volumes -> H!Claims]
        /\ ref \in [Volumes -> H!ClaimRefs] /\ op \in H!Ops
        /\ \A v \in Volumes : /\ main[v].deleting \in BOOLEAN /\ tmp[v].deleting \in BOOLEAN
                              /\ main[v].phase \in H!Phases /\ tmp[v].phase \in H!Phases
                              /\ main[v].holds \in SUBSET H!Finalizers
                              /\ ref[v].claim \in {"main", "tmp", "none"}
                              /\ ref[v].uid \in {"unset", "live", "gone"}
        /\ op.pc # "idle" => op.vol \in Volumes
  BY DEF TypeOK, H!TypeOK, H!Claims, H!ClaimRefs, H!Kinds

\* Only the finalizer of v is added.
Guards(v) ==
    /\ Elsewhere(v) /\ op' = op /\ op.pc = "idle"
    /\ tmp'[v] = tmp[v] /\ ref'[v] = ref[v]
    /\ H!Exists(main[v]) /\ ~main[v].deleting
    /\ H!Exists(main'[v]) /\ ~main'[v].deleting /\ "mock" \in main'[v].holds

\* Only phases, and the UID of the claimRef, change.
Rebinds(v) ==
    /\ Elsewhere(v) /\ op' = op
    /\ SameClaim(main[v], main'[v]) /\ SameClaim(tmp[v], tmp'[v])
    /\ ref'[v].claim = ref[v].claim /\ ref'[v].uid \in {ref[v].uid, "live"}
    /\ tmp'[v].phase = "bound" => tmp[v].phase = "bound" \/ ref[v].claim = "tmp"

\* The steps of PVCHandover, as these.
LEMMA GuardClaims == ASSUME TypeOK, NEW v \in Volumes, H!AddGuard(v) PROVE Guards(v)
  BY ClaimTypes DEF H!AddGuard, Guards, Elsewhere, H!Claims, H!Exists

\* A binding lost or forgotten, or a claim bound: the phases change.
LEMMA RebindClaims ==
    ASSUME TypeOK, NEW v \in Volumes,
           \/ H!ForgetBinding(v, main, tmp) \/ H!ForgetBinding(v, tmp, main)
           \/ H!Bind(v, "main", main, tmp) \/ H!Bind(v, "tmp", tmp, main)
           \/ H!Lose(v, "main", main, tmp) \/ H!Lose(v, "tmp", tmp, main)
    PROVE  Rebinds(v)
<1> USE ClaimTypes DEF Rebinds, Elsewhere, SameClaim, H!Claims, H!Exists
<1>1. CASE H!ForgetBinding(v, main, tmp)
  BY <1>1 DEF H!ForgetBinding
<1>2. CASE H!ForgetBinding(v, tmp, main)
  BY <1>2 DEF H!ForgetBinding
<1>3. CASE H!Lose(v, "main", main, tmp)
  BY <1>3 DEF H!Lose
<1>4. CASE H!Lose(v, "tmp", tmp, main)
  BY <1>4 DEF H!Lose
<1>5. CASE H!Bind(v, "main", main, tmp)
  BY <1>5 DEF H!Bind, H!Reserved, H!ClaimRefs
<1>6. CASE H!Bind(v, "tmp", tmp, main)
  BY <1>6 DEF H!Bind, H!Reserved, H!ClaimRefs
<1>7. QED
  BY <1>1, <1>2, <1>3, <1>4, <1>5, <1>6

\* CreateTemporaryPVCFromTerminating, as the final sync calls it.
Parks(v) ==
    /\ Elsewhere(v) /\ main'[v] = main[v] /\ ref'[v] = ref[v]
    /\ op.pc = "idle"
    /\ H!Exists(main[v]) /\ main[v].deleting
    /\ H!Exists(tmp'[v])
    /\ \/ H!Exists(tmp[v]) /\ tmp'[v] = tmp[v]
       \/ ~H!Exists(tmp[v]) /\ ~tmp'[v].deleting /\ tmp'[v].phase = "pending"
    /\ op'.pc \in {"idle", "repointTmp"}
    /\ op'.pc = "repointTmp" => op'.vol = v /\ ~op'.rm

\* The PV update of CreateTemporaryPVCFromTerminating.
Moves(v) ==
    /\ Elsewhere(v) /\ main'[v] = main[v] /\ tmp'[v] = tmp[v]
    /\ op.pc = "repointTmp" /\ op.vol = v
    /\ ref'[v].claim = "tmp" /\ ref'[v].uid = "unset"
    /\ ~op.rm => op'.pc = "idle"

\* CreateTemporaryPVCFromTerminating without the removal of the finalizer:
LEMMA ParkClaims == ASSUME TypeOK, NEW v \in Volumes, H!EnsureTmp(v, FALSE) PROVE Parks(v)
<1>1. tmp'[v] = IF H!Exists(tmp[v]) THEN tmp[v] ELSE H!Fresh
  BY ClaimTypes DEF H!EnsureTmp
<1>2. Elsewhere(v) /\ main'[v] = main[v] /\ ref'[v] = ref[v]
  BY ClaimTypes DEF H!EnsureTmp, Elsewhere
<1>3. op'.pc \in {"idle", "repointTmp"} /\ (op'.pc = "repointTmp" => op'.vol = v /\ ~op'.rm)
  BY DEF H!EnsureTmp, H!Idle
<1>4. QED
  BY <1>1, <1>2, <1>3 DEF H!EnsureTmp, Parks, H!Fresh, H!Exists

\* ... its first write, and its second.
LEMMA MoveClaims == ASSUME TypeOK, NEW v \in Volumes, H!RepointTmp(v) PROVE Moves(v)
<1>1. ref'[v].claim = "tmp" /\ ref'[v].uid = "unset" /\ Elsewhere(v)
  BY ClaimTypes DEF H!RepointTmp, H!Reserved, Elsewhere
<1>2. ~op.rm => op'.pc = "idle"
  BY DEF H!RepointTmp, H!Idle
<1>3. QED
  BY <1>1, <1>2 DEF Moves, H!RepointTmp

\* RestorePVCFromTemporary.
Waits(v) ==
    /\ main' = main /\ tmp' = tmp /\ ref' = ref
    /\ op.pc = "idle" /\ op'.pc = "clearMain" /\ op'.vol = v
    /\ H!Exists(tmp[v]) /\ main[v].deleting /\ op'.seenMain = main[v]

\* ... it takes the finalizers off the claim it waits for,
Vanishes(v) ==
    /\ Elsewhere(v) /\ tmp'[v] = tmp[v] /\ main'[v] = H!Absent
    /\ ref[v].claim # "main" => ref'[v] = ref[v]
    /\ op.pc = "clearMain" /\ op.vol = v /\ op'.pc = "idle"

\* ... creates the claim again,
Recreates(v) ==
    /\ Elsewhere(v) /\ tmp'[v] = tmp[v] /\ ref'[v] = ref[v]
    /\ op.pc = "idle" /\ op'.pc = "repointMain" /\ op'.vol = v
    /\ H!Exists(tmp[v]) /\ ~main[v].deleting
    /\ H!Exists(main'[v]) /\ ~main'[v].deleting
    /\ main'[v].holds = IF H!Exists(main[v]) THEN main[v].holds ELSE {"kube"}

\* ... reserves the PV for it,
Returns(v) ==
    /\ Elsewhere(v) /\ tmp'[v] = tmp[v] /\ main'[v] = main[v]
    /\ op.pc = "repointMain" /\ op.vol = v /\ op'.pc = "deleteTmp" /\ op'.vol = v
    /\ ref'[v].claim = "main" /\ ref'[v].uid = "unset"

\* ... and deletes the temporary claim.
Drops(v) ==
    /\ Elsewhere(v) /\ ref'[v] = ref[v] /\ main'[v] = main[v]
    /\ op.pc = "deleteTmp" /\ op.vol = v /\ op'.pc = "idle"
    /\ H!Exists(tmp'[v]) <=> tmp'[v].deleting

\* RestorePVCFromTemporary, write by write: it waits for a claim being deleted,
LEMMA WaitClaims == ASSUME TypeOK, NEW v \in Volumes, H!RestoreWaits(v) PROVE Waits(v)
  BY DEF H!RestoreWaits, Waits, H!Idle

\* ... a claim that loses its finalizers is gone,
LEMMA VanishClaims ==
    ASSUME TypeOK, NEW v \in Volumes, H!ClearMain(v), op.seenMain.deleting PROVE Vanishes(v)
<1>1. H!Release(main[v], H!Finalizers) = H!Absent
  <2> DEFINE c == [main[v] EXCEPT !.holds = @ \ H!Finalizers]
  <2>1. c.deleting /\ c.holds = {}
    BY ClaimTypes DEF H!ClearMain, H!Claims
  <2>2. QED
    BY <2>1 DEF H!Release, H!Settle
<1>2. main' = [main EXCEPT ![v] = H!Absent]
  BY <1>1 DEF H!ClearMain
<1>3. ref' = [ref EXCEPT ![v] = H!Follow(@, "main", H!Absent)]
  BY <1>1 DEF H!ClearMain
<1>4. ref[v].claim # "main" => H!Follow(ref[v], "main", H!Absent) = ref[v]
  BY DEF H!Follow
<1>5. QED
  BY <1>2, <1>3, <1>4, ClaimTypes DEF H!ClearMain, Vanishes, Elsewhere, H!Idle

\* ... the claim that comes back is new unless it was there,
LEMMA RecreateClaims == ASSUME TypeOK, NEW v \in Volumes, H!RestoreMain(v) PROVE Recreates(v)
<1>1. main'[v] = IF H!Exists(main[v]) THEN main[v] ELSE H!Fresh
  BY ClaimTypes DEF H!RestoreMain
<1>2. Elsewhere(v) /\ tmp'[v] = tmp[v] /\ ref'[v] = ref[v]
  BY ClaimTypes DEF H!RestoreMain, Elsewhere
<1>3. op'.pc = "repointMain" /\ op'.vol = v
  BY DEF H!RestoreMain, H!Idle
<1>4. QED
  BY <1>1, <1>2, <1>3 DEF H!RestoreMain, Recreates, H!Fresh, H!Exists

\* ... the PV is reserved for it,
LEMMA ReturnClaims == ASSUME TypeOK, NEW v \in Volumes, H!RepointMain(v) PROVE Returns(v)
  BY ClaimTypes DEF H!RepointMain, Returns, Elsewhere, H!Reserved, H!Idle

\* ... and the temporary claim goes, at once or when it is free.
LEMMA DropClaims ==
    ASSUME TypeOK, NEW v \in Volumes, H!DeleteTmp(v), ~H!Exists(tmp[v]) => ~tmp[v].deleting
    PROVE  Drops(v)
<1>1. Elsewhere(v) /\ ref'[v] = ref[v] /\ main'[v] = main[v] /\ op'.pc = "idle"
  BY ClaimTypes DEF H!DeleteTmp, Elsewhere, H!Idle
<1>2. tmp'[v] = IF H!Exists(tmp[v]) THEN H!Settle([tmp[v] EXCEPT !.deleting = TRUE]) ELSE tmp[v]
  BY ClaimTypes DEF H!DeleteTmp
<1>3. H!Exists(tmp'[v]) <=> tmp'[v].deleting
  <2>1. CASE H!Exists(tmp[v])
    <3> DEFINE c == [tmp[v] EXCEPT !.deleting = TRUE]
    <3>1. c.deleting = TRUE /\ c.phase = tmp[v].phase
      BY ClaimTypes DEF H!Claims
    <3>2. tmp'[v] = c \/ tmp'[v] = H!Absent
      BY <1>2, <2>1 DEF H!Settle
    <3> HIDE DEF c
    <3>3. QED
      BY <2>1, <3>1, <3>2 DEF H!Exists, H!Absent
  <2>2. QED
    BY <1>2, <2>1
<1>4. QED
  BY <1>1, <1>3 DEF Drops, H!DeleteTmp

\* Kubernetes takes pvc-protection off, or the user deletes the claim.
Loosens(v) ==
    /\ Elsewhere(v) /\ op' = op /\ tmp'[v] = tmp[v] /\ ref'[v] = ref[v]
    /\ main[v].deleting /\ main'[v].deleting /\ main'[v].phase = main[v].phase
    /\ "mock" \in main'[v].holds

\* ... or off the temporary claim, which may vanish,
Withers(v) ==
    /\ Elsewhere(v) /\ op' = op /\ main'[v] = main[v]
    /\ tmp[v].deleting
    /\ ref[v].claim # "tmp" => ref'[v] = ref[v]
    /\ tmp'[v].phase \in {"absent", tmp[v].phase} /\ (H!Exists(tmp'[v]) <=> tmp'[v].deleting)

\* ... or the user deletes a claim in service.
Deletes(v) ==
    /\ Elsewhere(v) /\ op' = op /\ tmp'[v] = tmp[v] /\ ref'[v] = ref[v]
    /\ H!InService(v)
    /\ main'[v].deleting /\ main'[v].phase = main[v].phase /\ main'[v].holds = main[v].holds

\* A guarded claim survives the loss of pvc-protection,
LEMMA LoosenClaims ==
    ASSUME TypeOK, NEW v \in Volumes, H!Unprotect(v, "main", main, tmp),
           "mock" \in main[v].holds, H!Exists(main[v])
    PROVE  Loosens(v)
<1> DEFINE c == [main[v] EXCEPT !.holds = @ \ {"kube"}]
<1>1. /\ c.deleting = main[v].deleting /\ c.phase = main[v].phase
      /\ c.holds = main[v].holds \ {"kube"}
  BY ClaimTypes DEF H!Claims
<1>2. "mock" \in c.holds
  BY <1>1
<1>3. H!Release(main[v], {"kube"}) = c
  BY <1>2 DEF H!Release, H!Settle
<1>4. main' = [main EXCEPT ![v] = c]
  BY <1>3 DEF H!Unprotect
<1>5. ref' = ref
  <2>1. H!Follow(ref[v], "main", c) = ref[v]
    BY <1>1 DEF H!Follow, H!Exists
  <2>2. ref' = [ref EXCEPT ![v] = H!Follow(@, "main", c)]
    BY <1>3 DEF H!Unprotect
  <2> HIDE DEF c
  <2>3. QED
    BY <2>1, <2>2, ClaimTypes
<1> HIDE DEF c
<1>6. QED
  BY <1>1, <1>2, <1>4, <1>5, ClaimTypes DEF Loosens, Elsewhere, H!Unprotect

\* ... a temporary claim may not,
LEMMA WitherClaims ==
    ASSUME TypeOK, NEW v \in Volumes, H!Unprotect(v, "tmp", tmp, main), H!Exists(tmp[v])
    PROVE  Withers(v)
<1> DEFINE c == [tmp[v] EXCEPT !.holds = @ \ {"kube"}]
           d == H!Release(tmp[v], {"kube"})
<1>3. tmp[v].deleting
  BY DEF H!Unprotect
<1>1. c.deleting = TRUE /\ c.phase = tmp[v].phase
  BY <1>3, ClaimTypes DEF H!Claims
<1>2. d = c \/ d = H!Absent
  BY DEF H!Release, H!Settle
<1>4. d.phase \in {"absent", tmp[v].phase} /\ (H!Exists(d) <=> d.deleting)
  <2> HIDE DEF c, d
  <2>1. QED
    BY <1>1, <1>2, <1>3 DEF H!Exists, H!Absent
<1>5. tmp' = [tmp EXCEPT ![v] = d] /\ ref' = [ref EXCEPT ![v] = H!Follow(@, "tmp", d)]
  BY DEF H!Unprotect
<1> HIDE DEF d
<1>6. ref[v].claim # "tmp" => H!Follow(ref[v], "tmp", d) = ref[v]
  BY DEF H!Follow
<1>7. QED
  BY <1>3, <1>4, <1>5, <1>6, ClaimTypes DEF Withers, Elsewhere, H!Unprotect

\* ... and a claim in service is guarded when it is deleted.
LEMMA DeleteClaims ==
    ASSUME TypeOK, EagerDelete = FALSE, NEW v \in Volumes, H!DeleteMain(v) PROVE Deletes(v)
<1>0. H!InService(v)
  BY DEF H!DeleteMain
<1> DEFINE c == [main[v] EXCEPT !.deleting = TRUE]
<1>1. c.deleting = TRUE /\ c.phase = main[v].phase /\ c.holds = main[v].holds
  BY ClaimTypes DEF H!Claims
<1>2. "mock" \in c.holds
  BY <1>0, <1>1 DEF H!InService
<1>3. H!Settle(c) = c
  BY <1>2 DEF H!Settle
<1>4. main' = [main EXCEPT ![v] = c]
  BY <1>3 DEF H!DeleteMain
<1> HIDE DEF c
<1>5. QED
  BY <1>0, <1>1, <1>4, ClaimTypes DEF Deletes, Elsewhere, H!DeleteMain

\* Every step on the claims, where the passes take it.
ClaimMove ==
    \/ UNCHANGED <<main, tmp, ref, op>>
    \/ UNCHANGED <<main, tmp, ref>> /\ op'.pc = "idle" /\ pass'.at = "none"
    \/ \E v \in Volumes :
         \/ /\ Guards(v)
            /\ \/ pass.at = "protect" /\ rs[v].trigger = "schedule"
               \/ pass.at = "demote" /\ ~rs[v].exists
         \/ Rebinds(v)
         \/ Parks(v) /\ pass.at = "park" /\ pass'.at = "park"
         \/ Moves(v) /\ pass' = pass
         \/ Waits(v) /\ pass.at = "restore" /\ pass'.at = "restore"
         \/ Vanishes(v) /\ pass'.at = "none"
         \/ Recreates(v) /\ LabelRestored(v) /\ pass.at = "restore" /\ pass'.at = "restore"
         \/ Returns(v) /\ pass' = pass
         \/ Drops(v) /\ pass' = pass
         \/ Loosens(v) /\ pass' = pass /\ ~InUse(v)
         \/ Withers(v) /\ pass' = pass /\ mover[v].on # "tmp"
         \/ Deletes(v) /\ pass' = pass /\ vrg = "relocate" /\ rs[v].exists

\* Every action that writes the claims is one of these, at its stage of the pass.
LEMMA ClaimMoves ==
    ASSUME Careful, TypeOK, RelocationInv, WritesClaims PROVE ClaimMove
<1>l. LocalOK /\ pass \in Passes /\ wake \in BOOLEAN
  BY DEF TypeOK, LocalOK, Passes, Sources, Movers
<1>i. \A i \in pass.todo \cup pass.cur : i \in Items /\ i[1] \in Volumes /\ i = <<i[1], i[2]>>
  BY <1>l, ItemTypes
<1>1. ASSUME GuardSource PROVE ClaimMove
  <2>1. PICK i \in pass.cur :
          /\ pass.at = "protect" /\ rs[i[1]].trigger = "schedule"
          /\ H!AddGuard(i[1]) \/ UNCHANGED <<main, tmp, ref, op>>
    BY <1>1 DEF GuardSource, Running, cluster, RelocationInv, ClearedInv
  <2>2. QED
    BY <1>i, <2>1, GuardClaims DEF ClaimMove
<1>2. ASSUME GuardDestination PROVE ClaimMove
  <2>1. PICK i \in pass.cur :
          /\ pass.at = "demote" /\ ~rs[i[1]].exists
          /\ H!AddGuard(i[1]) \/ UNCHANGED <<main, tmp, ref, op>>
    BY <1>2 DEF GuardDestination, Running, cluster, RelocationInv, ClearedInv
  <2>2. QED
    BY <1>i, <2>1, GuardClaims DEF ClaimMove
<1>3. ASSUME ForgetLostTmp \/ ForgetLost PROVE ClaimMove
  <2>1. PICK i \in pass.todo :
          H!ForgetBinding(i[1], main, tmp) \/ H!ForgetBinding(i[1], tmp, main)
    BY <1>3 DEF ForgetLostTmp, ForgetLost
  <2>2. QED
    BY <1>i, <2>1, RebindClaims DEF ClaimMove
<1>4. ASSUME ParkTerminating PROVE ClaimMove
  <2>1. PICK i \in pass.todo : pass.at = "park" /\ H!EnsureTmp(i[1], FALSE) /\ Done(i)
    BY <1>4 DEF ParkTerminating, Running
  <2>2. pass'.at = "park"
    BY <1>l, <1>i, <2>1, PassItem
  <2>3. QED
    BY <1>i, <2>1, <2>2, ParkClaims DEF ClaimMove
<1>5. ~ParkDemoted
  <2>1. ASSUME NEW i \in pass.todo, pass.at = "demote", main[i[1]].deleting PROVE FALSE
    BY <1>i, <2>1 DEF RelocationInv, PassInv, Restored
  <2>2. \A v \in Volumes : H!EnsureTmp(v, TRUE) => main[v].deleting
    BY DEF H!EnsureTmp
  <2>3. QED
    BY <1>i, <2>1, <2>2 DEF ParkDemoted, Running
<1>6. ASSUME RestoreTmp PROVE ClaimMove
  <2>1. PICK i \in pass.todo : /\ pass.at = "restore" /\ Done(i)
                               /\ \/ H!RestoreWaits(i[1])
                                  \/ H!RestoreMain(i[1]) /\ LabelRestored(i[1])
    BY <1>6 DEF RestoreTmp, Running
  <2>2. pass'.at = "restore"
    BY <1>l, <1>i, <2>1, PassItem
  <2>3. QED
    BY <1>i, <2>1, <2>2, WaitClaims, RecreateClaims DEF ClaimMove
<1>7. ASSUME Handover PROVE ClaimMove
  <2>1. PICK v \in Volumes :
          \/ H!RepointTmp(v) /\ pass' = pass
          \/ H!Unguard(v)
          \/ H!RepointMain(v) /\ pass' = pass
          \/ H!DeleteTmp(v) /\ pass' = pass
          \/ H!ClearMain(v) /\ EndPass(TRUE)
    BY <1>7 DEF Handover
  <2>2. ~H!Unguard(v)
    BY DEF RelocationInv, ProcInv, H!Unguard
  <2>3. CASE H!RepointTmp(v) /\ pass' = pass
    BY <2>3, MoveClaims DEF ClaimMove
  <2>4. CASE H!RepointMain(v) /\ pass' = pass
    BY <2>4, ReturnClaims DEF ClaimMove
  <2>5. CASE H!DeleteTmp(v) /\ pass' = pass
    <3>1. ~H!Exists(tmp[v]) => ~tmp[v].deleting
      BY DEF RelocationInv, ClaimInv
    <3>2. QED
      BY <2>5, <3>1, DropClaims DEF ClaimMove
  <2>6. CASE H!ClearMain(v) /\ EndPass(TRUE)
    <3>1. op.seenMain.deleting
      BY <2>6 DEF RelocationInv, ProcInv, H!ClearMain
    <3>2. pass'.at = "none"
      BY <1>l, <2>6, PassTurn
    <3>3. QED
      BY <2>6, <3>1, <3>2, VanishClaims DEF ClaimMove
  <2>7. QED
    BY <2>1, <2>2, <2>3, <2>4, <2>5, <2>6
<1>8. ASSUME FailHandover PROVE ClaimMove
  <2>1. op'.pc = "idle" /\ UNCHANGED <<main, tmp, ref>>
    BY <1>8 DEF FailHandover, H!Abort, H!Idle
  <2>2. pass'.at = "none"
    BY <1>l, <1>8, PassTurn DEF FailHandover
  <2>3. QED
    BY <2>1, <2>2 DEF ClaimMove
<1>9. ASSUME NEW v \in Volumes, DeleteClaim(v) PROVE ClaimMove
  <2>1. EagerDelete = FALSE
    BY DEF Careful
  <2>2. H!DeleteMain(v) /\ pass' = pass /\ vrg = "relocate" /\ rs[v].exists
    BY <1>9, <2>1 DEF DeleteClaim
  <2>3. QED
    BY <2>1, <2>2, DeleteClaims DEF ClaimMove
<1>10. ASSUME NEW v \in Volumes, BindOrLose(v) PROVE ClaimMove
  <2>1. ~H!Reclaim(v)
    BY DEF RelocationInv, ClaimInv, H!Reclaim
  <2>2. QED
    BY <1>10, <2>1, RebindClaims DEF BindOrLose, ClaimMove
<1>11. ASSUME NEW v \in Volumes, Unprotect(v) PROVE ClaimMove
  <2>1. CASE ~InUse(v) /\ H!Unprotect(v, "main", main, tmp)
    <3>1. "mock" \in main[v].holds /\ H!Exists(main[v])
      BY <2>1 DEF RelocationInv, ClaimInv, H!Unprotect
    <3>2. QED
      BY <1>11, <2>1, <3>1, LoosenClaims DEF Unprotect, ClaimMove
  <2>2. CASE mover[v].on # "tmp" /\ H!Unprotect(v, "tmp", tmp, main)
    <3>1. H!Exists(tmp[v])
      BY <2>2 DEF RelocationInv, ClaimInv, H!Unprotect
    <3>2. QED
      BY <1>11, <2>2, <3>1, WitherClaims DEF Unprotect, ClaimMove
  <2>3. QED
    BY <1>11, <2>1, <2>2 DEF Unprotect
<1>12. QED
  BY <1>1, <1>2, <1>3, <1>4, <1>5, <1>6, <1>7, <1>8, <1>9, <1>10, <1>11 DEF WritesClaims
-----------------------------------------------------------------------------
(* What becomes of the labels *)

\* A temporary claim takes the labels of the claim that is being deleted, and a
\* claim that comes back keeps a few.
MatchMove ==
    \/ match' = match
    \/ UNCHANGED <<rs, vgr>> /\ \E v \in Volumes :
         \/ (LabelTmp(v) \/ RelabelTmp(v)) /\ main[v].deleting /\ main' = main
         \/ LabelRestored(v) /\ Recreates(v) /\ pass.at = "restore"

\* Every step treats the labels like this.
LEMMA MatchMoves == ASSUME TypeOK, RelocationInv, [Next]_vars PROVE MatchMove
<1>i. \A i \in pass.todo : i[1] \in Volumes /\ i \in Items
  BY ItemTypes DEF TypeOK, Passes
<1>1. CASE ParkTerminating \/ ParkDemoted
  <2>1. PICK i \in pass.todo : (H!EnsureTmp(i[1], FALSE) \/ H!EnsureTmp(i[1], TRUE)) /\ LabelTmp(i[1])
    BY <1>1 DEF ParkTerminating, ParkDemoted
  <2>2. main[i[1]].deleting /\ main' = main
    BY <2>1 DEF H!EnsureTmp
  <2>3. UNCHANGED <<rs, vgr>>
    BY <1>1 DEF ParkTerminating, ParkDemoted, replication, intent
  <2>4. QED
    BY <1>i, <2>1, <2>2, <2>3 DEF MatchMove
<1>2. CASE RestoreTmp
  <2>1. PICK i \in pass.todo :
          /\ pass.at = "restore"
          /\ \/ H!RestoreWaits(i[1]) /\ RelabelTmp(i[1])
             \/ H!RestoreMain(i[1]) /\ LabelRestored(i[1])
    BY <1>2 DEF RestoreTmp, Running
  <2>2. UNCHANGED <<rs, vgr>>
    BY <1>2 DEF RestoreTmp, replication, intent
  <2>3. QED
    BY <1>i, <2>1, <2>2, WaitClaims, RecreateClaims DEF MatchMove, Waits
<1>3. QED
  BY <1>1, <1>2, Writers DEF Written, WritesMatch, MatchMove
-----------------------------------------------------------------------------
(* What becomes of the pass and of the intent *)

\* How the pass moves on, and the steps that change the intent.
PassMove ==
    \/ Same /\ pass'.at = pass.at
    \/ pass'.at = "none" /\ "idle" \in {op.pc, op'.pc}
    \/ /\ StartPrimary /\ pass'.at = "protect" /\ ~pass'.stale
       /\ ~VRGConflict \/ "listVRG" \in PassFaults
    \/ StartPrimary /\ pass'.at = "pause" /\ VRGConflict
    \/ /\ StartSecondary /\ pass'.at = "restore" /\ ~pass'.stale
       /\ pass'.gate => FinalSyncWanted /\ AllFinalSyncsComplete
       /\ ~pass'.gate => ~FinalSyncWanted
    \/ StartSecondary /\ pass'.at = "park" /\ pass'.gate /\ FinalSyncWanted
    \/ EndPark /\ Same /\ pass.at = "park" /\ pass'.at = "trigger"
    \/ EndTrigger /\ Same /\ pass.at = "trigger" /\ pass.ok /\ pass.todo = {} /\ pass'.at = "restore"
    \/ EndRestore /\ Same /\ pass.at = "restore" /\ pass.todo = {} /\ pass'.at = "demote"
    \/ Relocate \/ Demote \/ Return \/ Promote

\* Every step moves the pass like this.
LEMMA PassMoves == ASSUME Careful, TypeOK, [Next]_vars PROVE PassMove
<1>t. LocalOK /\ pass \in Passes /\ wake \in BOOLEAN /\ near \in BOOLEAN /\ pass.stale \in BOOLEAN
  BY NearType DEF TypeOK, LocalOK, Passes, Sources, Movers
<1> DEFINE Keeps == Same /\ pass'.at = pass.at
<1>1. ASSUME StartPrimary PROVE PassMove
  BY <1>t, <1>1, PassTurn, ListedTypes DEF StartPrimary, Stages, PassMove
<1>a. ASSUME StartSecondary PROVE PassMove
  <2>1. CASE ~FinalSyncWanted /\ Begin("restore", FALSE, Listed)
    BY <1>t, <1>a, <2>1, PassTurn, ListedTypes DEF Stages, PassMove
  <2>2. CASE FinalSyncWanted /\ AllFinalSyncsComplete /\ Begin("restore", TRUE, Listed)
    BY <1>t, <1>a, <2>2, PassTurn, ListedTypes DEF Stages, PassMove
  <2>3. CASE FinalSyncWanted /\ Begin("park", TRUE, Listed)
    BY <1>t, <1>a, <2>3, PassTurn, ListedTypes DEF Stages, PassMove
  <2>4. QED
    BY <1>a, <2>1, <2>2, <2>3 DEF StartSecondary, Careful
<1>2. ASSUME PauseSource \/ SkipTerminating \/ TakeSource \/ GuardSource PROVE Keeps
  <2>1. CASE PauseSource
    BY <1>t, <2>1, PassItem, ItemTypes DEF PauseSource
  <2>2. CASE SkipTerminating \/ TakeSource
    BY <1>t, <2>2, PassItem, ItemTypes DEF SkipTerminating, TakeSource
  <2>3. CASE GuardSource
    BY <1>t, <2>3, PassItem, ItemTypes DEF GuardSource
  <2>4. QED
    BY <1>2, <2>1, <2>2, <2>3
<1>3. ASSUME ForgetLostTmp \/ SkipTmp \/ ParkTerminating \/ NotTerminating PROVE Keeps
  <2>1. CASE ForgetLostTmp \/ SkipTmp
    BY <1>t, <2>1, PassItem, ItemTypes DEF ForgetLostTmp, SkipTmp
  <2>2. CASE ParkTerminating \/ NotTerminating
    BY <1>t, <2>2, PassItem, ItemTypes DEF ParkTerminating, NotTerminating
  <2>3. QED
    BY <1>3, <2>1, <2>2
<1>4. ASSUME FindInUse \/ TriggerFinalSync \/ NoTmp \/ RestoreTmp \/ NothingToRestore PROVE Keeps
  <2>1. CASE TriggerFinalSync \/ NoTmp
    <3>1. CASE TriggerFinalSync
      BY <1>t, <3>1, PassItem, ItemTypes, TriggerEffect
    <3>2. CASE NoTmp
      BY <1>t, <3>2, PassItem, ItemTypes DEF NoTmp
    <3>3. QED
      BY <2>1, <3>1, <3>2
  <2>2. CASE RestoreTmp \/ NothingToRestore
    BY <1>t, <2>2, PassItem, ItemTypes DEF RestoreTmp, NothingToRestore
  <2>3. CASE FindInUse
    BY <1>t, <2>3, PassItem, ItemTypes, FindEffect
  <2>4. QED
    BY <1>4, <2>1, <2>2, <2>3
<1>5. ASSUME TmpNotReady \/ ParkDemoted \/ TakeDestination \/ GuardDestination PROVE Keeps
  <2>1. CASE TmpNotReady \/ ParkDemoted
    BY <1>t, <2>1, PassItem, ItemTypes DEF TmpNotReady, ParkDemoted
  <2>2. CASE TakeDestination \/ GuardDestination
    BY <1>t, <2>2, PassItem, ItemTypes DEF TakeDestination, GuardDestination
  <2>3. QED
    BY <1>5, <2>1, <2>2
<1>6. ASSUME EndPause \/ EndProtect \/ HoldBack \/ ForgetLost \/ EndDemote
      PROVE  pass'.at = "none" /\ op.pc = "idle"
  <2>1. CASE EndPause \/ EndProtect \/ EndDemote
    BY <1>t, <2>1, PassTurn DEF EndPause, EndProtect, EndDemote, Running
  <2>2. CASE HoldBack \/ ForgetLost
    BY <1>t, <2>2, PassTurn DEF HoldBack, ForgetLost, Running
  <2>3. QED
    BY <1>6, <2>1, <2>2
<1>7. ASSUME FailHandover \/ FailPass \/ Handover
      PROVE  pass' = pass \/ (pass'.at = "none" /\ "idle" \in {op.pc, op'.pc})
  <2>1. CASE FailHandover
    BY <1>t, <2>1, PassTurn DEF FailHandover, H!Abort, H!Idle
  <2>2. CASE FailPass
    BY <1>t, <2>2, PassTurn DEF FailPass
  <2>3. CASE Handover
    <3>1. CASE pass' = pass
      BY <3>1
    <3>2. CASE EndPass(TRUE) /\ \E v \in Volumes : H!ClearMain(v)
      <4>1. op'.pc = "idle"
        BY <3>2 DEF H!ClearMain, H!Idle
      <4>2. pass'.at = "none"
        BY <1>t, <3>2, PassTurn
      <4>3. QED
        BY <4>1, <4>2
    <3>3. QED
      BY <2>3, <3>1, <3>2 DEF Handover
  <2>4. QED
    BY <1>7, <2>1, <2>2, <2>3
<1>8. ASSUME EndPark \/ EndTrigger PROVE PassMove
  BY <1>t, <1>8, PassTurn, ItemTypes DEF EndPark, EndTrigger, Stages, Running, PassMove
<1>9. ASSUME EndRestore PROVE PassMove
  <2>1. CASE pass.gate /\ ~AllFinalSyncsComplete
    BY <1>t, <1>9, <2>1, PassTurn DEF EndRestore, PassMove, Running
  <2>2. CASE ~(pass.gate /\ ~AllFinalSyncsComplete)
    BY <1>t, <1>9, <2>2, PassTurn, ItemTypes DEF EndRestore, Stages, PassMove, Running
  <2>3. QED
    BY <2>1, <2>2
<1>0. ASSUME DropDestination \/ WriteSource \/ DropSource \/ CreateDestination PROVE Keeps
  BY <1>t, <1>0, PassGoes DEF DropDestination, WriteSource, DropSource, CreateDestination
<1>12. ASSUME \/ WritesOther \/ (\E object \in behind : CatchUp(object))
              \/ \E v \in Volumes :
                   \/ StopApp(v) \/ StartApp(v) \/ Write(v) \/ DeleteClaim(v)
                   \/ StartSync(v) \/ EndSync(v) \/ GiveAddress(v)
                   \/ BindOrLose(v) \/ Unprotect(v) \/ OtherPauses(v)
              \/ UNCHANGED vars
       PROVE  pass' = pass
  <2>1. CASE WritesOther \/ \E object \in behind : CatchUp(object)
    BY <2>1, Apart
  <2>3. CASE \E v \in Volumes : StopApp(v) \/ StartApp(v) \/ Write(v) \/ DeleteClaim(v)
    BY <2>3 DEF StopApp, StartApp, Write, DeleteClaim
  <2>4. CASE \E v \in Volumes : \/ StartSync(v) \/ EndSync(v) \/ GiveAddress(v)
                                \/ BindOrLose(v) \/ Unprotect(v) \/ OtherPauses(v)
    BY <2>4 DEF StartSync, EndSync, GiveAddress, BindOrLose, Unprotect, OtherPauses
  <2>5. CASE UNCHANGED vars
    BY <2>5 DEF vars
  <2>6. QED
    BY <1>12, <2>1, <2>3, <2>4, <2>5
<1>13. pass' = pass => Keeps
  BY DEF Same
<1>14. Keeps \/ (pass'.at = "none" /\ "idle" \in {op.pc, op'.pc}) => PassMove
  BY DEF PassMove
<1>15. Relocate \/ Demote \/ Return \/ Promote => PassMove
  BY DEF PassMove
<1> HIDE DEF Keeps
<1>16. QED
  BY <1>0, <1>1, <1>a, <1>2, <1>3, <1>4, <1>5, <1>6, <1>7, <1>8, <1>9, <1>12, <1>13, <1>14, <1>15
     DEF Next, Operator, Primary, Secondary, Environment, WritesOther

\* A procedure in progress keeps the pass at its stage, or ends with it.
LEMMA BusyPass ==
    TypeOK /\ PassMove /\ op.pc # "idle" =>
        pass'.at = pass.at \/ (pass'.at = "none" /\ op'.pc = "idle")
<1> SUFFICES ASSUME TypeOK, PassMove, op.pc # "idle"
             PROVE  pass'.at = pass.at \/ (pass'.at = "none" /\ op'.pc = "idle")
  OBVIOUS
<1>1. ~StartPrimary /\ ~StartSecondary /\ ~EndPark /\ ~EndTrigger /\ ~EndRestore
  BY DEF StartPrimary, StartSecondary, EndPark, EndTrigger, EndRestore, Running
<1>2. Relocate \/ Demote \/ Return \/ Promote => pass'.at = pass.at
  <2>1. pass \in Passes
    BY DEF TypeOK, Passes
  <2>2. QED
    BY <2>1, PassNotified DEF Relocate, Demote, Return, Promote
<1>3. QED
  BY <1>1, <1>2 DEF PassMove

\* The pass turns to its next stage, and nothing else changes.
LEMMA TurnFrame ==
    StartPrimary \/ StartSecondary \/ EndPark \/ EndTrigger \/ EndRestore =>
        UNCHANGED <<main, tmp, ref, op, rs, rd, mover, app, dirty, match, vrg, vgr, near, other>>
  BY DEF StartPrimary, StartSecondary, EndPark, EndTrigger, EndRestore,
         cluster, replication, data, intent, place

\* The VRG, the VGR and its reported state: the end of a primary or of a secondary
\* pass, and Ramen's four moves.
IntentMove ==
    \/ /\ pass.at = "protect" /\ pass.todo = {} /\ op.pc = "idle" /\ pass'.at = "none"
       /\ vrg' = vrg /\ vgr'.spec = vgr.spec
       /\ vgr'.status = IF pass.stale THEN vgr.status ELSE "primary"
    \/ /\ pass.at = "demote" /\ pass.todo = {} /\ op.pc = "idle" /\ pass'.at = "none"
       /\ vrg' = vrg /\ vgr'.spec = vgr.spec
       /\ vgr'.status = IF pass.ok /\ ~pass.stale THEN "secondary" ELSE vgr.status
    \/ /\ vrg = "primary" /\ vgr.spec = "primary" /\ vgr.status = "primary"
       /\ \A v \in Volumes : H!InService(v)
       /\ vrg' = "relocate" /\ vgr' = vgr /\ pass' = pass
    \/ /\ vrg = "relocate" /\ vgr.spec = "primary"
       /\ vrg' = vrg /\ vgr'.spec = "secondary" /\ vgr'.status = vgr.status
       /\ pass'.at = pass.at /\ pass'.todo = pass.todo /\ pass'.list = pass.list
       /\ pass'.ok = pass.ok /\ pass'.gate = pass.gate /\ (pass'.stale \/ pass.at = "none")
    \/ /\ vrg = "relocate" /\ vgr.spec = "secondary" /\ vgr.status = "secondary"
       /\ vrg' = "primary" /\ vgr' = vgr /\ pass' = pass
    \/ /\ vrg = "primary" /\ vgr.spec = "secondary"
       /\ vrg' = vrg /\ vgr'.spec = "primary" /\ vgr'.status = vgr.status
       /\ pass'.at = pass.at /\ pass'.todo = pass.todo /\ pass'.list = pass.list
       /\ pass'.ok = pass.ok /\ pass'.gate = pass.gate /\ (pass'.stale \/ pass.at = "none")

\* Every action that writes the intent is one of these.
LEMMA IntentMoves == ASSUME Careful, TypeOK, WritesIntent PROVE IntentMove
<1>t. /\ pass \in Passes /\ wake \in BOOLEAN /\ near \in BOOLEAN /\ pass.stale \in BOOLEAN
      /\ vgr \in [spec: {"primary", "secondary"}, status: {"primary", "secondary"}]
      /\ vrg \in {"primary", "relocate"}
  BY NearType DEF TypeOK, Passes
<1>1. CASE EndProtect
  BY <1>t, <1>1, PassTurn DEF EndProtect, Running, IntentMove
<1>2. CASE EndDemote
  BY <1>t, <1>2, PassTurn DEF EndDemote, Running, IntentMove
<1>3. CASE Relocate
  BY <1>t, <1>3 DEF Relocate, IntentMove
<1>4. CASE Demote
  BY <1>t, <1>4, PassNotified DEF Demote, IntentMove
<1>5. CASE Return
  BY <1>t, <1>5 DEF Return, IntentMove, Careful
<1>6. CASE Promote
  BY <1>t, <1>6, PassNotified DEF Promote, IntentMove
<1>7. QED
  BY <1>1, <1>2, <1>3, <1>4, <1>5, <1>6 DEF WritesIntent
-----------------------------------------------------------------------------
(* What becomes of the sources, the destinations and the application *)

\* Only volume v is concerned.
OnlyAt(v) ==
    \A w \in Volumes : w # v =>
        /\ rs'[w] = rs[w] /\ rd'[w] = rd[w] /\ mover'[w] = mover[w]
        /\ app'[w] = app[w] /\ dirty'[w] = dirty[w]

\* The source is paused, by this VGR's pass or by another's,
Pauses(v) ==
    /\ SourceBecomes(v, rs[v].exists, TRUE, rs[v].source, rs[v].trigger, rs[v].last)
    /\ rd' = rd /\ HaltsAt(v) /\ app' = app /\ dirty' = dirty
    /\ rs[v].exists
    /\ pass.at \in {"pause", "trigger"} \/ (near /\ other # "none")

\* ... written by a primary pass, anew,
Writes(v) ==
    /\ SourceBecomes(v, TRUE, FALSE, "main", "schedule", "none")
    /\ rd' = rd /\ mover' = mover /\ app' = app /\ dirty' = dirty
    /\ ~rs[v].exists /\ rd[v] = "none"
    /\ pass.at = "protect" /\ vgr.status = "secondary"

\* ... pointed to the temporary claim for the final sync,
Triggers(v) ==
    /\ SourceBecomes(v, rs[v].exists, FALSE, "tmp", "final", rs[v].last)
    /\ rd' = rd /\ mover' = mover /\ app' = app /\ dirty' = dirty
    /\ rs[v].exists /\ H!Exists(tmp[v]) /\ ~InUse(v) /\ pass.at = "trigger"
    /\ pass'.ok => rs[v].last = "final"

\* ... deleted by the demotion,
DropsSource(v) ==
    /\ SourceBecomes(v, FALSE, FALSE, "main", "schedule", "none")
    /\ rd' = rd /\ mover'[v] = Stopped /\ app' = app /\ dirty' = dirty
    /\ rs[v].exists /\ pass.at = "demote"

\* ... or has synced.
Syncs(v) ==
    /\ SourceBecomes(v, rs[v].exists, rs[v].paused, rs[v].source, rs[v].trigger,
                     IF rs[v].trigger = "final" THEN "final" ELSE "none")
    /\ rd' = rd /\ mover'[v] = Stopped /\ app' = app
    /\ dirty'[v] => dirty[v] /\ mover[v].torn
    /\ mover[v].on # "none"

\* The destination of v becomes this.
Destined(v, state) ==
    rs' = rs /\ rd'[v] = state /\ mover' = mover /\ app' = app /\ dirty' = dirty

\* The application writes,
Dirties(v) ==
    /\ rs' = rs /\ rd' = rd /\ app' = app /\ dirty'[v] /\ app[v]
    /\ mover'[v].on = mover[v].on /\ (mover'[v].torn => mover[v].on = "main")

\* ... VolSync starts a sync,
StartsSync(v) ==
    /\ rs' = rs /\ rd' = rd /\ app' = app /\ dirty' = dirty
    /\ rs[v].exists /\ (rs[v].trigger = "schedule" \/ rs[v].last # "final")
    /\ rs[v].source = "tmp" => tmp[v].phase = "bound"
    /\ mover'[v].on = rs[v].source /\ ~mover'[v].torn

\* ... and the application stops or starts.
Stops(v) == rs' = rs /\ rd' = rd /\ mover' = mover /\ dirty' = dirty /\ ~app'[v]

Starts(v) ==
    /\ rs' = rs /\ rd' = rd /\ mover' = mover /\ dirty' = dirty
    /\ vgr.spec = "primary" /\ vgr.status = "primary"

\* Every step on the volumes but those on the claims.
SourceMove ==
    \/ rs' = rs /\ rd' = rd /\ app' = app /\ dirty' = dirty /\ Halts
    \/ \E v \in Volumes : OnlyAt(v) /\
         \/ Pauses(v) \/ Writes(v) \/ Triggers(v) \/ DropsSource(v) \/ Syncs(v)
         \/ pass.at = "protect" /\ Destined(v, "none")
         \/ pass.at = "demote" /\ ~rs[v].exists /\ rd[v] = "none" /\ Destined(v, "created")
         \/ rd[v] = "created" /\ Destined(v, "ready")
         \/ Dirties(v) \/ StartsSync(v) \/ Stops(v) \/ Starts(v)

\* A source that becomes what it was.
LEMMA SourceStays ==
    ASSUME rs \in [Volumes -> Sources], NEW v \in Volumes,
           SourceBecomes(v, rs[v].exists, rs[v].paused, rs[v].source, rs[v].trigger, rs[v].last)
    PROVE  rs' = rs
<1>1. rs[v] \in Sources /\ rs'[v] \in Sources
  BY DEF SourceBecomes
<1>2. rs'[v] = rs[v]
  BY <1>1 DEF SourceBecomes, Sources
<1>3. QED
  BY <1>2 DEF SourceBecomes

\* Every action that writes them is one of these, at its stage of the pass.
LEMMA SourceMoves ==
    ASSUME Careful, TypeOK, RelocationInv,
           WritesRs \/ WritesRd \/ WritesMover \/ WritesApp \/ WritesDirty
    PROVE  SourceMove
<1>l. LocalOK /\ pass \in Passes
  BY DEF TypeOK, LocalOK, Passes, Sources, Movers
<1>i. \A i \in pass.todo \cup pass.cur : i \in Items /\ i[1] \in Volumes
  BY <1>l, ItemTypes
<1>t. /\ rs \in [Volumes -> Sources] /\ rd \in [Volumes -> {"none", "created", "ready"}]
      /\ mover \in [Volumes -> Movers] /\ app \in [Volumes -> BOOLEAN]
      /\ dirty \in [Volumes -> BOOLEAN]
  BY <1>l DEF LocalOK
<1>h. mover' = mover => Halts
  <2>1. SUFFICES ASSUME mover' = mover PROVE Halts
    OBVIOUS
  <2>2. QED
    BY <1>t, <2>1 DEF Halts
<1>o. rs' = rs /\ rd' = rd /\ mover' = mover /\ app' = app /\ dirty' = dirty => SourceMove
  BY <1>h DEF SourceMove
<1> USE DEF data, replication
<1>1. ASSUME PauseSource PROVE SourceMove
  <2>1. PICK i \in pass.todo :
          /\ i[1] \in Volumes /\ pass.at = "pause"
          /\ SourceBecomes(i[1], rs[i[1]].exists, TRUE, rs[i[1]].source, rs[i[1]].trigger,
                           rs[i[1]].last)
          /\ HaltsAt(i[1])
    BY <1>l, <1>1, PauseEffect
  <2>2. rd' = rd /\ app' = app /\ dirty' = dirty
    BY <1>1 DEF PauseSource
  <2>3. rs[i[1]].exists
    BY <2>1 DEF RelocationInv, TakenInv
  <2>4. OnlyAt(i[1]) /\ Pauses(i[1])
    BY <1>t, <2>1, <2>2, <2>3 DEF OnlyAt, Pauses, SourceBecomes, HaltsAt
  <2>5. QED
    BY <2>1, <2>4 DEF SourceMove
<1>2. ASSUME HoldBack PROVE SourceMove
  <2>1. PICK v \in Volumes :
          /\ pass.at = "trigger" /\ rs[v].exists
          /\ SourceBecomes(v, rs[v].exists, TRUE, rs[v].source, rs[v].trigger, rs[v].last)
          /\ HaltsAt(v)
    BY <1>l, <1>2, HoldEffect
  <2>2. rd' = rd /\ app' = app /\ dirty' = dirty
    BY <1>2 DEF HoldBack
  <2>3. OnlyAt(v) /\ Pauses(v)
    BY <1>t, <2>1, <2>2 DEF OnlyAt, Pauses, SourceBecomes, HaltsAt
  <2>4. QED
    BY <2>3 DEF SourceMove
<1>14. ASSUME NEW v \in Volumes, OtherPauses(v) PROVE SourceMove
  <2>1. /\ near /\ other # "none" /\ rs[v].exists
        /\ SourceBecomes(v, rs[v].exists, TRUE, rs[v].source, rs[v].trigger, rs[v].last)
        /\ HaltsAt(v)
    BY <1>l, <1>14, OtherEffect
  <2>2. rd' = rd /\ app' = app /\ dirty' = dirty
    BY <1>14 DEF OtherPauses
  <2>3. OnlyAt(v) /\ Pauses(v)
    BY <1>t, <2>1, <2>2 DEF OnlyAt, Pauses, SourceBecomes, HaltsAt
  <2>4. QED
    BY <2>3 DEF SourceMove
<1>15. ASSUME FindInUse PROVE SourceMove
  <2>1. Halts
    BY <1>l, <1>15, FindEffect
  <2>2. rs' = rs /\ rd' = rd /\ app' = app /\ dirty' = dirty
    BY <1>15 DEF FindInUse
  <2>3. QED
    BY <2>1, <2>2 DEF SourceMove
<1>3. ASSUME EndPause PROVE SourceMove
  <2>1. Halts
    BY <1>l, <1>3, AllHalt
  <2>2. rs' = rs /\ rd' = rd /\ app' = app /\ dirty' = dirty
    BY <1>3 DEF EndPause
  <2>3. QED
    BY <2>1, <2>2 DEF SourceMove
<1>4. ASSUME WriteSource PROVE SourceMove
  <2>1. PICK i \in pass.cur :
          /\ i[1] \in Volumes /\ pass.at = "protect" /\ pass.did = "cleared"
          /\ \/ /\ rs[i[1]].exists
                /\ SourceBecomes(i[1], TRUE, rs[i[1]].paused, "main", "schedule", rs[i[1]].last)
             \/ /\ ~rs[i[1]].exists
                /\ SourceBecomes(i[1], TRUE, FALSE, "main", "schedule", "none")
    BY <1>l, <1>4, WriteEffect
  <2> DEFINE v == i[1]
  <2>2. rd' = rd /\ mover' = mover /\ app' = app /\ dirty' = dirty
    BY <1>4 DEF WriteSource
  <2>3. /\ vgr.status = "primary" => rs[v].exists /\ rs[v].trigger = "schedule"
        /\ vgr.status = "secondary" => rs[v].trigger # "final"
        /\ vgr.status \in {"primary", "secondary"}
        /\ rs[v].trigger \in {"schedule", "final"} /\ rs[v].source \in {"main", "tmp"}
        /\ rs[v].source = "tmp" <=> rs[v].trigger = "final"
        /\ rd[v] = "none"
    BY <1>t, <1>l, <2>1 DEF RelocationInv, ServingInv, SourceInv, ClearedInv, Leaving, LocalOK,
                            Sources, H!Kinds
  <2>4. CASE ~rs[v].exists
    <3>1. OnlyAt(v) /\ Writes(v)
      BY <2>1, <2>2, <2>3, <2>4 DEF OnlyAt, Writes, SourceBecomes
    <3>2. QED
      BY <2>1, <3>1 DEF SourceMove
  <2>5. CASE rs[v].exists
    <3>1. SourceBecomes(v, rs[v].exists, rs[v].paused, rs[v].source, rs[v].trigger, rs[v].last)
      BY <1>t, <2>1, <2>3, <2>5 DEF Sources
    <3>2. rs' = rs
      BY <1>t, <2>1, <3>1, SourceStays
    <3>3. QED
      BY <1>o, <2>2, <3>2
  <2>6. QED
    BY <2>4, <2>5
<1>5. ASSUME TriggerFinalSync PROVE SourceMove
  <2>1. PICK i \in pass.todo :
          /\ i[1] \in Volumes /\ pass.at = "trigger"
          /\ H!Exists(tmp[i[1]]) /\ ~InUse(i[1]) /\ rs[i[1]].exists
          /\ SourceBecomes(i[1], rs[i[1]].exists, FALSE, "tmp", "final", rs[i[1]].last)
          /\ IF rs[i[1]].last = "final" THEN Done(i) ELSE DoneNot(i)
    BY <1>l, <1>5, TriggerEffect
  <2>2. rd' = rd /\ mover' = mover /\ app' = app /\ dirty' = dirty
    BY <1>5 DEF TriggerFinalSync
  <2>3. pass'.ok => rs[i[1]].last = "final"
    BY <1>l, <1>i, <2>1, PassItem
  <2>4. OnlyAt(i[1]) /\ Triggers(i[1])
    BY <2>1, <2>2, <2>3 DEF OnlyAt, Triggers, SourceBecomes
  <2>5. QED
    BY <2>1, <2>4 DEF SourceMove
<1>6. ASSUME DropSource PROVE SourceMove
  <2>1. PICK i \in pass.cur :
          /\ i[1] \in Volumes /\ pass.at = "demote"
          /\ \/ /\ rs[i[1]].exists
                /\ SourceBecomes(i[1], FALSE, FALSE, "main", "schedule", "none")
                /\ mover' = [mover EXCEPT ![i[1]] = Stopped]
             \/ UNCHANGED <<rs, mover>>
    BY <1>l, <1>6, DropEffect
  <2>2. rd' = rd /\ app' = app /\ dirty' = dirty
    BY <1>6 DEF DropSource
  <2>3. CASE rs[i[1]].exists /\ mover' = [mover EXCEPT ![i[1]] = Stopped]
             /\ SourceBecomes(i[1], FALSE, FALSE, "main", "schedule", "none")
    <3>1. OnlyAt(i[1]) /\ DropsSource(i[1])
      BY <1>t, <2>1, <2>2, <2>3 DEF OnlyAt, DropsSource, SourceBecomes
    <3>2. QED
      BY <2>1, <3>1 DEF SourceMove
  <2>4. QED
    BY <1>o, <2>1, <2>2, <2>3
<1>7. ASSUME NEW v \in Volumes, EndSync(v) PROVE SourceMove
  <2>1. /\ mover[v].on # "none"
        /\ SourceBecomes(v, rs[v].exists, rs[v].paused, rs[v].source, rs[v].trigger,
                         IF rs[v].trigger = "final" THEN "final" ELSE "none")
        /\ mover' = [mover EXCEPT ![v] = Stopped]
    BY <1>l, <1>7, EndSyncEffect
  <2>2. rd' = rd /\ app' = app /\ dirty' = [dirty EXCEPT ![v] = @ /\ mover[v].torn]
    BY <1>7 DEF EndSync
  <2>3. OnlyAt(v) /\ Syncs(v)
    BY <1>t, <2>1, <2>2 DEF OnlyAt, Syncs, SourceBecomes
  <2>4. QED
    BY <2>3 DEF SourceMove
<1>8. ASSUME DropDestination PROVE SourceMove
  <2>1. PICK i \in pass.cur : pass.at = "protect" /\ rd' \in {rd, [rd EXCEPT ![i[1]] = "none"]}
    BY <1>8 DEF DropDestination, Running
  <2>2. rs' = rs /\ mover' = mover /\ app' = app /\ dirty' = dirty
    BY <1>8 DEF DropDestination
  <2>3. CASE rd' = [rd EXCEPT ![i[1]] = "none"]
    <3>1. i[1] \in Volumes /\ OnlyAt(i[1]) /\ Destined(i[1], "none")
      BY <1>t, <1>i, <2>2, <2>3 DEF OnlyAt, Destined
    <3>2. QED
      BY <2>1, <3>1 DEF SourceMove
  <2>4. QED
    BY <1>o, <2>1, <2>2, <2>3
<1>9. ASSUME CreateDestination PROVE SourceMove
  <2>1. PICK i \in pass.cur :
          /\ pass.at = "demote" /\ pass.did = "cleared"
          /\ rd' = rd \/ (rd[i[1]] = "none" /\ rd' = [rd EXCEPT ![i[1]] = "created"])
    BY <1>9 DEF CreateDestination, Running
  <2>2. rs' = rs /\ mover' = mover /\ app' = app /\ dirty' = dirty
    BY <1>9 DEF CreateDestination
  <2>3. CASE rd[i[1]] = "none" /\ rd' = [rd EXCEPT ![i[1]] = "created"]
    <3>1. ~rs[i[1]].exists
      BY <2>1 DEF RelocationInv, ClearedInv
    <3>2. i[1] \in Volumes /\ OnlyAt(i[1]) /\ Destined(i[1], "created")
      BY <1>t, <1>i, <2>2, <2>3 DEF OnlyAt, Destined
    <3>3. QED
      BY <2>1, <2>3, <3>1, <3>2 DEF SourceMove
  <2>4. QED
    BY <1>o, <2>1, <2>2, <2>3
<1>10. ASSUME NEW v \in Volumes, GiveAddress(v) PROVE SourceMove
  <2>1. OnlyAt(v) /\ Destined(v, "ready") /\ rd[v] = "created"
    BY <1>t, <1>10 DEF GiveAddress, OnlyAt, Destined
  <2>2. QED
    BY <2>1 DEF SourceMove
<1>11. ASSUME NEW v \in Volumes, Write(v) PROVE SourceMove
  <2> DEFINE torn == mover[v].on = "main"
  <2>1. torn \in BOOLEAN /\ mover' = [mover EXCEPT ![v].torn = torn]
    BY <1>11 DEF Write
  <2> HIDE DEF torn
  <2>2. mover'[v].on = mover[v].on /\ mover'[v].torn = torn
        /\ \A w \in Volumes : w # v => mover'[w] = mover[w]
    BY <1>t, <2>1 DEF Movers
  <2>3. OnlyAt(v) /\ Dirties(v)
    BY <1>t, <1>11, <2>2 DEF Write, OnlyAt, Dirties, torn
  <2>4. QED
    BY <2>3 DEF SourceMove
<1>12. ASSUME NEW v \in Volumes, StartSync(v) PROVE SourceMove
  <2>1. mover' = [mover EXCEPT ![v] = [on |-> rs[v].source, torn |-> FALSE]]
    BY <1>12 DEF StartSync
  <2>2. rs[v].source = "tmp" => tmp[v].phase = "bound"
    BY <1>12 DEF StartSync, Claim
  <2>3. OnlyAt(v) /\ StartsSync(v)
    BY <1>t, <1>12, <2>1, <2>2 DEF StartSync, OnlyAt, StartsSync
  <2>4. QED
    BY <2>3 DEF SourceMove
<1>13. ASSUME NEW v \in Volumes, StopApp(v) \/ StartApp(v) PROVE SourceMove
  <2>1. OnlyAt(v) /\ (Stops(v) \/ Starts(v))
    BY <1>t, <1>13 DEF StopApp, StartApp, OnlyAt, Stops, Starts
  <2>2. QED
    BY <2>1 DEF SourceMove
<1>16. QED
  BY <1>14, <1>15, <1>1, <1>2, <1>3, <1>4, <1>5, <1>6, <1>7, <1>8, <1>9, <1>10, <1>11, <1>12, <1>13
     DEF WritesRs, WritesRd, WritesMover, WritesApp, WritesDirty

\* Every step is one on the claims, one on the other state of a volume, one on
\* the intent, or one of the pass alone.
LEMMA StepKinds ==
    ASSUME Careful, TypeOK, RelocationInv, [Next]_vars
    PROVE  /\ near' = near /\ (other' = "none" <=> other = "none") /\ PassMove
           /\ \/ ClaimMove /\ UNCHANGED <<rs, rd, mover, app, dirty, vrg, vgr>>
              \/ SourceMove /\ UNCHANGED <<main, tmp, ref, op, vrg, vgr>>
              \/ IntentMove /\ UNCHANGED <<main, tmp, ref, op, rs, rd, mover, app, dirty>>
              \/ UNCHANGED <<main, tmp, ref, op, rs, rd, mover, app, dirty, vrg, vgr>>
<1>1. other' = "none" <=> other = "none"
  BY Writers DEF Written, WritesOther, OtherRelocate, OtherSynced, OtherDemoted, OtherReturn,
                 OtherMoves
<1>2. QED
  BY <1>1, Writers, Apart, PassMoves, ClaimMoves, SourceMoves, IntentMoves DEF Written

\* A step that leaves the intent alone is none of Ramen's.
LEMMA IntentKinds ==
    ASSUME Careful, TypeOK, [Next]_vars
    PROVE  \/ IntentMove /\ UNCHANGED <<main, tmp, ref, op, rs, rd, mover, app, dirty>>
           \/ UNCHANGED <<vrg, vgr>> /\ ~Relocate /\ ~Demote /\ ~Return /\ ~Promote
<1>1. CASE WritesIntent
  BY <1>1, Apart, IntentMoves
<1>2. CASE ~WritesIntent
  BY <1>2, Writers DEF Written, WritesIntent
<1>3. QED
  BY <1>1, <1>2
-----------------------------------------------------------------------------
(* The items of a pass *)

\* The item i is finished, and nothing is written but what is said here.
ItemDone(i) == LET v == i[1] IN
    \/ pass.at \in {"pause", "park"}
    \/ /\ pass.at = "protect" /\ UNCHANGED <<rs, rd>>
       /\ \/ i[2] = "main" => main[v].deleting
          \/ rd[v] = "none" /\ rs[v].exists /\ rs[v].trigger = "schedule"
    \/ /\ pass.at = "trigger"
       /\ pass'.ok => pass.ok /\ rs[v].last = "final" /\ rs'[v].last = "final"
    \/ /\ pass.at = "restore"
       /\ \/ ~H!Exists(tmp[v]) /\ UNCHANGED <<main, tmp, ref, op>>
          \/ op'.pc # "idle" /\ op'.vol = v
    \/ /\ pass.at = "demote" /\ UNCHANGED <<rs, rd>>
       /\ pass'.ok => /\ pass.ok /\ i[2] = "main" /\ rd[v] = "ready" /\ ~rs[v].exists
                      /\ H!Exists(main[v]) => "mock" \in main'[v].holds

\* What a pass does to its list of items.
ItemMove ==
    \/ pass'.at = pass.at /\ pass'.list = pass.list /\ pass'.todo = pass.todo /\ pass'.ok = pass.ok
    \/ pass'.at = "none"
    \/ StartPrimary /\ pass'.at = "pause"
    \/ /\ StartPrimary /\ pass'.at = "protect" /\ pass'.list = Listed
       /\ pass'.todo = {i \in Listed : i[2] = "main"}
    \/ StartSecondary /\ pass'.at = "restore" /\ pass'.list = Listed /\ pass'.todo = pass'.list
    \/ StartSecondary /\ pass'.at = "park" /\ pass'.list = Listed /\ FinalSyncWanted
    \/ /\ EndPark /\ pass.at = "park" /\ pass'.at = "trigger"
       /\ pass'.list = pass.list /\ pass'.todo = MainItems
    \/ /\ EndTrigger /\ pass.at = "trigger" /\ pass.ok /\ pass.todo = {} /\ pass'.at = "restore"
       /\ pass'.list = pass.list /\ pass'.todo = pass'.list
    \/ /\ EndRestore /\ pass.at = "restore" /\ pass.todo = {} /\ op.pc = "idle"
       /\ pass'.at = "demote" /\ pass'.list = pass.list /\ pass'.todo = pass'.list
    \/ \E i \in Items :
         /\ pass'.at = pass.at /\ pass'.list = pass.list /\ pass'.todo = pass.todo \ {i}
         /\ ItemDone(i)

\* Every step treats the list like this.
LEMMA ItemMoves == ASSUME Careful, TypeOK, RelocationInv, [Next]_vars PROVE ItemMove
<1>t. LocalOK /\ pass \in Passes /\ wake \in BOOLEAN /\ near \in BOOLEAN /\ pass.stale \in BOOLEAN
  BY NearType DEF TypeOK, LocalOK, Passes, Sources, Movers
<1>i. \A i \in pass.todo \cup pass.cur : i \in Items /\ i[1] \in Volumes /\ i[2] \in H!Kinds
  BY <1>t, ItemTypes
<1> DEFINE Keeps == /\ pass'.at = pass.at /\ pass'.list = pass.list
                    /\ pass'.todo = pass.todo /\ pass'.ok = pass.ok
           Drop(i) == /\ pass'.at = pass.at /\ pass'.list = pass.list
                      /\ pass'.todo = pass.todo \ {i}
<1>d. /\ \A i \in Items : Done(i) => Drop(i) /\ pass'.ok = pass.ok
      /\ \A i \in Items : DoneNot(i) => Drop(i) /\ ~pass'.ok
  BY <1>t, PassItem DEF Same
<1>1. ASSUME StartPrimary PROVE ItemMove
  <2>1. CASE Begin("protect", FALSE, {i \in Listed : i[2] = "main"})
    BY <1>t, <1>1, <2>1, PassTurn, ListedTypes DEF Stages, ItemMove
  <2>2. CASE Begin("pause", FALSE,
                  {<<v, "main">> : v \in {u \in Volumes : SourceSeen(u) /\ ~rs[u].paused}})
    BY <1>t, <1>1, <2>2, PassTurn, ListedTypes DEF Stages, ItemMove
  <2>3. QED
    BY <1>1, <2>1, <2>2 DEF StartPrimary
<1>2. ASSUME StartSecondary PROVE ItemMove
  <2>1. ASSUME NEW gate \in BOOLEAN, Begin("restore", gate, Listed) PROVE ItemMove
    BY <1>t, <1>2, <2>1, PassTurn, ListedTypes DEF Stages, ItemMove
  <2>2. CASE FinalSyncWanted /\ Begin("park", TRUE, Listed)
    BY <1>t, <1>2, <2>2, PassTurn, ListedTypes DEF Stages, ItemMove
  <2>3. QED
    BY <1>2, <2>1, <2>2 DEF StartSecondary
<1>3. ASSUME EndPark \/ EndTrigger \/ EndRestore PROVE ItemMove
  <2>1. CASE GoTo("trigger", MainItems) /\ EndPark
    BY <1>t, <2>1, PassTurn, ItemTypes DEF Stages, Same, EndPark, Running, ItemMove
  <2>2. CASE GoTo("restore", pass.list) /\ pass.ok /\ EndTrigger
    <3>1. pass.list \in SUBSET Items /\ "restore" \in Stages
      BY <1>t DEF Passes, Stages
    <3>2. pass'.at = "restore" /\ pass'.list = pass.list /\ pass'.todo = pass.list
      BY <1>t, <2>2, <3>1, PassTurn DEF Same
    <3>3. pass.at = "trigger" /\ pass.todo = {}
      BY <2>2 DEF EndTrigger, Running
    <3>4. QED
      BY <2>2, <3>2, <3>3 DEF ItemMove
  <2>3. CASE GoTo("demote", pass.list) /\ EndRestore
    <3>1. pass.list \in SUBSET Items /\ "demote" \in Stages
      BY <1>t DEF Passes, Stages
    <3>2. pass'.at = "demote" /\ pass'.list = pass.list /\ pass'.todo = pass.list
      BY <1>t, <2>3, <3>1, PassTurn DEF Same
    <3>3. pass.at = "restore" /\ pass.todo = {} /\ op.pc = "idle"
      BY <2>3 DEF EndRestore, Running
    <3>4. QED
      BY <2>3, <3>2, <3>3 DEF ItemMove
  <2>4. CASE EndPass(TRUE) \/ EndPass(pass.stale)
    BY <1>t, <2>4, PassTurn DEF ItemMove
  <2>5. QED
    BY <1>3, <2>1, <2>2, <2>3, <2>4 DEF EndPark, EndTrigger, EndRestore
<1>4. ASSUME PauseSource PROVE ItemMove
  BY <1>i, <1>d, <1>4 DEF PauseSource, Running, ItemMove, ItemDone
<1>5. ASSUME SkipTerminating PROVE ItemMove
  <2>1. PICK i \in pass.todo : /\ pass.at = "protect" /\ Claim(i).deleting /\ Done(i)
                               /\ UNCHANGED <<rs, rd>>
    BY <1>5 DEF SkipTerminating, Running, replication
  <2>2. ItemDone(i)
    BY <2>1 DEF ItemDone, Claim
  <2>3. QED
    BY <1>i, <1>d, <2>1, <2>2 DEF ItemMove
<1>6. ASSUME GuardSource PROVE ItemMove
  <2>1. PICK i \in pass.cur :
          /\ pass.at = "protect" /\ Done(i) /\ UNCHANGED <<rs, rd>>
          /\ rd[i[1]] = "none" /\ rs[i[1]].exists /\ rs[i[1]].trigger = "schedule"
    BY <1>6 DEF GuardSource, Running, replication, RelocationInv, ClearedInv
  <2>2. ItemDone(i)
    BY <2>1 DEF ItemDone
  <2>3. QED
    BY <1>i, <1>d, <2>1, <2>2 DEF ItemMove
<1>7. ASSUME ForgetLostTmp \/ SkipTmp \/ ParkTerminating \/ NotTerminating PROVE ItemMove
  <2>1. PICK i \in pass.todo : pass.at = "park" /\ (Done(i) \/ DoneNot(i))
    BY <1>7 DEF ForgetLostTmp, SkipTmp, ParkTerminating, NotTerminating, Running
  <2>2. ItemDone(i)
    BY <2>1 DEF ItemDone
  <2>3. QED
    BY <1>i, <1>d, <2>1, <2>2 DEF ItemMove
<1>8. ASSUME TriggerFinalSync PROVE ItemMove
  <2>1. PICK i \in pass.todo :
          /\ pass.at = "trigger"
          /\ SourceBecomes(i[1], rs[i[1]].exists, FALSE, "tmp", "final", rs[i[1]].last)
          /\ IF rs[i[1]].last = "final" THEN Done(i) ELSE DoneNot(i)
    BY <1>t, <1>8, TriggerEffect
  <2>2. ItemDone(i)
    BY <1>i, <1>d, <2>1 DEF ItemDone, SourceBecomes
  <2>3. QED
    BY <1>i, <1>d, <2>1, <2>2 DEF ItemMove
<1>9. ASSUME NoTmp PROVE ItemMove
  <2>1. PICK i \in pass.todo : pass.at = "trigger" /\ DoneNot(i)
    BY <1>9 DEF NoTmp, Running
  <2>2. ItemDone(i)
    BY <1>i, <1>d, <2>1 DEF ItemDone
  <2>3. QED
    BY <1>i, <1>d, <2>1, <2>2 DEF ItemMove
<1>10. ASSUME RestoreTmp PROVE ItemMove
  <2>1. PICK i \in pass.todo : /\ pass.at = "restore" /\ Done(i)
                               /\ H!RestoreWaits(i[1]) \/ H!RestoreMain(i[1])
    BY <1>10 DEF RestoreTmp, Running
  <2>2. op'.pc # "idle" /\ op'.vol = i[1]
    BY <2>1 DEF H!RestoreWaits, H!RestoreMain, H!Idle
  <2>3. ItemDone(i)
    BY <2>1, <2>2 DEF ItemDone
  <2>4. QED
    BY <1>i, <1>d, <2>1, <2>3 DEF ItemMove
<1>11. ASSUME NothingToRestore PROVE ItemMove
  <2>1. PICK i \in pass.todo : /\ pass.at = "restore" /\ Done(i) /\ ~H!Exists(tmp[i[1]])
                               /\ UNCHANGED <<main, tmp, ref, op>>
    BY <1>11 DEF NothingToRestore, Running, cluster
  <2>2. ItemDone(i)
    BY <2>1 DEF ItemDone
  <2>3. QED
    BY <1>i, <1>d, <2>1, <2>2 DEF ItemMove
<1>12. ASSUME TmpNotReady \/ ParkDemoted PROVE ItemMove
  <2>1. PICK i \in pass.todo : pass.at = "demote" /\ DoneNot(i) /\ UNCHANGED <<rs, rd>>
    BY <1>12 DEF TmpNotReady, ParkDemoted, Running, replication
  <2>2. ItemDone(i)
    BY <1>i, <1>d, <2>1 DEF ItemDone
  <2>3. QED
    BY <1>i, <1>d, <2>1, <2>2 DEF ItemMove
<1>13. ASSUME GuardDestination PROVE ItemMove
  <2>1. PICK i \in pass.cur :
          /\ pass.at = "demote" /\ UNCHANGED <<rs, rd>> /\ ~rs[i[1]].exists
          /\ IF H!Exists(main[i[1]]) /\ "mock" \notin main[i[1]].holds
             THEN H!AddGuard(i[1]) ELSE UNCHANGED <<cluster, op>>
          /\ IF rd[i[1]] = "ready" THEN Done(i) ELSE DoneNot(i)
          /\ i[2] = "main"
    BY <1>13 DEF GuardDestination, Running, replication, RelocationInv, TakenInv, ClearedInv
  <2>2. H!Exists(main[i[1]]) => "mock" \in main'[i[1]].holds
    BY <1>i, <2>1, GuardClaims DEF Guards, cluster
  <2>3. ItemDone(i)
    BY <1>i, <1>d, <2>1, <2>2 DEF ItemDone
  <2>4. QED
    BY <1>i, <1>d, <2>1, <2>3 DEF ItemMove
<1>14. ASSUME TakeSource \/ TakeDestination \/ FindInUse PROVE Keeps
  <2>1. PICK i \in pass.todo : TakeUp(i)
    BY <1>14 DEF TakeSource, TakeDestination, FindInUse
  <2>2. QED
    BY <1>t, <1>i, <2>1, PassItem DEF Same
<1>21. ASSUME DropDestination \/ WriteSource \/ DropSource \/ CreateDestination PROVE Keeps
  BY <1>t, <1>21, PassGoes DEF DropDestination, WriteSource, DropSource, CreateDestination, Same
<1>15. ASSUME EndPause \/ EndProtect \/ HoldBack \/ ForgetLost \/ EndDemote PROVE pass'.at = "none"
  <2>1. CASE EndPause \/ EndProtect \/ EndDemote
    BY <1>t, <2>1, PassTurn DEF EndPause, EndProtect, EndDemote
  <2>2. CASE HoldBack \/ ForgetLost
    BY <1>t, <2>2, PassTurn DEF HoldBack, ForgetLost
  <2>3. QED
    BY <1>15, <2>1, <2>2
<1>16. ASSUME FailHandover \/ FailPass \/ Handover PROVE pass' = pass \/ pass'.at = "none"
  BY <1>t, <1>16, PassTurn DEF FailHandover, FailPass, Handover
<1>17. ASSUME Relocate \/ Demote \/ Return \/ Promote PROVE Keeps
  BY <1>t, <1>17, PassNotified DEF Relocate, Demote, Return, Promote
<1>18. ASSUME \/ WritesOther \/ (\E object \in behind : CatchUp(object))
              \/ \E v \in Volumes :
                   \/ StopApp(v) \/ StartApp(v) \/ Write(v) \/ DeleteClaim(v)
                   \/ StartSync(v) \/ EndSync(v) \/ GiveAddress(v)
                   \/ BindOrLose(v) \/ Unprotect(v) \/ OtherPauses(v)
              \/ UNCHANGED vars
       PROVE  pass' = pass
  <2>1. CASE WritesOther \/ \E object \in behind : CatchUp(object)
    BY <2>1, Apart
  <2>3. CASE \E v \in Volumes : StopApp(v) \/ StartApp(v) \/ Write(v) \/ DeleteClaim(v)
    BY <2>3 DEF StopApp, StartApp, Write, DeleteClaim
  <2>4. CASE \E v \in Volumes : \/ StartSync(v) \/ EndSync(v) \/ GiveAddress(v)
                                \/ BindOrLose(v) \/ Unprotect(v) \/ OtherPauses(v)
    BY <2>4 DEF StartSync, EndSync, GiveAddress, BindOrLose, Unprotect, OtherPauses
  <2>5. CASE UNCHANGED vars
    BY <2>5 DEF vars
  <2>6. QED
    BY <1>18, <2>1, <2>3, <2>4, <2>5
<1>19. Keeps \/ pass' = pass \/ pass'.at = "none" => ItemMove
  BY DEF ItemMove
<1> HIDE DEF Keeps
<1>20. QED
  BY <1>1, <1>2, <1>3, <1>4, <1>5, <1>6, <1>7, <1>8, <1>9, <1>10, <1>11, <1>12, <1>13, <1>14,
     <1>15, <1>16, <1>17, <1>18, <1>19, <1>21
     DEF Next, Operator, Primary, Secondary, Environment, WritesOther

\* What a pass does to the item in hand, and how far it is with its calls.
CurMove ==
    \/ pass'.cur \subseteq pass.cur /\ pass'.did = "nothing"
    \/ pass'.cur = pass.cur /\ pass'.did = pass.did /\ pass'.at = pass.at
    \/ /\ pass.cur = {} /\ pass'.did = pass.did
       /\ \E i \in Items : pass'.cur = {i} /\ i[2] = "main"
    \/ /\ pass'.cur = pass.cur /\ pass'.at = pass.at
       /\ \E i \in pass.cur : LET v == i[1] IN
            \/ /\ pass.at = "protect" /\ pass'.did = "cleared"
               /\ rd'[v] = "none"
            \/ /\ pass.at = "protect" /\ pass.did = "cleared" /\ pass'.did = "written"
               /\ rs'[v].exists /\ rs'[v].trigger = "schedule" /\ rd' = rd
            \/ /\ pass.at = "demote" /\ pass'.did = "cleared"
               /\ ~rs'[v].exists
            \/ /\ pass.at = "demote" /\ pass.did = "cleared" /\ pass'.did = "written"
               /\ rs' = rs

\* Every step treats the item in hand like this.
LEMMA CurMoves == ASSUME Careful, TypeOK, RelocationInv, [Next]_vars PROVE CurMove
<1>t. LocalOK /\ pass \in Passes /\ wake \in BOOLEAN /\ pass.stale \in BOOLEAN
  BY DEF TypeOK, LocalOK, Passes, Sources, Movers
<1>i. \A i \in pass.todo \cup pass.cur : i \in Items /\ i[1] \in Volumes
  BY <1>t, ItemTypes
<1>c. pass.at \notin {"protect", "demote"} => pass.did = "nothing"
  BY DEF RelocationInv, ClearedInv
<1> DEFINE Left == pass'.cur \subseteq pass.cur /\ pass'.did = "nothing"
           Kept == pass'.cur = pass.cur /\ pass'.did = pass.did /\ pass'.at = pass.at
<1>d. \A i \in Items : Done(i) \/ DoneNot(i) => Left
  BY <1>t DEF Done, DoneNot, Passes
<1>e. \A again \in BOOLEAN : EndPass(again) => Left
  BY DEF EndPass, NoPass
<1>g. \A to \in Stages, work \in SUBSET Items : pass.did = "nothing" /\ GoTo(to, work) => Left
  BY <1>t DEF GoTo, Passes
<1>b. \A to \in Stages, gate \in BOOLEAN, work \in SUBSET Items : Begin(to, gate, work) => Left
  BY DEF Begin
<1>n. pass' = pass => Kept
  OBVIOUS
<1>m. Left \/ Kept => CurMove
  BY DEF CurMove
<1> HIDE DEF Left, Kept
<1>1. ASSUME PauseSource \/ SkipTerminating \/ GuardSource PROVE Left
  BY <1>i, <1>d, <1>1 DEF PauseSource, SkipTerminating, GuardSource
<1>2. ASSUME ForgetLostTmp \/ SkipTmp \/ ParkTerminating \/ NotTerminating PROVE Left
  BY <1>i, <1>d, <1>2 DEF ForgetLostTmp, SkipTmp, ParkTerminating, NotTerminating
<1>3. ASSUME TriggerFinalSync \/ NoTmp PROVE Left
  <2>1. CASE TriggerFinalSync
    BY <1>t, <1>i, <1>d, <2>1, TriggerEffect
  <2>2. CASE NoTmp
    BY <1>i, <1>d, <2>2 DEF NoTmp
  <2>3. QED
    BY <1>3, <2>1, <2>2
<1>4. ASSUME RestoreTmp \/ NothingToRestore PROVE Left
  BY <1>i, <1>d, <1>4 DEF RestoreTmp, NothingToRestore
<1>5. ASSUME TmpNotReady \/ ParkDemoted \/ GuardDestination PROVE Left
  BY <1>i, <1>d, <1>5 DEF TmpNotReady, ParkDemoted, GuardDestination
<1>6. ASSUME StartPrimary PROVE Left
  BY <1>b, <1>6, ListedTypes DEF StartPrimary, Stages
<1>7. ASSUME StartSecondary PROVE Left
  BY <1>b, <1>7, ListedTypes DEF StartSecondary, Stages
<1>8. ASSUME EndPark \/ EndTrigger \/ EndRestore PROVE Left
  <2>1. pass.did = "nothing" /\ {"trigger", "restore", "demote"} \subseteq Stages
    BY <1>c, <1>8 DEF EndPark, EndTrigger, EndRestore, Running, Stages
  <2>2. MainItems \in SUBSET Items /\ pass.list \in SUBSET Items
    BY <1>t, ItemTypes
  <2>3. QED
    BY <1>t, <1>e, <1>g, <1>8, <2>1, <2>2 DEF EndPark, EndTrigger, EndRestore
<1>9. ASSUME EndPause \/ EndProtect \/ HoldBack \/ ForgetLost \/ EndDemote PROVE Left
  BY <1>t, <1>e, <1>9 DEF EndPause, EndProtect, HoldBack, ForgetLost, EndDemote
<1>10. ASSUME FailHandover \/ FailPass \/ Handover PROVE Left \/ Kept
  BY <1>e, <1>n, <1>10 DEF FailHandover, FailPass, Handover
<1>11. ASSUME Relocate \/ Demote \/ Return \/ Promote PROVE Kept
  <2>1. CASE Demote \/ Promote
    BY <1>t, <2>1, PassNotified DEF Demote, Promote, Kept
  <2>2. CASE Relocate \/ Return
    BY <1>n, <2>2 DEF Relocate, Return
  <2>3. QED
    BY <1>11, <2>1, <2>2
<1>12. ASSUME \/ WritesOther \/ (\E object \in behind : CatchUp(object)) \/ UNCHANGED vars
       PROVE  Kept
  BY <1>n, <1>12, Apart DEF vars
<1>13. ASSUME NEW v \in Volumes,
              \/ StopApp(v) \/ StartApp(v) \/ Write(v) \/ DeleteClaim(v)
              \/ StartSync(v) \/ EndSync(v) \/ GiveAddress(v)
              \/ BindOrLose(v) \/ Unprotect(v) \/ OtherPauses(v)
       PROVE  Kept
  BY <1>n, <1>13 DEF StopApp, StartApp, Write, DeleteClaim, StartSync, EndSync, GiveAddress,
                     BindOrLose, Unprotect, OtherPauses
<1>14. ASSUME TakeSource \/ TakeDestination \/ FindInUse PROVE CurMove
  <2>1. PICK i \in pass.todo : Free(i) /\ TakeUp(i) /\ i[2] = "main"
    <3>1. CASE TakeSource
      BY <3>1 DEF TakeSource, Running, RelocationInv, TakenInv
    <3>2. CASE FindInUse
      BY <3>2 DEF FindInUse, Running, RelocationInv, TakenInv
    <3>3. CASE TakeDestination
      BY <3>3 DEF TakeDestination
    <3>4. QED
      BY <1>14, <3>1, <3>2, <3>3
  <2>2. i \in Items /\ pass.cur = {} /\ pass'.cur = {i} /\ pass'.did = pass.did
    BY <1>t, <1>i, <2>1, PassItem DEF Free
  <2>3. QED
    BY <2>1, <2>2 DEF CurMove
<1>15. ASSUME DropDestination PROVE CurMove
  <2>1. PICK i \in pass.cur :
          /\ pass.at = "protect" /\ Go("cleared")
          /\ rd' = IF DestinationSeen(i[1]) THEN [rd EXCEPT ![i[1]] = "none"] ELSE rd
    BY <1>15 DEF DropDestination, Running
  <2>2. rd'[i[1]] = "none"
    BY <1>t, <1>i, <2>1, Current DEF LocalOK
  <2>3. pass'.cur = pass.cur /\ pass'.at = pass.at /\ pass'.did = "cleared"
    BY <1>t, <2>1, PassGoes
  <2>4. QED
    BY <2>1, <2>2, <2>3 DEF CurMove
<1>16. ASSUME WriteSource PROVE CurMove
  <2>1. PICK i \in pass.cur :
          /\ pass.at = "protect" /\ pass.did = "cleared" /\ Go("written")
          /\ rs'[i[1]].exists /\ rs'[i[1]].trigger = "schedule"
    BY <1>t, <1>16, WriteEffect DEF SourceBecomes
  <2>2. pass'.cur = pass.cur /\ pass'.at = pass.at /\ pass'.did = "written" /\ rd' = rd
    BY <1>t, <1>16, <2>1, PassGoes DEF WriteSource
  <2>3. QED
    BY <2>1, <2>2 DEF CurMove
<1>17. ASSUME DropSource PROVE CurMove
  <2>1. PICK i \in pass.cur :
          /\ i[1] \in Volumes /\ pass.at = "demote" /\ Go("cleared")
          /\ ~rs'[i[1]].exists \/ (~SourceSeen(i[1]) /\ rs' = rs)
    BY <1>t, <1>17, DropEffect DEF SourceBecomes
  <2>2. ~rs'[i[1]].exists
    BY <2>1, Current
  <2>3. pass'.cur = pass.cur /\ pass'.at = pass.at /\ pass'.did = "cleared"
    BY <1>t, <2>1, PassGoes
  <2>4. QED
    BY <2>1, <2>2, <2>3 DEF CurMove
<1>18. ASSUME CreateDestination PROVE CurMove
  <2>1. PICK i \in pass.cur :
          pass.at = "demote" /\ pass.did = "cleared" /\ Go("written") /\ rs' = rs
    BY <1>18 DEF CreateDestination, Running
  <2>2. pass'.cur = pass.cur /\ pass'.at = pass.at /\ pass'.did = "written"
    BY <1>t, <2>1, PassGoes
  <2>3. QED
    BY <2>1, <2>2 DEF CurMove
<1>19. QED
  BY <1>1, <1>2, <1>3, <1>4, <1>5, <1>6, <1>7, <1>8, <1>9, <1>10, <1>11, <1>12, <1>13, <1>14,
     <1>15, <1>16, <1>17, <1>18, <1>m
     DEF Next, Operator, Primary, Secondary, Environment, WritesOther
=============================================================================
