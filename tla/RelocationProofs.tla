------------------------- MODULE RelocationProofs --------------------------
(***************************************************************************)
(* The inductive invariant of Relocation is kept by every step, and the    *)
(* safety properties follow from it, for any set of volumes.               *)
(*                                                                         *)
(* The argument is about the whole group.  A volume returns to the claim   *)
(* of the application, loses its source or becomes a destination only      *)
(* after AllRest: no application of the group writes, nothing is left to   *)
(* copy and every source that is left has done its final sync.  AllRest    *)
(* lasts until the group is reported as secondary, and that report waits   *)
(* for all volumes.                                                        *)
(***************************************************************************)
EXTENDS RelocationMoves

-----------------------------------------------------------------------------
(* Each part of the invariant is preserved *)

\* What TypeOK says, spelled out for the provers.
LEMMA Sorts ==
    TypeOK =>
        /\ vgr.spec \in {"primary", "secondary"} /\ vgr.status \in {"primary", "secondary"}
        /\ vrg \in {"primary", "relocate"} /\ near \in BOOLEAN
        /\ pass \in Passes /\ pass.at \in Stages
        /\ pass.ok \in BOOLEAN /\ pass.gate \in BOOLEAN /\ pass.stale \in BOOLEAN
        /\ \A v \in Volumes :
             /\ rs[v].exists \in BOOLEAN /\ rs[v].paused \in BOOLEAN
             /\ rs[v].source \in {"main", "tmp"} /\ rs[v].trigger \in {"schedule", "final"}
             /\ rs[v].last \in {"none", "final"} /\ rd[v] \in {"none", "created", "ready"}
             /\ mover[v].on \in {"main", "tmp", "none"} /\ mover[v].torn \in BOOLEAN
             /\ app[v] \in BOOLEAN /\ dirty[v] \in BOOLEAN
  BY NearType DEF TypeOK, Passes, H!Kinds

\* Before the VGR is demoted no volume is on its way back; from then on a volume
\* on its way back tells that the whole group has come to rest.
LEMMA Facts ==
    ASSUME TypeOK, RelocationInv
    PROVE  /\ Leaving => vrg = "relocate"
           /\ \A v \in Volumes : vgr.status = "primary" /\ Returning(v) => Leaving /\ AllRest
           /\ \A v \in Volumes : ref[v].claim = "tmp" => Leaving
           /\ \A v \in Volumes : AllRest /\ main[v].deleting => ref[v].claim = "tmp"
           /\ \A v \in Volumes : main[v].deleting => vrg = "relocate" /\ vgr.status = "primary"
           /\ AllRest => \A v \in Volumes : mover[v].on = "none"
<1>1. Leaving => vrg = "relocate"
  BY DEF RelocationInv, CycleInv, Leaving
<1>2. ASSUME NEW v \in Volumes, vgr.status = "primary", Returning(v) PROVE Leaving /\ AllRest
  <2>1. AllRest
    BY <1>2 DEF RelocationInv, RestInv
  <2>2. ~Leaving => rd[v] = "none"
    BY <1>2, Sorts DEF RelocationInv, ServingInv, Leaving
  <2>3. Leaving
    BY <1>2, <2>2 DEF Returning, RelocationInv, ClaimInv, SourceInv
  <2>4. QED
    BY <2>1, <2>3
<1>3. ASSUME NEW v \in Volumes
      PROVE  /\ ref[v].claim = "tmp" => Leaving
             /\ AllRest /\ main[v].deleting => ref[v].claim = "tmp"
             /\ main[v].deleting => vrg = "relocate" /\ vgr.status = "primary"
             /\ AllRest => mover[v].on = "none"
  BY DEF RelocationInv, ClaimInv, SourceInv, AllRest
<1>4. QED
  BY <1>1, <1>2, <1>3

\* Where restored claims are not found no demotion is reported: each list names a
\* temporary claim, and that is not counted as ready.
LEMMA NoReport ==
    ASSUME RelocationInv, ~SelectorKept, pass.at = "demote", pass.todo = {} PROVE ~pass.ok
<1>1. SelectorInv
  BY DEF RelocationInv
<1>2. PICK v \in Volumes : <<v, "tmp">> \in pass.list
  BY <1>1 DEF SelectorInv
<1>3. QED
  BY <1>1, <1>2 DEF SelectorInv, Handled

\* The pass lists a volume unless its claim was restored without the labels.
LEMMA ListedAt ==
    ASSUME RelocationInv, pass.at = "demote", pass.todo = {}, pass.ok, NEW w \in Volumes
    PROVE  <<w, "main">> \in pass.list \/ <<w, "tmp">> \in pass.list
  BY NoReport DEF RelocationInv, PassInv

\* The stages follow the intent: a stale pass still runs for the old one.
LEMMA CycleStep == Careful /\ TypeOK /\ RelocationInv /\ [Next]_vars => CycleInv'
<1> SUFFICES ASSUME Careful, TypeOK, RelocationInv, [Next]_vars PROVE CycleInv'
  OBVIOUS
<1>k. near' = near /\ (other' = "none" <=> other = "none") /\ PassMove
  BY StepKinds
<1>v. VRGSeen = vrg
  BY Current
<1>c. CycleInv
  BY DEF RelocationInv
<1>s. /\ vgr.spec \in {"primary", "secondary"} /\ vgr.status \in {"primary", "secondary"}
      /\ vrg \in {"primary", "relocate"}
      /\ pass.at \in Stages /\ pass.gate \in BOOLEAN /\ pass.stale \in BOOLEAN
      /\ pass'.gate \in BOOLEAN /\ pass'.stale \in BOOLEAN
  <2>1. pass' \in Passes
    BY PassStep DEF TypeOK, LocalOK, Passes, Sources, Movers
  <2>2. QED
    BY <2>1, Sorts DEF Passes
<1>1. CASE IntentMove
  <2>1. pass.at = "demote" /\ pass.ok /\ ~pass.stale => vgr.spec = "secondary"
    BY <1>c DEF CycleInv
  <2>2. QED
    BY <1>1, <1>k, <1>c, <1>s, <2>1 DEF IntentMove, CycleInv, Leaving
<1>2. CASE vrg' = vrg /\ vgr' = vgr /\ ~IntentMove
  <2>1. CASE Same /\ pass'.at = pass.at
    BY <1>2, <2>1, <1>k, <1>c DEF Same, CycleInv, Leaving
  <2>2. CASE pass'.at = "none"
    BY <1>2, <2>2, <1>k, <1>c DEF CycleInv, Leaving
  <2>3. CASE StartPrimary /\ pass'.at = "protect"
    BY <1>2, <2>3, <1>k, <1>c, <1>s DEF CycleInv, Leaving, StartPrimary
  <2>4. CASE StartPrimary /\ pass'.at = "pause" /\ VRGConflict
    <3>1. vgr.spec = "primary" /\ near /\ (other = "none" => vrg = "relocate")
      BY <1>v, <2>4 DEF StartPrimary, VRGConflict, OtherSecondary
    <3>2. QED
      BY <1>2, <2>4, <3>1, <1>k, <1>c, <1>s DEF CycleInv, Leaving
  <2>5. CASE /\ StartSecondary /\ pass'.at = "restore" /\ ~pass'.stale
             /\ pass'.gate => FinalSyncWanted /\ AllFinalSyncsComplete
             /\ ~pass'.gate => ~FinalSyncWanted
    BY <1>2, <2>5, <1>k, <1>c, <1>s, <1>v DEF CycleInv, Leaving, StartSecondary, FinalSyncWanted
  <2>6. CASE StartSecondary /\ pass'.at = "park" /\ pass'.gate /\ FinalSyncWanted
    BY <1>2, <2>6, <1>k, <1>c, <1>s, <1>v DEF CycleInv, Leaving, StartSecondary, FinalSyncWanted
  <2>7. CASE Same /\ pass.at \in {"park", "trigger", "restore"} /\ pass'.at # "park"
             /\ (pass.at = "park" => pass'.at = "trigger")
             /\ (pass.at = "trigger" => pass'.at = "restore")
             /\ (pass.at = "restore" => pass'.at = "demote")
    BY <1>2, <2>7, <1>k, <1>c, <1>s DEF CycleInv, Same, Leaving
  <2>8. ~Relocate /\ ~Demote /\ ~Return /\ ~Promote
    BY <1>2, IntentMoves DEF WritesIntent
  <2>9. QED
    BY <1>k, <2>1, <2>2, <2>3, <2>4, <2>5, <2>6, <2>7, <2>8 DEF PassMove
<1>3. QED
  BY <1>1, <1>2, StepKinds

\* The claims: they are deleted only while the group leaves, and guarded then.
LEMMA ClaimStep ==
    Careful /\ TypeOK /\ RelocationInv /\ [Next]_vars => \A w \in Volumes : ClaimInv(w)'
<1> SUFFICES ASSUME Careful, TypeOK, RelocationInv, [Next]_vars, NEW w \in Volumes
             PROVE  ClaimInv(w)'
  OBVIOUS
<1>c. ClaimInv(w) /\ SourceInv(w)
  BY DEF RelocationInv
<1>s. /\ vgr.spec \in {"primary", "secondary"} /\ vgr.status \in {"primary", "secondary"}
      /\ vrg \in {"primary", "relocate"}
      /\ ref[w].claim \in {"main", "tmp", "none"} /\ rs[w].trigger \in {"schedule", "final"}
  BY Sorts, ClaimTypes
<1>f. /\ ref[w].claim = "tmp" => Leaving
      /\ main[w].deleting => vrg = "relocate" /\ vgr.status = "primary"
      /\ AllRest /\ main[w].deleting => ref[w].claim = "tmp"
  BY Facts
<1>1. CASE UNCHANGED <<main, tmp, ref, rs, vrg, vgr>>
  BY <1>1, <1>c DEF ClaimInv, Leaving
<1>2. CASE ClaimMove /\ UNCHANGED <<rs, rd, mover, app, dirty, vrg, vgr>>
  <2>l. Leaving' = Leaving
    BY <1>2 DEF Leaving
  <2>1. ASSUME main'[w] = main[w], tmp'[w] = tmp[w], ref'[w] = ref[w] PROVE ClaimInv(w)'
    BY <1>2, <1>c, <2>1, <2>l DEF ClaimInv
  <2>2. PICK v \in Volumes :
         \/ UNCHANGED <<main, tmp, ref>>
         \/ Guards(v) \/ Rebinds(v)
         \/ Parks(v) /\ pass.at = "park"
         \/ Moves(v) \/ Waits(v) \/ Vanishes(v)
         \/ Recreates(v) /\ pass.at = "restore"
         \/ Returns(v) \/ Drops(v) \/ Loosens(v) \/ Withers(v)
         \/ Deletes(v) /\ vrg = "relocate" /\ rs[v].exists
    BY <1>2 DEF ClaimMove
  <2>3. CASE w # v
    BY <2>1, <2>2, <2>3 DEF Guards, Rebinds, Parks, Moves, Waits, Vanishes, Recreates, Returns,
             Drops, Loosens, Withers, Deletes, Elsewhere
  <2>4. CASE w = v
    <3>1. CASE UNCHANGED <<main, tmp, ref>> \/ Waits(v)
      BY <2>1, <3>1 DEF Waits
    <3>2. CASE Guards(v)
      BY <1>2, <1>c, <2>4, <2>l, <3>2 DEF Guards, ClaimInv
    <3>3. CASE Rebinds(v)
      BY <1>2, <1>c, <2>4, <2>l, <3>3 DEF Rebinds, SameClaim, ClaimInv
    <3>4. CASE Parks(v) /\ pass.at = "park"
      <4>1. Leaving
        BY <3>4 DEF RelocationInv, CycleInv
      <4>2. QED
        BY <1>2, <1>c, <2>4, <2>l, <3>4, <4>1 DEF Parks, ClaimInv
    <3>5. CASE Moves(v)
      <4>1. main[v].deleting /\ H!Exists(tmp[v]) /\ pass.at = "park"
        BY <3>5 DEF Moves, RelocationInv, ProcInv
      <4>2. Leaving
        BY <4>1 DEF RelocationInv, CycleInv
      <4>3. QED
        BY <1>2, <1>c, <2>4, <2>l, <3>5, <4>1, <4>2 DEF Moves, ClaimInv
    <3>6. CASE Vanishes(v)
      <4>1. ref[v].claim = "tmp" /\ pass.at = "restore"
        BY <3>6 DEF Vanishes, RelocationInv, ProcInv
      <4>2. ~main'[v].deleting /\ ~H!Exists(main'[v]) /\ ref'[v] = ref[v] /\ tmp'[v] = tmp[v]
        BY <3>6, <4>1 DEF Vanishes, H!Absent, H!Exists
      <4>3. vgr.status = "primary" => AllRest
        BY <4>1 DEF RelocationInv, RestInv
      <4>4. QED
        BY <1>2, <1>c, <1>s, <2>4, <2>l, <4>1, <4>2, <4>3 DEF ClaimInv, SourceInv, AllRest
    <3>7. CASE Recreates(v) /\ pass.at = "restore"
      <4>1. vgr.status = "primary" => AllRest
        BY <3>7 DEF RelocationInv, RestInv
      <4>2. QED
        BY <1>2, <1>c, <1>s, <2>4, <2>l, <3>7, <4>1 DEF Recreates, ClaimInv, SourceInv, AllRest
    <3>8. CASE Returns(v)
      <4>1. H!Exists(main[v]) /\ ~main[v].deleting
        BY <3>8 DEF Returns, RelocationInv, ProcInv
      <4>2. QED
        BY <1>2, <1>c, <2>4, <2>l, <3>8, <4>1 DEF Returns, ClaimInv
    <3>9. CASE Drops(v)
      <4>1. ref[v].claim = "main" /\ ~main[v].deleting /\ pass.at = "restore"
        BY <3>9 DEF Drops, RelocationInv, ProcInv
      <4>2. vgr.status = "primary" => AllRest
        BY <4>1 DEF RelocationInv, RestInv
      <4>3. QED
        BY <1>2, <1>c, <1>s, <2>4, <2>l, <3>9, <4>1, <4>2 DEF Drops, ClaimInv, SourceInv,
         AllRest
    <3>10. CASE Loosens(v)
      BY <1>2, <1>c, <2>4, <2>l, <3>10 DEF Loosens, ClaimInv, H!Exists
    <3>11. CASE Withers(v)
      BY <1>2, <1>c, <2>4, <2>l, <3>11 DEF Withers, ClaimInv, H!Exists
    <3>12. CASE Deletes(v) /\ vrg = "relocate" /\ rs[v].exists
      <4>1. vgr.status = "primary"
        BY <1>s, <3>12 DEF RelocationInv, CycleInv, SettledInv, Settled
      <4>2. QED
        BY <1>2, <1>c, <2>4, <2>l, <3>12, <4>1 DEF Deletes, H!InService, ClaimInv, H!Exists
    <3>13. QED
      BY <2>2, <3>1, <3>2, <3>3, <3>4, <3>5, <3>6, <3>7, <3>8, <3>9, <3>10, <3>11, <3>12
  <2>5. QED
    BY <2>3, <2>4
<1>3. CASE SourceMove /\ UNCHANGED <<main, tmp, ref, op, vrg, vgr>>
  <2>l. Leaving' = Leaving
    BY <1>3 DEF Leaving
  <2>1. \/ rs'[w] = rs[w]
        \/ rs'[w].exists = rs[w].exists /\ rs'[w].trigger = rs[w].trigger
        \/ rs'[w].exists /\ rs'[w].trigger = "final" /\ rs[w].exists
        \/ ~rs'[w].exists /\ pass.at = "demote"
        \/ rs'[w].exists /\ vgr.status = "secondary"
    <3>1. CASE rs' = rs
      BY <3>1
    <3>2. CASE rs' # rs
      <4>1. PICK v \in Volumes :
              OnlyAt(v) /\ (Pauses(v) \/ Writes(v) \/ Triggers(v) \/ DropsSource(v) \/ Syncs(v))
        BY <1>3, <3>2 DEF SourceMove, Destined, Dirties, StartsSync, Stops, Starts
      <4>2. CASE w # v
        BY <4>1, <4>2 DEF OnlyAt
      <4>3. CASE w = v
        BY <4>1, <4>3 DEF Pauses, Writes, Triggers, DropsSource, Syncs, SourceBecomes
      <4>4. QED
        BY <4>2, <4>3
    <3>3. QED
      BY <3>1, <3>2
  <2>2. CASE rs'[w].exists = rs[w].exists /\ rs'[w].trigger = rs[w].trigger
    BY <1>3, <1>c, <2>l, <2>2 DEF ClaimInv
  <2>3. CASE rs'[w].exists /\ rs'[w].trigger = "final" /\ rs[w].exists
    BY <1>3, <1>c, <2>l, <2>3 DEF ClaimInv
  <2>4. CASE ~rs'[w].exists /\ pass.at = "demote"
    <3>1. ~main[w].deleting
      BY <2>4 DEF RelocationInv, PassInv, Restored
    <3>2. QED
      BY <1>3, <1>c, <2>l, <2>4, <3>1 DEF ClaimInv
  <2>5. CASE rs'[w].exists /\ vgr.status = "secondary"
    BY <1>3, <1>c, <2>l, <2>5 DEF ClaimInv
  <2>6. QED
    BY <2>1, <2>2, <2>3, <2>4, <2>5
<1>4. CASE IntentMove /\ UNCHANGED <<main, tmp, ref, op, rs, rd, mover, app, dirty>>
  <2>1. CASE vrg' = vrg /\ vgr'.spec = vgr.spec /\ vgr'.status = vgr.status
    BY <1>4, <1>c, <2>1 DEF ClaimInv, Leaving
  <2>2. CASE pass.at = "protect" /\ ~pass.stale /\ vrg' = vrg /\ vgr'.spec = vgr.spec
             /\ vgr'.status = "primary" /\ vgr.status = "secondary"
    <3>1. vgr.spec = "primary" /\ vrg = "primary"
      BY <1>s, <2>2 DEF RelocationInv, CycleInv
    <3>2. QED
      BY <1>4, <1>c, <2>2, <3>1 DEF ClaimInv, Leaving
  <2>3. CASE pass.at = "demote" /\ vrg' = vrg /\ vgr'.spec = vgr.spec /\ vgr'.status = "secondary"
    <3>1. Restored(w)
      BY <2>3 DEF RelocationInv, PassInv
    <3>2. QED
      BY <1>4, <1>c, <2>3, <3>1 DEF ClaimInv, Leaving, Restored
  <2>4. CASE vrg' = "relocate" /\ vgr' = vgr /\ \A v \in Volumes : H!InService(v)
    BY <1>4, <1>c, <2>4 DEF ClaimInv, Leaving, H!InService
  <2>5. CASE vrg = "relocate" /\ vgr.spec = "primary" /\ vrg' = vrg
             /\ vgr'.spec = "secondary" /\ vgr'.status = vgr.status
    BY <1>4, <1>c, <2>5 DEF ClaimInv, Leaving
  <2>6. CASE vgr.status = "secondary" /\ vrg' = "primary" /\ vgr' = vgr
    BY <1>4, <1>c, <2>6 DEF ClaimInv, Leaving
  <2>7. CASE vrg = "primary" /\ vgr.spec = "secondary" /\ vrg' = vrg
             /\ vgr'.spec = "primary" /\ vgr'.status = vgr.status
    <3>1. vgr.status = "secondary"
      BY <1>s, <2>7 DEF RelocationInv, CycleInv
    <3>2. QED
      BY <1>4, <1>c, <2>7, <3>1 DEF ClaimInv, Leaving
  <2>8. QED
    BY <1>4, <1>s, <2>1, <2>2, <2>3, <2>4, <2>5, <2>6, <2>7 DEF IntentMove
<1>5. QED
  BY <1>1, <1>2, <1>3, <1>4, StepKinds

\* What the deletion of jobs and pods does to the mover of one claim.
LEMMA HaltsOne ==
    ASSUME Halts, NEW w \in Volumes
    PROVE  /\ mover'[w].on \in {mover[w].on, "none"}
           /\ mover'[w].torn => mover[w].torn
<1>1. mover'[w].on \in {mover[w].on, "none"}
  BY SMT DEF Halts
<1>2. mover'[w].torn => mover[w].torn
  BY Zenon DEF Halts
<1>3. QED
  BY <1>1, <1>2, Zenon

\* The sources: a final sync starts from a parked volume and nothing is written
\* after it.
LEMMA SourceStep ==
    Careful /\ TypeOK /\ RelocationInv /\ [Next]_vars => \A w \in Volumes : SourceInv(w)'
<1> SUFFICES ASSUME Careful, TypeOK, RelocationInv, [Next]_vars, NEW w \in Volumes
             PROVE  SourceInv(w)'
  OBVIOUS
<1>c. ClaimInv(w) /\ SourceInv(w)
  BY DEF RelocationInv
<1>s. /\ vgr.spec \in {"primary", "secondary"} /\ vgr.status \in {"primary", "secondary"}
      /\ vrg \in {"primary", "relocate"}
      /\ ref[w].claim \in {"main", "tmp", "none"} /\ rs[w].trigger \in {"schedule", "final"}
      /\ rs[w].source \in {"main", "tmp"} /\ rs[w].last \in {"none", "final"}
      /\ mover[w].on \in {"main", "tmp", "none"}
  BY Sorts, ClaimTypes
<1>f. /\ ref[w].claim = "tmp" => Leaving
      /\ vgr.status = "primary" /\ Returning(w) => Leaving /\ AllRest
      /\ AllRest => mover[w].on = "none" /\ (rs[w].exists => rs[w].last = "final")
  BY Facts DEF AllRest
<1>r. pass.at \in {"restore", "demote"} /\ vgr.status = "primary" => AllRest
  BY DEF RelocationInv, RestInv
<1>1. CASE UNCHANGED <<main, tmp, ref, rs, rd, mover, app, dirty, vrg, vgr>>
  BY <1>1, <1>c DEF SourceInv, Leaving
<1>2. CASE ClaimMove /\ UNCHANGED <<rs, rd, mover, app, dirty, vrg, vgr>>
  <2>l. Leaving' = Leaving
    BY <1>2 DEF Leaving
  <2>1. ASSUME main'[w] = main[w], ref'[w] = ref[w],
               ~main[w].deleting \/ (H!Exists(tmp[w]) => H!Exists(tmp'[w]))
        PROVE  SourceInv(w)'
    BY <1>2, <1>c, <2>1, <2>l DEF SourceInv
  <2>2. PICK v \in Volumes :
         \/ UNCHANGED <<main, tmp, ref>>
         \/ /\ Guards(v)
            /\ \/ pass.at = "protect" /\ rs[v].trigger = "schedule"
               \/ pass.at = "demote" /\ ~rs[v].exists
         \/ Rebinds(v) \/ Parks(v) \/ Moves(v) \/ Waits(v) \/ Vanishes(v)
         \/ Recreates(v) /\ pass.at = "restore"
         \/ Returns(v) \/ Drops(v) \/ Loosens(v) \/ Withers(v)
         \/ Deletes(v)
    BY <1>2 DEF ClaimMove
  <2>3. CASE w # v
    BY <2>1, <2>2, <2>3 DEF Guards, Rebinds, Parks, Moves, Waits, Vanishes, Recreates, Returns,
             Drops, Loosens, Withers, Deletes, Elsewhere
  <2>4. CASE w = v
    <3>1. CASE UNCHANGED <<main, tmp, ref>> \/ Waits(v) \/ Parks(v)
      BY <2>1, <2>4, <3>1 DEF Waits, Parks
    <3>9. CASE Drops(v)
      <4>1. ~main[v].deleting
        BY <3>9 DEF Drops, RelocationInv, ProcInv
      <4>2. QED
        BY <2>1, <2>4, <3>9, <4>1 DEF Drops
    <3>2. CASE Guards(v) /\ (\/ pass.at = "protect" /\ rs[v].trigger = "schedule"
                             \/ pass.at = "demote" /\ ~rs[v].exists)
      BY <1>2, <1>c, <2>4, <2>l, <3>2 DEF Guards, SourceInv
    <3>3. CASE Rebinds(v)
      BY <1>2, <1>c, <2>4, <2>l, <3>3 DEF Rebinds, SameClaim, SourceInv
    <3>5. CASE Moves(v)
      BY <1>2, <1>c, <2>4, <2>l, <3>5 DEF Moves, SourceInv
    <3>6. CASE Vanishes(v)
      <4>1. ref[v].claim = "tmp"
        BY <3>6 DEF Vanishes, RelocationInv, ProcInv
      <4>2. ~main'[v].deleting /\ "mock" \notin main'[v].holds /\ ref'[v] = ref[v]
        BY <3>6, <4>1 DEF Vanishes, H!Absent
      <4>4. QED
        BY <1>2, <1>c, <2>4, <2>l, <4>2 DEF SourceInv
    <3>7. CASE Recreates(v) /\ pass.at = "restore"
      <4>1. CASE H!Exists(main[v])
        BY <1>2, <1>c, <2>4, <2>l, <3>7, <4>1 DEF Recreates, SourceInv
      <4>2. CASE ~H!Exists(main[v])
        BY <1>2, <1>c, <2>4, <2>l, <3>7, <4>2 DEF Recreates, SourceInv
      <4>3. QED
        BY <4>1, <4>2
    <3>8. CASE Returns(v)
      <4>1. ~main[v].deleting /\ pass.at = "restore"
        BY <3>8 DEF Returns, RelocationInv, ProcInv
      <4>2. mover[v].on # "tmp"
        BY <1>c, <1>s, <1>f, <1>r, <2>4, <4>1 DEF SourceInv, Leaving
      <4>3. QED
        BY <1>2, <1>c, <2>4, <2>l, <3>8, <4>1, <4>2 DEF Returns, SourceInv
    <3>10. CASE Loosens(v)
      BY <1>2, <1>c, <2>4, <2>l, <3>10 DEF Loosens, SourceInv
    <3>11. CASE Withers(v)
      <4>1. ref[v].claim = "main" /\ main'[v] = main[v] /\ ref'[v] = ref[v] /\ ~main[v].deleting
        BY <1>c, <2>4, <3>11 DEF Withers, ClaimInv
      <4>2. QED
        BY <2>1, <2>4, <4>1
    <3>12. CASE Deletes(v)
      <4>1. ~main[v].deleting /\ "mock" \in main[v].holds
        BY <3>12 DEF Deletes, H!InService
      <4>2. QED
        BY <1>2, <1>c, <2>4, <2>l, <3>12, <4>1 DEF Deletes, SourceInv
    <3>13. QED
      BY <2>2, <3>1, <3>2, <3>3, <3>5, <3>6, <3>7, <3>8, <3>9, <3>10, <3>11, <3>12
  <2>5. QED
    BY <2>3, <2>4
<1>3. CASE SourceMove /\ UNCHANGED <<main, tmp, ref, op, vrg, vgr>>
  <2>l. Leaving' = Leaving
    BY <1>3 DEF Leaving
  <2>0. Stopped.on = "none"
    BY SourceTypes
  <2>1. CASE rs' = rs /\ rd' = rd /\ app' = app /\ dirty' = dirty /\ Halts
    <3>1. mover'[w].on \in {mover[w].on, "none"} /\ (mover'[w].torn => mover[w].torn)
      BY <2>1, HaltsOne, Zenon
    <3>2. QED
      BY <1>3, <1>c, <2>l, <2>1, <3>1 DEF SourceInv
  <2>2. CASE \E v \in Volumes : v # w /\ OnlyAt(v)
    BY <1>3, <1>c, <2>l, <2>2 DEF SourceInv, OnlyAt
  <2> DEFINE Rest == main'[w] = main[w] /\ ref'[w] = ref[w] /\ H!Exists(tmp'[w]) = H!Exists(tmp[w])
  <2>r. Rest
    BY <1>3
  <2> HIDE DEF Rest
  <2>3. CASE Pauses(w)
    <3>1. mover'[w].on \in {mover[w].on, "none"} /\ (mover'[w].torn => mover[w].torn)
      <4>1. Halts
        BY <2>3, Zenon DEF Pauses, HaltsAt
      <4>2. QED
        BY <4>1, HaltsOne, Zenon
    <3>2. rs[w].exists
      BY <2>3 DEF Pauses
    <3>3. QED
      BY <1>c, <2>l, <2>r, <2>3, <3>1, <3>2 DEF Pauses, SourceBecomes, SourceInv, Rest
  <2>4. CASE Writes(w)
    BY <1>c, <2>l, <2>r, <2>4 DEF Writes, SourceBecomes, SourceInv, Rest
  <2>5. CASE Triggers(w)
    <3>1. Leaving /\ vgr.status = "primary" /\ vrg = "relocate" /\ rs[w].exists /\ H!Exists(tmp[w])
      BY <2>5 DEF Triggers, RelocationInv, CycleInv, Leaving
    <3>2. ~app[w] /\ mover[w].on # "main"
      BY <2>5 DEF Triggers, InUse
    <3>3. ~main[w].deleting => rs[w].trigger = "final"
      BY <1>c, <3>1 DEF ClaimInv
    <3>4. QED
      BY <1>c, <2>l, <2>r, <2>5, <3>1, <3>2, <3>3 DEF Triggers, SourceBecomes, SourceInv, Rest
  <2>6. CASE DropsSource(w)
    <3>1. mover'[w].on = "none"
      BY <2>0, <2>6 DEF DropsSource
    <3>2. QED
      BY <1>c, <2>l, <2>r, <2>6, <3>1 DEF DropsSource, SourceBecomes, SourceInv, Rest
  <2>7. CASE Syncs(w)
    <3>1. mover'[w].on = "none" /\ rs[w].exists /\ mover[w].on # "none"
      BY <1>c, <2>0, <2>7 DEF Syncs, SourceInv
    <3>2. rs[w].trigger = "final" => mover[w].on = "tmp"
      BY <1>c, <1>s, <3>1 DEF SourceInv
    <3>3. QED
      BY <1>c, <1>s, <2>l, <2>r, <2>7, <3>1, <3>2 DEF Syncs, SourceBecomes, SourceInv, Rest
  <2>8. CASE \/ Destined(w, "none")
             \/ rd[w] = "created" /\ Destined(w, "ready")
             \/ ~rs[w].exists /\ Destined(w, "created")
    BY <1>c, <2>l, <2>r, <2>8 DEF Destined, SourceInv, Rest
  <2>9. CASE Dirties(w)
    BY <1>c, <2>l, <2>r, <2>9 DEF Dirties, SourceInv, Rest
  <2>10. CASE StartsSync(w)
    <3>1. rs[w].exists /\ rs[w].last # "final"
      BY <1>c, <2>10 DEF StartsSync, SourceInv
    <3>2. rs[w].source = "tmp" => ref[w].claim = "tmp"
      <4>1. rs[w].source = "tmp" /\ ~main[w].deleting => AllRest
        BY <1>c, <1>f DEF SourceInv, Returning, Leaving
      <4>2. rs[w].source = "tmp" => main[w].deleting
        BY <1>f, <3>1, <4>1
      <4>3. QED
        BY <1>c, <2>10, <4>2 DEF StartsSync, ClaimInv
    <3>3. QED
      BY <1>c, <1>s, <2>l, <2>r, <2>10, <3>1, <3>2 DEF StartsSync, SourceInv, Rest
  <2>11. CASE Stops(w)
    BY <1>c, <2>l, <2>r, <2>11 DEF Stops, SourceInv, Rest
  <2>12. CASE Starts(w)
    <3>1. rs[w].trigger # "final"
      BY <1>c, <2>12 DEF Starts, SourceInv, Leaving
    <3>2. QED
      BY <1>c, <2>l, <2>r, <2>12, <3>1 DEF Starts, SourceInv, Rest
  <2>13. ASSUME NEW v \in Volumes, w = v,
                \/ Pauses(v) \/ Writes(v) \/ Triggers(v) \/ DropsSource(v) \/ Syncs(v)
                \/ pass.at = "protect" /\ Destined(v, "none")
                \/ pass.at = "demote" /\ ~rs[v].exists /\ rd[v] = "none" /\ Destined(v, "created")
                \/ rd[v] = "created" /\ Destined(v, "ready")
                \/ Dirties(v) \/ StartsSync(v) \/ Stops(v) \/ Starts(v)
         PROVE  SourceInv(w)'
    BY <2>3, <2>4, <2>5, <2>6, <2>7, <2>8, <2>9, <2>10, <2>11, <2>12, <2>13
  <2>14. QED
    BY <1>3, <2>1, <2>2, <2>13 DEF SourceMove
<1>4. CASE IntentMove /\ UNCHANGED <<main, tmp, ref, op, rs, rd, mover, app, dirty>>
  <2>1. rs[w].trigger = "final" => Leaving'
    <3>1. CASE vgr'.spec = vgr.spec /\ vgr'.status = vgr.status
      BY <1>c, <3>1 DEF SourceInv, Leaving
    <3>2. CASE pass.at = "protect" /\ ~pass.stale
      BY <1>c, <1>s, <3>2 DEF RelocationInv, CycleInv, SourceInv, Leaving
    <3>3. CASE pass.at = "demote" /\ pass.todo = {} /\ pass.ok
      <4>1. <<w, "main">> \in pass.list \/ <<w, "tmp">> \in pass.list
        BY <3>3, ListedAt
      <4>2. \A i \in Items : i \in pass.list => Settled(i[1])
        BY <3>3 DEF RelocationInv, PassInv, Handled
      <4>3. <<w, "main">> \in Items /\ <<w, "tmp">> \in Items
        BY DEF Items, H!Kinds
      <4>4. Settled(w)
        BY <4>1, <4>2, <4>3
      <4>5. QED
        BY <1>c, <4>4 DEF Settled, SourceInv
    <3>4. CASE vgr.spec = "primary"
      BY <1>c, <3>4 DEF SourceInv, Leaving
    <3>5. CASE vrg = "primary"
      BY <1>c, <1>s, <3>5 DEF RelocationInv, CycleInv, SourceInv, Leaving
    <3>6. QED
      BY <1>4, <3>1, <3>2, <3>3, <3>4, <3>5 DEF IntentMove
  <2>2. QED
    BY <1>4, <1>c, <2>1 DEF SourceInv
<1>5. QED
  BY <1>1, <1>2, <1>3, <1>4, StepKinds

\* The handover in progress: its stage waits for it.
LEMMA ProcStep == Careful /\ TypeOK /\ RelocationInv /\ [Next]_vars => ProcInv'
<1> SUFFICES ASSUME Careful, TypeOK, RelocationInv, [Next]_vars PROVE ProcInv'
  OBVIOUS
<1>p. ProcInv
  BY DEF RelocationInv
<1>v. op.pc # "idle" => op.vol \in Volumes /\ ClaimInv(op.vol)
  BY ClaimTypes DEF RelocationInv
<1>b. op.pc # "idle" => pass'.at = pass.at \/ op'.pc = "idle"
  BY StepKinds, BusyPass
<1>1. CASE UNCHANGED <<main, tmp, ref, op>>
  BY <1>1, <1>p, <1>b DEF ProcInv
<1>2. CASE ClaimMove /\ UNCHANGED <<rs, rd, mover, app, dirty, vrg, vgr>>
  <2>1. CASE op'.pc = "idle"
    BY <2>1 DEF ProcInv
  <2>2. ASSUME NEW v \in Volumes, Rebinds(v) PROVE ProcInv'
    BY <1>p, <1>v, <1>b, <2>2 DEF Rebinds, SameClaim, Elsewhere, ProcInv
  <2>3. ASSUME NEW v \in Volumes, Parks(v), pass'.at = "park", op'.pc # "idle" PROVE ProcInv'
    BY <2>3 DEF Parks, ProcInv
  <2>4. ASSUME NEW v \in Volumes, Waits(v), pass.at = "restore", pass'.at = "restore"
        PROVE  ProcInv'
    <3>1. main[v].deleting
      BY <2>4 DEF Waits
    <3>2. AllRest
      BY <2>4, <3>1, Facts DEF RelocationInv, RestInv
    <3>3. ref[v].claim = "tmp"
      BY <3>1, <3>2, Facts
    <3>4. QED
      BY <2>4, <3>1, <3>3 DEF Waits, ProcInv
  <2>5. ASSUME NEW v \in Volumes, Recreates(v), pass'.at = "restore" PROVE ProcInv'
    BY <2>5 DEF Recreates, ProcInv
  <2>6. ASSUME NEW v \in Volumes, Returns(v), pass' = pass PROVE ProcInv'
    BY <1>p, <2>6 DEF Returns, ProcInv
  <2>7. ASSUME NEW v \in Volumes, Loosens(v), pass' = pass PROVE ProcInv'
    BY <1>p, <1>v, <2>7 DEF Loosens, Elsewhere, ProcInv, H!Exists
  <2>8. ASSUME NEW v \in Volumes, Withers(v), pass' = pass PROVE ProcInv'
    BY <1>p, <1>v, <2>8 DEF Withers, Elsewhere, ProcInv, ClaimInv
  <2>9. ASSUME NEW v \in Volumes, Deletes(v), pass' = pass PROVE ProcInv'
    BY <1>p, <1>v, <2>9 DEF Deletes, Elsewhere, ProcInv, H!InService
  <2>10. ASSUME NEW v \in Volumes, Guards(v) \/ Moves(v) \/ Vanishes(v) \/ Drops(v)
         PROVE  op'.pc = "idle"
    BY <1>p, <2>10 DEF Guards, Moves, Vanishes, Drops, ProcInv
  <2>11. CASE UNCHANGED <<main, tmp, ref, op>>
    BY <1>1, <2>11
  <2>12. QED
    BY <1>2, <2>1, <2>2, <2>3, <2>4, <2>5, <2>6, <2>7, <2>8, <2>9, <2>10, <2>11 DEF ClaimMove
<1>3. QED
  BY <1>1, <1>2, StepKinds

\* The pass that pauses sources belongs to a group about to leave.
LEMMA PauseStep == Careful /\ TypeOK /\ RelocationInv /\ [Next]_vars => PauseInv'
<1> SUFFICES ASSUME Careful, TypeOK, RelocationInv, [Next]_vars, NEW w \in Volumes, Undisturbed',
                    vrg' = "primary" \/ pass'.at = "protect" \/ (~near' /\ vgr'.spec = "primary")
             PROVE  ~rs'[w].paused
  BY DEF PauseInv
<1>c. PauseInv /\ CycleInv /\ SourceInv(w) /\ near' = near
  BY StepKinds DEF RelocationInv
<1>u. Undisturbed /\ (near => other = "none") /\ "listVRG" \notin PassFaults /\ VRGSeen = vrg
  BY StepKinds, Current DEF Undisturbed
<1>s. /\ vgr.spec \in {"primary", "secondary"} /\ vgr.status \in {"primary", "secondary"}
      /\ vrg \in {"primary", "relocate"} /\ near \in BOOLEAN
  BY Sorts
<1>1. CASE IntentMove /\ UNCHANGED <<main, tmp, ref, op, rs, rd, mover, app, dirty>>
  <2>1. CASE vrg = "primary" \/ pass.at = "protect" \/ (~near /\ vgr.spec = "primary")
    BY <1>1, <1>c, <1>u, <2>1 DEF PauseInv
  <2>2. CASE vgr.spec = "secondary" /\ vgr.status = "secondary"
    BY <1>1, <1>c, <2>2 DEF RelocationInv, SettledInv, Settled, SourceInv
  <2>3. QED
    BY <1>1, <1>c, <1>s, <2>1, <2>2 DEF IntentMove
<1>2. CASE UNCHANGED <<vrg, vgr>> /\ ~Relocate /\ ~Demote /\ ~Return /\ ~Promote
  <2>1. pass'.at = "protect" => \/ pass.at = "protect"
                                \/ StartPrimary /\ ~VRGConflict
    BY <1>2, <1>u, StepKinds DEF PassMove
  <2>2. vrg = "primary" \/ pass.at = "protect" \/ (~near /\ vgr.spec = "primary")
    BY <1>2, <1>c, <1>s, <1>u, <2>1 DEF StartPrimary, VRGConflict
  <2>3. ~rs[w].paused
    BY <1>c, <1>u, <2>2 DEF PauseInv
  <2>4. CASE rs'[w].paused = rs[w].paused \/ ~rs'[w].paused
    BY <2>3, <2>4
  <2>5. CASE SourceMove
    <3>1. ~Pauses(w)
      BY <1>c, <1>s, <1>u, <2>2 DEF Pauses, CycleInv, Leaving
    <3>2. CASE rs' = rs
      BY <2>3, <3>2
    <3>3. CASE rs' # rs
      <4>1. PICK v \in Volumes :
              OnlyAt(v) /\ (Pauses(v) \/ Writes(v) \/ Triggers(v) \/ DropsSource(v) \/ Syncs(v))
        BY <2>5, <3>3 DEF SourceMove, Destined, Dirties, StartsSync, Stops, Starts
      <4>2. CASE w # v
        BY <2>3, <4>1, <4>2 DEF OnlyAt
      <4>3. CASE w = v
        BY <2>3, <3>1, <4>1, <4>3 DEF Writes, Triggers, DropsSource, Syncs, SourceBecomes
      <4>4. QED
        BY <4>2, <4>3
    <3>4. QED
      BY <3>2, <3>3
  <2>6. CASE UNCHANGED rs
    BY <2>3, <2>6
  <2>7. QED
    BY <1>2, <2>5, <2>6, StepKinds
<1>3. QED
  BY <1>1, <1>2, IntentKinds

\* No source is triggered or dropped while the group serves.
LEMMA ServingStep == Careful /\ TypeOK /\ RelocationInv /\ [Next]_vars => ServingInv'
<1> DEFINE Ready(w) == rd[w] = "none" /\ rs[w].exists /\ rs[w].trigger = "schedule"
           Serving == vgr.status = "primary" /\ (vgr.spec = "primary" \/ pass.at \in {"protect", "pause"})
<1> SUFFICES ASSUME Careful, TypeOK, RelocationInv, [Next]_vars, NEW w \in Volumes, Serving'
             PROVE  Ready(w)'
  BY DEF ServingInv
<1>c. CycleInv /\ SourceInv(w) /\ (Serving => Ready(w))
  BY DEF RelocationInv, ServingInv
<1>s. /\ vgr.spec \in {"primary", "secondary"} /\ vgr.status \in {"primary", "secondary"}
      /\ vrg \in {"primary", "relocate"}
  BY Sorts
<1>1. CASE IntentMove /\ UNCHANGED <<main, tmp, ref, op, rs, rd, mover, app, dirty>>
  <2>1. Ready(w)' = Ready(w)
    BY <1>1
  <2>2. CASE pass.at = "protect" /\ pass.todo = {}
    BY <2>1, <2>2 DEF RelocationInv, PassInv
  <2>3. CASE ~(pass.at = "protect" /\ pass.todo = {})
    BY <1>1, <1>c, <1>s, <2>1, <2>3 DEF IntentMove, CycleInv
  <2>4. QED
    BY <2>2, <2>3
<1>2. CASE UNCHANGED <<vrg, vgr>> /\ ~Relocate /\ ~Demote /\ ~Return /\ ~Promote
  <2>1. pass'.at \in {"protect", "pause"} => pass.at = pass'.at \/ StartPrimary
    BY <1>2, StepKinds DEF PassMove
  <2>2. Serving
    BY <1>2, <2>1 DEF StartPrimary
  <2>3. Ready(w)
    BY <1>c, <2>2
  <2>4. pass.at # "trigger" /\ pass.at # "demote"
    BY <1>c, <1>s, <2>2 DEF CycleInv, Leaving
  <2>5. CASE SourceMove
    <3>1. CASE rs' = rs /\ rd' = rd
      BY <2>3, <3>1
    <3>2. CASE ~(rs' = rs /\ rd' = rd)
      <4>1. PICK v \in Volumes : OnlyAt(v) /\
              \/ Pauses(v) \/ Writes(v) \/ Syncs(v)
              \/ Destined(v, "none")
              \/ rd[v] = "created" /\ Destined(v, "ready")
        BY <2>4, <2>5, <3>2 DEF SourceMove, Triggers, DropsSource, Destined, Dirties,
                                StartsSync, Stops, Starts
      <4>2. CASE w # v
        BY <2>3, <4>1, <4>2 DEF OnlyAt
      <4>3. CASE w = v
        BY <2>3, <4>1, <4>3 DEF Pauses, Writes, Syncs, SourceBecomes, Destined
      <4>4. QED
        BY <4>2, <4>3
    <3>3. QED
      BY <3>1, <3>2
  <2>6. CASE UNCHANGED <<rs, rd>>
    BY <2>3, <2>6
  <2>7. QED
    BY <1>2, <2>5, <2>6, StepKinds
<1>3. QED
  BY <1>1, <1>2, IntentKinds

\* The demotion is reported when every volume is settled.
LEMMA AllSettled ==
    ASSUME TypeOK, RelocationInv, pass.at = "demote", pass.todo = {}, pass.ok, NEW w \in Volumes
    PROVE  Settled(w) /\ Restored(w)
<1>1. <<w, "main">> \in pass.list \/ <<w, "tmp">> \in pass.list
  BY ListedAt
<1>2. \A i \in Items : i \in pass.list => Settled(i[1])
  BY DEF RelocationInv, PassInv, Handled
<1>3. <<w, "main">> \in Items /\ <<w, "tmp">> \in Items
  BY DEF Items, H!Kinds
<1>4. QED
  BY <1>1, <1>2, <1>3 DEF RelocationInv, PassInv

\* A settled volume stays settled until a primary pass takes it up.
LEMMA SettledStays ==
    ASSUME Careful, TypeOK, RelocationInv, [Next]_vars, NEW w \in Volumes,
           Settled(w), H!Exists(main[w]), pass.at # "protect", ~\E v \in Volumes : Vanishes(v)
    PROVE  Settled(w)'
<1>1. "mock" \in main[w].holds /\ rd[w] = "ready" /\ ~rs[w].exists
  BY DEF Settled
<1>2. CASE ClaimMove /\ UNCHANGED <<rs, rd>>
  <2>1. "mock" \in main'[w].holds
    <3>1. PICK v \in Volumes :
            \/ UNCHANGED main
            \/ Guards(v) \/ Rebinds(v) \/ Parks(v) \/ Moves(v) \/ Waits(v)
            \/ Recreates(v) \/ Returns(v) \/ Drops(v) \/ Loosens(v) \/ Withers(v) \/ Deletes(v)
      BY <1>2 DEF ClaimMove
    <3>2. CASE w # v
      BY <1>1, <3>1, <3>2 DEF Guards, Rebinds, Parks, Moves, Waits, Recreates, Returns, Drops,
               Loosens, Withers, Deletes, Elsewhere
    <3>3. CASE w = v
      BY <1>1, <3>1, <3>3 DEF Guards, Rebinds, SameClaim, Parks, Moves, Waits, Recreates,
               Returns, Drops, Loosens, Withers, Deletes
    <3>4. QED
      BY <3>2, <3>3
  <2>2. QED
    BY <1>1, <1>2, <2>1 DEF Settled
<1>3. CASE SourceMove /\ UNCHANGED main
  <2>1. CASE rs' = rs /\ rd' = rd
    BY <1>1, <1>3, <2>1 DEF Settled
  <2>2. CASE ~(rs' = rs /\ rd' = rd)
    <3>1. PICK v \in Volumes : OnlyAt(v) /\
            \/ Pauses(v) \/ Triggers(v) \/ DropsSource(v) \/ Syncs(v)
            \/ rd[v] = "none" /\ Destined(v, "created")
            \/ rd[v] = "created" /\ Destined(v, "ready")
      BY <1>3, <2>2 DEF SourceMove, Writes, Destined, Dirties, StartsSync, Stops, Starts
    <3>2. CASE w # v
      BY <1>1, <1>3, <3>1, <3>2 DEF OnlyAt, Settled
    <3>3. CASE w = v
      BY <1>1, <1>3, <3>1, <3>3
         DEF Pauses, Triggers, DropsSource, Syncs, SourceBecomes, Destined, Settled
    <3>4. QED
      BY <3>2, <3>3
  <2>3. QED
    BY <2>1, <2>2
<1>4. CASE UNCHANGED <<main, rs, rd>>
  BY <1>1, <1>4 DEF Settled
<1>5. QED
  BY <1>2, <1>3, <1>4, StepKinds

\* The volumes are settled when the demotion is reported, and stay so.
LEMMA SettledStep == Careful /\ TypeOK /\ RelocationInv /\ [Next]_vars => SettledInv'
<1> SUFFICES ASSUME Careful, TypeOK, RelocationInv, [Next]_vars, NEW w \in Volumes,
                    vgr'.status = "secondary", vgr'.spec = "secondary"
             PROVE  Settled(w)'
  BY DEF SettledInv
<1>s. /\ vgr.spec \in {"primary", "secondary"} /\ vgr.status \in {"primary", "secondary"}
      /\ vrg \in {"primary", "relocate"}
      /\ ref[w].claim \in {"main", "tmp", "none"}
  BY Sorts, ClaimTypes
<1>c. CycleInv /\ ClaimInv(w)
  BY DEF RelocationInv
<1>1. CASE IntentMove /\ UNCHANGED <<main, tmp, ref, op, rs, rd, mover, app, dirty>>
  <2>1. Settled(w)' <=> Settled(w)
    BY <1>1 DEF Settled
  <2>2. CASE vgr.spec = "secondary" /\ vgr.status = "secondary"
    BY <2>1, <2>2 DEF RelocationInv, SettledInv
  <2>3. CASE pass.at = "demote" /\ pass.todo = {} /\ pass.ok
    BY <2>1, <2>3, AllSettled
  <2>4. QED
    BY <1>1, <1>c, <1>s, <2>2, <2>3 DEF IntentMove, CycleInv
<1>2. CASE UNCHANGED <<vrg, vgr>>
  <2>1. Settled(w) /\ vgr.status = "secondary" /\ vgr.spec = "secondary"
    BY <1>2 DEF RelocationInv, SettledInv
  <2>2. H!Exists(main[w])
    BY <1>c, <1>s, <2>1, Facts DEF ClaimInv, Leaving
  <2>3. ~(\E v \in Volumes : Vanishes(v))
    BY <2>1 DEF Vanishes, RelocationInv, ProcInv, ClaimInv, Leaving
  <2>4. pass.at # "protect"
    BY <1>c, <2>1 DEF CycleInv, Leaving
  <2>5. QED
    BY <2>1, <2>2, <2>3, <2>4, SettledStays
<1>3. QED
  BY <1>1, <1>2, IntentKinds

\* Once the group is at rest, and until it is reported as secondary, it stays so.
LEMMA RestStable ==
    ASSUME Careful, TypeOK, RelocationInv, [Next]_vars, Leaving, AllRest PROVE AllRest'
<1>1. CASE UNCHANGED <<rs, app, dirty>>
  BY <1>1 DEF AllRest
<1>2. CASE SourceMove /\ ~UNCHANGED <<rs, app, dirty>>
  <2>1. \A v \in Volumes : ~Dirties(v) /\ ~Syncs(v) /\ ~Starts(v) /\ ~Writes(v)
    BY Facts DEF Leaving, AllRest, Dirties, Syncs, Starts, Writes
  <2>2. PICK v \in Volumes : OnlyAt(v) /\ (Pauses(v) \/ Triggers(v) \/ DropsSource(v) \/ Stops(v))
    BY <1>2, <2>1 DEF SourceMove, Destined, StartsSync
  <2>3. ASSUME NEW w \in Volumes
        PROVE  ~app'[w] /\ ~dirty'[w] /\ (rs'[w].exists => rs'[w].last = "final")
    <3>1. CASE w # v
      BY <2>2, <3>1 DEF OnlyAt, AllRest
    <3>2. CASE w = v
      BY <2>2, <3>2 DEF Pauses, Triggers, DropsSource, Stops, SourceBecomes, AllRest
    <3>3. QED
      BY <3>1, <3>2
  <2>4. QED
    BY <2>3 DEF AllRest
<1>3. QED
  BY <1>1, <1>2, StepKinds

\* A completed final sync of every source that is left means that every volume is
\* at rest: a source that is gone was dropped when the group was at rest.
LEMMA CompleteRests ==
    ASSUME Careful, TypeOK, RelocationInv, Leaving, OwnComplete PROVE AllRest
<1>1. CASE \E v \in Volumes : ~rs[v].exists
  BY <1>1, Facts DEF Returning, Leaving
<1>2. CASE \A v \in Volumes : rs[v].exists
  <2>1. \A v \in Volumes : rs[v].last = "final"
    BY <1>2, Current DEF OwnComplete
  <2>2. QED
    BY <1>2, <2>1 DEF RelocationInv, SourceInv, AllRest
<1>3. QED
  BY <1>1, <1>2

\* When every final sync that was triggered is complete, the group is at rest.
LEMMA TriggeredRests ==
    ASSUME TypeOK, RelocationInv, pass.at = "trigger", pass.ok, pass.todo = {} PROVE AllRest
<1>1. CASE \A v \in Volumes : <<v, "main">> \in pass.list
  <2>1. \A v \in Volumes : rs[v].last = "final"
    BY <1>1 DEF RelocationInv, PassInv, Handled
  <2>2. QED
    BY <2>1 DEF RelocationInv, SourceInv, AllRest
<1>2. QED
  BY <1>1 DEF RelocationInv, PassInv

\* A notification leaves the pass at its stage.
LEMMA NotifiedStage ==
    TypeOK /\ (Relocate \/ Demote \/ Return \/ Promote) => pass'.at = pass.at
<1>1. TypeOK => pass \in Passes /\ wake \in BOOLEAN /\ near \in BOOLEAN
  BY NearType DEF TypeOK, Passes
<1>2. QED
  BY <1>1, PassNotified DEF Relocate, Demote, Return, Promote

\* The pass restores and demotes only a group at rest.
LEMMA StageRests ==
    ASSUME Careful, TypeOK, RelocationInv, [Next]_vars,
           vgr.status = "primary", pass'.at \in {"restore", "demote"}
    PROVE  AllRest'
<1>c. CycleInv
  BY DEF RelocationInv
<1>s. /\ vgr.spec \in {"primary", "secondary"} /\ vrg \in {"primary", "relocate"}
  BY Sorts
<1>1. CASE pass.at \in {"restore", "demote"}
  <2>1. Leaving /\ AllRest
    BY <1>1, <1>c DEF CycleInv, RelocationInv, RestInv
  <2>2. QED
    BY <2>1, RestStable
<1>2. CASE StartSecondary /\ (pass'.gate => AllFinalSyncsComplete) /\ (~pass'.gate => ~FinalSyncWanted)
  <2>1. vgr.spec = "secondary"
    BY <1>2 DEF StartSecondary
  <2>2. Leaving /\ FinalSyncWanted
    BY <1>2, <1>c, <2>1, Current, Sorts DEF CycleInv, Leaving, FinalSyncWanted
  <2>3. OwnComplete
    BY <1>2, <2>2 DEF AllFinalSyncsComplete
  <2>4. AllRest
    BY <2>2, <2>3, CompleteRests
  <2>5. UNCHANGED <<rs, app, dirty>>
    BY <1>2, TurnFrame
  <2>6. QED
    BY <2>4, <2>5 DEF AllRest
<1>3. CASE EndTrigger /\ pass.at = "trigger" /\ pass.ok /\ pass.todo = {}
  <2>1. AllRest
    BY <1>3, TriggeredRests
  <2>2. UNCHANGED <<rs, app, dirty>>
    BY <1>3, TurnFrame
  <2>3. QED
    BY <2>1, <2>2 DEF AllRest
<1>4. QED
  BY <1>1, <1>2, <1>3, StepKinds, NotifiedStage DEF PassMove

\* The group comes to rest before any volume returns.
LEMMA RestStep == Careful /\ TypeOK /\ RelocationInv /\ [Next]_vars => RestInv'
<1> SUFFICES ASSUME Careful, TypeOK, RelocationInv, [Next]_vars PROVE RestInv'
  OBVIOUS
<1>c. CycleInv
  BY DEF RelocationInv
<1>s. /\ vgr.spec \in {"primary", "secondary"} /\ vgr.status \in {"primary", "secondary"}
      /\ vrg \in {"primary", "relocate"}
      /\ \A v \in Volumes : ref[v].claim \in {"main", "tmp", "none"}
  BY Sorts, ClaimTypes
<1>1. ASSUME vgr'.status = "secondary", NEW w \in Volumes PROVE ~app'[w] /\ ~dirty'[w]
  <2>1. CASE IntentMove /\ UNCHANGED <<main, tmp, ref, op, rs, rd, mover, app, dirty>>
    <3>1. CASE vgr.status = "secondary"
      BY <2>1, <3>1 DEF RelocationInv, RestInv
    <3>2. CASE vgr.status = "primary" /\ pass.at = "demote"
      BY <2>1, <3>2 DEF RelocationInv, RestInv, AllRest
    <3>3. QED
      BY <1>1, <1>s, <2>1, <3>1, <3>2 DEF IntentMove
  <2>2. CASE UNCHANGED <<vrg, vgr>>
    <3>1. ~app[w] /\ ~dirty[w] /\ vgr.status = "secondary"
      BY <1>1, <2>2 DEF RelocationInv, RestInv
    <3>2. CASE SourceMove
      <4>1. CASE app' = app /\ dirty' = dirty
        BY <3>1, <4>1
      <4>2. CASE ~(app' = app /\ dirty' = dirty)
        <5>1. PICK v \in Volumes : OnlyAt(v) /\ (Syncs(v) \/ Dirties(v) \/ Stops(v))
          BY <3>1, <3>2, <4>2
             DEF SourceMove, Pauses, Writes, Triggers, DropsSource, Destined, StartsSync, Starts
        <5>2. CASE w # v
          BY <3>1, <5>1, <5>2 DEF OnlyAt
        <5>3. CASE w = v
          BY <3>1, <5>1, <5>3 DEF Syncs, Dirties, Stops
        <5>4. QED
          BY <5>2, <5>3
      <4>3. QED
        BY <4>1, <4>2
    <3>3. CASE UNCHANGED <<app, dirty>>
      BY <3>1, <3>3
    <3>4. QED
      BY <3>2, <3>3, StepKinds
  <2>3. QED
    BY <2>1, <2>2, IntentKinds
<1>2. ASSUME vgr'.status = "primary", pass'.at \in {"restore", "demote"} PROVE AllRest'
  <2>1. vgr.status = "primary"
    <3>1. CASE UNCHANGED vgr
      BY <1>2, <3>1
    <3>2. CASE IntentMove
      BY <1>2, <1>s, <3>2 DEF IntentMove
    <3>3. QED
      BY <3>1, <3>2, IntentKinds
  <2>2. QED
    BY <1>2, <2>1, StageRests
<1>3. ASSUME vgr'.status = "primary", NEW w \in Volumes, Returning(w)' PROVE AllRest'
  <2> SUFFICES ASSUME ~(Leaving /\ AllRest) PROVE FALSE
    BY RestStable
  <2>i. ClaimInv(w) /\ SourceInv(w)
    BY DEF RelocationInv
  <2>1. vgr.status = "primary" =>
          ~Returning(w) /\ pass.at \notin {"restore", "demote"}
    BY <1>c, Facts DEF CycleInv, RelocationInv, RestInv
  <2>2. CASE IntentMove /\ UNCHANGED <<main, tmp, ref, op, rs, rd, mover, app, dirty>>
    <3>1. CASE vgr.status = "secondary"
      <4>1. pass.at = "protect" /\ pass.todo = {}
        BY <1>3, <2>2, <3>1 DEF IntentMove
      <4>2. rd[w] = "none" /\ rs[w].exists /\ rs[w].trigger = "schedule"
        BY <4>1 DEF RelocationInv, PassInv
      <4>3. ref[w].claim # "tmp"
        BY <2>i, <3>1 DEF ClaimInv, Leaving
      <4>4. QED
        BY <1>3, <2>2, <4>2, <4>3 DEF Returning, Leaving
    <3>2. CASE vgr.status = "primary" /\ vgr.spec = "secondary"
      BY <1>3, <2>1, <2>2, <3>2 DEF Returning, Leaving
    <3>3. CASE vgr.status = "primary" /\ vgr.spec = "primary"
      <4>1. rd[w] = "none" /\ rs[w].exists
        BY <3>3 DEF RelocationInv, ServingInv
      <4>2. QED
        BY <1>3, <2>1, <2>2, <3>3, <4>1 DEF Returning, Leaving
    <3>4. QED
      BY <1>s, <3>1, <3>2, <3>3
  <2>3. CASE UNCHANGED <<vrg, vgr>>
    <3>1. vgr.status = "primary" /\ ~Returning(w) /\ pass.at \notin {"restore", "demote"}
      BY <1>3, <2>1, <2>3
    <3>2. CASE UNCHANGED <<main, tmp, ref, rs, rd>>
      BY <1>3, <2>3, <3>1, <3>2 DEF Returning, Leaving
    <3>3. CASE ClaimMove /\ UNCHANGED <<rs, rd, mover, app, dirty, vrg, vgr>>
      <4>1. ~main'[w].deleting /\ (main[w].deleting \/ ref'[w].claim # ref[w].claim)
        BY <1>3, <3>1, <3>3 DEF Returning, Leaving
      <4>2. PICK v \in Volumes :
              \/ UNCHANGED <<main, ref>>
              \/ Guards(v) \/ Rebinds(v) \/ Parks(v) \/ Moves(v) \/ Waits(v) \/ Vanishes(v)
              \/ Recreates(v) \/ Returns(v) \/ Drops(v) \/ Loosens(v) \/ Withers(v) \/ Deletes(v)
        BY <3>3 DEF ClaimMove
      <4>3. CASE w # v
        BY <4>1, <4>2, <4>3 DEF Guards, Rebinds, Parks, Moves, Waits, Vanishes, Recreates,
                 Returns, Drops, Loosens, Withers, Deletes, Elsewhere
      <4>4. CASE w = v
        <5>1. ~Vanishes(v) /\ ~Returns(v)
          BY <3>1 DEF RelocationInv, ProcInv, Vanishes, Returns
        <5>2. ~Moves(v)
          BY <4>1, <4>4 DEF RelocationInv, ProcInv, Moves
        <5>3. ~Recreates(v)
          BY <4>1, <4>4 DEF Recreates
        <5>4. ~Withers(v)
          BY <2>i, <4>1, <4>4 DEF Withers, ClaimInv
        <5>5. QED
          BY <4>1, <4>2, <4>4, <5>1, <5>2, <5>3, <5>4
             DEF Guards, Rebinds, SameClaim, Parks, Waits, Drops, Loosens, Deletes
      <4>5. QED
        BY <4>3, <4>4
    <3>4. CASE SourceMove /\ UNCHANGED <<main, tmp, ref, op, vrg, vgr>>
      <4>1. ~UNCHANGED <<rs, rd>>
        BY <3>2, <3>4
      <4>2. PICK v \in Volumes : OnlyAt(v) /\
              \/ Pauses(v) \/ Triggers(v) \/ Syncs(v)
              \/ Destined(v, "none")
              \/ rd[v] = "created" /\ Destined(v, "ready")
        BY <3>1, <3>4, <4>1
           DEF SourceMove, Writes, DropsSource, Dirties, StartsSync, Stops, Starts
      <4>3. CASE w # v
        BY <1>3, <3>1, <3>4, <4>2, <4>3 DEF OnlyAt, Returning, Leaving
      <4>4. CASE w = v
        <5>1. CASE Triggers(v)
          <6>1. vrg = "relocate" /\ rs[w].exists /\ H!Exists(tmp[w])
            BY <1>c, <4>4, <5>1 DEF Triggers, CycleInv, Leaving
          <6>2. main[w].deleting \/ rs[w].trigger = "final"
            BY <2>i, <3>1, <6>1 DEF ClaimInv
          <6>3. QED
            BY <1>3, <3>1, <3>4, <4>4, <5>1, <6>2
               DEF Triggers, SourceBecomes, Returning, Leaving
        <5>2. CASE ~Triggers(v)
          BY <1>3, <3>1, <3>4, <4>2, <4>4, <5>2
             DEF Pauses, Syncs, SourceBecomes, Destined, Returning, Leaving
        <5>3. QED
          BY <5>1, <5>2
      <4>5. QED
        BY <4>3, <4>4
    <3>5. QED
      BY <2>3, <3>2, <3>3, <3>4, StepKinds
  <2>4. QED
    BY <2>2, <2>3, IntentKinds
<1>4. QED
  BY <1>1, <1>2, <1>3 DEF RestInv

\* The PVCs that a pass lists, claim by claim; what it does not list is on its way
\* back, or was restored without its labels.
LEMMA Covers ==
    ASSUME TypeOK, RelocationInv, NEW w \in Volumes
    PROVE  /\ <<w, "main">> \in Items /\ <<w, "tmp">> \in Items
           /\ <<w, "main">> \in Listed <=> H!Exists(main[w]) /\ match[w]["main"]
           /\ <<w, "tmp">> \in Listed <=> H!Exists(tmp[w])
           /\ H!Exists(main[w]) \/ (H!Exists(tmp[w]) /\ ref[w].claim = "tmp" /\ ~main[w].deleting)
           /\ match[w]["main"] \/ Unfound(w)
           /\ \/ <<w, "main">> \in Listed \/ <<w, "tmp">> \in Listed
              \/ ~SelectorKept /\ AllRest /\ Restored(w)
<1>1. <<w, "main">> \in Items /\ <<w, "tmp">> \in Items
  BY DEF Items, H!Kinds
<1>2. match[w]["tmp"] /\ (match[w]["main"] \/ Unfound(w))
  BY DEF RelocationInv, MatchInv
<1>3. /\ <<w, "main">> \in Listed <=> H!Exists(main[w]) /\ match[w]["main"]
      /\ <<w, "tmp">> \in Listed <=> H!Exists(tmp[w])
  BY <1>1, <1>2 DEF Listed, Claim
<1>4. ref[w].claim \in {"main", "tmp", "none"} /\ ClaimInv(w)
  BY ClaimTypes DEF RelocationInv
<1>5. H!Exists(main[w]) \/ (H!Exists(tmp[w]) /\ ref[w].claim = "tmp" /\ ~main[w].deleting)
  BY <1>4 DEF ClaimInv
<1>6. ASSUME ~H!Exists(tmp[w]), ~match[w]["main"] PROVE ~SelectorKept /\ AllRest /\ Restored(w)
  BY <1>2, <1>4, <1>6 DEF Unfound, ClaimInv, Restored
<1>7. QED
  BY <1>1, <1>2, <1>3, <1>5, <1>6

\* A claim that is not found was restored when the group was at rest, and stays so.
LEMMA RestoredStays ==
    ASSUME Careful, TypeOK, RelocationInv, [Next]_vars, AllRest, NEW w \in Volumes, Restored(w)
    PROVE  Restored(w)'
<1>1. CASE UNCHANGED <<main, tmp, ref>>
  BY <1>1 DEF Restored
<1>2. CASE ClaimMove /\ ~UNCHANGED <<main, tmp, ref>>
  <2>1. PICK v \in Volumes :
           \/ Guards(v) \/ Rebinds(v) \/ Parks(v) \/ Moves(v) \/ Waits(v) \/ Vanishes(v)
           \/ Recreates(v) \/ Returns(v) \/ Drops(v) \/ Loosens(v) \/ Withers(v)
           \/ Deletes(v) /\ rs[v].exists
    BY <1>2 DEF ClaimMove
  <2>2. CASE w # v
    BY <2>1, <2>2 DEF Guards, Rebinds, Parks, Moves, Waits, Vanishes, Recreates, Returns, Drops,
             Loosens, Withers, Deletes, Elsewhere, Restored
  <2>3. CASE w = v
    <3>1. ref[w].claim = "main" /\ ~main[w].deleting
      BY DEF Restored
    <3>2. ~Parks(v) /\ ~Waits(v) /\ ~Loosens(v)
      BY <2>3, <3>1 DEF Parks, Waits, Loosens
    <3>3. ~Moves(v) /\ ~Vanishes(v)
      BY <2>3, <3>1 DEF Moves, Vanishes, RelocationInv, ProcInv
    <3>4. ~(Deletes(v) /\ rs[v].exists)
      BY <2>3, <3>1 DEF Deletes, H!InService, AllRest, RelocationInv, SourceInv
    <3>5. CASE Guards(v) \/ Returns(v) \/ Recreates(v)
      BY <2>3, <3>1, <3>5 DEF Guards, Returns, Recreates, Restored
    <3>6. CASE Rebinds(v)
      BY <2>3, <3>6 DEF Rebinds, SameClaim, Restored
    <3>7. CASE Drops(v) \/ Withers(v)
      BY <2>3, <3>1, <3>7 DEF Drops, Withers, Restored
    <3>8. QED
      BY <2>1, <3>2, <3>3, <3>4, <3>5, <3>6, <3>7
  <2>4. QED
    BY <2>2, <2>3
<1>3. QED
  BY <1>1, <1>2, StepKinds

\* What the primary pass makes of a volume,
Serves(v) == rd[v] = "none" /\ rs[v].exists /\ rs[v].trigger = "schedule"

\* ... which lasts as long as the pass does.
LEMMA ServesStays ==
    ASSUME Careful, TypeOK, RelocationInv, [Next]_vars, NEW w \in Volumes,
           pass.at = "protect", Serves(w)
    PROVE  Serves(w)'
<1>1. CASE UNCHANGED <<rs, rd>>
  BY <1>1 DEF Serves
<1>2. CASE SourceMove /\ ~UNCHANGED <<rs, rd>>
  <2>1. PICK v \in Volumes : OnlyAt(v) /\
          \/ Pauses(v) \/ Syncs(v) \/ Writes(v) \/ Destined(v, "none")
          \/ rd[v] = "created" /\ Destined(v, "ready")
    BY <1>2 DEF SourceMove, Triggers, DropsSource, Dirties, StartsSync, Stops, Starts
  <2>2. CASE w # v
    BY <2>1, <2>2 DEF OnlyAt, Serves
  <2>3. CASE w = v
    BY <2>1, <2>3 DEF Pauses, Syncs, Writes, SourceBecomes, Destined, Serves
  <2>4. QED
    BY <2>2, <2>3
<1>3. QED
  BY <1>1, <1>2, StepKinds

\* A final sync that is complete stays so while others are triggered.
LEMMA CompleteStays ==
    ASSUME Careful, TypeOK, RelocationInv, [Next]_vars, NEW w \in Volumes,
           pass.at = "trigger", rs[w].last = "final"
    PROVE  rs'[w].last = "final"
<1>1. CASE UNCHANGED rs
  BY <1>1
<1>2. CASE SourceMove /\ ~UNCHANGED rs
  <2>1. PICK v \in Volumes : OnlyAt(v) /\ (Pauses(v) \/ Triggers(v) \/ Syncs(v))
    BY <1>2 DEF SourceMove, Writes, DropsSource, Destined, Dirties, StartsSync, Stops, Starts
  <2>2. CASE w # v
    BY <2>1, <2>2 DEF OnlyAt
  <2>3. CASE w = v
    <3>1. ~Syncs(w)
      BY DEF RelocationInv, SourceInv, Syncs
    <3>2. QED
      BY <2>1, <2>3, <3>1 DEF Pauses, Triggers, SourceBecomes
  <2>4. QED
    BY <2>2, <2>3
<1>3. QED
  BY <1>1, <1>2, StepKinds

\* While the volumes are restored no application claim is deleted: the source of
\* a claim in service is gone.
LEMMA NoDeletion ==
    ASSUME TypeOK, RelocationInv, pass.at \in {"restore", "demote"}, NEW v \in Volumes,
           vrg = "relocate", rs[v].exists
    PROVE  ~H!InService(v)
<1>1. vgr.spec \in {"primary", "secondary"} /\ vgr.status \in {"primary", "secondary"}
  BY Sorts
<1>2. CASE vgr.status = "primary"
  BY <1>2 DEF RelocationInv, RestInv, AllRest, SourceInv, H!InService
<1>3. CASE vgr.status = "secondary"
  BY <1>1, <1>3 DEF RelocationInv, CycleInv, SettledInv, Settled
<1>4. QED
  BY <1>1, <1>2, <1>3

\* Restored, or being restored.
Back(w) == Restored(w) \/ (op.pc # "idle" /\ op.vol = w)

\* What a secondary pass has restored stays restored until the pass is over.
LEMMA BackStays ==
    ASSUME Careful, TypeOK, RelocationInv, [Next]_vars, NEW w \in Volumes,
           pass.at \in {"restore", "demote"}, pass'.at # "none", Back(w)
    PROVE  Back(w)'
<1>1. CASE UNCHANGED <<main, tmp, ref, op>>
  BY <1>1 DEF Back, Restored
<1>2. CASE ClaimMove /\ ~UNCHANGED <<main, tmp, ref, op>>
  <2>1. PICK v \in Volumes :
           \/ Guards(v) \/ Rebinds(v) \/ Waits(v) \/ Recreates(v) \/ Returns(v) \/ Drops(v)
           \/ Loosens(v) \/ Withers(v)
    BY <1>2, NoDeletion DEF ClaimMove, Parks, Moves, Deletes, RelocationInv, ProcInv
  <2>p. ProcInv
    BY DEF RelocationInv
  <2>2. CASE w # v
    <3>1. CASE Restored(w)
      BY <2>1, <2>2, <3>1 DEF Guards, Rebinds, Waits, Recreates, Returns, Drops, Loosens,
                              Withers,
               Elsewhere, Back, Restored
    <3>2. CASE op.pc # "idle" /\ op.vol = w
      BY <2>1, <2>2, <3>2 DEF Guards, Rebinds, Waits, Recreates, Returns, Drops, Loosens,
                              Withers,
               Back
    <3>3. QED
      BY <3>1, <3>2 DEF Back
  <2>3. CASE w = v
    <3>1. CASE Guards(v)
      BY <2>3, <3>1 DEF Guards, Back, Restored
    <3>2. CASE Rebinds(v)
      BY <2>3, <3>2 DEF Rebinds, SameClaim, Back, Restored
    <3>3. CASE Waits(v) \/ Recreates(v) \/ Returns(v)
      BY <2>3, <3>3 DEF Waits, Recreates, Returns, Back
    <3>4. CASE Drops(v)
      BY <2>3, <2>p, <3>4 DEF Drops, ProcInv, Back, Restored
    <3>5. CASE Loosens(v)
      BY <2>3, <3>5 DEF Loosens, Back, Restored
    <3>6. CASE Withers(v)
      BY <2>3, <3>6 DEF Withers, Back, Restored
    <3>7. QED
      BY <2>1, <3>1, <3>2, <3>3, <3>4, <3>5, <3>6
  <2>4. QED
    BY <2>2, <2>3
<1>3. QED
  BY <1>1, <1>2, StepKinds

\* A volume without a temporary claim is back.
LEMMA BareIsBack ==
    ASSUME TypeOK, RelocationInv, pass.at = "restore", NEW w \in Volumes, ~H!Exists(tmp[w])
    PROVE  Restored(w)
<1>1. ref[w].claim \in {"main", "tmp", "none"} /\ ClaimInv(w)
  BY ClaimTypes DEF RelocationInv
<1>2. ref[w].claim = "main"
  BY <1>1 DEF ClaimInv
<1>3. ~main[w].deleting
  <2>1. vgr.status = "primary" => AllRest
    BY DEF RelocationInv, RestInv
  <2>2. QED
    BY <1>1, <1>2, <2>1, Facts DEF ClaimInv
<1>4. QED
  BY <1>2, <1>3 DEF Restored

\* What a pass has achieved it does not undo.
LEMMA PassInvStep == Careful /\ TypeOK /\ RelocationInv /\ [Next]_vars => PassInv'
<1> SUFFICES ASSUME Careful, TypeOK, RelocationInv, [Next]_vars PROVE PassInv'
  OBVIOUS
<1>p. PassInv /\ CycleInv
  BY DEF RelocationInv
<1>m. ItemMove
  BY ItemMoves
<1>i. \A v \in Volumes : <<v, "main">> \in Items /\ <<v, "tmp">> \in Items
  BY DEF Items, H!Kinds
<1>1. ASSUME pass'.at \in {"restore", "demote", "park", "trigger"}, NEW w \in Volumes
      PROVE  \/ <<w, "main">> \in pass'.list \/ <<w, "tmp">> \in pass'.list
             \/ ~SelectorKept /\ AllRest' /\ Restored(w)'
  <2>1. CASE StartSecondary /\ pass'.list = Listed
    <3>1. UNCHANGED <<main, tmp, ref, rs, app, dirty>>
      BY <2>1, TurnFrame
    <3>2. QED
      BY <2>1, <3>1, Covers DEF AllRest, Restored
  <2>2. CASE pass'.list = pass.list /\ pass.at \in {"restore", "demote", "park", "trigger"}
    <3>1. CASE ~SelectorKept /\ AllRest /\ Restored(w)
      <4>1. Leaving
        BY <1>p, <2>2, <3>1 DEF CycleInv, RelocationInv, SelectorInv
      <4>2. QED
        BY <3>1, <4>1, RestStable, RestoredStays
    <3>2. QED
      BY <1>p, <2>2, <3>1 DEF PassInv
  <2>3. QED
    BY <1>1, <1>m, <2>1, <2>2 DEF ItemMove
<1>2. ASSUME pass'.at = "protect", NEW w \in Volumes
      PROVE  <<w, "main">> \in pass'.list /\ (<<w, "main">> \notin pass'.todo => Serves(w)')
  <2>1. CASE StartPrimary /\ pass'.list = Listed /\ pass'.todo = {i \in Listed : i[2] = "main"}
    <3>1. vgr.spec = "primary"
      BY <2>1 DEF StartPrimary
    <3>2. H!Exists(main[w]) /\ match[w]["main"]
      BY <3>1, Covers, Facts DEF Leaving, Unfound
    <3>3. QED
      BY <2>1, <3>2, Covers
  <2>2. CASE pass.at = "protect" /\ pass'.list = pass.list
             /\ (pass'.todo = pass.todo \/ \E i \in Items : pass'.todo = pass.todo \ {i} /\ ItemDone(i))
    <3>1. <<w, "main">> \in pass.list
      BY <1>p, <2>2 DEF PassInv
    <3>2. ASSUME <<w, "main">> \notin pass'.todo PROVE Serves(w)
      <4>1. CASE <<w, "main">> \notin pass.todo
        BY <1>p, <2>2, <4>1 DEF PassInv, Serves
      <4>2. CASE ItemDone(<<w, "main">>)
        <5>1. CASE main[w].deleting
          <6>1. vgr.status = "primary"
            BY <5>1, Facts
          <6>2. QED
            BY <2>2, <6>1 DEF RelocationInv, ServingInv, Serves
        <5>2. CASE ~main[w].deleting
          BY <2>2, <4>2, <5>2 DEF ItemDone, Serves
        <5>3. QED
          BY <5>1, <5>2
      <4>3. QED
        BY <2>2, <3>2, <4>1, <4>2
    <3>3. QED
      BY <2>2, <3>1, <3>2, ServesStays
  <2>3. QED
    BY <1>2, <1>m, <2>1, <2>2 DEF ItemMove
<1>3. ASSUME pass'.at \in {"park", "trigger"}
      PROVE  AllRest' \/ \A v \in Volumes : <<v, "main">> \in pass'.list
  <2>1. CASE StartSecondary /\ pass'.list = Listed /\ FinalSyncWanted
    <3>1. CASE \A v \in Volumes : H!Exists(main[v]) /\ match[v]["main"]
      BY <2>1, <3>1, Covers
    <3>2. CASE \E v \in Volumes : ~(H!Exists(main[v]) /\ match[v]["main"])
      <4>1. AllRest \/ \E v \in Volumes : Returning(v)
        BY <3>2, Covers DEF Returning, Unfound
      <4>2. vgr.status = "primary"
        BY <2>1, Sorts DEF FinalSyncWanted
      <4>3. AllRest
        BY <4>1, <4>2, Facts
      <4>4. UNCHANGED <<rs, app, dirty>>
        BY <2>1, TurnFrame
      <4>5. QED
        BY <4>3, <4>4 DEF AllRest
    <3>3. QED
      BY <3>1, <3>2
  <2>2. CASE pass.at \in {"park", "trigger"} /\ pass'.list = pass.list
    <3>1. Leaving
      BY <1>p, <2>2 DEF CycleInv
    <3>2. QED
      BY <1>p, <2>2, <3>1, RestStable DEF PassInv
  <2>3. QED
    BY <1>3, <1>m, <2>1, <2>2 DEF ItemMove
<1>4. ASSUME pass'.at = "trigger", pass'.ok, NEW w \in Volumes, Handled(<<w, "main">>)'
      PROVE  rs'[w].last = "final"
  <2>1. CASE pass'.list = pass.list /\ pass'.todo = MainItems
    BY <1>4, <2>1 DEF Handled, MainItems
  <2>2. CASE pass.at = "trigger" /\ pass'.list = pass.list /\ pass'.todo = pass.todo
             /\ pass'.ok = pass.ok
    BY <1>4, <1>p, <2>2, CompleteStays DEF PassInv, Handled
  <2>3. ASSUME NEW i \in Items, pass.at = "trigger", pass'.list = pass.list,
               pass'.todo = pass.todo \ {i}, ItemDone(i)
        PROVE  rs'[w].last = "final"
    <3>1. pass.ok /\ rs'[i[1]].last = "final"
      BY <1>4, <2>3 DEF ItemDone
    <3>2. CASE i = <<w, "main">>
      BY <3>1, <3>2
    <3>3. CASE i # <<w, "main">>
      BY <1>4, <1>p, <2>3, <3>1, <3>3, CompleteStays DEF PassInv, Handled
    <3>4. QED
      BY <3>2, <3>3
  <2>4. QED
    BY <1>4, <1>m, <2>1, <2>2, <2>3 DEF ItemMove
<1>5. ASSUME pass'.at = "restore", NEW j \in Items, Handled(j)' PROVE Back(j[1])'
  <2>0. j[1] \in Volumes
    BY DEF Items
  <2>1. CASE pass'.todo = pass'.list
    BY <1>5, <2>1 DEF Handled
  <2>2. CASE pass.at = "restore" /\ Back(j[1])
    BY <1>5, <2>0, <2>2, BackStays
  <2>3. CASE pass.at = "restore" /\ Handled(j)
    BY <1>p, <2>2, <2>3 DEF PassInv, Back
  <2>4. CASE pass.at = "restore" /\ ItemDone(j)
    BY <2>0, <2>2, <2>4, BareIsBack DEF ItemDone, Back
  <2>5. QED
    BY <1>5, <1>m, <2>1, <2>3, <2>4 DEF ItemMove, Handled
<1>6. ASSUME pass'.at = "demote", NEW w \in Volumes PROVE Restored(w)'
  <2>1. CASE EndRestore /\ pass.at = "restore" /\ pass.todo = {} /\ op.pc = "idle"
    <3>1. \A i \in Items : i \in pass.list => Restored(i[1])
      BY <1>p, <2>1 DEF PassInv, Handled
    <3>2. <<w, "main">> \in pass.list \/ <<w, "tmp">> \in pass.list \/ Restored(w)
      BY <1>p, <2>1 DEF PassInv
    <3>3. Restored(w)
      BY <1>i, <3>1, <3>2
    <3>4. UNCHANGED <<main, tmp, ref>>
      BY <2>1, TurnFrame
    <3>5. QED
      BY <3>3, <3>4 DEF Restored
  <2>2. CASE pass.at = "demote"
    <3>1. Back(w)
      BY <1>p, <2>2 DEF PassInv, Back
    <3>2. Back(w)'
      BY <1>6, <2>2, <3>1, BackStays
    <3>3. op'.pc = "idle"
      <4>1. ProcInv' /\ TypeOK'
        BY ProcStep, TypeStep
      <4>2. op'.pc \in H!Steps \cup {"idle"}
        BY <4>1 DEF TypeOK, H!TypeOK, H!Ops
      <4>3. QED
        BY <1>6, <4>1, <4>2 DEF ProcInv, H!Steps
    <3>4. QED
      BY <3>2, <3>3 DEF Back
  <2>3. QED
    BY <1>6, <1>m, <2>1, <2>2 DEF ItemMove
<1>7. ASSUME pass'.at = "demote", pass'.ok, NEW j \in Items, Handled(j)' PROVE Settled(j[1])'
  <2>0. j[1] \in Volumes
    BY DEF Items
  <2> DEFINE w == j[1]
  <2>1. CASE pass'.todo = pass'.list
    BY <1>7, <2>1 DEF Handled
  <2>2. ASSUME pass.at = "demote" PROVE H!Exists(main[w]) /\ ~\E v \in Volumes : Vanishes(v)
    BY <1>p, <2>0, <2>2 DEF PassInv, Restored, RelocationInv, ClaimInv, ProcInv, Vanishes
  <2>3. CASE pass.at = "demote" /\ Settled(w)
    BY <2>0, <2>2, <2>3, SettledStays
  <2>4. CASE pass.at = "demote" /\ Handled(j) /\ pass.ok
    BY <1>p, <2>3, <2>4 DEF PassInv
  <2>5. CASE pass.at = "demote" /\ ItemDone(j)
    BY <1>7, <2>0, <2>2, <2>5 DEF ItemDone, Settled
  <2>6. CASE pass.at = "demote" /\ (pass.ok \/ \E i \in Items : ItemDone(i))
    <3>1. pass.ok
      BY <1>7, <2>6 DEF ItemDone
    <3>2. QED
      BY <1>7, <1>m, <2>4, <2>5, <2>6, <3>1 DEF ItemMove, Handled
  <2>7. QED
    BY <1>7, <1>m, <2>1, <2>6 DEF ItemMove
<1>8. QED
  BY <1>1, <1>2, <1>3, <1>4, <1>5, <1>6, <1>7 DEF PassInv, Serves, Back

\* ReconcileRS and ReconcileRD take up claims of the application, and a pause finds
\* the sources it has listed: only a demotion deletes any.
LEMMA TakenStep == Careful /\ TypeOK /\ RelocationInv /\ [Next]_vars => TakenInv'
<1> SUFFICES ASSUME Careful, TypeOK, RelocationInv, [Next]_vars PROVE TakenInv'
  OBVIOUS
<1>t. TakenInv
  BY DEF RelocationInv
<1>1. \A i \in pass'.cur : i[2] = "main"
  BY <1>t, CurMoves DEF TakenInv, CurMove
<1>2. ASSUME pass'.at \in {"protect", "trigger"}, NEW i \in pass'.todo PROVE i[2] = "main"
  <2>1. CASE pass'.todo = {j \in Listed : j[2] = "main"} \/ pass'.todo = MainItems
    BY <1>2, <2>1 DEF MainItems
  <2>2. CASE pass.at \in {"protect", "trigger"} /\ pass'.todo \subseteq pass.todo
    BY <1>t, <1>2, <2>2 DEF TakenInv
  <2>3. QED
    BY <1>2, <2>1, <2>2, ItemMoves DEF ItemMove
<1>3. ASSUME pass'.at = "pause", NEW i \in pass'.todo PROVE rs'[i[1]].exists
  <2>1. CASE StartPrimary
    <3>1. VRGConflict /\ Begin("pause", FALSE,
            {<<v, "main">> : v \in {u \in Volumes : SourceSeen(u) /\ ~rs[u].paused}})
      BY <1>3, <2>1 DEF StartPrimary, Begin
    <3>2. rs' = rs
      BY <2>1, TurnFrame
    <3>3. i \in {<<v, "main">> : v \in {u \in Volumes : SourceSeen(u) /\ ~rs[u].paused}}
      BY <3>1 DEF Begin
    <3>4. QED
      <4>1. PICK v \in Volumes : SourceSeen(v) /\ i = <<v, "main">>
        BY <3>3
      <4>2. i[1] = v
        BY <4>1
      <4>3. QED
        BY <3>2, <4>1, <4>2 DEF SourceSeen
  <2>2. CASE pass.at = "pause" /\ pass'.todo \subseteq pass.todo
    <3>1. rs[i[1]].exists /\ i[1] \in Volumes
      BY <1>3, <1>t, <2>2, ItemTypes DEF TakenInv, TypeOK, Passes
    <3>2. CASE SourceMove
      <4>1. \A v \in Volumes : ~DropsSource(v)
        BY <2>2 DEF DropsSource
      <4>2. CASE rs' = rs
        BY <3>1, <4>2
      <4>3. CASE rs' # rs
        <5>1. PICK v \in Volumes : OnlyAt(v) /\ (Pauses(v) \/ Writes(v) \/ Triggers(v) \/ Syncs(v))
          BY <3>2, <4>1, <4>3 DEF SourceMove, Destined, Dirties, StartsSync, Stops, Starts
        <5>2. QED
          BY <3>1, <5>1 DEF OnlyAt, Pauses, Writes, Triggers, Syncs, SourceBecomes
      <4>4. QED
        BY <4>2, <4>3
    <3>3. CASE UNCHANGED rs
      BY <3>1, <3>3
    <3>4. QED
      BY <3>2, <3>3, StepKinds
  <2>3. QED
    BY <1>3, <2>1, <2>2, ItemMoves DEF ItemMove
<1>4. QED
  BY <1>1, <1>2, <1>3 DEF TakenInv

\* The calls for an item follow one another: nothing but the pass itself makes a source
\* where one has just been deleted, or a destination.
LEMMA ClearedStep == Careful /\ TypeOK /\ RelocationInv /\ [Next]_vars => ClearedInv'
<1> SUFFICES ASSUME Careful, TypeOK, RelocationInv, [Next]_vars PROVE ClearedInv'
  OBVIOUS
<1>c. ClearedInv /\ CurMove
  BY CurMoves DEF RelocationInv
<1>i. \A i \in pass.cur : i[1] \in Volumes
  BY ItemTypes DEF TypeOK, Passes
<1>1. CASE pass'.cur \subseteq pass.cur /\ pass'.did = "nothing"
  BY <1>1, <1>c DEF ClearedInv
<1>2. CASE pass.cur = {} /\ pass'.did = pass.did /\ \E i \in Items : pass'.cur = {i}
  BY <1>2, <1>c DEF ClearedInv
<1>3. CASE pass'.cur = pass.cur /\ pass'.did = pass.did /\ pass'.at = pass.at
  <2>1. ASSUME NEW w \in Volumes
        PROVE  /\ pass.at = "protect" /\ rd[w] = "none" => rd'[w] = "none"
               /\ pass.at = "protect" /\ rs[w].exists /\ rs[w].trigger = "schedule" =>
                    rs'[w].exists /\ rs'[w].trigger = "schedule"
               /\ pass.at = "demote" /\ ~rs[w].exists => ~rs'[w].exists
    <3>1. CASE SourceMove
      <4>1. CASE UNCHANGED <<rs, rd>>
        BY <4>1
      <4>2. CASE ~UNCHANGED <<rs, rd>>
        <5>1. PICK v \in Volumes : OnlyAt(v) /\
                \/ Pauses(v) \/ Syncs(v) \/ Writes(v)
                \/ Triggers(v) \/ DropsSource(v)
                \/ pass.at = "protect" /\ Destined(v, "none")
                \/ pass.at = "demote" /\ Destined(v, "created")
                \/ rd[v] = "created" /\ Destined(v, "ready")
          BY <3>1, <4>2 DEF SourceMove, Dirties, StartsSync, Stops, Starts
        <5>2. CASE w # v
          BY <5>1, <5>2 DEF OnlyAt
        <5>3. CASE w = v
          BY <5>1, <5>3 DEF Pauses, Syncs, Writes, Triggers, DropsSource, Destined, SourceBecomes
        <5>4. QED
          BY <5>2, <5>3
      <4>3. QED
        BY <4>1, <4>2
    <3>2. CASE UNCHANGED <<rs, rd>>
      BY <3>2
    <3>3. QED
      BY <3>1, <3>2, StepKinds
  <2>2. QED
    BY <1>3, <1>c, <1>i, <2>1 DEF ClearedInv
<1>4. CASE pass'.cur = pass.cur /\ pass'.at = pass.at /\ \E i \in pass.cur : LET v == i[1] IN
         \/ pass.at = "protect" /\ pass'.did = "cleared" /\ rd'[v] = "none"
         \/ /\ pass.at = "protect" /\ pass.did = "cleared" /\ pass'.did = "written"
            /\ rs'[v].exists /\ rs'[v].trigger = "schedule" /\ rd' = rd
         \/ pass.at = "demote" /\ pass'.did = "cleared" /\ ~rs'[v].exists
         \/ /\ pass.at = "demote" /\ pass.did = "cleared" /\ pass'.did = "written"
            /\ rs' = rs
  BY <1>4, <1>c DEF ClearedInv
<1>5. QED
  BY <1>c, <1>1, <1>2, <1>3, <1>4 DEF CurMove

\* Where restored claims are not found, a group that leaves never gets there,
LEMMA LeavingStays ==
    ASSUME Careful, TypeOK, RelocationInv, [Next]_vars, ~SelectorKept, Leaving PROVE Leaving'
<1>1. vrg = "relocate" /\ vgr.spec = "secondary" /\ vgr.status = "primary"
  BY Facts DEF Leaving
<1>2. CASE IntentMove
  <2>1. pass.at = "demote" /\ pass.todo = {} => ~pass.ok
    BY NoReport
  <2>2. QED
    BY <1>1, <1>2, <2>1 DEF IntentMove, Leaving
<1>3. QED
  BY <1>1, <1>2, IntentKinds DEF Leaving

\* ... and a claim it does not find is never deleted again: its source, if it is
\* still there, has done its final sync, and the claim is not guarded.
LEMMA UnfoundStays ==
    ASSUME Careful, TypeOK, RelocationInv, [Next]_vars, NEW w \in Volumes, Unfound(w)
    PROVE  Unfound(w)'
<1>1. ~SelectorKept /\ Leaving /\ AllRest /\ ~main[w].deleting
  BY DEF Unfound
<1>2. Leaving' /\ AllRest'
  BY <1>1, LeavingStays, RestStable
<1>3. ~main'[w].deleting
  <2>1. CASE UNCHANGED main
    BY <1>1, <2>1
  <2>2. CASE ClaimMove /\ ~UNCHANGED main
    <3>1. PICK v \in Volumes :
             \/ Guards(v) \/ Rebinds(v) \/ Parks(v) \/ Moves(v) \/ Vanishes(v) \/ Recreates(v)
             \/ Returns(v) \/ Drops(v) \/ Loosens(v) \/ Withers(v)
             \/ Deletes(v) /\ rs[v].exists
      BY <2>2 DEF ClaimMove, Waits
    <3>2. CASE w # v
      BY <1>1, <3>1, <3>2 DEF Guards, Rebinds, Parks, Moves, Vanishes, Recreates, Returns, Drops,
               Loosens, Withers, Deletes, Elsewhere
    <3>3. CASE w = v
      <4>1. ~(Deletes(v) /\ rs[v].exists)
        BY <1>1, <3>3 DEF Deletes, H!InService, AllRest, RelocationInv, SourceInv
      <4>2. QED
        BY <1>1, <3>1, <3>3, <4>1 DEF Guards, Rebinds, SameClaim, Parks, Moves, Vanishes, H!Absent,
                 Recreates, Returns, Drops, Loosens, Withers
    <3>4. QED
      BY <3>2, <3>3
  <2>3. QED
    BY <2>1, <2>2, StepKinds
<1>4. QED
  BY <1>1, <1>2, <1>3 DEF Unfound

\* A volume past its final sync, with its claim back in place, in a group that leaves.
Ashore(v) ==
    /\ Leaving /\ (rs[v].trigger = "final" \/ ~rs[v].exists)
    /\ H!Exists(main[v]) /\ ~main[v].deleting

\* It gets there when its claim is created anew.
LEMMA ComesAshore ==
    ASSUME Careful, TypeOK, RelocationInv, [Next]_vars, NEW w \in Volumes, Ashore(w)',
           ~SelectorKept
    PROVE  Ashore(w) \/ (Recreates(w) /\ LabelRestored(w) /\ ~H!Exists(main[w]))
<1>i. CycleInv /\ ClaimInv(w) /\ SourceInv(w) /\ vgr.status = "primary"
  BY DEF RelocationInv, SelectorInv
<1>1. CASE IntentMove /\ UNCHANGED <<main, tmp, ref, op, rs, rd, mover, app, dirty>>
  <2>1. vgr.spec = "primary" => rs[w].exists /\ rs[w].trigger = "schedule"
    BY <1>i DEF RelocationInv, ServingInv
  <2>2. vgr.spec = "secondary"
    BY <1>1, <2>1, Sorts DEF Ashore
  <2>3. QED
    BY <1>1, <1>i, <2>2 DEF Ashore, Leaving
<1>2. CASE ClaimMove /\ UNCHANGED <<rs, rd, mover, app, dirty, vrg, vgr>>
  <2>1. Leaving /\ (rs[w].trigger = "final" \/ ~rs[w].exists)
    BY <1>2 DEF Ashore, Leaving
  <2>2. CASE UNCHANGED main
    BY <2>1, <2>2 DEF Ashore
  <2>3. CASE ~UNCHANGED main
    <3>1. PICK v \in Volumes :
             \/ Guards(v) \/ Rebinds(v) \/ Parks(v) \/ Moves(v) \/ Vanishes(v)
             \/ Recreates(v) /\ LabelRestored(v)
             \/ Returns(v) \/ Drops(v) \/ Loosens(v) \/ Withers(v) \/ Deletes(v)
      BY <1>2, <2>3 DEF ClaimMove, Waits
    <3>2. CASE w # v
      BY <2>1, <3>1, <3>2 DEF Guards, Rebinds, Parks, Moves, Vanishes, Recreates, Returns, Drops,
               Loosens, Withers, Deletes, Elsewhere, Ashore
    <3>3. CASE w = v
      <4>1. ~Vanishes(v) /\ ~Loosens(v) /\ ~Deletes(v)
        BY <3>3 DEF Vanishes, Loosens, Deletes, Ashore, H!Absent, H!Exists
      <4>2. QED
        BY <2>1, <3>1, <3>3, <4>1 DEF Guards, Rebinds, SameClaim, Parks, Moves, Recreates,
                 Returns, Drops, Withers, Ashore
    <3>4. QED
      BY <3>2, <3>3
  <2>4. QED
    BY <2>2, <2>3
<1>3. CASE SourceMove /\ UNCHANGED <<main, tmp, ref, op, vrg, vgr>>
  <2>1. Leaving /\ H!Exists(main[w]) /\ ~main[w].deleting
    BY <1>3 DEF Ashore, Leaving
  <2>2. CASE rs' = rs
    BY <2>1, <2>2 DEF Ashore
  <2>3. CASE rs' # rs
    <3>1. PICK v \in Volumes :
            OnlyAt(v) /\ (Pauses(v) \/ Triggers(v) \/ DropsSource(v) \/ Syncs(v))
      BY <1>3, <1>i, <2>3 DEF SourceMove, Writes, Destined, Dirties, StartsSync, Stops, Starts
    <3>2. CASE w # v
      BY <2>1, <3>1, <3>2 DEF OnlyAt, Ashore
    <3>3. CASE w = v
      <4>1. CASE Pauses(v) \/ Syncs(v)
        BY <2>1, <3>3, <4>1 DEF Pauses, Syncs, SourceBecomes, Ashore
      <4>2. CASE Triggers(v)
        <5>1. vrg = "relocate" /\ rs[w].exists /\ H!Exists(tmp[w])
          BY <1>i, <3>3, <4>2 DEF Triggers, CycleInv, Leaving
        <5>2. QED
          BY <1>i, <2>1, <5>1 DEF ClaimInv, Ashore
      <4>3. CASE DropsSource(v)
        <5>1. AllRest
          BY <1>i, <4>3 DEF DropsSource, RelocationInv, RestInv
        <5>2. QED
          BY <1>i, <2>1, <5>1 DEF AllRest, SourceInv, Ashore
      <4>4. QED
        BY <3>1, <4>1, <4>2, <4>3
    <3>4. QED
      BY <3>2, <3>3
  <2>4. QED
    BY <2>2, <2>3
<1>4. CASE UNCHANGED <<main, tmp, ref, op, rs, rd, mover, app, dirty, vrg, vgr>>
  BY <1>4 DEF Ashore, Leaving
<1>5. QED
  BY <1>1, <1>2, <1>3, <1>4, StepKinds

\* What the labels of a volume become.
LEMMA Labels ==
    ASSUME TypeOK, NEW v \in Volumes, NEW w \in Volumes
    PROVE  /\ LabelTmp(v) \/ RelabelTmp(v) =>
                /\ match'[w]["main"] = match[w]["main"]
                /\ \/ match'[w]["tmp"] = match[w]["tmp"]
                   \/ w = v /\ match'[w]["tmp"] = match[w]["main"]
           /\ LabelRestored(v) =>
                /\ match'[w]["tmp"] = match[w]["tmp"]
                /\ w # v \/ H!Exists(main[w]) => match'[w]["main"] = match[w]["main"]
                /\ w = v /\ ~H!Exists(main[w]) =>
                      match'[w]["main"] = (match[w]["tmp"] /\ SelectorKept)
<1>1. match \in [Volumes -> [H!Kinds -> BOOLEAN]] /\ "main" \in H!Kinds /\ "tmp" \in H!Kinds
  BY DEF TypeOK, H!Kinds
<1>2. ASSUME LabelTmp(v) \/ RelabelTmp(v)
      PROVE  /\ match'[w]["main"] = match[w]["main"]
             /\ \/ match'[w]["tmp"] = match[w]["tmp"]
                \/ w = v /\ match'[w]["tmp"] = match[w]["main"]
  BY <1>1, <1>2 DEF LabelTmp, RelabelTmp
<1>3. ASSUME LabelRestored(v)
      PROVE  /\ match'[w]["tmp"] = match[w]["tmp"]
             /\ w # v \/ H!Exists(main[w]) => match'[w]["main"] = match[w]["main"]
             /\ w = v /\ ~H!Exists(main[w]) =>
                   match'[w]["main"] = (match[w]["tmp"] /\ SelectorKept)
  BY <1>1, <1>3 DEF LabelRestored
<1>4. QED
  BY <1>2, <1>3

\* Only a claim that is restored without its labels is lost to the selector.
LEMMA MatchStep == Careful /\ TypeOK /\ RelocationInv /\ [Next]_vars => MatchInv'
<1> SUFFICES ASSUME Careful, TypeOK, RelocationInv, [Next]_vars, NEW w \in Volumes
             PROVE  /\ match'[w]["tmp"]
                    /\ match'[w]["main"] \/ Unfound(w)'
                    /\ ~SelectorKept /\ Ashore(w)' => ~match'[w]["main"]
  BY DEF MatchInv, Ashore
<1>m. /\ match[w]["tmp"]
      /\ match[w]["main"] \/ Unfound(w)
      /\ ~SelectorKept /\ Ashore(w) => ~match[w]["main"]
  BY DEF RelocationInv, MatchInv, Ashore
<1>k. MatchMove
  BY MatchMoves
<1>1. match'[w]["tmp"]
  <2>1. main[w].deleting => match[w]["main"]
    BY <1>m DEF Unfound
  <2>2. QED
    BY <1>k, <1>m, <2>1, Labels DEF MatchMove
<1>2. CASE match'[w]["main"] = match[w]["main"]
  <2>1. match'[w]["main"] \/ Unfound(w)'
    BY <1>m, <1>2, UnfoundStays
  <2>2. Recreates(w) /\ LabelRestored(w) /\ ~H!Exists(main[w]) /\ ~SelectorKept => ~match'[w]["main"]
    BY Labels
  <2>3. QED
    BY <1>1, <1>m, <1>2, <2>1, <2>2, ComesAshore
<1>3. CASE match'[w]["main"] # match[w]["main"]
  <2>1. /\ LabelRestored(w) /\ Recreates(w) /\ pass.at = "restore" /\ ~H!Exists(main[w])
        /\ match'[w]["main"] = (match[w]["tmp"] /\ SelectorKept)
    BY <1>k, <1>3, Labels DEF MatchMove
  <2>2. CASE SelectorKept
    BY <1>1, <1>m, <2>1, <2>2
  <2>3. CASE ~SelectorKept
    <3>1. Leaving /\ AllRest
      BY <2>1, <2>3 DEF RelocationInv, SelectorInv, CycleInv, RestInv
    <3>2. Leaving' /\ AllRest'
      BY <2>3, <3>1, LeavingStays, RestStable
    <3>3. ~main'[w].deleting
      BY <2>1 DEF Recreates
    <3>4. QED
      BY <1>1, <2>1, <2>3, <3>2, <3>3 DEF Unfound
  <2>4. QED
    BY <2>2, <2>3
<1>4. QED
  BY <1>2, <1>3

\* In a group at rest every claim that a list names is being deleted, and named
\* together with its temporary claim.
LEMMA ListsTmp ==
    ASSUME TypeOK, RelocationInv, ~SelectorKept, Leaving, NEW w \in Volumes,
           <<w, "main">> \in Listed, rs[w].exists => rs[w].trigger = "final"
    PROVE  <<w, "tmp">> \in Listed
<1>1. H!Exists(main[w]) /\ match[w]["main"]
  BY Covers
<1>2. main[w].deleting
  BY <1>1 DEF RelocationInv, MatchInv
<1>3. H!Exists(tmp[w])
  BY <1>2 DEF RelocationInv, ClaimInv, SourceInv
<1>4. QED
  BY <1>3, Covers

\* No final sync that has not been asked for before counts as complete.
LEMMA TriggersLate ==
    ASSUME Careful, TypeOK, RelocationInv, [Next]_vars, NEW w \in Volumes,
           rs'[w].trigger = "final", pass.at # "trigger" \/ pass'.ok
    PROVE  rs[w].trigger = "final"
<1>1. CASE UNCHANGED rs
  BY <1>1
<1>2. CASE SourceMove /\ ~UNCHANGED rs
  <2>1. PICK v \in Volumes : OnlyAt(v) /\
          (Pauses(v) \/ Writes(v) \/ Triggers(v) \/ DropsSource(v) \/ Syncs(v))
    BY <1>2 DEF SourceMove, Destined, Dirties, StartsSync, Stops, Starts
  <2>2. CASE w # v
    BY <2>1, <2>2 DEF OnlyAt
  <2>3. CASE w = v
    <3>1. CASE Triggers(v)
      BY <2>3, <3>1 DEF Triggers, RelocationInv, SourceInv
    <3>2. QED
      BY <2>1, <2>3, <3>1 DEF Pauses, Writes, DropsSource, Syncs, SourceBecomes
  <2>4. QED
    BY <2>2, <2>3
<1>3. QED
  BY <1>1, <1>2, StepKinds

\* Without the labels every demotion meets a temporary claim.
LEMMA SelectorStep == Careful /\ TypeOK /\ RelocationInv /\ [Next]_vars => SelectorInv'
<1> SUFFICES ASSUME Careful, TypeOK, RelocationInv, [Next]_vars, ~SelectorKept PROVE SelectorInv'
  BY DEF SelectorInv
<1>s. SelectorInv /\ CycleInv /\ PassInv /\ vgr.status = "primary"
  BY DEF RelocationInv, SelectorInv
<1>m. ItemMove
  BY ItemMoves
<1>l. \A i \in pass.list \cup Listed : i[1] \in Volumes /\ i[2] \in H!Kinds /\ i = <<i[1], i[2]>>
  BY ItemTypes, Sorts DEF Listed, Items
<1>1. vgr'.status = "primary"
  <2>1. CASE IntentMove
    <3>1. pass.at = "demote" /\ pass.todo = {} => ~pass.ok
      BY NoReport
    <3>2. QED
      BY <1>s, <2>1, <3>1 DEF IntentMove
  <2>2. QED
    BY <1>s, <2>1, IntentKinds
<1>2. ASSUME pass'.at \in {"park", "trigger"} PROVE pass'.list # {}
  <2>1. CASE StartSecondary /\ pass'.list = Listed
    BY <2>1 DEF StartSecondary
  <2>2. CASE pass.at \in {"park", "trigger"} /\ pass'.list = pass.list
    BY <1>s, <2>2 DEF SelectorInv
  <2>3. QED
    BY <1>2, <1>m, <2>1, <2>2 DEF ItemMove
<1>3. ASSUME pass'.at = "park" \/ (pass'.at = "trigger" /\ pass'.ok), NEW w \in Volumes,
             rs'[w].trigger = "final", <<w, "main">> \in pass'.list
      PROVE  <<w, "tmp">> \in pass'.list
  <2>1. CASE StartSecondary /\ pass'.list = Listed
    <3>1. rs[w].trigger = "final"
      BY <1>3, <2>1, TurnFrame
    <3>2. Leaving
      BY <3>1 DEF RelocationInv, SourceInv
    <3>3. QED
      BY <1>3, <2>1, <3>1, <3>2, ListsTmp
  <2>2. CASE (pass.at = "park" \/ (pass.at = "trigger" /\ pass.ok /\ pass'.ok)) /\ pass'.list = pass.list
    <3>1. rs[w].trigger = "final"
      BY <1>3, <2>2, TriggersLate
    <3>2. QED
      BY <1>3, <1>s, <2>2, <3>1 DEF SelectorInv
  <2>3. QED
    BY <1>3, <1>m, <2>1, <2>2 DEF ItemMove, ItemDone
<1>4. ASSUME pass'.at \in {"restore", "demote"} PROVE \E v \in Volumes : <<v, "tmp">> \in pass'.list
  <2>1. CASE StartSecondary /\ pass'.list = Listed
    <3>1. Leaving
      BY <1>s, <2>1 DEF StartSecondary, Leaving
    <3>2. AllRest
      BY <1>4, <1>s, <2>1, StageRests, TurnFrame DEF AllRest
    <3>3. PICK i \in Listed : TRUE
      BY <2>1 DEF StartSecondary
    <3>4. CASE i[2] = "main"
      <4>1. rs[i[1]].exists => rs[i[1]].trigger = "final"
        BY <1>l, <3>2 DEF AllRest, RelocationInv, SourceInv
      <4>2. <<i[1], "main">> \in Listed /\ i[1] \in Volumes
        BY <1>l, <3>3, <3>4
      <4>3. <<i[1], "tmp">> \in Listed
        BY <3>1, <4>1, <4>2, ListsTmp
      <4>4. QED
        BY <2>1, <4>2, <4>3
    <3>5. CASE i[2] = "tmp"
      <4>1. <<i[1], "tmp">> \in Listed /\ i[1] \in Volumes
        BY <1>l, <3>3, <3>5
      <4>2. QED
        BY <2>1, <4>1
    <3>6. QED
      BY <1>l, <3>3, <3>4, <3>5 DEF H!Kinds
  <2>2. CASE pass.at = "trigger" /\ pass.ok /\ pass.todo = {} /\ pass'.list = pass.list
    <3>1. PICK i \in pass.list : TRUE
      BY <1>s, <2>2 DEF SelectorInv
    <3>2. CASE i[2] = "main"
      <4>1. <<i[1], "main">> \in pass.list /\ i[1] \in Volumes
        BY <1>l, <3>1, <3>2
      <4>2. rs[i[1]].trigger = "final"
        BY <1>s, <2>2, <4>1 DEF PassInv, Handled, RelocationInv, SourceInv
      <4>3. QED
        BY <1>s, <2>2, <4>1, <4>2 DEF SelectorInv
    <3>3. CASE i[2] = "tmp"
      <4>1. <<i[1], "tmp">> \in pass.list /\ i[1] \in Volumes
        BY <1>l, <3>1, <3>3
      <4>2. QED
        BY <2>2, <4>1
    <3>4. QED
      BY <1>l, <3>1, <3>2, <3>3 DEF H!Kinds
  <2>3. CASE pass.at \in {"restore", "demote"} /\ pass'.list = pass.list
    BY <1>s, <2>3 DEF SelectorInv
  <2>4. QED
    BY <1>4, <1>m, <2>1, <2>2, <2>3 DEF ItemMove
<1>5. ASSUME pass'.at = "demote", pass'.ok, NEW w \in Volumes PROVE ~Handled(<<w, "tmp">>)'
  <2>1. CASE pass'.todo = pass'.list
    BY <2>1 DEF Handled
  <2>2. ASSUME pass.at = "demote", pass.ok, pass'.list = pass.list,
               <<w, "tmp">> \in pass.todo => <<w, "tmp">> \in pass'.todo
        PROVE  ~Handled(<<w, "tmp">>)'
    BY <1>s, <2>2 DEF SelectorInv, Handled
  <2>3. ASSUME NEW i \in Items, pass.at = "demote", ItemDone(i) PROVE pass.ok /\ i # <<w, "tmp">>
    BY <1>5, <2>3 DEF ItemDone
  <2>4. QED
    BY <1>5, <1>m, <2>1, <2>2, <2>3 DEF ItemMove
<1>6. QED
  BY <1>1, <1>2, <1>3, <1>4, <1>5 DEF SelectorInv
-----------------------------------------------------------------------------
(* The invariant *)

\* The group starts serving, with nothing handed over.
LEMMA InvInit == Init => RelocationInv
<1> SUFFICES ASSUME Init PROVE RelocationInv
  OBVIOUS
<1>1. /\ op.pc = "idle" /\ pass.at = "none" /\ vrg = "primary"
      /\ vgr.spec = "primary" /\ vgr.status = "primary"
  BY DEF Init, H!Init, H!Idle, NoPass
<1>2. ASSUME NEW v \in Volumes
      PROVE  /\ H!Exists(main[v]) /\ ~main[v].deleting /\ "mock" \in main[v].holds
             /\ ~H!Exists(tmp[v]) /\ ~tmp[v].deleting /\ tmp[v].phase = "absent"
             /\ ref[v].claim = "main" /\ ref[v].uid = "live"
             /\ rs[v].exists /\ ~rs[v].paused /\ rs[v].source = "main"
             /\ rs[v].trigger = "schedule" /\ rs[v].last = "none"
             /\ rd[v] = "none" /\ mover[v].on = "none" /\ ~dirty[v]
             /\ match[v]["main"] /\ match[v]["tmp"]
  BY SourceTypes DEF Init, H!Init, H!Absent, H!Exists, H!Finalizers, H!Kinds
<1>3. CycleInv /\ ProcInv /\ PassInv
  BY <1>1 DEF CycleInv, ProcInv, PassInv
<1>4. ASSUME NEW v \in Volumes PROVE ClaimInv(v) /\ SourceInv(v)
  BY <1>1, <1>2 DEF ClaimInv, SourceInv, Leaving
<1>5. RestInv /\ ServingInv /\ SettledInv /\ PauseInv
  BY <1>1, <1>2 DEF RestInv, Returning, Leaving, ServingInv, SettledInv, PauseInv
<1>6. MatchInv
  BY <1>2 DEF MatchInv
<1>7. TakenInv /\ ClearedInv /\ SelectorInv
  BY <1>1 DEF TakenInv, ClearedInv, SelectorInv, Init, NoPass
<1>8. QED
  BY <1>3, <1>4, <1>5, <1>6, <1>7 DEF RelocationInv

\* Every step preserves the whole.
LEMMA InvStep == Careful /\ TypeOK /\ RelocationInv /\ [Next]_vars => RelocationInv'
<1> SUFFICES ASSUME Careful, TypeOK, RelocationInv, [Next]_vars PROVE RelocationInv'
  OBVIOUS
<1>1. CycleInv' /\ \A v \in Volumes : ClaimInv(v)' /\ SourceInv(v)'
  BY CycleStep, ClaimStep, SourceStep
<1>2. RestInv' /\ ServingInv' /\ SettledInv' /\ ProcInv' /\ PauseInv'
  BY RestStep, ServingStep, SettledStep, ProcStep, PauseStep
<1>3. PassInv' /\ TakenInv' /\ ClearedInv' /\ MatchInv' /\ SelectorInv'
  BY PassInvStep, TakenStep, ClearedStep, MatchStep, SelectorStep
<1>4. QED
  BY <1>1, <1>2, <1>3 DEF RelocationInv

\* The invariant of a careful world.
LEMMA Invariance == ASSUME Careful PROVE Spec => [](TypeOK /\ RelocationInv)
<1>1. Init => TypeOK /\ RelocationInv
  BY TypeInit, InvInit
<1>2. TypeOK /\ RelocationInv /\ [Next]_vars => (TypeOK /\ RelocationInv)'
  BY TypeStep, InvStep
<1>3. QED
  BY <1>1, <1>2, PTL DEF Spec
-----------------------------------------------------------------------------
(* The safety properties *)

\* A volume becomes a destination only after every write of every application of
\* the group has been copied: the demotion starts only when all final syncs are
\* complete (checkAllFinalSyncsComplete), and a completed one covers every write.
THEOREM Synced == Careful => (Spec => []SyncedBeforeDemotion)
<1>1. TypeOK /\ RelocationInv => SyncedBeforeDemotion
  <2> SUFFICES ASSUME TypeOK, RelocationInv, NEW u \in Volumes, rd[u] # "none", NEW v \in Volumes
               PROVE  ~app[v] /\ ~dirty[v]
    BY DEF SyncedBeforeDemotion
  <2>1. Returning(u)
    BY DEF Returning
  <2>2. CASE vgr.status = "primary"
    BY <2>1, <2>2, Facts DEF AllRest
  <2>3. CASE vgr.status = "secondary"
    BY <2>3 DEF RelocationInv, RestInv
  <2>4. QED
    BY <2>2, <2>3, Sorts
<1> SUFFICES ASSUME Careful PROVE Spec => []SyncedBeforeDemotion
  OBVIOUS
<1>2. QED
  BY <1>1, Invariance, PTL

\* When a secondary pass demotes behind the gate of the final syncs, nothing is
\* left to copy: a complete final sync is never that of an earlier relocation.
THEOREM Complete == Careful => (Spec => []CompleteMeansSynced)
<1>1. TypeOK /\ RelocationInv => CompleteMeansSynced
  <2> SUFFICES ASSUME TypeOK, RelocationInv, pass.gate, pass.at = "demote",
                      NEW v \in Volumes
               PROVE  ~dirty[v]
    BY DEF CompleteMeansSynced
  <2>1. vgr.status = "primary"
    BY DEF RelocationInv, CycleInv
  <2>2. QED
    BY <2>1 DEF RelocationInv, RestInv, AllRest
<1> SUFFICES ASSUME Careful PROVE Spec => []CompleteMeansSynced
  OBVIOUS
<1>2. QED
  BY <1>1, Invariance, PTL

\* A final sync copies a volume that nobody writes any more: the temporary claim is
\* used only once the application's has been let go of.
THEOREM AtRest == Careful => (Spec => []FinalSyncAtRest)
<1>1. RelocationInv => FinalSyncAtRest
  BY DEF RelocationInv, SourceInv, FinalSyncAtRest
<1> SUFFICES ASSUME Careful PROVE Spec => []FinalSyncAtRest
  OBVIOUS
<1>2. QED
  BY <1>1, Invariance, PTL

\* Restoring strips the finalizers of a claim being deleted only when its volume is
\* parked, its application is stopped and its last write is copied: between the two
\* writes of RestorePVCFromTemporary the claim is all that holds the volume.
THEOREM LetGo == Careful => (Spec => []LetGoSafely)
<1>1. TypeOK /\ RelocationInv => LetGoSafely
  <2> SUFFICES ASSUME TypeOK, RelocationInv, op.pc = "clearMain" PROVE
                 ~InUse(op.vol) /\ ~dirty[op.vol] /\ ref[op.vol].claim = "tmp"
    BY DEF LetGoSafely
  <2>1. op.vol \in Volumes
    BY ClaimTypes
  <2>2. ref[op.vol].claim = "tmp" /\ pass.at = "restore"
    BY DEF RelocationInv, ProcInv
  <2>3. AllRest
    BY <2>1, <2>2, Facts DEF RelocationInv, RestInv, Leaving
  <2>4. QED
    BY <2>1, <2>2, <2>3, Facts DEF AllRest, InUse
<1> SUFFICES ASSUME Careful PROVE Spec => []LetGoSafely
  OBVIOUS
<1>2. QED
  BY <1>1, Invariance, PTL

\* State secondary is reported only when every volume of the group is a destination
\* whose claim exists, owns its PV and carries the finalizer for the way back.
THEOREM SettledWhenSecondary == Careful => (Spec => []SecondarySettled)
<1>1. TypeOK /\ RelocationInv => SecondarySettled
  <2> SUFFICES ASSUME TypeOK, RelocationInv, vgr.spec = "secondary", vgr.status = "secondary",
                      NEW v \in Volumes
               PROVE  /\ H!Exists(main[v]) /\ ~main[v].deleting /\ "mock" \in main[v].holds
                      /\ ref[v].claim = "main" /\ ref[v].uid # "gone"
                      /\ rd[v] = "ready" /\ ~rs[v].exists
    BY DEF SecondarySettled
  <2>1. Settled(v) /\ ClaimInv(v)
    BY DEF RelocationInv, SettledInv
  <2>2. ref[v].claim = "main"
    BY <2>1, ClaimTypes DEF ClaimInv, Leaving
  <2>3. QED
    BY <2>1, <2>2 DEF ClaimInv, Settled
<1> SUFFICES ASSUME Careful PROVE Spec => []SecondarySettled
  OBVIOUS
<1>2. QED
  BY <1>1, Invariance, PTL

\* When a primary pass reports state primary, every volume of the group has a source of
\* the application's claim, which is not paused if no other group is there to pause it
\* and the VRGs can always be listed (primary_reconciler.go:200, 231).
THEOREM Reported == Careful => (Spec => []ReportedReplicating)
<1>1. TypeOK /\ RelocationInv => ReportedReplicating
  <2> SUFFICES ASSUME TypeOK, RelocationInv, pass.at = "protect", pass.todo = {}, NEW v \in Volumes
               PROVE  rs[v].exists /\ rs[v].source = "main" /\ (Undisturbed => ~rs[v].paused)
    BY DEF ReportedReplicating
  <2>1. rs[v].exists /\ rs[v].trigger = "schedule"
    BY DEF RelocationInv, PassInv
  <2>2. rs[v].source = "main"
    BY <2>1, Sorts DEF RelocationInv, SourceInv
  <2>3. Undisturbed => ~rs[v].paused
    BY DEF RelocationInv, PauseInv
  <2>4. QED
    BY <2>1, <2>2, <2>3
<1> SUFFICES ASSUME Careful PROVE Spec => []ReportedReplicating
  OBVIOUS
<1>2. QED
  BY <1>1, Invariance, PTL
-----------------------------------------------------------------------------
(* The passes implement VolumeCustody *)

\* What changes for one volume changes in the maps of VolumeCustody for that volume.
LEMMA CustodyAt ==
    ASSUME NEW v \in Volumes, Elsewhere(v)
    PROVE  /\ ref'[v].claim = ref[v].claim =>
                UNCHANGED [w \in Volumes |-> ref[w].claim]
           /\ main'[v].deleting = main[v].deleting =>
                UNCHANGED [w \in Volumes |-> main[w].deleting]
           /\ [w \in Volumes |-> ref'[w].claim] =
                [[w \in Volumes |-> ref[w].claim] EXCEPT ![v] = ref'[v].claim]
           /\ [w \in Volumes |-> main'[w].deleting] =
                [[w \in Volumes |-> main[w].deleting] EXCEPT ![v] = main'[v].deleting]
  BY DEF Elsewhere

\* Every step of a relocation is one of VolumeCustody, or leaves custody alone:
\* parking is the PV update of the final sync, vacating the loss of the finalizers,
\* the return the PV update of the restore, retiring the user's deletion.
LEMMA CustodyStep ==
    Careful /\ TypeOK /\ RelocationInv /\ [Next]_vars => [H!Custody!Next]_(H!Custody!custodyVars)
<1> SUFFICES ASSUME Careful, TypeOK, RelocationInv, [Next]_vars
             PROVE  [H!Custody!Next]_(H!Custody!custodyVars)
  OBVIOUS
<1>t. /\ \A w \in Volumes : main[w].deleting \in BOOLEAN /\ main'[w].deleting \in BOOLEAN
  BY TypeStep, ClaimTypes DEF TypeOK, H!TypeOK, H!Claims
<1>1. CASE UNCHANGED <<main, ref>>
  BY <1>1 DEF H!Custody!custodyVars
<1>2. ASSUME NEW v \in Volumes, Elsewhere(v),
             ref'[v].claim = ref[v].claim, main'[v].deleting = main[v].deleting
      PROVE  UNCHANGED H!Custody!custodyVars
  BY <1>2, CustodyAt DEF H!Custody!custodyVars
<1>3. ASSUME NEW v \in Volumes, Moves(v) PROVE H!Custody!Next \/ UNCHANGED H!Custody!custodyVars
  <2>1. main[v].deleting /\ main'[v].deleting = main[v].deleting /\ Elsewhere(v) /\ ref'[v].claim = "tmp"
    BY <1>3 DEF Moves, RelocationInv, ProcInv
  <2>2. CASE ref[v].claim = "tmp"
    BY <1>2, <2>1, <2>2
  <2>3. CASE ref[v].claim = "main"
    <3>1. H!Custody!Park(v)
      BY <2>1, <2>3, CustodyAt DEF H!Custody!Park
    <3>2. QED
      BY <3>1 DEF H!Custody!Next
  <2>4. QED
    BY <2>2, <2>3, ClaimTypes DEF RelocationInv, ClaimInv
<1>4. ASSUME NEW v \in Volumes, Vanishes(v) PROVE H!Custody!Next \/ UNCHANGED H!Custody!custodyVars
  <2>1. ref[v].claim = "tmp" /\ ref'[v].claim = ref[v].claim /\ Elsewhere(v) /\ main'[v].deleting = FALSE
    BY <1>4 DEF Vanishes, RelocationInv, ProcInv, H!Absent
  <2>2. CASE main[v].deleting
    <3>1. H!Custody!Vacate(v)
      BY <2>1, <2>2, CustodyAt DEF H!Custody!Vacate
    <3>2. QED
      BY <3>1 DEF H!Custody!Next
  <2>3. CASE ~main[v].deleting
    BY <1>t, <1>2, <2>1, <2>3
  <2>4. QED
    BY <2>2, <2>3
<1>5. ASSUME NEW v \in Volumes, Returns(v) PROVE H!Custody!Next \/ UNCHANGED H!Custody!custodyVars
  <2>1. /\ ~main[v].deleting /\ main'[v].deleting = main[v].deleting
        /\ Elsewhere(v) /\ ref'[v].claim = "main"
    BY <1>5 DEF Returns, RelocationInv, ProcInv
  <2>2. CASE ref[v].claim = "main"
    BY <1>2, <2>1, <2>2
  <2>3. CASE ref[v].claim = "tmp"
    <3>1. H!Custody!Return(v)
      BY <2>1, <2>3, CustodyAt DEF H!Custody!Return
    <3>2. QED
      BY <3>1 DEF H!Custody!Next
  <2>4. QED
    BY <2>2, <2>3, ClaimTypes DEF RelocationInv, ClaimInv
<1>6. ASSUME NEW v \in Volumes, Deletes(v) PROVE H!Custody!Next
  <2>1. /\ ~main[v].deleting /\ main'[v].deleting = TRUE /\ Elsewhere(v)
        /\ ref[v].claim = "main" /\ ref'[v].claim = ref[v].claim
    BY <1>t, <1>6 DEF Deletes, H!InService
  <2>2. H!Custody!Retire(v)
    BY <2>1, CustodyAt DEF H!Custody!Retire
  <2>3. QED
    BY <2>2 DEF H!Custody!Next
<1>7. ASSUME NEW v \in Volumes, Guards(v) \/ Rebinds(v) \/ Parks(v) \/ Drops(v) \/ Loosens(v) \/ Withers(v)
      PROVE  UNCHANGED H!Custody!custodyVars
  <2>1. Elsewhere(v)
    BY <1>7 DEF Guards, Rebinds, Parks, Drops, Loosens, Withers
  <2>2. ref'[v].claim = ref[v].claim
    <3>1. ~Withers(v) \/ ref[v].claim # "tmp"
      BY DEF Withers, RelocationInv, ClaimInv
    <3>2. QED
      BY <1>7, <3>1 DEF Guards, Rebinds, Parks, Drops, Loosens, Withers
  <2>3. main'[v].deleting = main[v].deleting
    BY <1>t, <1>7 DEF Guards, Rebinds, SameClaim, Parks, Drops, Loosens, Withers
  <2>4. QED
    BY <1>2, <2>1, <2>2, <2>3
<1>8. ASSUME NEW v \in Volumes, Recreates(v) PROVE UNCHANGED H!Custody!custodyVars
  BY <1>t, <1>2, <1>8 DEF Recreates
<1>9. ASSUME ClaimMove PROVE [H!Custody!Next]_(H!Custody!custodyVars)
  BY <1>1, <1>3, <1>4, <1>5, <1>6, <1>7, <1>8, <1>9 DEF ClaimMove, Waits
<1>10. QED
  BY <1>1, <1>9, StepKinds

\* Relocations implement VolumeCustody, whatever writes of the passes and of the
\* handover fail.  PVCHandover alone needs the PV update after the creation of the
\* temporary claim not to fail; within a relocation the source stays there to make
\* the next final sync try it again.
THEOREM Custody == Careful => (Spec => CustodyKept)
<1>1. Init => H!Custody!Init
  BY DEF Init, H!Init, H!Custody!Init
<1> SUFFICES ASSUME Careful PROVE Spec => CustodyKept
  OBVIOUS
<1>2. TypeOK /\ RelocationInv /\ [Next]_vars => [H!Custody!Next]_(H!Custody!custodyVars)
  BY CustodyStep
<1>3. QED
  BY <1>1, <1>2, Invariance, PTL DEF Spec, CustodyKept, H!CustodySpec, H!Custody!Spec
=============================================================================
