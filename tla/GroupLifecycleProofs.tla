------------------------ MODULE GroupLifecycleProofs ------------------------
(***************************************************************************)
(* Proofs about GroupLifecycle, for any clusters, groups, claims and       *)
(* bounds: the types, what the passes may rely on, what a VGR that has     *)
(* gone leaves behind, and that its finalizer keeps GroupPromise.          *)
(***************************************************************************)
EXTENDS GroupLifecycle, TLAPS

-----------------------------------------------------------------------------
(* Type correctness *)

LEMMA TypeInit == Init => TypeOK
  BY LifecycleAssumption
     DEF Init, TypeOK, VGRs, NoVGR, PVCs, Volumes, Passes, Idle, Owners, Kinds,
         States, Phases, Steps

\* Writes keep the types.
LEMMA TypeOfWrites ==
    ASSUME TypeOK, NEW p \in Claims
    PROVE  /\ \A k \in Kinds, o \in Owners : WriteSync(k, p, o) =>
                /\ sync' \in [Kinds -> [Claims -> Owners]]
                /\ syncSeen' \in [Kinds -> [Claims -> Owners]]
                /\ mishaps' \in 0 .. Mishaps
           /\ \A c \in PVCs : WriteClaim(p, c) =>
                /\ claim' \in [Claims -> PVCs]
                /\ claimSeen' \in [Claims -> PVCs]
                /\ mishaps' \in 0 .. Mishaps
<1> /\ sync \in [Kinds -> [Claims -> Owners]]
    /\ syncSeen \in [Kinds -> [Claims -> Owners]]
    /\ claim \in [Claims -> PVCs]
    /\ claimSeen \in [Claims -> PVCs]
    /\ mishaps \in Nat /\ mishaps <= Mishaps
    /\ Mishaps \in Nat
  BY LifecycleAssumption DEF TypeOK
<1>1. ASSUME NEW k \in Kinds, NEW o \in Owners, WriteSync(k, p, o)
      PROVE  /\ sync' \in [Kinds -> [Claims -> Owners]]
             /\ syncSeen' \in [Kinds -> [Claims -> Owners]]
             /\ mishaps' \in 0 .. Mishaps
  <2>1. [sync EXCEPT ![k][p] = o] \in [Kinds -> [Claims -> Owners]]
    OBVIOUS
  <2>2. [syncSeen EXCEPT ![k][p] = o] \in [Kinds -> [Claims -> Owners]]
    OBVIOUS
  <2>3. mishaps' \in 0 .. Mishaps
    BY <1>1 DEF WriteSync
  <2>4. QED
    BY <1>1, <2>1, <2>2, <2>3 DEF WriteSync
<1>2. ASSUME NEW c \in PVCs, WriteClaim(p, c)
      PROVE  /\ claim' \in [Claims -> PVCs]
             /\ claimSeen' \in [Claims -> PVCs]
             /\ mishaps' \in 0 .. Mishaps
  <2>1. [claim EXCEPT ![p] = c] \in [Claims -> PVCs]
    OBVIOUS
  <2>2. [claimSeen EXCEPT ![p] = c] \in [Claims -> PVCs]
    OBVIOUS
  <2>3. mishaps' \in 0 .. Mishaps
    BY <1>2 DEF WriteClaim
  <2>4. QED
    BY <1>2, <2>1, <2>2, <2>3 DEF WriteClaim
<1>3. QED
  BY <1>1, <1>2

LEMMA TypeOfUpdates ==
    /\ \A c \in PVCs :
          /\ c.at \in Phases /\ c.owner \in Owners /\ c.guard \in Owners
          /\ \A o \in Owners : /\ [c EXCEPT !.owner = o] \in PVCs
                               /\ [c EXCEPT !.guard = o] \in PVCs
          /\ \A a \in Phases : [c EXCEPT !.at = a] \in PVCs
    /\ \A v \in Volumes : [v EXCEPT !.retain = FALSE] \in Volumes
    /\ \A v \in VGRs : /\ v.state \in States /\ v.at \in Phases
                       /\ \A s \in States : [v EXCEPT !.state = s] \in VGRs
                       /\ [v EXCEPT !.fin = TRUE] \in VGRs
                       /\ [v EXCEPT !.at = "deleting"] \in VGRs
    /\ NoVGR \in VGRs
    /\ None \in Owners
    /\ Idle \in Passes
  BY DEF PVCs, Volumes, VGRs, Owners, Phases, States, NoVGR, Idle, Passes, Steps

\* A pass of a group, at one of its steps, with no PVC in hand.
LEMMA TypeOfPasses ==
    \A q \in Passes :
       /\ q.group \in Owners /\ q.as \in States /\ q.step \in Steps
       /\ q.todo \subseteq Claims /\ q.on \in Claims \cup {None}
       /\ \A s \in Steps, p \in Claims :
             /\ [q EXCEPT !.step = s] \in Passes
             /\ [q EXCEPT !.step = s, !.on = p] \in Passes
             /\ [q EXCEPT !.step = s, !.on = None, !.todo = @ \ {p}] \in Passes
       /\ \A s \in Steps, t \in SUBSET Claims :
             [q EXCEPT !.step = s, !.todo = t] \in Passes
<1> SUFFICES ASSUME NEW q \in Passes
             PROVE  /\ q.group \in Owners /\ q.as \in States /\ q.step \in Steps
                    /\ q.todo \subseteq Claims /\ q.on \in Claims \cup {None}
                    /\ \A s \in Steps, p \in Claims :
                         /\ [q EXCEPT !.step = s] \in Passes
                         /\ [q EXCEPT !.step = s, !.on = p] \in Passes
                         /\ [q EXCEPT !.step = s, !.on = None, !.todo = @ \ {p}] \in Passes
                    /\ \A s \in Steps, t \in SUBSET Claims :
                         [q EXCEPT !.step = s, !.todo = t] \in Passes
  OBVIOUS
<1>1. /\ q.group \in Owners /\ q.as \in States /\ q.step \in Steps
      /\ q.todo \subseteq Claims /\ q.on \in Claims \cup {None}
  BY DEF Passes
<1>2. ASSUME NEW s \in Steps, NEW p \in Claims
      PROVE  /\ [q EXCEPT !.step = s] \in Passes
             /\ [q EXCEPT !.step = s, !.on = p] \in Passes
  BY DEF Passes
<1>3. ASSUME NEW s \in Steps, NEW p \in Claims
      PROVE  [q EXCEPT !.step = s, !.on = None, !.todo = @ \ {p}] \in Passes
  <2>1. q.todo \ {p} \in SUBSET Claims
    BY <1>1
  <2>2. QED
    BY <2>1 DEF Passes
<1>4. ASSUME NEW s \in Steps, NEW t \in SUBSET Claims
      PROVE  [q EXCEPT !.step = s, !.todo = t] \in Passes
  BY DEF Passes
<1>5. QED
  BY <1>1, <1>2, <1>3, <1>4

\* Where the worker stands.
PassOK ==
    /\ pass \in Passes
    /\ pass.group = None <=> pass.step = "none"
    /\ pass.on = None <=> pass.step \notin {"label", "sync", "guard", "unguard", "drop"}

LEMMA PassStep ==
    ASSUME PassOK
    PROVE  /\ End => PassOK'
           /\ UNCHANGED pass => PassOK'
           /\ \A p \in Claims :
                 /\ pass.step \in {"next", "guard"} /\ Handled("next", p) => PassOK'
                 /\ pass.step \in {"pvc", "drop"} /\ Handled("pvc", p) => PassOK'
                 /\ pass.step \in Kinds /\ Handled(pass.step, p) => PassOK'
                 /\ \A s \in {"label", "sync", "unguard"} :
                       pass.step # "none" /\ Take(s, p) => PassOK'
           /\ pass.step = "label" /\ Goto("sync") => PassOK'
           /\ pass.step = "sync" /\ Goto("guard") => PassOK'
           /\ pass.step = "unguard" /\ Goto("drop") => PassOK'
<1> USE LifecycleAssumption, TypeOfPasses, TypeOfUpdates
    DEF PassOK, Kinds, Steps
<1>1. End => PassOK'
  <2>1. Idle.group = None /\ Idle.step = "none" /\ Idle.on = None
    BY DEF Idle
  <2>2. QED
    BY <2>1 DEF End
<1>2. UNCHANGED pass => PassOK'
  OBVIOUS
<1>3. ASSUME NEW p \in Claims, NEW s \in Steps \ {"none", "label", "sync", "guard", "unguard", "drop"},
             pass.step # "none", Handled(s, p)
      PROVE  PassOK'
  BY <1>3 DEF Handled, Passes
<1>4. ASSUME NEW p \in Claims, NEW s \in {"label", "sync", "unguard"},
             pass.step # "none", Take(s, p)
      PROVE  PassOK'
  BY <1>4 DEF Take, Passes
<1>5. ASSUME NEW s \in {"sync", "guard", "drop"},
             pass.step \in {"label", "sync", "unguard"}, Goto(s)
      PROVE  PassOK'
  BY <1>5 DEF Goto, Passes
<1>6. QED
  BY <1>1, <1>2, <1>3, <1>4, <1>5

\* The types of all but the pass.
DataOK ==
    /\ class \in BOOLEAN
    /\ vgr \in [Groups -> VGRs]
    /\ sync \in [Kinds -> [Claims -> Owners]]
    /\ claim \in [Claims -> PVCs]
    /\ volume \in [Claims -> Volumes]
    /\ chosen \subseteq Groups \X Claims
    /\ syncSeen \in [Kinds -> [Claims -> Owners]]
    /\ claimSeen \in [Claims -> PVCs]
    /\ mishaps \in 0 .. Mishaps
    /\ missed \subseteq (Kinds \cup {"both", "pvc"}) \X Claims

LEMMA TypeStep == TypeOK /\ [Next]_vars => TypeOK'
<1> SUFFICES ASSUME TypeOK, [Next]_vars PROVE TypeOK'
  OBVIOUS
<1>p. PassOK
  BY DEF TypeOK, PassOK
<1>d. DataOK
  BY DEF TypeOK, DataOK
<1>m. mishaps \in Nat /\ Mishaps \in Nat /\ acts \in Nat /\ Acts \in Nat
  BY LifecycleAssumption DEF TypeOK
<1> SUFFICES PassOK' /\ DataOK' /\ site' \in Sites /\ acts' \in 0 .. Acts
  BY DEF TypeOK, PassOK, DataOK
<1>1. site' \in Sites
  BY DEF TypeOK, Next, vars
<1>2. acts' \in 0 .. Acts
  BY <1>m DEF TypeOK, Next, vars
<1>3. ASSUME NEW g \in Groups, Adopt(g) PROVE PassOK' /\ DataOK'
  <2>1. [vgr[g] EXCEPT !.fin = TRUE] \in VGRs
    BY <1>d, TypeOfUpdates DEF DataOK
  <2>2. vgr' = [vgr EXCEPT ![g] = [vgr[g] EXCEPT !.fin = TRUE]]
    BY <1>3 DEF Adopt
  <2>3. QED
    BY <1>3, <1>p, <1>d, <2>1, <2>2, PassStep DEF Adopt, seen, DataOK
<1>4. ASSUME NEW g \in Groups, StartReconcile(g) PROVE PassOK' /\ DataOK'
  <2>1. DataOK'
    BY <1>4, <1>d DEF StartReconcile, stored, seen, DataOK
  <2>2. PassOK'
    BY <1>4, <1>d, LifecycleAssumption, TypeOfUpdates
       DEF StartReconcile, PassOK, DataOK, Passes, Idle, Steps, Selected, Owners
  <2>3. QED
    BY <2>1, <2>2
<1>5. ASSUME NEW g \in Groups, StartDelete(g) PROVE PassOK' /\ DataOK'
  <2>1. missed' \subseteq (Kinds \cup {"both", "pvc"}) \X Claims
    BY <1>5, <1>d DEF StartDelete, Overlooked, DataOK, Kinds
  <2>2. DataOK'
    BY <1>5, <1>d, <2>1 DEF StartDelete, stored, seen, DataOK
  <2>3. PassOK'
    BY <1>5, <1>d, LifecycleAssumption, TypeOfUpdates
       DEF StartDelete, PassOK, DataOK, Passes, Idle, Steps, SyncsOf, Owners, Kinds
  <2>4. QED
    BY <2>2, <2>3
<1>6. ASSUME NEW p \in Claims, Skip(p) PROVE PassOK' /\ DataOK'
  BY <1>6, <1>p, <1>d, PassStep DEF Skip, stored, seen, DataOK
<1>7. ASSUME NEW p \in Claims, Park(p) PROVE PassOK' /\ DataOK'
  <2>1. /\ claim' \in [Claims -> PVCs] /\ claimSeen' \in [Claims -> PVCs]
        /\ mishaps' \in 0 .. Mishaps
    BY <1>7, <1>d, TypeOfWrites, TypeOfUpdates DEF Park, ClaimsKept, DataOK
  <2>2. volume' \in [Claims -> Volumes]
    BY <1>7, <1>d DEF Park, DataOK, Volumes
  <2>3. QED
    BY <1>7, <1>p, <1>d, <2>1, <2>2, PassStep DEF Park, SyncsKept, DataOK
<1>8. ASSUME NEW p \in Claims, ClearOther(p) PROVE PassOK' /\ DataOK'
  <2>1. /\ sync' \in [Kinds -> [Claims -> Owners]]
        /\ syncSeen' \in [Kinds -> [Claims -> Owners]]
        /\ mishaps' \in 0 .. Mishaps
    BY <1>8, <1>d, TypeOfWrites, TypeOfUpdates
       DEF ClearOther, SyncsKept, DataOK, Removes, Kinds
  <2>2. missed' \subseteq (Kinds \cup {"both", "pvc"}) \X Claims
    BY <1>8, <1>d DEF ClearOther, DataOK
  <2>3. PassOK'
    BY <1>8, <1>p, PassStep DEF ClearOther
  <2>4. QED
    BY <1>8, <1>d, <2>1, <2>2, <2>3 DEF ClearOther, ClaimsKept, DataOK
<1>9. ASSUME NEW p \in Claims, Label(p) PROVE PassOK' /\ DataOK'
  <2>1. pass.group \in Owners
    BY <1>p, TypeOfPasses DEF PassOK
  <2>2. /\ claim' \in [Claims -> PVCs] /\ claimSeen' \in [Claims -> PVCs]
        /\ mishaps' \in 0 .. Mishaps
    BY <1>9, <1>d, <2>1, TypeOfWrites, TypeOfUpdates DEF Label, ClaimsKept, DataOK
  <2>3. QED
    BY <1>9, <1>p, <1>d, <2>2, PassStep DEF Label, SyncsKept, DataOK
<1>10. ASSUME NEW p \in Claims, MakeSync(p) PROVE PassOK' /\ DataOK'
  <2>1. pass.group \in Owners
    BY <1>p, TypeOfPasses DEF PassOK
  <2>2. /\ sync' \in [Kinds -> [Claims -> Owners]]
        /\ syncSeen' \in [Kinds -> [Claims -> Owners]]
        /\ mishaps' \in 0 .. Mishaps
    BY <1>10, <1>d, <2>1, TypeOfWrites DEF MakeSync, SyncsKept, DataOK, Makes, Kinds
  <2>3. missed' \subseteq (Kinds \cup {"both", "pvc"}) \X Claims
    BY <1>10, <1>d DEF MakeSync, DataOK
  <2>4. PassOK'
    BY <1>10, <1>p, PassStep DEF MakeSync
  <2>5. QED
    BY <1>10, <1>d, <2>2, <2>3, <2>4 DEF MakeSync, ClaimsKept, DataOK
<1>11. ASSUME NEW p \in Claims, Guard(p) PROVE PassOK' /\ DataOK'
  <2>1. pass.group \in Owners
    BY <1>p, TypeOfPasses DEF PassOK
  <2>2. /\ claim' \in [Claims -> PVCs] /\ claimSeen' \in [Claims -> PVCs]
        /\ mishaps' \in 0 .. Mishaps
    BY <1>11, <1>d, <2>1, TypeOfWrites, TypeOfUpdates DEF Guard, ClaimsKept, DataOK
  <2>3. missed' \subseteq (Kinds \cup {"both", "pvc"}) \X Claims
    BY <1>11, <1>d DEF Guard, DataOK
  <2>4. PassOK'
    BY <1>11, <1>p, PassStep DEF Guard
  <2>5. QED
    BY <1>11, <1>d, <2>2, <2>3, <2>4 DEF Guard, SyncsKept, DataOK
<1>12. ASSUME EndReconcile PROVE PassOK' /\ DataOK'
  BY <1>12, <1>p, <1>d, PassStep DEF EndReconcile, stored, seen, DataOK
<1>13. ASSUME NEW p \in Claims, DeleteSync(p) PROVE PassOK' /\ DataOK'
  <2>1. /\ sync' \in [Kinds -> [Claims -> Owners]]
        /\ syncSeen' \in [Kinds -> [Claims -> Owners]]
        /\ mishaps' \in 0 .. Mishaps
    BY <1>13, <1>d, TypeOfWrites, TypeOfUpdates DEF DeleteSync, DataOK
  <2>2. PassOK'
    BY <1>13, <1>p, PassStep DEF DeleteSync
  <2>3. QED
    BY <1>13, <1>d, <2>1, <2>2 DEF DeleteSync, ClaimsKept, DataOK
<1>14. ASSUME ListDestinations PROVE PassOK' /\ DataOK'
  <2>1. missed' \subseteq (Kinds \cup {"both", "pvc"}) \X Claims
    BY <1>14, <1>d DEF ListDestinations, Overlooked, DataOK, Kinds
  <2>2. PassOK'
    BY <1>14, <1>p, LifecycleAssumption
       DEF ListDestinations, PassOK, Passes, Steps, Kinds, SyncsOf
  <2>3. QED
    BY <1>14, <1>d, <2>1, <2>2 DEF ListDestinations, stored, seen, DataOK
<1>15. ASSUME ListClaims PROVE PassOK' /\ DataOK'
  <2>1. PassOK'
    BY <1>15, <1>p, LifecycleAssumption
       DEF ListClaims, PassOK, Passes, Steps, Kinds, ClaimsOf
  <2>2. QED
    BY <1>15, <1>d, <2>1 DEF ListClaims, stored, seen, DataOK
<1>16. ASSUME NEW p \in Claims, Doom(p) PROVE PassOK' /\ DataOK'
  <2>1. volume' \in [Claims -> Volumes]
    BY <1>16, <1>d, TypeOfUpdates DEF Doom, DataOK
  <2>2. QED
    BY <1>16, <1>p, <1>d, <2>1, PassStep DEF Doom, seen, DataOK
<1>17. ASSUME NEW p \in Claims, Unguard(p)
       PROVE  /\ claim' \in [Claims -> PVCs] /\ claimSeen' \in [Claims -> PVCs]
              /\ mishaps' \in 0 .. Mishaps
              /\ missed' \subseteq (Kinds \cup {"both", "pvc"}) \X Claims
  <2>1. [claim[p] EXCEPT !.guard = None] \in PVCs
    BY <1>d, TypeOfUpdates DEF DataOK
  <2>2. CASE claimSeen[p].guard = None
    BY <1>17, <1>d, <2>2 DEF Unguard, ClaimsKept, DataOK
  <2>3. CASE claimSeen[p].guard # None
    BY <1>17, <1>d, <2>1, <2>3, TypeOfWrites DEF Unguard, DataOK
  <2>4. QED
    BY <2>2, <2>3
<1>18. ASSUME NEW p \in Claims, UnguardRefused(p) PROVE mishaps' \in 0 .. Mishaps
  BY <1>18, <1>m, <1>d DEF UnguardRefused, DataOK
<1>19. ASSUME NEW p \in Claims, Release(p) \/ ReleaseDoomed(p) PROVE PassOK' /\ DataOK'
  BY <1>19, <1>17, <1>p, <1>d, PassStep DEF Release, ReleaseDoomed, SyncsKept, DataOK
<1>20. ASSUME NEW p \in Claims, ReleaseRefused(p) \/ IgnoreRefusal(p)
       PROVE  PassOK' /\ DataOK'
  BY <1>20, <1>18, <1>p, <1>d, PassStep
     DEF ReleaseRefused, IgnoreRefusal, stored, seen, DataOK
<1>21. ASSUME NEW p \in Claims, Drop(p) PROVE PassOK' /\ DataOK'
  <2>1. [claim[p] EXCEPT !.at = "deleting"] \in PVCs
    BY <1>d, TypeOfUpdates DEF DataOK, Phases
  <2>2. /\ claim' \in [Claims -> PVCs] /\ claimSeen' \in [Claims -> PVCs]
        /\ mishaps' \in 0 .. Mishaps
    BY <1>21, <1>d, <2>1, TypeOfWrites DEF Drop, ClaimsKept, DataOK
  <2>3. QED
    BY <1>21, <1>p, <1>d, <2>2, PassStep DEF Drop, SyncsKept, DataOK
<1>22. ASSUME Finish PROVE PassOK' /\ DataOK'
  BY <1>22, <1>p, <1>d, PassStep, TypeOfUpdates DEF Finish, seen, DataOK
<1>23. ASSUME FailDelete PROVE PassOK' /\ DataOK'
  BY <1>23, <1>p, <1>d, <1>m, PassStep DEF FailDelete, stored, seen, DataOK
<1>24. ASSUME NEW g \in Groups, NEW s \in States, CreateVGR(g, s) PROVE PassOK' /\ DataOK'
  BY <1>24, <1>p, <1>d, PassStep DEF CreateVGR, seen, DataOK, VGRs, Phases
<1>25. ASSUME NEW g \in Groups, NEW s \in States, SetState(g, s) PROVE PassOK' /\ DataOK'
  <2>1. [vgr[g] EXCEPT !.state = s] \in VGRs
    BY <1>d, TypeOfUpdates DEF DataOK
  <2>2. vgr' = [vgr EXCEPT ![g] = [vgr[g] EXCEPT !.state = s]]
    BY <1>25 DEF SetState
  <2>3. mishaps' \in 0 .. Mishaps
    BY <1>25, <1>d, <1>m DEF SetState, DataOK
  <2>4. PassOK'
    BY <1>25, <1>p, LifecycleAssumption DEF SetState, PassOK, Passes
  <2>5. QED
    BY <1>25, <1>d, <2>1, <2>2, <2>3, <2>4 DEF SetState, seen, DataOK
<1>26. ASSUME NEW g \in Groups, DeleteVGR(g) PROVE PassOK' /\ DataOK'
  BY <1>26, <1>p, <1>d, PassStep, TypeOfUpdates DEF DeleteVGR, seen, DataOK
<1>27. ASSUME NEW p \in Claims, Unlabel(p) PROVE PassOK' /\ DataOK'
  BY <1>27, <1>p, <1>d, PassStep DEF Unlabel, stored, seen, DataOK
<1>28. ASSUME NEW p \in Claims, DeletePVC(p) PROVE PassOK' /\ DataOK'
  <2>1. [claim[p] EXCEPT !.at = "deleting"] \in PVCs
    BY <1>d, TypeOfUpdates DEF DataOK, Phases
  <2>2. QED
    BY <1>28, <1>p, <1>d, <2>1, PassStep, TypeOfWrites DEF DeletePVC, SyncsKept, DataOK
<1>29. ASSUME SetClass PROVE PassOK' /\ DataOK'
  BY <1>29, <1>p, <1>d, PassStep DEF SetClass, stored, seen, DataOK
<1>30. ASSUME NEW p \in Claims, Vanish(p) PROVE PassOK' /\ DataOK'
  <2>1. [claim[p] EXCEPT !.at = "absent"] \in PVCs
    BY <1>d, TypeOfUpdates DEF DataOK, Phases
  <2>2. volume' \in [Claims -> Volumes]
    BY <1>30, <1>d DEF Vanish, DataOK, Volumes
  <2>3. QED
    BY <1>30, <1>p, <1>d, <2>1, <2>2, PassStep, TypeOfWrites DEF Vanish, SyncsKept, DataOK
<1>31. ASSUME NEW p \in Claims, Reclaim(p) PROVE PassOK' /\ DataOK'
  <2>1. volume' \in [Claims -> Volumes]
    BY <1>31, <1>d DEF Reclaim, DataOK, Volumes
  <2>2. QED
    BY <1>31, <1>p, <1>d, <2>1, PassStep DEF Reclaim, seen, DataOK
<1>32. ASSUME CatchUp PROVE PassOK' /\ DataOK'
  BY <1>32, <1>p, <1>d, PassStep DEF CatchUp, stored, DataOK
<1>33. ASSUME UNCHANGED vars PROVE PassOK' /\ DataOK'
  BY <1>33, <1>p, <1>d, PassStep DEF vars, stored, seen, DataOK
<1>34. QED
  BY <1>1, <1>2, <1>3, <1>4, <1>5, <1>6, <1>7, <1>8, <1>9, <1>10, <1>11, <1>12, <1>13,
     <1>14, <1>15, <1>16, <1>19, <1>20, <1>21, <1>22, <1>23, <1>24, <1>25, <1>26,
     <1>27, <1>28, <1>29, <1>30, <1>31, <1>32, <1>33
     DEF Next, Start, WorkerStep, ReconcileStep, DeleteStep, UserAct, Kubernetes

\* TypeOK is invariant, for any groups, claims, sites and bounds (the worker of
\* controller.go:58-123 always has a PVC in hand where a step needs one).
THEOREM TypeCorrect == Spec => []TypeOK
<1>1. Init => TypeOK
  BY TypeInit
<1>2. TypeOK /\ [Next]_vars => TypeOK'
  BY TypeStep
<1>3. QED
  BY <1>1, <1>2, PTL DEF Spec

-----------------------------------------------------------------------------
(* The inductive invariant *)

\* A VGR that is being deleted carries the finalizer, one that has gone does not.
Finalized ==
    \A g \in Groups :
        /\ vgr[g].at = "absent" => ~vgr[g].fin
        /\ vgr[g].at = "deleting" => vgr[g].fin

\* A pass works for a VGR with the finalizer, and DeleteReconciler for one that is
\* being deleted, in the state it read unless that was changed since.
PassSound ==
    /\ Reconciling => vgr[pass.group].fin
    /\ Deleting => /\ vgr[pass.group].at = "deleting"
                   /\ pass.stale \/ vgr[pass.group].state = pass.as
    /\ pass.on # None => pass.on \in pass.todo
    /\ pass.step = "label" => pass.as = "primary"

\* The owner label may name another VGR in time, but always one of the same name:
\* only passes that list by it write it.
Labelled ==
    \A p \in Claims, g \in Groups :
        /\ Named(claim[p].owner, g) <=> Named(site.owner[p], g)
        /\ Named(claimSeen[p].owner, g) <=> Named(site.owner[p], g)

Listing ==
    \/ Reconciling /\ pass.as = "primary"
    \/ pass.step \in {"pvc", "unguard", "drop"}

Listed == Listing => \A p \in pass.todo : Named(site.owner[p], pass.group)

\* The cache shows every PVC that lives; one that has gone is not guarded.
Alive ==
    \A p \in Claims :
        /\ claim[p].at = "live" => claimSeen[p].at = "live"
        /\ claim[p].at = "absent" => claim[p].guard = None

\* g holds it and its deletion can know.
Owed(g, k, p) == Holds(g, k, p) /\ <<k, p>> \notin missed

Kept ==
    \A g \in Groups, k \in Kinds \cup {"pvc"}, p \in Claims :
        Owed(g, k, p) => vgr[g].fin

\* What DeleteReconciler has not taken back is still to be handled.
Progress ==
    Deleting => \A p \in Claims :
        /\ Owed(pass.group, "rs", p) => pass.step = "rs" /\ p \in pass.todo
        /\ Owed(pass.group, "rd", p) =>
             pass.step \in Kinds /\ (pass.step = "rd" => p \in pass.todo)
        /\ Owed(pass.group, "pvc", p) => pass.step \in Kinds \/ p \in pass.todo

\* From the removal of the object of the other direction to the making of this one.
Cleared ==
    pass.step \in {"label", "sync"} =>
        sync[Removes][pass.on] = None \/ <<"both", pass.on>> \in missed

PassInv == Finalized /\ PassSound /\ Labelled /\ Listed /\ Alive

LEMMA PassInvInit == Init => PassInv
<1> SUFFICES ASSUME Init PROVE PassInv
  OBVIOUS
<1>1. pass = Idle /\ Idle.step = "none" /\ Idle.on = None
  BY DEF Init, Idle
<1>2. Finalized
  <2>1. PICK s \in [Groups -> States] :
           vgr = [g \in Groups |-> IF g \in site.groups
                                   THEN [at |-> "live", fin |-> FALSE, state |-> s[g]]
                                   ELSE NoVGR]
    BY DEF Init
  <2>2. ASSUME NEW g \in Groups
        PROVE  ~vgr[g].fin /\ vgr[g].at \in {"live", "absent"}
    BY <2>1 DEF NoVGR
  <2>3. QED
    BY <2>2 DEF Finalized
<1>3. PassSound
  BY <1>1 DEF PassSound, Reconciling, Deleting, Kinds
<1>4. Listed
  BY <1>1 DEF Listed, Listing, Reconciling
<1>5. \A p \in Claims : /\ claim[p].owner = site.owner[p] /\ claim[p].guard = None
                        /\ claimSeen[p] = claim[p]
  BY DEF Init
<1>6. Labelled /\ Alive
  BY <1>5 DEF Labelled, Alive
<1>7. QED
  BY <1>2, <1>3, <1>4, <1>6 DEF PassInv

-----------------------------------------------------------------------------
(* The passes *)

\* The steps of a pass that has begun leave its group and its list, but for the PVC
\* that was handled.
PassGoes(q) ==
    /\ q.group = pass.group /\ q.as = pass.as /\ q.stale = pass.stale
    /\ q.todo \subseteq pass.todo

LEMMA PassGoesOn ==
    ASSUME TypeOK
    PROVE  /\ \A p \in Claims : \A s \in Steps :
                 /\ Handled(s, p) => PassGoes(pass') /\ pass'.step = s /\ pass'.on = None
                                     /\ pass'.todo = pass.todo \ {p}
                 /\ Take(s, p) => PassGoes(pass') /\ pass'.step = s /\ pass'.on = p
                                  /\ pass'.todo = pass.todo
           /\ \A s \in Steps : Goto(s) => PassGoes(pass') /\ pass'.step = s
                                          /\ pass'.on = pass.on /\ pass'.todo = pass.todo
<1>1. pass \in Passes
  BY DEF TypeOK
<1>2. ASSUME NEW p \in Claims, NEW s \in Steps, Handled(s, p)
      PROVE  PassGoes(pass') /\ pass'.step = s /\ pass'.on = None
             /\ pass'.todo = pass.todo \ {p}
  BY <1>1, <1>2 DEF Handled, PassGoes, Passes
<1>3. ASSUME NEW p \in Claims, NEW s \in Steps, Take(s, p)
      PROVE  PassGoes(pass') /\ pass'.step = s /\ pass'.on = p
             /\ pass'.todo = pass.todo
  BY <1>1, <1>3 DEF Take, PassGoes, Passes
<1>4. ASSUME NEW s \in Steps, Goto(s)
      PROVE  PassGoes(pass') /\ pass'.step = s /\ pass'.on = pass.on
             /\ pass'.todo = pass.todo
  BY <1>1, <1>4 DEF Goto, PassGoes, Passes
<1>5. QED
  BY <1>2, <1>3, <1>4

LEMMA IdlePass ==
    /\ Idle.step = "none" /\ Idle.on = None /\ Idle.todo = {} /\ Idle.stale = FALSE
    /\ Idle.group = None
  BY DEF Idle

\* Finalized and PassSound.
LEMMA PassSoundStep ==
    ASSUME TypeOK, Finalized, PassSound, Next PROVE Finalized' /\ PassSound'
<1> DEFINE Sound == Finalized' /\ PassSound'
<1>t. /\ vgr \in [Groups -> VGRs] /\ pass \in Passes /\ PassOK
      /\ pass.group \in Owners
  BY TypeOfPasses DEF TypeOK, PassOK
<1>g. pass.step # "none" => pass.group \in Groups
  BY <1>t DEF PassOK, Owners
<1> USE IdlePass, PassGoesOn
    DEF Finalized, PassSound, Reconciling, Deleting, Kinds, Steps
<1>1. ASSUME NEW g \in Groups, Adopt(g) PROVE Sound
  BY <1>1, <1>t DEF Adopt, VGRs
<1>2. ASSUME NEW g \in Groups, StartReconcile(g) PROVE Sound
  BY <1>2, <1>t DEF StartReconcile, stored, Passes
<1>3. ASSUME NEW g \in Groups, StartDelete(g) PROVE Sound
  BY <1>3, <1>t DEF StartDelete, stored, Passes
<1>4. ASSUME NEW p \in Claims, Skip(p) PROVE Sound
  BY <1>4, <1>t DEF Skip, stored, PassGoes
<1>5. ASSUME NEW p \in Claims, Park(p) PROVE Sound
  BY <1>5, <1>t DEF Park, PassGoes
<1>6. ASSUME NEW p \in Claims, ClearOther(p) PROVE Sound
  BY <1>6, <1>t DEF ClearOther, PassGoes
<1>7. ASSUME NEW p \in Claims, Label(p) PROVE Sound
  BY <1>7, <1>t DEF Label, PassGoes
<1>8. ASSUME NEW p \in Claims, MakeSync(p) PROVE Sound
  BY <1>8, <1>t DEF MakeSync, PassGoes
<1>9. ASSUME NEW p \in Claims, Guard(p) PROVE Sound
  BY <1>9, <1>t DEF Guard, PassGoes
<1>10. ASSUME EndReconcile PROVE Sound
  BY <1>10, <1>t DEF EndReconcile, stored, End
<1>11. ASSUME NEW p \in Claims, DeleteSync(p) PROVE Sound
  BY <1>11, <1>t DEF DeleteSync, PassGoes
<1>12. ASSUME ListDestinations PROVE Sound
  BY <1>12, <1>t DEF ListDestinations, stored, Passes, PassOK
<1>13. ASSUME ListClaims PROVE Sound
  BY <1>13, <1>t DEF ListClaims, stored, Passes, PassOK
<1>14. ASSUME NEW p \in Claims, Doom(p) PROVE Sound
  BY <1>14, <1>t DEF Doom, PassGoes
<1>15. ASSUME NEW p \in Claims, Release(p) PROVE Sound
  BY <1>15, <1>t DEF Release, PassGoes
<1>16. ASSUME NEW p \in Claims, ReleaseDoomed(p) \/ IgnoreRefusal(p) PROVE Sound
  BY <1>16, <1>t DEF ReleaseDoomed, IgnoreRefusal, stored, PassGoes
<1>17. ASSUME NEW p \in Claims, ReleaseRefused(p) PROVE Sound
  BY <1>17, <1>t DEF ReleaseRefused, stored, End
<1>18. ASSUME NEW p \in Claims, Drop(p) PROVE Sound
  BY <1>18, <1>t DEF Drop, PassGoes
<1>19. ASSUME Finish PROVE Sound
  BY <1>19, <1>t, <1>g DEF Finish, End, NoVGR
<1>20. ASSUME FailDelete PROVE Sound
  BY <1>20, <1>t DEF FailDelete, stored, End
<1>21. ASSUME NEW g \in Groups, NEW s \in States, CreateVGR(g, s) PROVE Sound
  BY <1>21, <1>t, <1>g DEF CreateVGR, Gone
<1>22. ASSUME NEW g \in Groups, NEW s \in States, SetState(g, s) PROVE Sound
  BY <1>22, <1>t, <1>g DEF SetState, VGRs, Passes
<1>23. ASSUME NEW g \in Groups, DeleteVGR(g) PROVE Sound
  BY <1>23, <1>t, <1>g DEF DeleteVGR, NoVGR, VGRs
<1>24. ASSUME UNCHANGED <<vgr, pass>> PROVE Sound
  BY <1>24
<1>25. QED
  <2>1. ASSUME NEW p \in Claims, Unlabel(p) \/ DeletePVC(p) \/ Vanish(p) \/ Reclaim(p)
        PROVE  UNCHANGED <<vgr, pass>>
    BY <2>1 DEF Unlabel, DeletePVC, Vanish, Reclaim, stored
  <2>2. ASSUME SetClass \/ CatchUp PROVE UNCHANGED <<vgr, pass>>
    BY <2>2 DEF SetClass, CatchUp, stored
  <2>3. QED
    BY <1>1, <1>2, <1>3, <1>4, <1>5, <1>6, <1>7, <1>8, <1>9, <1>10, <1>11, <1>12, <1>13,
       <1>14, <1>15, <1>16, <1>17, <1>18, <1>19, <1>20, <1>21, <1>22, <1>23, <1>24,
       <2>1, <2>2
       DEF Next, Start, WorkerStep, ReconcileStep, DeleteStep, UserAct, Kubernetes

-----------------------------------------------------------------------------
(* The PVCs *)

\* How a step may change a PVC.
Rewrite(p, c) ==
    \/ c = [claim[p] EXCEPT !.guard = None]
    \/ /\ c = [claim[p] EXCEPT !.owner = pass.group]
       /\ pass.step = "label" /\ p = pass.on /\ claimSeen[p].at # "absent"
       /\ claim[p] = claimSeen[p]
    \/ /\ c = [claim[p] EXCEPT !.guard = pass.group]
       /\ claim[p].at = "live"
       /\ pass.step = "guard" /\ p = pass.on
       /\ claim[p].guard = None
    \/ c = [claim[p] EXCEPT !.at = "deleting"] /\ claim[p].at = "live"
    \/ c = [claim[p] EXCEPT !.at = "absent"] /\ claim[p].guard = None

ClaimChange ==
    \/ UNCHANGED <<claim, claimSeen>>
    \/ claim' = claim /\ claimSeen' = claim
    \/ \E p \in Claims : \E c \in PVCs : WriteClaim(p, c) /\ Rewrite(p, c)

LEMMA ClaimChanges == ASSUME TypeOK, Next PROVE ClaimChange
<1>t. pass.group \in Owners /\ claim \in [Claims -> PVCs]
  BY TypeOfPasses DEF TypeOK
<1>u. \A p \in Claims :
        /\ [claim[p] EXCEPT !.guard = None] \in PVCs
        /\ [claim[p] EXCEPT !.owner = pass.group] \in PVCs
        /\ [claim[p] EXCEPT !.guard = pass.group] \in PVCs
        /\ [claim[p] EXCEPT !.at = "deleting"] \in PVCs
        /\ [claim[p] EXCEPT !.at = "absent"] \in PVCs
  BY <1>t, TypeOfUpdates DEF Phases
<1> DEFINE Same == UNCHANGED <<claim, claimSeen>>
<1>1. ASSUME NEW g \in Groups, Start(g) PROVE Same
  BY <1>1 DEF Start, Adopt, StartReconcile, StartDelete, stored, seen
<1>2. ASSUME NEW p \in Claims, Skip(p) \/ ClearOther(p) \/ MakeSync(p) PROVE Same
  BY <1>2 DEF Skip, ClearOther, MakeSync, stored, seen, ClaimsKept
<1>3. ASSUME NEW p \in Claims, Park(p) PROVE ClaimChange
  BY <1>3, <1>u DEF Park, ClaimsKept, ClaimChange, Rewrite
<1>4. ASSUME NEW p \in Claims, Label(p) PROVE ClaimChange
  BY <1>4, <1>u DEF Label, ClaimsKept, ClaimChange, Rewrite, Current
<1>5. ASSUME NEW p \in Claims, Guard(p) PROVE ClaimChange
  BY <1>5, <1>u DEF Guard, ClaimsKept, ClaimChange, Rewrite, Current
<1>6. ASSUME NEW p \in Claims,
             DeleteSync(p) \/ Doom(p) \/ ReleaseRefused(p) \/ IgnoreRefusal(p)
      PROVE  Same
  BY <1>6 DEF DeleteSync, Doom, ReleaseRefused, IgnoreRefusal, stored, seen, ClaimsKept
<1>7. ASSUME NEW p \in Claims, Release(p) \/ ReleaseDoomed(p) PROVE ClaimChange
  BY <1>7, <1>u DEF Release, ReleaseDoomed, Unguard, ClaimsKept, ClaimChange, Rewrite
<1>8. ASSUME NEW p \in Claims, Drop(p) PROVE ClaimChange
  BY <1>8, <1>u DEF Drop, ClaimsKept, ClaimChange, Rewrite
<1>9. ASSUME EndReconcile \/ ListDestinations \/ ListClaims \/ Finish \/ FailDelete
      PROVE  Same
  BY <1>9 DEF EndReconcile, ListDestinations, ListClaims, Finish, FailDelete, stored, seen
<1>10. ASSUME NEW p \in Claims, DeletePVC(p) PROVE ClaimChange
  BY <1>10, <1>u DEF DeletePVC, ClaimChange, Rewrite
<1>11. ASSUME NEW p \in Claims, Vanish(p) PROVE ClaimChange
  BY <1>11, <1>u DEF Vanish, ClaimChange, Rewrite
<1>12. ASSUME NEW p \in Claims, Unlabel(p) \/ Reclaim(p) PROVE Same
  BY <1>12 DEF Unlabel, Reclaim, stored, seen
<1>13. ASSUME NEW g \in Groups, NEW s \in States,
              CreateVGR(g, s) \/ SetState(g, s) \/ DeleteVGR(g)
       PROVE  Same
  BY <1>13 DEF CreateVGR, SetState, DeleteVGR, seen
<1>14. ASSUME SetClass PROVE Same
  BY <1>14 DEF SetClass, stored, seen
<1>15. ASSUME CatchUp PROVE ClaimChange
  BY <1>15 DEF CatchUp, stored, ClaimChange
<1>16. ASSUME NEW g \in Groups, DeleteVGR(g) PROVE Same
  BY <1>16 DEF DeleteVGR, seen
<1>17. Same => ClaimChange
  BY DEF ClaimChange
<1>18. QED
  BY <1>1, <1>2, <1>3, <1>4, <1>5, <1>6, <1>7, <1>8, <1>9, <1>10, <1>11, <1>12, <1>13,
     <1>14, <1>15, <1>16, <1>17
     DEF Next, WorkerStep, ReconcileStep, DeleteStep, UserAct, Kubernetes

\* Labelled and Alive.
LEMMA ClaimsStep ==
    ASSUME TypeOK, PassInv, Next PROVE Labelled' /\ Alive'
<1> USE DEF PassInv
<1>s. site' = site
  BY DEF Next
<1>t. claim \in [Claims -> PVCs] /\ claimSeen \in [Claims -> PVCs]
  BY DEF TypeOK
<1>1. CASE UNCHANGED <<claim, claimSeen>>
  BY <1>1, <1>s DEF Labelled, Alive, Named
<1>2. CASE claim' = claim /\ claimSeen' = claim
  BY <1>2, <1>s DEF Labelled, Alive, Named
<1>3. ASSUME NEW p \in Claims, NEW c \in PVCs, WriteClaim(p, c), Rewrite(p, c)
      PROVE  Labelled' /\ Alive'
  <2>1. \A g \in Groups : Named(c.owner, g) <=> Named(site.owner[p], g)
    <3>1. CASE c.owner = claim[p].owner
      BY <3>1 DEF Labelled
    <3>2. CASE pass.step = "label" /\ p = pass.on /\ c = [claim[p] EXCEPT !.owner = pass.group]
      <4>1. p \in pass.todo /\ pass.as = "primary"
        BY <3>2, LifecycleAssumption DEF PassSound
      <4>2. Named(site.owner[p], pass.group)
        BY <3>2, <4>1 DEF Listed, Listing, Reconciling
      <4>3. c.owner = pass.group
        BY <3>2, <1>t DEF PVCs
      <4>4. pass.group # None
        BY <3>2 DEF TypeOK
      <4>5. QED
        BY <4>2, <4>3, <4>4 DEF Named
    <3>3. QED
      BY <1>3, <1>t, <3>1, <3>2 DEF Rewrite, PVCs
  <2>2. /\ c.at = "live" => claim[p].at = "live"
        /\ c.at = "absent" => c.guard = None
    BY <1>3, <1>t DEF Rewrite, PVCs, Alive
  <2>3. claim' = [claim EXCEPT ![p] = c]
        /\ (claimSeen' = [claimSeen EXCEPT ![p] = c] \/ claimSeen' = claimSeen)
    BY <1>3 DEF WriteClaim
  <2>4. Labelled'
    BY <1>s, <1>t, <2>1, <2>3 DEF Labelled, Named
  <2>5. Alive'
    BY <1>t, <2>2, <2>3 DEF Alive
  <2>6. QED
    BY <2>4, <2>5
<1>4. QED
  BY <1>1, <1>2, <1>3, ClaimChanges DEF ClaimChange

LEMMA ListedStep == ASSUME TypeOK, PassInv, Next PROVE Listed'
<1> USE DEF PassInv
<1>s. site' = site
  BY DEF Next
<1>t. pass \in Passes /\ PassOK
  BY DEF TypeOK, PassOK
<1>k. PassGoes(pass') /\ (Listing' => Listing) => Listed'
  BY <1>s DEF PassGoes, Listed, Named
<1>i. ~Listing' => Listed'
  BY DEF Listed
<1> USE IdlePass, PassGoesOn DEF Listing, Reconciling, Kinds, Steps
<1>1. ASSUME NEW g \in Groups, Adopt(g) PROVE Listed'
  BY <1>1, <1>k DEF Adopt, PassGoes
<1>2. ASSUME NEW g \in Groups, StartReconcile(g) PROVE Listed'
  <2>1. /\ pass'.as = vgr[g].state /\ pass'.group = g /\ pass'.todo = Selected(g)
        /\ pass'.step = "next"
    BY <1>2 DEF StartReconcile, Idle
  <2>2. CASE pass'.as = "primary"
    <3>1. \A p \in Selected(g) : Named(site.owner[p], g)
      BY <2>1, <2>2 DEF Selected, Labelled
    <3>2. QED
      BY <1>s, <2>1, <3>1 DEF Listed, Named
  <2>3. CASE pass'.as # "primary"
    BY <2>1, <2>3, <1>i
  <2>4. QED
    BY <2>2, <2>3
<1>3. ASSUME NEW g \in Groups, StartDelete(g) PROVE Listed'
  BY <1>3, <1>i DEF StartDelete, Idle
<1>4. ASSUME NEW p \in Claims,
             Skip(p) \/ Park(p) \/ ClearOther(p) \/ Label(p) \/ MakeSync(p) \/ Guard(p)
      PROVE  Listed'
  <2>1. Reconciling
    BY <1>4 DEF Skip, Park, ClearOther, Label, MakeSync, Guard
  <2>2. PassGoes(pass')
    BY <1>4 DEF Skip, Park, ClearOther, Label, MakeSync, Guard
  <2>3. Reconciling'
    BY <1>4 DEF Skip, Park, ClearOther, Label, MakeSync, Guard
  <2>4. QED
    BY <2>1, <2>2, <2>3, <1>k DEF PassGoes
<1>5. ASSUME EndReconcile \/ Finish \/ FailDelete PROVE Listed'
  BY <1>5, <1>i DEF EndReconcile, Finish, FailDelete, End
<1>6. ASSUME NEW p \in Claims, DeleteSync(p) PROVE Listed'
  BY <1>6, <1>i DEF DeleteSync
<1>7. ASSUME ListDestinations PROVE Listed'
  BY <1>7, <1>t, <1>i DEF ListDestinations, PassOK, Passes
<1>8. ASSUME ListClaims PROVE Listed'
  <2>1. pass'.group = pass.group /\ pass'.todo = ClaimsOf(pass.group)
    BY <1>8, <1>t DEF ListClaims, Passes
  <2>2. pass.group \in Groups
    BY <1>8, <1>t, TypeOfPasses DEF ListClaims, PassOK, Owners
  <2>3. \A p \in ClaimsOf(pass.group) : Named(site.owner[p], pass.group)
    BY <2>2 DEF ClaimsOf, Labelled
  <2>4. QED
    BY <1>s, <2>1, <2>3 DEF Listed, Named
<1>9. ASSUME NEW p \in Claims,
             Doom(p) \/ Release(p) \/ ReleaseDoomed(p) \/ IgnoreRefusal(p) \/ Drop(p)
      PROVE  Listed'
  <2>1. pass.step \in {"pvc", "unguard", "drop"}
    BY <1>9 DEF Doom, Release, ReleaseDoomed, IgnoreRefusal, Drop
  <2>2. PassGoes(pass')
    BY <1>9 DEF Doom, Release, ReleaseDoomed, IgnoreRefusal, Drop
  <2>3. QED
    BY <2>1, <2>2, <1>k
<1>10. ASSUME NEW p \in Claims, ReleaseRefused(p) PROVE Listed'
  BY <1>10, <1>i DEF ReleaseRefused, End
<1>11. ASSUME NEW g \in Groups, NEW s \in States, SetState(g, s) PROVE Listed'
  <2>1. /\ pass'.step = pass.step /\ pass'.as = pass.as /\ pass'.group = pass.group
        /\ pass'.todo = pass.todo
    BY <1>11, <1>t DEF SetState, Passes
  <2>2. QED
    BY <2>1, <1>s DEF Listed, Named
<1>12. ASSUME UNCHANGED pass PROVE Listed'
  BY <1>12, <1>k DEF PassGoes
<1>13. QED
  <2>1. ASSUME NEW p \in Claims, Unlabel(p) \/ DeletePVC(p) \/ Vanish(p) \/ Reclaim(p)
        PROVE  UNCHANGED pass
    BY <2>1 DEF Unlabel, DeletePVC, Vanish, Reclaim
  <2>2. ASSUME SetClass \/ CatchUp PROVE UNCHANGED pass
    BY <2>2 DEF SetClass, CatchUp
  <2>3. ASSUME NEW g \in Groups, NEW s \in States, CreateVGR(g, s) PROVE UNCHANGED pass
    BY <2>3 DEF CreateVGR
  <2>4. ASSUME NEW g \in Groups, DeleteVGR(g) PROVE UNCHANGED pass
    BY <2>4 DEF DeleteVGR
  <2>5. QED
    BY <1>1, <1>2, <1>3, <1>4, <1>5, <1>6, <1>7, <1>8, <1>9, <1>10, <1>11, <1>12,
       <2>1, <2>2, <2>3, <2>4
       DEF Next, Start, WorkerStep, ReconcileStep, DeleteStep, UserAct, Kubernetes

LEMMA PassInvStep == TypeOK /\ PassInv /\ [Next]_vars => PassInv'
<1>1. ASSUME TypeOK, PassInv, Next PROVE PassInv'
  BY <1>1, PassSoundStep, ClaimsStep, ListedStep DEF PassInv
<1>2. ASSUME PassInv, UNCHANGED vars PROVE PassInv'
  BY <1>2 DEF PassInv, Finalized, PassSound, Labelled, Listed, Alive, Listing,
              Reconciling, Deleting, Named, vars, stored, seen, Removes
<1>3. QED
  BY <1>1, <1>2

-----------------------------------------------------------------------------
(* The deletion is confined to secondaries *)

\* handlePVCDeletion turns the reclaim policy of a volume only for a VGR of the name
\* on its PVC that is being deleted as secondary, or was promoted after it was read.
THEOREM DestroysSecondary == Spec => OnlySecondaryDestroys
<1> DEFINE Confined ==
      \A p \in Claims :
         volume[p].retain /\ ~volume'[p].retain =>
            \E g \in Groups :
               /\ Named(claim[p].owner, g)
               /\ vgr[g].at = "deleting"
               /\ vgr[g].state = "secondary" \/ pass.stale
<1>1. TypeOK /\ PassInv /\ [Next]_vars => [Confined]_vars
  <2> SUFFICES ASSUME TypeOK, PassInv, Next PROVE Confined
    OBVIOUS
  <2>1. volume \in [Claims -> Volumes]
    BY DEF TypeOK
  <2>2. ASSUME NEW p \in Claims, Doom(p) PROVE Confined
    <3>1. pass.group \in Groups
      BY <2>2, TypeOfPasses DEF Doom, TypeOK, Owners
    <3>2. Named(claim[p].owner, pass.group)
      BY <2>2, <3>1 DEF Doom, PassInv, Listed, Listing, Labelled
    <3>3. /\ vgr[pass.group].at = "deleting"
          /\ vgr[pass.group].state = "secondary" \/ pass.stale
      BY <2>2 DEF Doom, PassInv, PassSound, Deleting
    <3>4. \A q \in Claims : q # p => volume'[q] = volume[q]
      BY <2>1, <2>2 DEF Doom
    <3>5. QED
      BY <3>1, <3>2, <3>3, <3>4
  <2>3. ASSUME NEW p \in Claims, Park(p) \/ Vanish(p) \/ Reclaim(p) PROVE Confined
    <3>1. \A q \in Claims : volume'[q].retain = volume[q].retain
      BY <2>1, <2>3 DEF Park, Vanish, Reclaim, Volumes
    <3>2. QED
      BY <3>1
  <2>4. ASSUME UNCHANGED volume PROVE Confined
    BY <2>4
  <2>5. ASSUME NEW g \in Groups, Start(g) PROVE UNCHANGED volume
    BY <2>5 DEF Start, Adopt, StartReconcile, StartDelete, stored
  <2>6. ASSUME NEW p \in Claims, Skip(p) \/ ClearOther(p) \/ Label(p) \/ MakeSync(p) \/ Guard(p)
        PROVE  UNCHANGED volume
    BY <2>6 DEF Skip, ClearOther, Label, MakeSync, Guard, stored
  <2>7. ASSUME NEW p \in Claims,
               DeleteSync(p) \/ Release(p) \/ ReleaseRefused(p) \/ ReleaseDoomed(p)
                 \/ IgnoreRefusal(p) \/ Drop(p)
        PROVE  UNCHANGED volume
    BY <2>7 DEF DeleteSync, Release, ReleaseRefused, ReleaseDoomed, IgnoreRefusal, Drop, stored
  <2>8. ASSUME EndReconcile \/ ListDestinations \/ ListClaims \/ Finish \/ FailDelete
        PROVE  UNCHANGED volume
    BY <2>8 DEF EndReconcile, ListDestinations, ListClaims, Finish, FailDelete, stored
  <2>9. ASSUME UserAct \/ CatchUp PROVE UNCHANGED volume
    BY <2>9 DEF UserAct, CreateVGR, SetState, DeleteVGR, Unlabel, DeletePVC, SetClass,
                CatchUp, stored
  <2>10. QED
    BY <2>2, <2>3, <2>4, <2>5, <2>6, <2>7, <2>8, <2>9
       DEF Next, WorkerStep, ReconcileStep, DeleteStep, Kubernetes
<1>2. QED
  BY <1>1, TypeInit, TypeStep, PassInvInit, PassInvStep, PTL
     DEF Spec, OnlySecondaryDestroys

-----------------------------------------------------------------------------
(* What the groups hold *)

\* No group comes to hold anything.
NoGain ==
    \A g \in Groups, k \in Kinds \cup {"pvc"}, p \in Claims :
        Owed(g, k, p)' => Owed(g, k, p)

\* The group of the pass, and no other, comes to hold one thing.
Gain ==
    \E i \in Kinds \cup {"pvc"}, q \in Claims :
       \A g \in Groups, k \in Kinds \cup {"pvc"}, p \in Claims :
          Owed(g, k, p)' <=> IF k = i /\ p = q THEN g = pass.group ELSE Owed(g, k, p)

\* ReplicationSources and Destinations go, PVCs are released or deleted, more is
\* overlooked.
Loss ==
    /\ \A k \in Kinds, p \in Claims : sync'[k][p] \in {sync[k][p], None}
    /\ \A p \in Claims :
          /\ claim'[p].guard \in {claim[p].guard, None}
          /\ claim'[p].at = "live" => claim[p].at = "live"
    /\ \A k \in Kinds \cup {"pvc"}, p \in Claims : <<k, p>> \in missed => <<k, p>> \in missed'

LEMMA LossNoGain ==
    ASSUME TypeOK, Labelled, Labelled', site' = site, Loss PROVE NoGain
<1> SUFFICES ASSUME NEW g \in Groups, NEW k \in Kinds \cup {"pvc"}, NEW p \in Claims,
                    Owed(g, k, p)'
             PROVE  Owed(g, k, p)
  BY DEF NoGain
<1>1. <<k, p>> \notin missed
  BY DEF Owed, Loss
<1>2. g # None
  BY LifecycleAssumption
<1>3. CASE k = "pvc"
  <2>1. claim'[p].guard = g /\ claim'[p].at = "live" /\ Named(claim[p].owner, g)
    BY <1>3 DEF Owed, Holds, Labelled, Named
  <2>2. QED
    BY <1>1, <1>2, <1>3, <2>1 DEF Owed, Holds, Loss
<1>4. CASE k # "pvc"
  <2>1. sync'[k][p] = g /\ Near(g, p)
    BY <1>4 DEF Owed, Holds, Near
  <2>2. QED
    BY <1>1, <1>2, <1>4, <2>1 DEF Owed, Holds, Loss
<1>5. QED
  BY <1>3, <1>4

LEMMA HeldChange ==
    ASSUME TypeOK, PassInv, Next
    PROVE  NoGain \/ (Gain /\ Reconciling /\ vgr' = vgr)
<1> USE DEF PassInv
<1>s. site' = site
  BY DEF Next
<1>o. Labelled'
  BY ClaimsStep
<1>l. Loss => NoGain
  BY <1>s, <1>o, LossNoGain
<1>t. /\ sync \in [Kinds -> [Claims -> Owners]] /\ claim \in [Claims -> PVCs]
      /\ claimSeen \in [Claims -> PVCs]
      /\ pass.group \in Owners
  BY TypeOfPasses DEF TypeOK
<1>k. Makes \in Kinds /\ Removes \in Kinds /\ "both" \notin Kinds \cup {"pvc"}
  BY DEF Makes, Removes, Kinds
<1>1. ASSUME UNCHANGED <<sync, claim>>, missed \subseteq missed' PROVE Loss
  BY <1>1, <1>t DEF Loss
<1>2. ASSUME NEW p \in Claims, Park(p) PROVE Loss
  BY <1>2, <1>t DEF Park, SyncsKept, ClaimsKept, WriteClaim, Loss, PVCs
<1>3. ASSUME NEW p \in Claims, ClearOther(p) PROVE Loss
  <2>1. \A k \in Kinds, q \in Claims : sync'[k][q] \in {sync[k][q], None}
    BY <1>3, <1>t, <1>k DEF ClearOther, WriteSync, SyncsKept
  <2>2. claim' = claim
    BY <1>3 DEF ClearOther, ClaimsKept
  <2>3. \A k \in Kinds \cup {"pvc"}, q \in Claims : <<k, q>> \in missed => <<k, q>> \in missed'
    BY <1>3, <1>k DEF ClearOther
  <2>4. QED
    BY <2>1, <2>2, <2>3 DEF Loss
<1>4. ASSUME NEW p \in Claims, Label(p) PROVE Loss
  BY <1>4, <1>t DEF Label, SyncsKept, ClaimsKept, WriteClaim, Loss, PVCs
<1>5. ASSUME NEW p \in Claims, MakeSync(p)
      PROVE  NoGain \/ (Gain /\ Reconciling /\ vgr' = vgr)
  <2>1. CASE syncSeen[Makes][p] = pass.group
    BY <1>5, <2>1, <1>1, <1>l DEF MakeSync, SyncsKept, ClaimsKept
  <2>2. CASE syncSeen[Makes][p] # pass.group
    <3>k. PICK m \in Kinds : m = Makes
      BY <1>k
    <3>1. /\ sync' = [sync EXCEPT ![m][p] = pass.group]
          /\ missed' = missed \ {<<m, p>>}
          /\ claim' = claim /\ vgr' = vgr /\ Reconciling
      BY <1>5, <2>2, <3>k DEF MakeSync, WriteSync, ClaimsKept, Reconciling
    <3>2. pass.group \in Groups
      BY <1>5, <1>t DEF MakeSync, TypeOK, Owners
    <3>m. m # "pvc"
      BY DEF Kinds
    <3>3. \A g \in Groups, k \in Kinds \cup {"pvc"}, q \in Claims :
             ~(k = m /\ q = p) => (Owed(g, k, q)' <=> Owed(g, k, q))
      BY <1>s, <1>t, <3>1 DEF Owed, Holds, Near, Named
    <3>n. sync'[m][p] = pass.group /\ <<m, p>> \notin missed'
      BY <1>t, <3>1
    <3>4. \A g \in Groups : Owed(g, m, p)' <=> g = pass.group /\ Near(g, p)
      BY <1>s, <3>m, <3>n DEF Owed, Holds, Near
    <3>5. CASE Near(pass.group, p)
      BY <3>1, <3>3, <3>4, <3>5 DEF Gain
    <3>6. CASE ~Near(pass.group, p)
      BY <3>3, <3>4, <3>6 DEF NoGain
    <3>7. QED
      BY <3>5, <3>6
  <2>3. QED
    BY <2>1, <2>2
<1>6. ASSUME NEW p \in Claims, Guard(p)
      PROVE  NoGain \/ (Gain /\ Reconciling /\ vgr' = vgr)
  <2>1. CASE claimSeen[p].at = "absent" \/ claimSeen[p].guard # None
    BY <1>6, <2>1, <1>1, <1>l DEF Guard, SyncsKept, ClaimsKept
  <2>2. CASE ~(claimSeen[p].at = "absent" \/ claimSeen[p].guard # None)
    <3>1. /\ claim' = [claim EXCEPT ![p] = [claim[p] EXCEPT !.guard = pass.group]]
          /\ missed' = missed \ {<<"pvc", p>>}
          /\ sync' = sync /\ vgr' = vgr /\ Reconciling
          /\ claim[p].at = "live"
      BY <1>6, <2>2 DEF Guard, WriteClaim, SyncsKept, Reconciling
    <3>2. pass.group \in Groups
      BY <1>6, <1>t DEF Guard, TypeOK, Owners
    <3>3. \A q \in Claims : q # p => claim'[q] = claim[q]
      BY <1>t, <3>1
    <3>4. /\ claim'[p].guard = pass.group /\ claim'[p].owner = claim[p].owner
          /\ claim'[p].at = "live"
      BY <1>t, <3>1 DEF PVCs
    <3>5. \A g \in Groups, k \in Kinds \cup {"pvc"}, q \in Claims :
             ~(k = "pvc" /\ q = p) => (Owed(g, k, q)' <=> Owed(g, k, q))
      BY <1>s, <1>t, <3>1, <3>3 DEF Owed, Holds, Near, Named
    <3>6. \A g \in Groups : Owed(g, "pvc", p)' <=> g = pass.group /\ Named(claim[p].owner, g)
      BY <1>s, <3>1, <3>4 DEF Owed, Holds, Named
    <3>7. CASE Named(claim[p].owner, pass.group)
      BY <3>1, <3>5, <3>6, <3>7 DEF Gain
    <3>8. CASE ~Named(claim[p].owner, pass.group)
      BY <3>5, <3>6, <3>8 DEF NoGain
    <3>9. QED
      BY <3>7, <3>8
  <2>3. QED
    BY <2>1, <2>2
<1>7. ASSUME NEW p \in Claims, DeleteSync(p) PROVE Loss
  BY <1>7, <1>t DEF DeleteSync, WriteSync, ClaimsKept, Loss
<1>8. ASSUME NEW p \in Claims, Release(p) \/ ReleaseDoomed(p) PROVE Loss
  <2>1. Unguard(p) /\ sync' = sync
    BY <1>8 DEF Release, ReleaseDoomed, SyncsKept
  <2>2. CASE claimSeen[p].guard = None
    BY <1>t, <2>1, <2>2 DEF Unguard, ClaimsKept, Loss
  <2>3. CASE claimSeen[p].guard # None
    BY <1>t, <2>1, <2>3 DEF Unguard, WriteClaim, Loss, PVCs
  <2>4. QED
    BY <2>2, <2>3
<1>9. ASSUME NEW p \in Claims, Drop(p) \/ DeletePVC(p) \/ Vanish(p) PROVE Loss
  BY <1>9, <1>t DEF Drop, DeletePVC, Vanish, WriteClaim, SyncsKept, ClaimsKept, Loss, PVCs
<1>10. QED
  <2>1. ASSUME NEW g \in Groups, Start(g) PROVE Loss
    BY <2>1, <1>1 DEF Start, Adopt, StartReconcile, StartDelete, stored
  <2>2. ASSUME NEW p \in Claims,
               Skip(p) \/ Doom(p) \/ ReleaseRefused(p) \/ IgnoreRefusal(p) \/ Unlabel(p)
                 \/ Reclaim(p)
        PROVE  Loss
    BY <2>2, <1>1 DEF Skip, Doom, ReleaseRefused, IgnoreRefusal, Unlabel, Reclaim, stored
  <2>3. ASSUME EndReconcile \/ ListDestinations \/ ListClaims \/ Finish \/ FailDelete
                 \/ SetClass \/ CatchUp
        PROVE  Loss
    BY <2>3, <1>1 DEF EndReconcile, ListDestinations, ListClaims, Finish, FailDelete,
                      SetClass, CatchUp, stored
  <2>4. ASSUME NEW g \in Groups, NEW s \in States, CreateVGR(g, s) \/ SetState(g, s)
        PROVE  Loss
    BY <2>4, <1>1 DEF CreateVGR, SetState
  <2>5. ASSUME NEW g \in Groups, DeleteVGR(g) PROVE Loss
    BY <2>5, <1>1 DEF DeleteVGR
  <2>6. QED
    BY <1>l, <1>2, <1>3, <1>4, <1>5, <1>6, <1>7, <1>8, <1>9, <2>1, <2>2, <2>3, <2>4, <2>5
       DEF Next, WorkerStep, ReconcileStep, DeleteStep, UserAct, Kubernetes

-----------------------------------------------------------------------------
(* The deletion takes back what the group holds *)

\* What remains of one PVC for the deletion of g, at step s with t to be handled.
Remains(g, s, t, p) ==
    /\ Owed(g, "rs", p) => s = "rs" /\ p \in t
    /\ Owed(g, "rd", p) => s \in Kinds /\ (s = "rd" => p \in t)
    /\ Owed(g, "pvc", p) => s \in Kinds \/ p \in t

LEMMA ProgressRemains ==
    /\ Progress <=> (Deleting => \A p \in Claims : Remains(pass.group, pass.step, pass.todo, p))
    /\ Progress' <=> (Deleting' => \A p \in Claims :
                                     Remains(pass.group, pass.step, pass.todo, p)')
  BY DEF Progress, Remains

\* A step of the pass that gains nothing may handle one PVC, if that owes nothing then.
LEMMA RemainsStep ==
    ASSUME TypeOK, NoGain, Deleting, Progress,
           pass'.group = pass.group,
           NEW q \in Claims, pass'.todo \in {pass.todo, pass.todo \ {q}},
           \/ pass'.step = pass.step
           \/ {pass.step, pass'.step} \subseteq {"pvc", "unguard", "drop"},
           pass'.todo # pass.todo =>
              /\ pass.step = "rs" => ~Owed(pass.group, "rs", q)'
              /\ pass.step = "rd" => ~Owed(pass.group, "rd", q)'
              /\ pass.step \notin Kinds => ~Owed(pass.group, "pvc", q)'
    PROVE  Progress'
<1>1. pass.group \in Groups
  BY TypeOfPasses DEF TypeOK, Deleting, Kinds, Owners
<1>2. PICK g \in Groups : g = pass.group
  BY <1>1
<1>3. \A p \in Claims : /\ Owed(g, "rs", p)' => Owed(g, "rs", p)
                        /\ Owed(g, "rd", p)' => Owed(g, "rd", p)
                        /\ Owed(g, "pvc", p)' => Owed(g, "pvc", p)
  BY DEF NoGain, Kinds
<1>4. \A p \in Claims : Remains(g, pass.step, pass.todo, p)
  BY <1>2, ProgressRemains
<1>5. pass'.todo # pass.todo =>
        /\ pass.step = "rs" => ~Owed(g, "rs", q)'
        /\ pass.step = "rd" => ~Owed(g, "rd", q)'
        /\ pass.step \notin Kinds => ~Owed(g, "pvc", q)'
  BY <1>2
<1>6. \A p \in Claims : Remains(g, pass.step, pass.todo, p)'
  BY <1>3, <1>4, <1>5 DEF Remains, Kinds
<1>7. QED
  BY <1>2, <1>6, ProgressRemains

LEMMA ProgressStep == ASSUME TypeOK, PassInv, Progress, Next PROVE Progress'
<1>s. site' = site
  BY DEF Next
<1>t. /\ pass \in Passes /\ PassOK /\ pass.todo \subseteq Claims
      /\ sync \in [Kinds -> [Claims -> Owners]] /\ claim \in [Claims -> PVCs]
      /\ claimSeen \in [Claims -> PVCs]
  BY TypeOfPasses DEF TypeOK, PassOK
<1>h. ~Reconciling => NoGain
  BY HeldChange
<1>d. Deleting => ~Reconciling
  BY DEF Deleting, Reconciling, Kinds
<1>i. ~Deleting' => Progress'
  BY DEF Progress
<1> USE IdlePass, PassGoesOn DEF Kinds, Steps
<1>1. ASSUME NEW g \in Groups, StartDelete(g) PROVE Progress'
  <2>1. /\ pass'.group = g /\ pass'.step = "rs" /\ pass'.todo = SyncsOf("rs", g)
        /\ missed' = missed \cup Overlooked("rs", g) /\ sync' = sync
    BY <1>1 DEF StartDelete, Idle, stored
  <2>2. ASSUME NEW p \in Claims, Owed(g, "rs", p)' PROVE p \in SyncsOf("rs", g)
    BY <1>s, <2>1, <2>2 DEF Owed, Holds, Overlooked, Near
  <2>3. \A p \in Claims : Remains(g, pass.step, pass.todo, p)'
    BY <2>1, <2>2 DEF Remains
  <2>4. QED
    BY <2>1, <2>3, ProgressRemains
<1>2. ASSUME NEW q \in Claims, DeleteSync(q) PROVE Progress'
  <2>1. /\ Deleting /\ pass'.step = pass.step /\ pass'.todo = pass.todo \ {q}
        /\ pass'.group = pass.group
    BY <1>2 DEF DeleteSync, Deleting, PassGoes
  <2>2. sync'[pass.step][q] = None /\ pass.group \in Groups
    BY <1>2, <1>t, TypeOfPasses DEF DeleteSync, WriteSync, PassOK, Owners
  <2>3. PICK g \in Groups : g = pass.group
    BY <2>2
  <2>4. PICK k \in Kinds : k = pass.step
    BY <1>2 DEF DeleteSync
  <2>5. ~Owed(g, k, q)'
    BY <2>2, <2>4, LifecycleAssumption DEF Owed, Holds
  <2>6. /\ pass.step = "rs" => ~Owed(pass.group, "rs", q)'
        /\ pass.step = "rd" => ~Owed(pass.group, "rd", q)'
        /\ pass.step \in Kinds
    BY <2>1, <2>3, <2>4, <2>5
  <2>7. QED
    BY <1>h, <1>d, <2>1, <2>6, RemainsStep
<1>3. ASSUME ListDestinations PROVE Progress'
  <2>1. PICK g \in Groups : g = pass.group
    BY <1>3, <1>t, TypeOfPasses DEF ListDestinations, PassOK, Owners
  <2>2. /\ Deleting /\ pass.step = "rs" /\ pass.todo = {}
        /\ pass'.group = g /\ pass'.step = "rd" /\ pass'.todo = SyncsOf("rd", g)
        /\ missed' = missed \cup Overlooked("rd", g) /\ sync' = sync
    BY <1>3, <1>t, <2>1 DEF ListDestinations, Passes, Deleting, stored
  <2>3. \A p \in Claims : ~Owed(g, "rs", p)'
    BY <1>h, <1>d, <2>1, <2>2, ProgressRemains DEF Remains, NoGain
  <2>4. ASSUME NEW p \in Claims, Owed(g, "rd", p)' PROVE p \in SyncsOf("rd", g)
    BY <1>s, <2>2, <2>4 DEF Owed, Holds, Overlooked, Near
  <2>5. \A p \in Claims : Remains(g, pass.step, pass.todo, p)'
    BY <2>2, <2>3, <2>4 DEF Remains
  <2>6. QED
    BY <2>2, <2>5, ProgressRemains
<1>4. ASSUME ListClaims PROVE Progress'
  <2>1. PICK g \in Groups : g = pass.group
    BY <1>4, <1>t, TypeOfPasses DEF ListClaims, PassOK, Owners
  <2>2. /\ Deleting /\ pass.step = "rd" /\ pass.todo = {}
        /\ pass'.group = g /\ pass'.step = "pvc" /\ pass'.todo = ClaimsOf(g)
    BY <1>4, <1>t, <2>1 DEF ListClaims, Passes, Deleting
  <2>3. \A p \in Claims : ~Owed(g, "rs", p)' /\ ~Owed(g, "rd", p)'
    BY <1>h, <1>d, <2>1, <2>2, ProgressRemains DEF Remains, NoGain
  <2>4. ASSUME NEW p \in Claims, Owed(g, "pvc", p)' PROVE p \in ClaimsOf(g)
    <3>1. Owed(g, "pvc", p)
      BY <1>h, <1>d, <2>2, <2>4 DEF NoGain
    <3>2. claim[p].at = "live" /\ Named(claim[p].owner, g)
      BY <3>1 DEF Owed, Holds
    <3>3. claimSeen[p].at = "live" /\ Named(claimSeen[p].owner, g)
      BY <3>2 DEF PassInv, Alive, Labelled
    <3>4. QED
      BY <3>3 DEF ClaimsOf
  <2>5. \A p \in Claims : Remains(g, pass.step, pass.todo, p)'
    BY <2>2, <2>3, <2>4 DEF Remains
  <2>6. QED
    BY <2>2, <2>5, ProgressRemains
<1>5. ASSUME NEW q \in Claims, Doom(q) \/ ReleaseDoomed(q) \/ IgnoreRefusal(q) PROVE Progress'
  <2>1. /\ Deleting /\ pass'.todo = pass.todo /\ pass'.group = pass.group
        /\ {pass.step, pass'.step} \subseteq {"pvc", "unguard", "drop"}
    BY <1>5 DEF Doom, ReleaseDoomed, IgnoreRefusal, Deleting, PassGoes
  <2>2. QED
    BY <1>h, <1>d, <2>1, RemainsStep
<1>6. ASSUME NEW q \in Claims, Release(q) PROVE Progress'
  <2>1. /\ Deleting /\ pass'.todo = pass.todo \ {q} /\ pass'.group = pass.group
        /\ pass.step = "pvc" /\ pass'.step = "pvc" /\ Unguard(q)
    BY <1>6 DEF Release, Deleting, PassGoes
  <2>2. pass.group \in Groups
    BY <2>1, <1>t, TypeOfPasses DEF PassOK, Owners
  <2>3. claim'[q].guard = None \/ <<"pvc", q>> \in missed'
    <3>1. CASE claimSeen[q].guard = None
      BY <2>1, <3>1 DEF Unguard, ClaimsKept
    <3>2. CASE claimSeen[q].guard # None
      BY <1>t, <2>1, <3>2 DEF Unguard, WriteClaim, PVCs
    <3>3. QED
      BY <3>1, <3>2
  <2>4. \A g \in Groups : ~Owed(g, "pvc", q)'
    BY <2>3, LifecycleAssumption DEF Owed, Holds
  <2>5. ~Owed(pass.group, "pvc", q)'
    BY <2>1, <2>2, <2>4
  <2>6. QED
    BY <1>h, <1>d, <2>1, <2>5, RemainsStep
<1>7. ASSUME NEW q \in Claims, Drop(q) PROVE Progress'
  <2>1. /\ Deleting /\ pass'.todo = pass.todo \ {q} /\ pass'.group = pass.group
        /\ pass.step = "drop" /\ pass'.step = "pvc"
    BY <1>7 DEF Drop, Deleting, PassGoes
  <2>2. claim'[q].at # "live"
    BY <1>7, <1>t DEF Drop, WriteClaim, ClaimsKept, PVCs
  <2>3. ~Owed(pass.group, "pvc", q)'
    BY <2>2 DEF Owed, Holds
  <2>4. QED
    BY <1>h, <1>d, <2>1, <2>3, RemainsStep
<1>8. ASSUME pass'.group = pass.group, pass'.step = pass.step, pass'.todo = pass.todo
      PROVE  Progress'
  <2>1. CASE Deleting /\ Claims # {}
    <3>1. PICK q \in Claims : TRUE
      BY <2>1
    <3>2. QED
      BY <1>8, <1>h, <1>d, <2>1, <3>1, RemainsStep
  <2>2. CASE Claims = {}
    BY <2>2, ProgressRemains
  <2>3. CASE ~Deleting
    BY <1>8, <2>3, <1>i DEF Deleting
  <2>4. QED
    BY <2>1, <2>2, <2>3
<1>9. ASSUME NEW g \in Groups, Adopt(g) \/ StartReconcile(g) PROVE Progress'
  <2>1. CASE Adopt(g)
    BY <2>1, <1>8 DEF Adopt
  <2>2. CASE StartReconcile(g)
    BY <2>2, <1>i DEF StartReconcile, Deleting, Idle
  <2>3. QED
    BY <1>9, <2>1, <2>2
<1>10. ASSUME NEW p \in Claims, ReconcileStep(p) PROVE Progress'
  <2>1. pass'.step \in {"next", "label", "sync", "guard"}
    BY <1>10 DEF ReconcileStep, Skip, Park, ClearOther, Label, MakeSync, Guard
  <2>2. QED
    BY <2>1, <1>i DEF Deleting
<1>11. ASSUME EndReconcile \/ Finish \/ FailDelete \/ \E p \in Claims : ReleaseRefused(p)
       PROVE  Progress'
  BY <1>11, <1>i DEF EndReconcile, Finish, FailDelete, ReleaseRefused, End, Deleting
<1>12. ASSUME NEW g \in Groups, NEW s \in States, SetState(g, s) PROVE Progress'
  <2>1. pass'.group = pass.group /\ pass'.step = pass.step /\ pass'.todo = pass.todo
    BY <1>12, <1>t DEF SetState, Passes
  <2>2. QED
    BY <2>1, <1>8
<1>13. QED
  <2>1. ASSUME NEW p \in Claims, Unlabel(p) \/ DeletePVC(p) \/ Vanish(p) \/ Reclaim(p)
        PROVE  Progress'
    BY <2>1, <1>8 DEF Unlabel, DeletePVC, Vanish, Reclaim
  <2>2. ASSUME SetClass \/ CatchUp PROVE Progress'
    BY <2>2, <1>8 DEF SetClass, CatchUp
  <2>3. ASSUME NEW g \in Groups, NEW s \in States, CreateVGR(g, s) PROVE Progress'
    BY <2>3, <1>8 DEF CreateVGR
  <2>4. ASSUME NEW g \in Groups, DeleteVGR(g) PROVE Progress'
    BY <2>4, <1>8 DEF DeleteVGR
  <2>5. QED
    BY <1>1, <1>2, <1>3, <1>4, <1>5, <1>6, <1>7, <1>9, <1>10, <1>11, <1>12,
       <2>1, <2>2, <2>3, <2>4
       DEF Next, Start, WorkerStep, DeleteStep, UserAct, Kubernetes

\* Only the last step of a deletion removes the finalizer of a VGR.
LEMMA FinalizerStays ==
    ASSUME TypeOK, PassInv, Next, NEW g \in Groups, vgr[g].fin
    PROVE  \/ vgr'[g].fin
           \/ /\ Finish /\ g = pass.group
              /\ \A h \in Groups \ {g} : vgr'[h] = vgr[h]
<1> USE DEF PassInv
<1>t. vgr \in [Groups -> VGRs]
  BY DEF TypeOK
<1>1. ASSUME NEW h \in Groups, Start(h) PROVE vgr'[g].fin
  BY <1>1, <1>t DEF Start, Adopt, StartReconcile, StartDelete, stored, VGRs
<1>2. ASSUME NEW p \in Claims, ReconcileStep(p) PROVE vgr' = vgr
  BY <1>2 DEF ReconcileStep, Skip, Park, ClearOther, Label, MakeSync, Guard, stored
<1>3. ASSUME NEW p \in Claims, DeleteStep(p) PROVE vgr' = vgr
  BY <1>3 DEF DeleteStep, DeleteSync, Doom, Release, ReleaseRefused, ReleaseDoomed,
              IgnoreRefusal, Drop, stored
<1>4. ASSUME EndReconcile \/ ListDestinations \/ ListClaims \/ FailDelete \/ CatchUp \/ SetClass
      PROVE  vgr' = vgr
  BY <1>4 DEF EndReconcile, ListDestinations, ListClaims, FailDelete, CatchUp, SetClass, stored
<1>5. ASSUME Finish, ~vgr'[g].fin
      PROVE  g = pass.group /\ \A h \in Groups \ {g} : vgr'[h] = vgr[h]
  BY <1>5, <1>t DEF Finish
<1>6. ASSUME NEW h \in Groups, NEW s \in States, CreateVGR(h, s) PROVE vgr'[g].fin
  BY <1>6, <1>t DEF CreateVGR, Gone, Finalized
<1>7. ASSUME NEW h \in Groups, NEW s \in States, SetState(h, s) PROVE vgr'[g].fin
  BY <1>7, <1>t DEF SetState, VGRs
<1>8. ASSUME NEW h \in Groups, DeleteVGR(h) PROVE vgr'[g].fin
  BY <1>8, <1>t DEF DeleteVGR, VGRs
<1>9. ASSUME NEW p \in Claims, Unlabel(p) \/ DeletePVC(p) \/ Vanish(p) \/ Reclaim(p)
      PROVE  vgr' = vgr
  BY <1>9 DEF Unlabel, DeletePVC, Vanish, Reclaim, stored
<1>10. QED
  BY <1>1, <1>2, <1>3, <1>4, <1>5, <1>6, <1>7, <1>8, <1>9
     DEF Next, WorkerStep, UserAct, Kubernetes

\* At the last step of its deletion a group owes nothing.
LEMMA NothingOwed ==
    ASSUME TypeOK, Progress, Finish
    PROVE  \A k \in Kinds \cup {"pvc"}, p \in Claims : ~Owed(pass.group, k, p)
  BY DEF Finish, Deleting, Progress, Kinds

LifecycleInv == TypeOK /\ PassInv /\ Kept /\ Progress

LEMMA LifecycleStep == LifecycleInv /\ [Next]_vars => LifecycleInv'
<1>1. ASSUME LifecycleInv, Next PROVE Kept' /\ Progress'
  <2> USE <1>1 DEF LifecycleInv
  <2>1. Progress'
    BY ProgressStep
  <2>2. ASSUME NEW g \in Groups, NEW k \in Kinds \cup {"pvc"}, NEW p \in Claims,
               Owed(g, k, p)'
        PROVE  vgr'[g].fin
    <3>1. CASE NoGain
      <4>1. Owed(g, k, p) /\ vgr[g].fin
        BY <2>2, <3>1 DEF NoGain, Kept
      <4>2. CASE Finish /\ g = pass.group
        BY <4>1, <4>2, NothingOwed
      <4>3. QED
        BY <4>1, <4>2, FinalizerStays
    <3>2. CASE Gain /\ Reconciling /\ vgr' = vgr
      <4>1. g = pass.group \/ Owed(g, k, p)
        BY <2>2, <3>2 DEF Gain
      <4>2. vgr[g].fin
        BY <3>2, <4>1 DEF Kept, PassInv, PassSound
      <4>3. QED
        BY <3>2, <4>2
    <3>3. QED
      BY <3>1, <3>2, HeldChange
  <2>3. QED
    BY <2>1, <2>2 DEF Kept
<1>2. ASSUME LifecycleInv, UNCHANGED vars PROVE Kept' /\ Progress'
  BY <1>2 DEF LifecycleInv, Kept, Progress, Owed, Holds, Near, Named, Deleting, vars,
              stored, seen
<1>3. QED
  BY <1>1, <1>2, TypeStep, PassInvStep DEF LifecycleInv

LEMMA LifecycleInit == Init => LifecycleInv
<1> SUFFICES ASSUME Init PROVE Kept /\ Progress
  BY TypeInit, PassInvInit DEF LifecycleInv
<1>1. /\ \A k \in Kinds, p \in Claims : sync[k][p] = None
      /\ \A p \in Claims : claim[p].guard = None
      /\ pass = Idle
  BY DEF Init
<1>2. \A g \in Groups, k \in Kinds \cup {"pvc"}, p \in Claims : ~Owed(g, k, p)
  BY <1>1, LifecycleAssumption DEF Owed, Holds, Kinds
<1>3. QED
  BY <1>1, <1>2, IdlePass DEF Kept, Progress, Deleting, Kinds

\* What a VGR that has gone leaves behind is out of its namespace or was hidden by
\* the cache (NothingLeftBehind).
THEOREM LeavesNothing == Spec => []NothingLeftBehind
<1>1. LifecycleInv => NothingLeftBehind
  <2> SUFFICES ASSUME LifecycleInv, NEW k \in Kinds, NEW p \in Claims, NEW g \in Groups,
                      sync[k][p] = g, Gone(g), Near(g, p), <<k, p>> \notin missed
               PROVE  FALSE
    BY DEF NothingLeftBehind
  <2>1. Owed(g, k, p)
    BY DEF Owed, Holds, Kinds
  <2>2. QED
    BY <2>1 DEF LifecycleInv, PassInv, Kept, Finalized, Gone
<1>2. QED
  BY <1>1, LifecycleInit, LifecycleStep, PTL DEF Spec

\* A PVC that a VGR leaves guarded never carried the label of that name, is being
\* deleted, or its finalizer was hidden by the cache (ClaimsLetGo).
THEOREM LetsGo == Spec => []ClaimsLetGo
<1>1. LifecycleInv => ClaimsLetGo
  <2> SUFFICES ASSUME LifecycleInv, NEW p \in Claims, NEW g \in Groups,
                      claim[p].guard = g, Gone(g), Named(claim[p].owner, g),
                      claim[p].at # "deleting", <<"pvc", p>> \notin missed
               PROVE  FALSE
    BY DEF ClaimsLetGo
  <2>1. claim[p].at = "live"
    BY LifecycleAssumption, TypeOfUpdates DEF LifecycleInv, PassInv, Alive, TypeOK, Phases
  <2>2. Owed(g, "pvc", p)
    BY <2>1 DEF Owed, Holds
  <2>3. QED
    BY <2>2 DEF LifecycleInv, PassInv, Kept, Finalized, Gone
<1>2. QED
  BY <1>1, LifecycleInit, LifecycleStep, PTL DEF Spec

-----------------------------------------------------------------------------
(* The finalizer keeps its promise *)

Present == {g \in Groups : vgr[g].fin}
Holdings == [g \in Groups |-> Held(g) \ missed]

LEMMA HoldingsOwed ==
    /\ Holdings \in [Groups -> SUBSET Things]
    /\ \A g \in Groups, x \in Things : x \in Holdings[g] <=> Owed(g, x[1], x[2])
    /\ \A x \in Things : x[1] \in Kinds \cup {"pvc"} /\ x[2] \in Claims /\ x = <<x[1], x[2]>>
  BY DEF Holdings, Held, Things, Owed

LEMMA HoldingsOwedNext ==
    /\ Holdings' \in [Groups -> SUBSET Things]
    /\ \A g \in Groups, x \in Things : x \in Holdings'[g] <=> Owed(g, x[1], x[2])'
  BY DEF Holdings, Held, Things, Owed

\* Apart from the first and the last step with a VGR, none changes who has finalizers.
LEMMA PresentSame ==
    ASSUME TypeOK, PassInv, Next
    PROVE  \/ Present' = Present
           \/ \E g \in Groups : Adopt(g)
           \/ Finish /\ Present' = Present \ {pass.group}
<1> USE DEF PassInv
<1>t. vgr \in [Groups -> VGRs]
  BY DEF TypeOK
<1>1. ASSUME UNCHANGED vgr PROVE Present' = Present
  BY <1>1 DEF Present
<1>2. ASSUME NEW g \in Groups, Start(g), ~Adopt(g) PROVE UNCHANGED vgr
  BY <1>2 DEF Start, StartReconcile, StartDelete, stored
<1>3. ASSUME NEW p \in Claims, ReconcileStep(p) PROVE UNCHANGED vgr
  BY <1>3 DEF ReconcileStep, Skip, Park, ClearOther, Label, MakeSync, Guard, stored
<1>4. ASSUME NEW p \in Claims, DeleteStep(p) PROVE UNCHANGED vgr
  BY <1>4 DEF DeleteStep, DeleteSync, Doom, Release, ReleaseRefused, ReleaseDoomed,
              IgnoreRefusal, Drop, stored
<1>5. ASSUME EndReconcile \/ ListDestinations \/ ListClaims \/ FailDelete \/ CatchUp \/ SetClass
      PROVE  UNCHANGED vgr
  BY <1>5 DEF EndReconcile, ListDestinations, ListClaims, FailDelete, CatchUp, SetClass, stored
<1>6. ASSUME NEW p \in Claims, Unlabel(p) \/ DeletePVC(p) \/ Vanish(p) \/ Reclaim(p)
      PROVE  UNCHANGED vgr
  BY <1>6 DEF Unlabel, DeletePVC, Vanish, Reclaim, stored
<1>7. ASSUME NEW g \in Groups, NEW s \in States, CreateVGR(g, s) PROVE Present' = Present
  BY <1>7, <1>t DEF CreateVGR, Gone, Finalized, Present
<1>8. ASSUME NEW g \in Groups, NEW s \in States, SetState(g, s) PROVE Present' = Present
  BY <1>8, <1>t DEF SetState, VGRs, Present
<1>9. ASSUME NEW g \in Groups, DeleteVGR(g) PROVE Present' = Present
  BY <1>9, <1>t DEF DeleteVGR, VGRs, NoVGR, Present
<1>10. ASSUME Finish PROVE Present' = Present \/ Present' = Present \ {pass.group}
  <2>1. CASE pass.stale
    BY <1>10, <2>1 DEF Finish, Present
  <2>2. CASE ~pass.stale
    BY <1>10, <1>t, <2>2 DEF Finish, NoVGR, Present
  <2>3. QED
    BY <2>1, <2>2
<1>11. QED
  BY <1>1, <1>2, <1>3, <1>4, <1>5, <1>6, <1>7, <1>8, <1>9, <1>10
     DEF Next, WorkerStep, UserAct, Kubernetes

\* A step that changes nothing of what is held.
LEMMA HoldingsSame ==
    ASSUME UNCHANGED <<site, sync, claim, missed>> PROVE Holdings' = Holdings
  BY DEF Holdings, Held, Holds, Near, Named

LEMMA PromiseStep ==
    ASSUME LifecycleInv, [Next]_vars
    PROVE  [Promise!Next]_<<Present, Holdings>>
<1> USE DEF LifecycleInv
<1>1. ASSUME UNCHANGED vars PROVE UNCHANGED <<Present, Holdings>>
  BY <1>1, HoldingsSame DEF Present, vars, stored
<1>2. ASSUME NEW g \in Groups, Adopt(g), Next PROVE Promise!Join(g)
  <2>1. Holdings' = Holdings
    BY <1>2, HoldingsSame DEF Adopt, Next
  <2>2. g \notin Present /\ Present' = Present \cup {g}
    BY <1>2 DEF Adopt, Present, TypeOK, VGRs
  <2>3. QED
    BY <2>1, <2>2 DEF Promise!Join, Present, Holdings
<1>3. ASSUME Finish, Next, Present' = Present \ {pass.group}, Present' # Present
      PROVE  \E g \in Groups : Promise!Leave(g)
  <2>1. pass.group \in Groups /\ pass.group \in Present
    BY <1>3 DEF Present
  <2>2. Holdings' = Holdings
    BY <1>3, HoldingsSame DEF Finish, Next
  <2>3. Holdings[pass.group] = {}
    BY <1>3, <2>1, NothingOwed, HoldingsOwed
  <2>4. PICK g \in Groups : g = pass.group
    BY <2>1
  <2>5. Promise!Leave(g)
    BY <1>3, <2>1, <2>2, <2>3, <2>4 DEF Promise!Leave, Present, Holdings
  <2>6. QED
    BY <2>5
<1>4. ASSUME NoGain, Present' = Present PROVE Promise!GiveBack
  <2>1. \A g \in Groups : Holdings'[g] \subseteq Holdings[g]
    BY <1>4, HoldingsOwed, HoldingsOwedNext DEF NoGain
  <2>2. QED
    BY <1>4, <2>1, HoldingsOwedNext DEF Promise!GiveBack, Present, Holdings
<1>5. ASSUME Gain, Reconciling, vgr' = vgr
      PROVE  \E g \in Groups, x \in Things : Promise!Acquire(g, x)
  <2>1. pass.group \in Present
    BY <1>5, TypeOfPasses DEF PassInv, PassSound, Present, TypeOK, Reconciling, Owners
  <2>2. PICK i \in Kinds \cup {"pvc"}, q \in Claims :
           \A g \in Groups, k \in Kinds \cup {"pvc"}, p \in Claims :
              Owed(g, k, p)' <=> IF k = i /\ p = q THEN g = pass.group ELSE Owed(g, k, p)
    BY <1>5 DEF Gain
  <2>3. <<i, q>> \in Things
    BY DEF Things
  <2>4. PICK g \in Groups : g = pass.group
    BY <2>1 DEF Present
  <2>5. \A h \in Groups, x \in Things :
           x \in Holdings'[h] <=> IF x = <<i, q>> THEN h = g ELSE x \in Holdings[h]
    BY <2>2, <2>4, HoldingsOwed, HoldingsOwedNext
  <2>6. Holdings' = [h \in Groups |-> IF h = g THEN Holdings[h] \cup {<<i, q>>}
                                              ELSE Holdings[h] \ {<<i, q>>}]
    <3>1. ASSUME NEW h \in Groups
          PROVE  Holdings'[h] = IF h = g THEN Holdings[h] \cup {<<i, q>>}
                                         ELSE Holdings[h] \ {<<i, q>>}
      BY <2>3, <2>5, HoldingsOwed, HoldingsOwedNext
    <3>2. QED
      BY <3>1, HoldingsOwedNext
  <2>7. Present' = Present
    BY <1>5 DEF Present
  <2>8. Promise!Acquire(g, <<i, q>>)
    BY <2>1, <2>4, <2>6, <2>7 DEF Promise!Acquire, Present, Holdings
  <2>9. QED
    BY <2>3, <2>8
<1>6. ASSUME Next PROVE Promise!Next \/ UNCHANGED <<Present, Holdings>>
  <2>1. CASE \E g \in Groups : Adopt(g)
    BY <1>2, <1>6, <2>1 DEF Promise!Next
  <2>2. CASE Finish /\ Present' = Present \ {pass.group} /\ Present' # Present
    BY <1>3, <1>6, <2>2 DEF Promise!Next
  <2>3. CASE Present' = Present
    <3>1. NoGain \/ (Gain /\ Reconciling /\ vgr' = vgr)
      BY <1>6, HeldChange
    <3>2. QED
      BY <1>4, <1>5, <2>3, <3>1 DEF Promise!Next
  <2>4. QED
    BY <1>6, <2>1, <2>2, <2>3, PresentSame
<1>7. QED
  BY <1>1, <1>6

\* The finalizer of a VGR keeps GroupPromise, for any groups and bounds.
THEOREM ImplementsPromise == Spec => KeepsPromise
<1>1. Init => Promise!Init
  <2> SUFFICES ASSUME Init PROVE Present = {} /\ \A g \in Groups : Holdings[g] = {}
    BY HoldingsOwed DEF Promise!Init, Present, Holdings
  <2>1. PICK s \in [Groups -> States] :
           vgr = [g \in Groups |-> IF g \in site.groups
                                   THEN [at |-> "live", fin |-> FALSE, state |-> s[g]]
                                   ELSE NoVGR]
    BY DEF Init
  <2>2. Present = {}
    BY <2>1 DEF Present, NoVGR
  <2>3. ASSUME NEW g \in Groups, NEW x \in Things PROVE ~Owed(g, x[1], x[2])
    BY <2>2, LifecycleInit, HoldingsOwed DEF LifecycleInv, Kept, Present
  <2>4. QED
    BY <2>2, <2>3, HoldingsOwed
<1>2. LifecycleInv /\ [Next]_vars => [Promise!Next]_<<Present, Holdings>>
  BY PromiseStep
<1>3. <<Present, Holdings>> = Promise!promiseVars
  BY DEF Promise!promiseVars, Present, Holdings
<1>4. LifecycleInv /\ [Next]_vars => [Promise!Next]_(Promise!promiseVars)
  BY <1>2, <1>3 DEF Promise!promiseVars, Present, Holdings
<1>5. QED
  BY <1>1, <1>4, LifecycleInit, LifecycleStep, PTL DEF Spec, KeepsPromise, Promise!Spec

-----------------------------------------------------------------------------
(* One direction at a time *)

OneWayInv == OneWay /\ Cleared

LEMMA OneWayStep == TypeOK /\ PassSound /\ OneWayInv /\ [Next]_vars => OneWayInv'
<1> SUFFICES ASSUME TypeOK, PassSound, OneWayInv, [Next]_vars PROVE OneWayInv'
  OBVIOUS
<1>t. /\ pass \in Passes /\ PassOK /\ sync \in [Kinds -> [Claims -> Owners]]
      /\ pass.as \in States
  BY TypeOfPasses DEF TypeOK, PassOK
<1>r. <<Makes, Removes>> = <<"rs", "rd">> \/ <<Makes, Removes>> = <<"rd", "rs">>
  BY DEF Makes, Removes
<1> USE IdlePass, PassGoesOn DEF Kinds, Steps
<1>k. ASSUME sync' = sync,
             \A p \in Claims : <<"both", p>> \in missed => <<"both", p>> \in missed',
             \/ pass'.step \notin {"label", "sync"}
             \/ /\ pass.step \in {"label", "sync"}
                /\ pass'.as = pass.as /\ pass'.on = pass.on
      PROVE  OneWayInv'
  <2>1. OneWay'
    BY <1>k DEF OneWayInv, OneWay
  <2>2. CASE pass'.step \notin {"label", "sync"}
    BY <2>1, <2>2 DEF OneWayInv, Cleared
  <2>3. CASE /\ pass.step \in {"label", "sync"}
             /\ pass'.as = pass.as /\ pass'.on = pass.on
    <3>1. pass.on \in Claims /\ Removes' = Removes
      BY <1>t, <2>3, TypeOfPasses DEF PassOK, Removes
    <3>2. QED
      BY <1>k, <2>1, <2>3, <3>1 DEF OneWayInv, Cleared
  <2>4. QED
    BY <1>k, <2>2, <2>3
<1>1. ASSUME NEW p \in Claims, ClearOther(p) PROVE OneWayInv'
  <2>1. pass'.as = pass.as /\ pass'.on = p
    BY <1>1 DEF ClearOther, PassGoes
  <2>2. Removes' = Removes
    BY <2>1 DEF Removes
  <2>3. CASE syncSeen[Removes][p] = None
    <3>1. /\ sync' = sync
          /\ sync[Removes][p] # None => <<"both", p>> \in missed'
          /\ missed \subseteq missed'
      BY <1>1, <2>3 DEF ClearOther, SyncsKept
    <3>2. OneWay'
      BY <3>1 DEF OneWayInv, OneWay
    <3>3. Cleared'
      BY <2>1, <2>2, <3>1 DEF Cleared
    <3>4. QED
      BY <3>2, <3>3 DEF OneWayInv
  <2>4. CASE syncSeen[Removes][p] # None
    <3>1. /\ sync' = [sync EXCEPT ![Removes][p] = None]
          /\ missed' = missed \ {<<"both", p>>}
      BY <1>1, <2>4 DEF ClearOther, WriteSync
    <3>2. /\ sync'[Removes][p] = None
          /\ \A k \in Kinds, q \in Claims : q # p => sync'[k][q] = sync[k][q]
      BY <1>t, <1>r, <3>1
    <3>3. OneWay'
      BY <1>r, <3>1, <3>2 DEF OneWayInv, OneWay
    <3>4. Cleared'
      BY <2>1, <2>2, <3>2 DEF Cleared
    <3>5. QED
      BY <3>3, <3>4 DEF OneWayInv
  <2>5. QED
    BY <2>3, <2>4
<1>2. ASSUME NEW p \in Claims, MakeSync(p) PROVE OneWayInv'
  <2>1. pass'.step = "guard"
    BY <1>2 DEF MakeSync
  <2>2. sync[Removes][p] = None \/ <<"both", p>> \in missed
    BY <1>2 DEF MakeSync, OneWayInv, Cleared
  <2>3. CASE syncSeen[Makes][p] = pass.group
    BY <1>2, <1>k, <2>1, <2>3 DEF MakeSync, SyncsKept
  <2>4. CASE syncSeen[Makes][p] # pass.group
    <3>1. /\ sync' = [sync EXCEPT ![Makes][p] = pass.group]
          /\ missed' = missed \ {<<Makes, p>>}
      BY <1>2, <2>4 DEF MakeSync, WriteSync
    <3>2. /\ sync'[Removes][p] = sync[Removes][p]
          /\ \A k \in Kinds, q \in Claims : q # p => sync'[k][q] = sync[k][q]
          /\ \A q \in Claims : <<"both", q>> \in missed => <<"both", q>> \in missed'
      BY <1>t, <1>r, <3>1
    <3>3. OneWay'
      BY <1>r, <2>2, <3>2 DEF OneWayInv, OneWay
    <3>4. QED
      BY <2>1, <3>3 DEF OneWayInv, Cleared
  <2>5. QED
    BY <2>3, <2>4
<1>3. ASSUME NEW p \in Claims, DeleteSync(p) PROVE OneWayInv'
  <2>1. /\ \A k \in Kinds, q \in Claims : sync'[k][q] = sync[k][q] \/ sync'[k][q] = None
        /\ missed' = missed /\ pass'.step \notin {"label", "sync"}
    BY <1>3, <1>t DEF DeleteSync, WriteSync
  <2>2. OneWay'
    BY <2>1 DEF OneWayInv, OneWay
  <2>3. QED
    BY <2>1, <2>2 DEF OneWayInv, Cleared
<1>4. ASSUME NEW p \in Claims, Label(p) PROVE OneWayInv'
  BY <1>4, <1>k DEF Label, SyncsKept, PassGoes
<1>5. ASSUME NEW p \in Claims, Skip(p) \/ Park(p) \/ Guard(p) PROVE OneWayInv'
  <2>1. /\ sync' = sync /\ pass'.step = "next"
        /\ \A q \in Claims : <<"both", q>> \in missed => <<"both", q>> \in missed'
    BY <1>5 DEF Skip, Park, Guard, SyncsKept, stored
  <2>2. QED
    BY <2>1, <1>k
<1>6. ASSUME NEW g \in Groups, StartReconcile(g) \/ StartDelete(g) PROVE OneWayInv'
  <2>1. /\ sync' = sync /\ pass'.step \in {"next", "rs"} /\ missed \subseteq missed'
    BY <1>6 DEF StartReconcile, StartDelete, stored, Idle
  <2>2. QED
    BY <2>1, <1>k
<1>7. ASSUME EndReconcile \/ Finish \/ FailDelete \/ \E p \in Claims : ReleaseRefused(p)
      PROVE  OneWayInv'
  <2>1. sync' = sync /\ pass'.step = "none" /\ missed' = missed
    BY <1>7 DEF EndReconcile, Finish, FailDelete, ReleaseRefused, End, stored
  <2>2. QED
    BY <2>1, <1>k
<1>8. ASSUME ListDestinations \/ ListClaims PROVE OneWayInv'
  <2>1. sync' = sync /\ pass'.step \in {"rd", "pvc"} /\ missed \subseteq missed'
    BY <1>8, <1>t DEF ListDestinations, ListClaims, stored, Passes
  <2>2. QED
    BY <2>1, <1>k
<1>9. ASSUME NEW p \in Claims,
             Doom(p) \/ Release(p) \/ ReleaseDoomed(p) \/ IgnoreRefusal(p) \/ Drop(p)
      PROVE  OneWayInv'
  <2>1. sync' = sync /\ pass'.step \in {"pvc", "unguard", "drop"} /\ missed \subseteq missed'
    BY <1>9 DEF Doom, Release, ReleaseDoomed, IgnoreRefusal, Drop, Unguard, SyncsKept, stored
  <2>2. QED
    BY <2>1, <1>k
<1>10. ASSUME NEW g \in Groups, NEW s \in States, SetState(g, s) PROVE OneWayInv'
  <2>1. /\ sync' = sync /\ missed' = missed
        /\ pass'.step = pass.step /\ pass'.as = pass.as /\ pass'.on = pass.on
    BY <1>10, <1>t DEF SetState, Passes
  <2>2. QED
    BY <2>1, <1>k
<1>11. ASSUME UNCHANGED <<sync, pass, missed>> PROVE OneWayInv'
  BY <1>11, <1>k
<1>12. QED
  <2>1. ASSUME NEW p \in Claims, Unlabel(p) \/ DeletePVC(p) \/ Vanish(p) \/ Reclaim(p)
        PROVE  UNCHANGED <<sync, pass, missed>>
    BY <2>1 DEF Unlabel, DeletePVC, Vanish, Reclaim, SyncsKept, stored
  <2>2. ASSUME SetClass \/ CatchUp PROVE UNCHANGED <<sync, pass, missed>>
    BY <2>2 DEF SetClass, CatchUp, stored
  <2>3. ASSUME NEW g \in Groups, NEW s \in States, CreateVGR(g, s)
        PROVE  UNCHANGED <<sync, pass, missed>>
    BY <2>3 DEF CreateVGR
  <2>4. ASSUME NEW g \in Groups, DeleteVGR(g) \/ Adopt(g)
        PROVE  UNCHANGED <<sync, pass, missed>>
    BY <2>4 DEF DeleteVGR, Adopt
  <2>5. ASSUME UNCHANGED vars PROVE UNCHANGED <<sync, pass, missed>>
    BY <2>5 DEF vars, stored
  <2>6. QED
    BY <1>1, <1>2, <1>3, <1>4, <1>5, <1>6, <1>7, <1>8, <1>9, <1>10, <1>11,
       <2>1, <2>2, <2>3, <2>4, <2>5
       DEF Next, Start, WorkerStep, ReconcileStep, DeleteStep, UserAct, Kubernetes

\* A PVC is replicated both ways only if the cache hid one of the two (OneWay).
THEOREM NeverBothWays == Spec => []OneWay
<1>1. Init => OneWayInv
  <2> SUFFICES ASSUME Init PROVE OneWayInv
    OBVIOUS
  <2>1. pass.step = "none" /\ \A k \in Kinds, p \in Claims : sync[k][p] = None
    BY IdlePass DEF Init
  <2>2. QED
    BY <2>1 DEF OneWayInv, OneWay, Cleared, Kinds
<1>2. OneWayInv => OneWay
  BY DEF OneWayInv
<1>3. LifecycleInv => TypeOK /\ PassSound
  BY DEF LifecycleInv, PassInv
<1>4. QED
  BY <1>1, <1>2, <1>3, LifecycleInit, LifecycleStep, OneWayStep, PTL DEF Spec

=============================================================================
