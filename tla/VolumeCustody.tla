---------------------------- MODULE VolumeCustody ----------------------------
(***************************************************************************)
(* What the PVC handover promises about the data of a replicated volume,   *)
(* with nothing of how it does it: the volume is never without a claim, it *)
(* is parked on the temporary claim only while its application claim is    *)
(* being deleted, and it is handed back only once that claim is gone.      *)
(***************************************************************************)
CONSTANT Volumes

VARIABLES
    holder,   \* holder[v]: which claim the volume of v is reserved for
    retiring  \* retiring[v]: the application claim of v is being deleted

custodyVars == <<holder, retiring>>

TypeOK ==
    /\ holder \in [Volumes -> {"main", "tmp"}]
    /\ retiring \in [Volumes -> BOOLEAN]

Init ==
    /\ holder = [v \in Volumes |-> "main"]
    /\ retiring = [v \in Volumes |-> FALSE]

\* The application claim is deleted while it holds the volume.
Retire(v) ==
    /\ holder[v] = "main"
    /\ ~retiring[v]
    /\ retiring' = [retiring EXCEPT ![v] = TRUE]
    /\ UNCHANGED holder

\* The volume moves to the temporary claim.
Park(v) ==
    /\ holder[v] = "main"
    /\ retiring[v]
    /\ holder' = [holder EXCEPT ![v] = "tmp"]
    /\ UNCHANGED retiring

\* The deleted claim disappears, its volume already parked.
Vacate(v) ==
    /\ holder[v] = "tmp"
    /\ retiring[v]
    /\ retiring' = [retiring EXCEPT ![v] = FALSE]
    /\ UNCHANGED holder

\* The volume returns to a new application claim.
Return(v) ==
    /\ holder[v] = "tmp"
    /\ ~retiring[v]
    /\ holder' = [holder EXCEPT ![v] = "main"]
    /\ UNCHANGED retiring

Next == \E v \in Volumes : Retire(v) \/ Park(v) \/ Vacate(v) \/ Return(v)

Spec == Init /\ [][Next]_custodyVars
==============================================================================
