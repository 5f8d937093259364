---------------------------- MODULE GroupPromise ----------------------------
(***************************************************************************)
(* What the finalizer of a VolumeGroupReplication promises, with nothing   *)
(* of how passes keep it: a group acquires things only while it is present *)
(* with its finalizer, and it leaves only when it holds nothing.           *)
(***************************************************************************)
CONSTANTS
    Groups,
    Things   \* replication objects and guards on PVCs; each has one holder at most

VARIABLES
    present,   \* the groups that carry the finalizer
    held       \* held[g]: what g has acquired and not given back

promiseVars == <<present, held>>

TypeOK ==
    /\ present \subseteq Groups
    /\ held \in [Groups -> SUBSET Things]

Init ==
    /\ present = {}
    /\ held = [g \in Groups |-> {}]

Join(g) ==
    /\ g \notin present
    /\ present' = present \cup {g}
    /\ UNCHANGED held

\* x may have been held by another group until now.
Acquire(g, x) ==
    /\ g \in present
    /\ held' = [h \in Groups |-> IF h = g THEN held[h] \cup {x} ELSE held[h] \ {x}]
    /\ UNCHANGED present

\* Things are given back, lost, or known to be out of reach.
GiveBack ==
    /\ held' \in [Groups -> SUBSET Things]
    /\ \A g \in Groups : held'[g] \subseteq held[g]
    /\ UNCHANGED present

Leave(g) ==
    /\ g \in present
    /\ held[g] = {}
    /\ present' = present \ {g}
    /\ UNCHANGED held

Next ==
    \/ \E g \in Groups : Join(g) \/ Leave(g) \/ \E x \in Things : Acquire(g, x)
    \/ GiveBack

Spec == Init /\ [][Next]_promiseVars
=============================================================================
