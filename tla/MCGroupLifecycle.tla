-------------------------- MODULE MCGroupLifecycle --------------------------
(* Two VGRs and two PVCs in two namespaces; at most three of the four exist.  *)
EXTENDS GroupLifecycle, TLC

CONSTANTS g1, g2, p1, p2

Site(n1, n2, h2, q1, q2, o1, o2, gs, ps) ==
    [name |-> (g1 :> n1) @@ (g2 :> n2), home |-> (g1 :> "a") @@ (g2 :> h2),
     place |-> (p1 :> q1) @@ (p2 :> q2), owner |-> (p1 :> o1) @@ (p2 :> o2),
     groups |-> gs, claims |-> ps]

MCSites == {
    \* one VGR and its PVCs, one in its namespace and one elsewhere
    Site("n", "m", "b", "a", "b", g1, g1, {g1}, {p1, p2}),
    \* two VGRs in one namespace that select a PVC of the first
    Site("n", "m", "a", "a", "b", g1, None, {g1, g2}, {p1}),
    \* VGRs of one name in two namespaces, a PVC of the second beside the first
    Site("n", "n", "b", "a", "b", g2, None, {g1, g2}, {p1}) }
=============================================================================
