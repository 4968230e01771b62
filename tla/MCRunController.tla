-------------------------- MODULE MCRunController --------------------------
(* Small instances of RunController for TLC. *)
EXTENDS RunController, TLC

CONSTANTS r1, r2, r3, t1, t2, t3, m1, i1, p1, p2, c1, c2

\* t1 and t2 compete for the slots of one principal when p2 has only t3.
OnePrincipal == [t \in Tasks |-> p1]
TwoPrincipals == [t \in Tasks |-> IF t = t3 THEN p2 ELSE p1]
OneRunner == [m \in Presets |-> i1]
LimitOne  == [p \in Principals |-> 1]

Symmetry == Permutations(Runs)

\* t1 and t2 have the same principal under both assignments.
FullSymmetry ==
    Symmetry \cup Permutations({t1, t2}) \cup Permutations(Cancellers)
=============================================================================
