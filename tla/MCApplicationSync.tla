-------------------------- MODULE MCApplicationSync ---------------------------
(***************************************************************************)
(* Instances of ApplicationSync for TLC: s1 names one component kind, s2   *)
(* names all, and s3 has no label selector.  r1 and r3 are of the first    *)
(* kind, r3 outside the namespace of the applications; r2 is in none, and  *)
(* there are no resources of the third kind.                               *)
(***************************************************************************)
EXTENDS ApplicationSync

CONSTANTS s1, s2, s3, r1, r2, r3, k1, k2, k3

TwoOfAKind == [o \in Objs |-> IF o = r2 THEN k2 ELSE k1]
OneOrAllKinds == [s \in Specs |-> IF s = s2 THEN {k1, k2, k3} ELSE {k1}]
AllMatch == [s \in Specs |-> Objs]
OnlyR1 == [a \in Apps |-> Objs \cap {r1}]

(* No application yet, or an enabled one with the first spec.               *)
SomeApps == {NoApp} \cup {s \in AppState : s.live /\ s.enabled /\ s.spec = s1 /\ ~s.scoped}
=============================================================================
