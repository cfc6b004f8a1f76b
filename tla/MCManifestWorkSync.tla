-------------------------- MODULE MCManifestWorkSync --------------------------
(***************************************************************************)
(* Instances of ManifestWorkSync for TLC.  Each configuration names the    *)
(* kinds and owners of its resources with one of the definitions below.    *)
(***************************************************************************)
EXTENDS ManifestWorkSync

CONSTANTS r1, r2, r3, k1, k2

(* One kind for every resource, and no owner references.                    *)
OneKind == [o \in Objs |-> k1]
NoOwners == [o \in Objs |-> None]

(* r1, of kind k1, is the owner of r2, of kind k2.                          *)
TwoKinds == [o \in Objs |-> IF o = r2 THEN k2 ELSE k1]
R1OwnsR2 == [o \in Objs |-> IF o = r2 THEN r1 ELSE None]

(* r1 owns r2, which owns r3: findRootResource climbs twice.                *)
OwnersInARow == [o \in Objs |-> IF o = r3 THEN r2 ELSE IF o = r2 THEN r1 ELSE None]

(* Works are interchangeable: nothing refers to a particular one.           *)
WorkSymmetry == Permutations(Works)
=============================================================================
