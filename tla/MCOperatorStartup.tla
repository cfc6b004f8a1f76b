--------------------------- MODULE MCOperatorStartup ---------------------------
(***************************************************************************)
(* Instances of OperatorStartup for TLC: the core group, a group with the  *)
(* kind Application, one whose resource lacks verbs, and one whose name    *)
(* looks like a version.                                                   *)
(***************************************************************************)
EXTENDS OperatorStartup

SomeSegments == {"v1", "v2ray", "app"}
SomeVersions == {"v1", "v2ray"}

Resource(gv, kind, full) == [gv |-> gv, kind |-> kind, full |-> full]
Application == Resource(<<"app", "v1">>, "Application", TRUE)
Service == Resource(<<"v1">>, "Service", TRUE)
SomeResources == {Application, Service,
                  Resource(<<"v1">>, "Binding", FALSE),
                  Resource(<<"v2ray", "v1">>, "Service", TRUE)}

(* The other kinds are installed later, if at all.                          *)
CoreOnly == {r \in SomeResources : Len(r.gv) = 1}
=============================================================================
