----------------------------- MODULE GroupVersions -----------------------------
(***************************************************************************)
(* How the explorer and the lookups name a kind of resource.               *)
(*                                                                         *)
(* An apiVersion is the sequence of its parts between slashes: <<"v1">> of *)
(* the core group, <<"apps", "v1">> of any other, <<>> for the empty text. *)
(* The map of the explorer is filled under keys that the API library makes *)
(* of what discovery lists; the lookups make theirs with StripVersion and  *)
(* StripGroup of the apiVersion they find in a manifest or an owner.       *)
(***************************************************************************)
EXTENDS Naturals, Sequences

CONSTANTS
    Segments,   \* parts of an apiVersion
    VersionLike \* those that begin with a v and a digit

ASSUME SegmentsAssumption == VersionLike \subseteq Segments /\ "" \notin Segments

ApiVersions == {<<s>> : s \in Segments} \cup (Segments \X Segments)

(* The group: none, that of the core group, when gv begins with a version.  *)
StripVersion(gv) == IF gv = <<>> \/ gv[1] \in VersionLike THEN "" ELSE gv[1]

(* The version: all of gv when it begins with one, else its second part.    *)
StripGroup(gv) == IF gv[1] \in VersionLike THEN gv ELSE <<gv[2]>>

LookupKey(gv, kind) ==
    [group |-> StripVersion(gv), version |-> StripGroup(gv), kind |-> kind]

(* Faulty variant: the group/version of the list is taken as it is.         *)
MapKeyUnparsed(gv, kind) == [group |-> "", version |-> gv, kind |-> kind]

MapKey(gv, kind) ==
    [group |-> IF Len(gv) = 1 THEN "" ELSE gv[1], version |-> <<gv[Len(gv)]>>, kind |-> kind]

(* The core group has a version with its usual name, and the name of every  *)
(* other group does not look like a version.                                *)
Conventional(gv) == (Len(gv) = 1) <=> (gv[1] \in VersionLike)
=============================================================================
