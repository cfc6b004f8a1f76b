---------------------------- MODULE HostingContract ----------------------------
(***************************************************************************)
(* What both clusters may assume about hosting: a resource gets one host,  *)
(* which it keeps for as long as it exists, and a work is completed for a  *)
(* resource only when it hosts it, or when the resource is gone.  When a   *)
(* work is completed, and which of several works gets the resource, is not *)
(* promised.                                                               *)
(***************************************************************************)
CONSTANTS Objs, Works, None

VARIABLES
    present,  \* resources that exist
    host,     \* the work that hosts each resource, or None
    done      \* the resource each work is completed for, or None

contractVars == <<present, host, done>>

ContractInit ==
    /\ present \subseteq Objs
    /\ host = [o \in Objs |-> None]
    /\ done = [w \in Works |-> None]

Claim(w, o) ==
    /\ o \in present
    /\ host[o] = None
    /\ host' = [host EXCEPT ![o] = w]
    /\ UNCHANGED <<present, done>>

Complete(w, o) ==
    /\ o \in present => host[o] = w
    /\ done' = [done EXCEPT ![w] = o]
    /\ UNCHANGED <<present, host>>

(* A completed work is edited, disabled or deleted.                         *)
Withdraw(w) ==
    /\ done' = [done EXCEPT ![w] = None]
    /\ UNCHANGED <<present, host>>

Vanish(o) ==
    /\ present' = present \ {o}
    /\ host' = [host EXCEPT ![o] = None]
    /\ UNCHANGED done

ContractNext ==
    \/ \E w \in Works, o \in Objs : Claim(w, o) \/ Complete(w, o)
    \/ \E w \in Works : Withdraw(w)
    \/ \E o \in Objs : Vanish(o)

ContractSpec == ContractInit /\ [][ContractNext]_contractVars
=============================================================================
