---------------------------- MODULE DeployerMirror ----------------------------
(***************************************************************************)
(* What the hub may assume about a cluster's DeployerSet: while it exists  *)
(* it shows the deployers the managed cluster had at one moment, all of    *)
(* them and nothing else, and it never shows an older moment after a newer *)
(* one, not even across a removal.  When it is published is not promised.  *)
(***************************************************************************)
EXTENDS Naturals, Sequences

CONSTANT States       \* states of the managed cluster's deployers

VARIABLES
    history,          \* the states so far, the last one is current
    present,          \* does the DeployerSet exist?
    version           \* the moment it shows, or showed last

mirrorVars == <<history, present, version>>

MirrorInit ==
    /\ \E s \in States : history = <<s>>
    /\ present = FALSE
    /\ version = 1

Change ==
    /\ \E s \in States : history' = Append(history, s)
    /\ UNCHANGED <<present, version>>

Publish ==
    /\ present' = TRUE
    /\ version' \in version .. Len(history)
    /\ UNCHANGED history

Remove ==
    /\ present' = FALSE
    /\ UNCHANGED <<history, version>>

MirrorSpec == MirrorInit /\ [][Change \/ Publish \/ Remove]_mirrorVars
=============================================================================
