--------------------------- MODULE DeployerSetSync ----------------------------
(***************************************************************************)
(* The deployer controller: it mirrors the Deployers of the managed        *)
(* cluster into the one DeployerSet of the cluster's namespace on the hub. *)
(*                                                                         *)
(* Reconcile ignores the key it is called with and recomputes the whole    *)
(* set from the informer's cache, which lags behind the API server; every  *)
(* hub call is a step of its own.  All errors are logged and swallowed, so *)
(* no key is ever requeued: what repairs a failed write is the next event  *)
(* of a Deployer, or the informer's periodic resync of existing Deployers. *)
(***************************************************************************)
EXTENDS Integers, Sequences, FiniteSets

CONSTANTS
    Deployers,   \* keys (namespace/name) of Deployers
    Specs,       \* what a Deployer's spec may be
    Absent,      \* a Deployer that does not exist
    None,        \* no default deployer
    MaxChanges,  \* bound: changes of the Deployers
    MaxHubOps,   \* bound: writes to the DeployerSet by others on the hub
    MaxFaults,   \* bound: hub calls that fail or whose reply is lost
    MaxCrashes   \* bound: crashes of the process

ASSUME ConstantsAssumption ==
    /\ None \notin Deployers
    /\ {MaxChanges, MaxHubOps, MaxFaults, MaxCrashes} \subseteq Nat

VARIABLES
    hist,   \* managed cluster: every state the Deployers have had, last is current
    up,     \* is the process running?
    cver,   \* the state the informer's cache holds, an index of hist
    queue,  \* the controller's workqueue, a set of keys
    pc,     \* the worker: "idle", or the hub call Reconcile makes next
    lver,   \* the state it listed from the cache, an index of hist
    ldef,   \* the default deployer it picked from that list
    fresh,  \* the DeployerSet still has the resource version it read
    hub,    \* the DeployerSet: [exists, ver, def]
    left    \* what remains of each bound

vars == <<hist, up, cver, queue, pc, lver, ldef, fresh, hub, left>>

(* A Deployer has a spec and may carry the annotation that makes it default. *)
Contents == {Absent} \cup [spec : Specs, default : BOOLEAN]
States == [Deployers -> Contents]

Current == hist[Len(hist)]
Present(s) == {d \in Deployers : s[d] # Absent}
Flagged(s) == {d \in Present(s) : s[d].default}

(* The list comes in no particular order, and the last flagged one wins.     *)
Defaults(s) == IF Flagged(s) = {} THEN {None} ELSE Flagged(s)

worker == <<pc, lver, ldef, fresh>>
process == <<up, cver, queue, worker>>

(* Reconcile is over, and its locals with it.                                *)
Return == pc' = "idle" /\ lver' = 1 /\ ldef' = None /\ fresh' = FALSE

Spend(bound) == /\ left[bound] > 0
                /\ left' = [left EXCEPT ![bound] = @ - 1]
-----------------------------------------------------------------------------
Init ==
    /\ \E s \in States : hist = <<s>>
    /\ up = FALSE
    /\ cver = 1
    /\ queue = {}
    /\ pc = "idle" /\ lver = 1 /\ ldef = None /\ fresh = FALSE
    /\ hub = [exists |-> FALSE, ver |-> 1, def |-> None]
    /\ left = [changes |-> MaxChanges, hubOps |-> MaxHubOps, faults |-> MaxFaults,
               crashes |-> MaxCrashes]

(* Faulty variant: the first list is served from a stale cache.              *)
StartStale ==
    /\ ~up
    /\ up' = TRUE
    /\ cver' = 1
    /\ queue' = Present(hist[1])
    /\ UNCHANGED <<hist, worker, hub, left>>

(* The manager starts the informer, which enqueues every Deployer it lists.  *)
(* Assumed of the API server: the first list of a process is answered from   *)
(* the current state.  client-go asks for it at resourceVersion 0, which an  *)
(* API server whose own cache lags may answer with an older one; the set     *)
(* could then go back to that until the watch catches up, see StartStale.    *)
Start ==
    /\ ~up
    /\ up' = TRUE
    /\ cver' = Len(hist)
    /\ queue' = Present(Current)
    /\ UNCHANGED <<hist, worker, hub, left>>

Crash ==
    /\ up
    /\ Spend("crashes")
    /\ up' = FALSE
    /\ queue' = {}
    /\ cver' = 1
    /\ Return
    /\ UNCHANGED <<hist, hub>>
-----------------------------------------------------------------------------
(* Faulty variant: only the keys of new Deployers are enqueued.              *)
ObserveNew ==
    /\ up
    /\ cver < Len(hist)
    /\ cver' = cver + 1
    /\ queue' = queue \cup {d \in Deployers : hist[cver][d] = Absent /\ hist[cver + 1][d] # Absent}
    /\ UNCHANGED <<hist, up, worker, hub, left>>

(* The informer: one event after another, each enqueues its key.             *)
Observe ==
    /\ up
    /\ cver < Len(hist)
    /\ cver' = cver + 1
    /\ queue' = queue \cup {d \in Deployers : hist[cver][d] # hist[cver + 1][d]}
    /\ UNCHANGED <<hist, up, worker, hub, left>>

(* Faulty variant: the list is answered by a server that lags behind.        *)
RelistStale ==
    /\ up
    /\ cver < Len(hist)
    /\ cver' \in 1 .. Len(hist)
    /\ queue' = queue \cup Present(hist[cver]) \cup Present(Current)
    /\ UNCHANGED <<hist, up, worker, hub, left>>

(* After a broken watch it lists again: the states in between are skipped,   *)
(* and every key that it lists, or that has vanished, is enqueued.           *)
Relist ==
    /\ up
    /\ cver < Len(hist)
    /\ cver' = Len(hist)
    /\ queue' = queue \cup Present(hist[cver]) \cup Present(Current)
    /\ UNCHANGED <<hist, up, worker, hub, left>>

(* Every SyncPeriod (10 hours by default) the cached Deployers are enqueued. *)
Resync ==
    /\ up
    /\ queue' = queue \cup Present(hist[cver])
    /\ UNCHANGED <<hist, up, cver, worker, hub, left>>
-----------------------------------------------------------------------------
(* reconcileDeployerSet.  The key is used for a Get whose result is unused.  *)

ListDeployers(d) ==
    /\ up
    /\ pc = "idle"
    /\ d \in queue
    /\ queue' = queue \ {d}
    /\ lver' = cver
    /\ ldef' \in Defaults(hist[cver])
    /\ pc' = "get"
    /\ UNCHANGED <<hist, up, cver, fresh, hub, left>>

(* Faulty variant: a set that exists is left as it is.                       *)
GetSetUnlessPresent ==
    /\ pc = "get"
    /\ pc' = IF ~hub.exists THEN "create"
             ELSE IF Present(hist[lver]) = {} THEN "delete" ELSE "idle"
    /\ fresh' = TRUE
    /\ UNCHANGED <<hist, up, cver, queue, lver, ldef, hub, left>>

GetSet ==
    /\ pc = "get"
    /\ pc' = IF ~hub.exists THEN "create"
             ELSE IF Present(hist[lver]) = {} THEN "delete" ELSE "update"
    /\ fresh' = TRUE
    /\ UNCHANGED <<hist, up, cver, queue, lver, ldef, hub, left>>

(* A set created meanwhile makes Create fail, one that changed makes Update  *)
(* fail, and one that is gone makes Update and Delete fail.                  *)
(* Faulty variant: without a new default the published one stays.            *)
PublishMerged ==
    hub' = [exists |-> TRUE, ver |-> lver, def |-> IF ldef = None THEN hub.def ELSE ldef]

PublishSet == hub' = [exists |-> TRUE, ver |-> lver, def |-> ldef]
RemoveSet == hub' = [hub EXCEPT !.exists = FALSE, !.def = None]

CreateEffect == pc = "create" /\ ~hub.exists /\ PublishSet
UpdateEffect == pc = "update" /\ hub.exists /\ fresh /\ PublishSet
DeleteEffect == pc = "delete" /\ hub.exists /\ RemoveSet

WriteSet ==
    /\ CreateEffect \/ UpdateEffect \/ DeleteEffect
    /\ Return
    /\ UNCHANGED <<hist, up, cver, queue, left>>

WriteRefused ==
    /\ \/ pc = "create" /\ hub.exists
       \/ pc = "update" /\ ~(hub.exists /\ fresh)
       \/ pc = "delete" /\ ~hub.exists
    /\ Return
    /\ UNCHANGED <<hist, up, cver, queue, hub, left>>

CallFails ==
    /\ pc # "idle"
    /\ Spend("faults")
    /\ Return
    /\ UNCHANGED <<hist, up, cver, queue, hub>>

ReplyLost ==
    /\ CreateEffect \/ UpdateEffect \/ DeleteEffect
    /\ Spend("faults")
    /\ Return
    /\ UNCHANGED <<hist, up, cver, queue>>
-----------------------------------------------------------------------------
(* Users of the managed cluster create, change and delete Deployers; users   *)
(* and controllers of the hub touch or delete the DeployerSet.               *)

ChangeDeployer(d) ==
    /\ Spend("changes")
    /\ \E c \in Contents \ {Current[d]} : hist' = Append(hist, [Current EXCEPT ![d] = c])
    /\ UNCHANGED <<process, hub>>

HubWrites ==
    /\ hub.exists
    /\ Spend("hubOps")
    /\ UNCHANGED hub \/ RemoveSet
    /\ fresh' = FALSE
    /\ UNCHANGED <<hist, up, cver, queue, pc, lver, ldef>>
-----------------------------------------------------------------------------
Worker == (\E d \in Deployers : ListDeployers(d)) \/ GetSet \/ WriteSet \/ WriteRefused
Fault == Crash \/ Relist \/ CallFails \/ ReplyLost
Environment == (\E d \in Deployers : ChangeDeployer(d)) \/ HubWrites

Next == Start \/ Observe \/ Resync \/ Worker \/ Fault \/ Environment

Spec == Init /\ [][Next]_vars

(* The container is restarted, the watch delivers, the worker works, and the *)
(* resync timer keeps firing.                                                *)
FairSpec == Spec /\ WF_vars(Start) /\ WF_vars(Observe) /\ WF_vars(Resync) /\ WF_vars(Worker)
-----------------------------------------------------------------------------
TypeOK ==
    /\ hist \in Seq(States) /\ Len(hist) >= 1
    /\ up \in BOOLEAN
    /\ cver \in 1 .. Len(hist)
    /\ queue \subseteq Deployers
    /\ pc \in {"idle", "get", "create", "update", "delete"}
    /\ lver \in 1 .. Len(hist)
    /\ ldef \in Deployers \cup {None}
    /\ fresh \in BOOLEAN
    /\ hub \in [exists : BOOLEAN, ver : 1 .. Len(hist), def : Deployers \cup {None}]
    /\ left \in [{"changes", "hubOps", "faults", "crashes"} -> Nat]

(* The set on the hub never goes back to an older state of the Deployers:    *)
(* what the worker is about to publish, and what the cache holds, is at      *)
(* least as recent (one worker, reading a cache that moves forward).         *)
NeverOlder ==
    /\ up => hub.ver <= cver
    /\ pc # "idle" => hub.ver <= lver /\ lver <= cver /\ up

(* The DeployerSet implements the mirror the hub relies on.                  *)
Mirror == INSTANCE DeployerMirror WITH
    history <- hist, present <- hub.exists, version <- hub.ver

RefinesMirror == Mirror!MirrorSpec

(* The published default is a deployer of the published list that carries    *)
(* the default annotation, and there is one whenever some deployer does.     *)
DefaultIsPublished == hub.exists => hub.def \in Defaults(hist[hub.ver])

(* While Deployers remain, the set ends up showing the latest of them: the   *)
(* resync makes up for failed calls, refused updates, crashes and removals.  *)
Shown == hub.exists /\ hist[hub.ver] = Current /\ hub.def \in Defaults(Current)
MirrorConverges == <>[](Present(Current) # {} => Shown)

(* Until a call to the hub fails or somebody else writes the set, the events *)
(* of the Deployers suffice: when the controller has nothing left to do the  *)
(* set shows the latest of them, without a resync and also after a crash.    *)
AtRest == up /\ cver = Len(hist) /\ queue = {} /\ pc = "idle"
Undisturbed == left.faults = MaxFaults /\ left.hubOps = MaxHubOps
ShownAtRest == (AtRest /\ Undisturbed /\ Present(Current) # {}) => Shown
=============================================================================
