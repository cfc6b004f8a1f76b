---------------------------- MODULE ApplicationSync ----------------------------
(***************************************************************************)
(* Which resources of the managed cluster are discovered on behalf of      *)
(* which Application.                                                      *)
(*                                                                         *)
(* The listener of the Application informer filters each notification on   *)
(* the discovery annotation and on a change of the spec, lists the         *)
(* components of each kind the spec names, and hands every one of them to  *)
(* SyncManifestWork, whose own calls are the subject of ManifestWorkSync.  *)
(* Components are not watched: they are looked up when, and as, the        *)
(* notified version of the application says.                               *)
(***************************************************************************)
EXTENDS SequencesExt

CONSTANTS
    Apps,       \* Applications
    Specs,      \* contents of an Application's spec
    Objs,       \* managed-cluster resources
    Kinds,      \* group/kinds
    AppKind,    \* the kind Application itself
    KindOf,     \* the kind of each resource
    ClusterKinds, \* kinds whose resources are in no namespace
    KindsIn,    \* componentKinds of each spec
    Matches,    \* resources the label selector of each spec matches
    NoSelector, \* specs without a label selector
    Inside,     \* resources in the namespace of each Application
    InitApps,   \* what the Applications may be before the process starts
    InitObjs,   \* resources that exist before the process starts
    InitKinds,  \* kinds discovery lists before the process starts
    UserOps,    \* what users may do
    MaxOps,     \* bound: operations of users other than LateOps
    MaxLate,    \* bound: LateOps
    MaxFaults,  \* bound: List calls that fail
    MaxCrashes  \* bound: crashes of the process other than its own panics

(* Operations that no notification with a new spec follows, and deletion: an *)
(* application recreated with its old spec while the watch is broken looks  *)
(* like one whose spec did not change.                                      *)
LateOps == {"enable", "scope", "object", "installKind", "delete"}

AppState == [live : BOOLEAN, spec : Specs, enabled : BOOLEAN, scoped : BOOLEAN]

ASSUME ConstantsAssumption ==
    /\ IsFiniteSet(Apps) /\ Apps # {}
    /\ Specs # {}
    /\ AppKind \in Kinds
    /\ KindOf \in [Objs -> Kinds]
    /\ ClusterKinds \subseteq Kinds
    /\ KindsIn \in [Specs -> SUBSET Kinds]
    /\ NoSelector \subseteq Specs
    /\ Matches \in [Specs -> SUBSET Objs]
    /\ Inside \in [Apps -> SUBSET Objs]
    /\ InitApps \subseteq AppState
    /\ InitObjs \subseteq Objs
    /\ InitKinds \subseteq Kinds
    /\ UserOps \subseteq {"create", "editSpec"} \cup LateOps
    /\ {MaxOps, MaxLate, MaxFaults, MaxCrashes} \subseteq Nat

VARIABLES
    apps,      \* managed cluster: the Applications
    objs,      \* managed cluster: the resources that exist
    served,    \* kinds discovery lists
    known,     \* kinds in GVKGVRMap
    up,        \* is the process running?
    watching,  \* is the Application informer running?
    appq,      \* notifications the listener has yet to handle
    seen,      \* the informer's last version of each Application
    sync,      \* the syncApplication under way, see Idle
    past,      \* history: every version there has been of an Application
    handed,    \* history: <<a, version, o>> handed to SyncManifestWork
    left       \* what remains of each bound

vars == <<apps, objs, served, known, up, watching, appq, seen, sync, past, handed, left>>

cluster == <<apps, objs, served, past>>
process == <<known, up, watching>>

(* app is the notified version of application a, todo the component kinds   *)
(* yet to list, items the components yet to hand over.                      *)
NoApp == [live |-> FALSE, spec |-> CHOOSE s \in Specs : TRUE, enabled |-> FALSE, scoped |-> FALSE]
Idle == [busy |-> FALSE, a |-> CHOOSE a \in Apps : TRUE, app |-> NoApp, todo |-> {}, items |-> {}]

Spend(bound) == /\ left[bound] > 0
                /\ left' = [left EXCEPT ![bound] = @ - 1]

(* A spec without a selector is a nil pointer whose labels are read, and a  *)
(* kind without namespaces cannot be listed in one.                         *)
Listable(s, k) == s.spec \notin NoSelector /\ (s.scoped \/ k \notin ClusterKinds)

(* Resources an application in state s selects.                             *)
Selected(a, s) ==
    {o \in Matches[s.spec] : KindOf[o] \in KindsIn[s.spec] /\ (s.scoped \/ o \in Inside[a])}
-----------------------------------------------------------------------------
Init ==
    /\ apps \in [Apps -> InitApps]
    /\ objs = InitObjs
    /\ served = InitKinds
    /\ known = {}
    /\ up = FALSE
    /\ watching = FALSE
    /\ appq = <<>>
    /\ seen = [a \in Apps |-> NoApp]
    /\ sync = Idle
    /\ past = {<<a, apps[a]>> : a \in Apps}
    /\ handed = {}
    /\ left = [ops |-> MaxOps, late |-> MaxLate, faults |-> MaxFaults, crashes |-> MaxCrashes]

(* InitExplorer, then Start of the reconciler: without the Application CRD  *)
(* the reconciler returns and the process runs on without an informer.      *)
Start ==
    /\ ~up
    /\ up' = TRUE
    /\ known' = served
    /\ watching' = (AppKind \in served)
    /\ appq' \in SetToSeqs({[a |-> a, new |-> apps[a]] : a \in {b \in Apps : watching' /\ apps[b].live}})
    /\ UNCHANGED <<cluster, seen, sync, handed, left>>

Halt ==
    /\ up' = FALSE
    /\ watching' = FALSE
    /\ appq' = <<>>
    /\ seen' = [a \in Apps |-> NoApp]
    /\ sync' = Idle
    /\ UNCHANGED <<cluster, known, handed>>

Crash == up /\ Spend("crashes") /\ Halt
-----------------------------------------------------------------------------
(* SyncCreateApplication looks at the annotation, SyncUpdateApplication at  *)
(* the annotation and the specs, SyncRemoveApplication does nothing.  The   *)
(* informer's resync notifies of a version twice, which changes nothing.    *)

(* Faulty variant: the annotation is read from the old version.             *)
RelevantBefore(old, new) ==
    /\ new.live
    /\ IF old.live THEN old.enabled /\ old.spec # new.spec ELSE new.enabled

(* Faulty variant: only new applications are synced.                        *)
RelevantNew(old, new) == new.live /\ new.enabled /\ ~old.live

Relevant(old, new) ==
    /\ new.live
    /\ new.enabled
    /\ old.live => old.spec # new.spec

Deliver ==
    /\ up
    /\ ~sync.busy
    /\ appq # <<>>
    /\ LET a == Head(appq).a
           new == Head(appq).new
       IN  /\ seen' = [seen EXCEPT ![a] = new]
           /\ sync' = IF Relevant(seen[a], new)
                      THEN [busy |-> TRUE, a |-> a, app |-> new,
                            todo |-> KindsIn[new.spec] \cap known, items |-> {}]
                      ELSE sync
    /\ appq' = Tail(appq)
    /\ UNCHANGED <<cluster, process, handed, left>>

(* A relist after a broken watch skips the versions that a later one of the *)
(* same application supersedes.                                             *)
Relist ==
    /\ \E i, j \in DOMAIN appq :
          /\ i < j
          /\ appq[i].a = appq[j].a
          /\ appq' = RemoveAt(appq, i)
    /\ UNCHANGED <<cluster, process, seen, sync, handed, left>>
-----------------------------------------------------------------------------
(* syncApplication *)

(* Faulty variant: the list of a kind replaces the lists before it.         *)
ListKindKeepingLast(k) ==
    /\ up
    /\ k \in sync.todo
    /\ Listable(sync.app, k)
    /\ sync' = [sync EXCEPT !.todo = @ \ {k},
                            !.items = {o \in Selected(sync.a, sync.app) \cap objs : KindOf[o] = k}]
    /\ UNCHANGED <<cluster, process, appq, seen, handed, left>>

ListKind(k) ==
    /\ up
    /\ k \in sync.todo
    /\ Listable(sync.app, k)
    /\ sync' = [sync EXCEPT !.todo = @ \ {k},
                            !.items = @ \cup {o \in Selected(sync.a, sync.app) \cap objs : KindOf[o] = k}]
    /\ UNCHANGED <<cluster, process, appq, seen, handed, left>>

(* The process panics: on the nil selector, or because the list of a kind   *)
(* in a place where it does not exist fails, see ListKindFails.  The next   *)
(* process finds the application again.                                     *)
ListKindPanics(k) ==
    /\ up
    /\ k \in sync.todo
    /\ ~Listable(sync.app, k)
    /\ Halt
    /\ UNCHANGED left

(* Faulty variant: the failed list counts as one empty component.           *)
ListKindFailsAsNil ==
    /\ up
    /\ sync.todo # {}
    /\ Spend("faults")
    /\ sync' = [sync EXCEPT !.todo = {}, !.items = {NoApp}]
    /\ UNCHANGED <<cluster, process, appq, seen, handed>>

(* A failed List returns a nil list, whose Items are read before the error. *)
ListKindFails ==
    /\ up
    /\ sync.todo # {}
    /\ Spend("faults")
    /\ Halt

HandOver(o) ==
    /\ up
    /\ sync.todo = {}
    /\ o \in sync.items
    /\ sync' = [sync EXCEPT !.items = @ \ {o}]
    /\ handed' = handed \cup {<<sync.a, sync.app, o>>}
    /\ UNCHANGED <<cluster, process, appq, seen, left>>

EndSync ==
    /\ up
    /\ sync.busy
    /\ sync.todo = {}
    /\ sync.items = {}
    /\ sync' = Idle
    /\ UNCHANGED <<cluster, process, appq, seen, handed, left>>
-----------------------------------------------------------------------------
(* Users of the managed cluster.                                            *)

UserOp(op) == op \in UserOps /\ Spend(IF op \in LateOps THEN "late" ELSE "ops")

WriteApp(a, new) ==
    /\ apps' = [apps EXCEPT ![a] = new]
    /\ past' = past \cup {<<a, new>>}
    /\ appq' = IF watching THEN Append(appq, [a |-> a, new |-> new]) ELSE appq

UserWritesApp(a) ==
    /\ \/ /\ UserOp("create")
          /\ ~apps[a].live
          /\ \E s \in AppState : s.live /\ WriteApp(a, s)
       \/ /\ UserOp("delete")
          /\ apps[a].live
          /\ WriteApp(a, NoApp)
       \/ /\ UserOp("editSpec")
          /\ apps[a].live
          /\ \E s \in Specs \ {apps[a].spec} : WriteApp(a, [apps[a] EXCEPT !.spec = s])
       \/ /\ UserOp("enable")
          /\ apps[a].live
          /\ WriteApp(a, [apps[a] EXCEPT !.enabled = ~@])
       \/ /\ UserOp("scope")
          /\ apps[a].live
          /\ WriteApp(a, [apps[a] EXCEPT !.scoped = ~@])
    /\ UNCHANGED <<objs, served, process, seen, sync, handed>>

UserWritesObj(o) ==
    /\ UserOp("object")
    /\ KindOf[o] \in served
    /\ objs' = IF o \in objs THEN objs \ {o} ELSE objs \cup {o}
    /\ UNCHANGED <<apps, served, past, process, appq, seen, sync, handed>>

InstallKind(k) ==
    /\ UserOp("installKind")
    /\ k \notin served
    /\ served' = served \cup {k}
    /\ UNCHANGED <<apps, objs, past, process, appq, seen, sync, handed>>
-----------------------------------------------------------------------------
Listener ==
    \/ Deliver
    \/ \E k \in Kinds : ListKind(k) \/ ListKindPanics(k)
    \/ \E o \in sync.items : HandOver(o)
    \/ EndSync

Fault == Crash \/ ListKindFails \/ Relist

Users ==
    \/ \E a \in Apps : UserWritesApp(a)
    \/ \E o \in Objs : UserWritesObj(o)
    \/ \E k \in Kinds : InstallKind(k)

Next == Start \/ Listener \/ Fault \/ Users

Spec == Init /\ [][Next]_vars

(* The kubelet restarts the container, and the listener goroutine does not  *)
(* rest while it has something to do.                                       *)
FairSpec == Spec /\ WF_vars(Start) /\ WF_vars(Listener)
-----------------------------------------------------------------------------
Notifications == [a : Apps, new : AppState]
Syncs == [busy : BOOLEAN, a : Apps, app : AppState, todo : SUBSET Kinds, items : SUBSET Objs]

TypeOK ==
    /\ apps \in [Apps -> AppState]
    /\ objs \subseteq Objs
    /\ served \subseteq Kinds /\ known \subseteq Kinds
    /\ up \in BOOLEAN /\ watching \in BOOLEAN
    /\ appq \in Seq(Notifications)
    /\ seen \in [Apps -> AppState]
    /\ sync \in Syncs
    /\ past \subseteq Apps \X AppState
    /\ handed \subseteq Apps \X AppState \X Objs
    /\ left \in [{"ops", "late", "faults", "crashes"} -> Nat]

(* A resource is handed to discovery only on behalf of a version that an    *)
(* application really had, which asked for discovery, selected the resource *)
(* and reached its namespace: versions are neither mixed nor made up        *)
(* between the notification, the lists and the components (syncApplication).*)
HandedWasAskedFor ==
    \A h \in handed :
        /\ <<h[1], h[2]>> \in past
        /\ h[2].live /\ h[2].enabled
        /\ h[3] \in Selected(h[1], h[2])

(* A resource that the application selects as it is now, and that discovery *)
(* and lists show.                                                          *)
Wanted(a, o) ==
    /\ apps[a].live
    /\ apps[a].enabled
    /\ o \in Selected(a, apps[a]) \cap objs
    /\ KindOf[o] \in served
Handed(a, o) == \E s \in AppState : <<a, s, o>> \in handed

(* Discovery follows the applications: in the end every resource that an    *)
(* application asks for has been handed over, whatever versions a relist    *)
(* skips, and after panics and crashes (SyncCreate- and SyncUpdate-         *)
(* Application).                                                            *)
DiscoveryFollows == <>[](\A a \in Apps, o \in Objs : Wanted(a, o) => Handed(a, o))

(* The listener can sync a as it is now without a panic.                    *)
Syncable(a) ==
    (apps[a].live /\ apps[a].enabled) => \A k \in KindsIn[apps[a].spec] \cap served : Listable(apps[a], k)

(* Discovery follows the specs: the same of applications that are created   *)
(* and edited, while none is enabled, rescoped or deleted afterwards and no *)
(* resource or kind appears after the sync that looked for it.  One         *)
(* application that cannot be listed keeps the process in a crash loop and  *)
(* all of them waiting, so that those that are left in the end must be ones *)
(* that can; once users have edited the others, everything is caught up.    *)
SpecsAreFollowed ==
    ([](left.late = MaxLate) /\ <>[](\A a \in Apps : Syncable(a))) => DiscoveryFollows

(* What follows the specs is done when the listener comes to rest: with no  *)
(* notification pending and no sync under way, everything asked for so far  *)
(* has been handed over, whatever was skipped, failed or crashed before.    *)
AtRest == watching /\ appq = <<>> /\ ~sync.busy
FollowedAtRest ==
    (AtRest /\ left.late = MaxLate) => \A a \in Apps, o \in Objs : Wanted(a, o) => Handed(a, o)
=============================================================================
