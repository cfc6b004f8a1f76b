--------------------------- MODULE ManifestWorkSync ---------------------------
(***************************************************************************)
(* Discovery of managed-cluster resources into ManifestWorks on the hub.   *)
(*                                                                         *)
(* Two handler goroutines of one process share the updateManifestWork-     *)
(* AndObject routine: the listener of the Application informer (App),      *)
(* which syncs every component of a discovered application, and the        *)
(* listener of the ManifestWork informer (Mw), which refreshes or cleans   *)
(* up the work it is notified of.  Each handles one notification at a      *)
(* time; every step below is one call to one of the two API servers, so    *)
(* the handlers, the users of both clusters, crashes and failed calls      *)
(* interleave between any two calls.                                       *)
(*                                                                         *)
(* objs and works are the API servers' contents; rv is the resource        *)
(* version of a key and keeps growing when the key is deleted and          *)
(* recreated, so that it identifies a version of the object, UID included. *)
(***************************************************************************)
EXTENDS SequencesExt

CONSTANTS
    Objs,       \* managed-cluster resources (kind, namespace and name)
    Works,      \* names of ManifestWorks in the cluster's hub namespace
    Kinds,      \* group/version/kinds of the resources
    KindOf,     \* the kind of each resource
    OwnerOf,    \* first owner reference of each resource, None if it has none
    AppObjs,    \* resources the discovered application selects
    None,       \* no owner, no hosting annotation, no ManifestWork
    Unreadable, \* wrapped by a work whose manifest lacks a kind, version or name
    Empty,      \* wrapped by a work whose list of manifests is empty
    Foreign,    \* a hosting annotation set by another deployable controller
    InitObjs,   \* resources that exist before the process starts
    InitKinds,  \* kinds discovery lists before the process starts
    UserOps,    \* what users and other controllers may do (see UserOpKinds)
    RetrySteps, \* attempts of retry.DefaultRetry
    MaxOps,     \* bound: operations of users and other controllers
    MaxSyncs,   \* bound: changes of the application's spec
    MaxFaults,  \* bound: API calls that fail or whose reply is lost
    MaxCrashes  \* bound: crashes of the process other than its own panics

UserOpKinds == {"createObj", "deleteObj", "touchObj", "clearHost", "foreignHost",
                "requestWork", "editWork", "disableWork", "touchWork", "deleteWork", "breakWork",
                "installKind"}

ASSUME ConstantsAssumption ==
    /\ IsFiniteSet(Works)
    /\ None \notin Objs \cup Works \cup {Foreign}
    /\ Unreadable # Empty
    /\ {Unreadable, Empty} \cap (Objs \cup {None}) = {}
    /\ Foreign \notin Works
    /\ KindOf \in [Objs -> Kinds]
    /\ OwnerOf \in [Objs -> Objs \cup {None}]
    /\ AppObjs \subseteq Objs
    /\ InitObjs \subseteq Objs
    /\ InitKinds \subseteq Kinds
    /\ UserOps \subseteq UserOpKinds
    /\ RetrySteps \in Nat \ {0}
    /\ {MaxOps, MaxSyncs, MaxFaults, MaxCrashes} \subseteq Nat

VARIABLES
    objs,     \* managed cluster: resource -> [live, host, rv]
    works,    \* hub: ManifestWork name -> [live, src, wraps, disc, rv]
    served,   \* kinds discovery lists: in their preferred version, all verbs
    known,    \* kinds in GVKGVRMap, built once when the process starts
    proc,     \* "up", "down", or "panicked"
    mwq,      \* notifications the ManifestWork listener has yet to handle
    seen,     \* the informer's last version of each work it handed over
    appEvents,\* notifications that make the Application listener sync
    todo,     \* component kinds the current application sync has yet to list
    items,    \* listed components it has yet to sync
    th,       \* local state of the two handlers
    history,  \* history: <<work, resource, what>>, see Marks
    left      \* what remains of each bound

vars == <<objs, works, served, known, proc, mwq, seen, appEvents, todo, items,
          th, history, left>>

App == "app"
Mw == "mw"
Threads == {App, Mw}

Hosts == Works \cup {Foreign, None}
Disc == {"none", "enabled", "completed"}

Manifests == Objs \cup {Unreadable, Empty}

ObjState == [live : BOOLEAN, host : Hosts, rv : Nat]
WorkState == {s \in [live : BOOLEAN, src : Objs \cup {None}, wraps : Manifests \cup {None},
                     disc : Disc, rv : Nat] : s.live => s.wraps # None}
Notifications == [w : Works, new : WorkState]
Items == [o : Objs, live : BOOLEAN, host : Hosts, rv : Nat]
Snapshots == [o : Manifests \cup {None}, live : BOOLEAN, host : Hosts, rv : Nat]

(* What is noted of a handler and its work: that the patch of the resource  *)
(* took effect, or found it gone, or that the last attempt met a conflict.  *)
Marks == {"claimed", "gone", "gaveUp"}

NoWork == [live |-> FALSE, src |-> None, wraps |-> None, disc |-> "none", rv |-> 0]
NoSnapshot == [o |-> None, live |-> FALSE, host |-> None, rv |-> 0]

PCs == {"idle", "list", "locate", "walk", "create", "get", "fetch", "claim",
        "update", "wrapped", "cleanup"}

(* Locals of a handler: cur is the metaobj it works on as it was read, wk   *)
(* the ManifestWork (None while mw.UID is empty), got the work as last read *)
(* from the hub, fet the version of the resource read by the patch, prep    *)
(* whether prepareTemplate has stripped cur, tries the conflicts so far.    *)
Locals == [pc : PCs, cur : Snapshots, wk : Works \cup {None}, got : WorkState,
           fet : Nat, prep : BOOLEAN, tries : Nat]

Idle == [pc |-> "idle", cur |-> NoSnapshot, wk |-> None, got |-> NoWork,
         fet |-> 0, prep |-> FALSE, tries |-> 0]

Snapshot(o) == [o |-> o, live |-> objs[o].live, host |-> objs[o].host, rv |-> objs[o].rv]

Up == proc = "up"
At(t, pc) == Up /\ th[t].pc = pc
Goto(t, pc) == th' = [th EXCEPT ![t].pc = pc]

(* The routine returned, with or without an error: App goes on with its     *)
(* next component, the Mw listener waits for its next notification.         *)
Done(t) == th' = [th EXCEPT ![t] = [Idle EXCEPT !.pc = IF t = App THEN "list" ELSE "idle"]]

Spend(bound) == /\ left[bound] > 0
                /\ left' = [left EXCEPT ![bound] = @ - 1]

(* A write to the hub; a running informer is notified of the new version.   *)
WriteWork(w, new) ==
    LET next == [new EXCEPT !.rv = works[w].rv + 1]
    IN  /\ works' = [works EXCEPT ![w] = next]
        /\ mwq' = IF Up THEN Append(mwq, [w |-> w, new |-> next]) ELSE mwq

WriteObj(o, new) == objs' = [objs EXCEPT ![o] = [new EXCEPT !.rv = objs[o].rv + 1]]

(* The process is gone: informers, queues and handlers go with it.          *)
Halt(how) ==
    /\ proc' = how
    /\ th' = [t \in Threads |-> Idle]
    /\ mwq' = <<>>
    /\ seen' = [w \in Works |-> NoWork]
    /\ appEvents' = 0
    /\ todo' = {}
    /\ items' = {}

Panic == /\ Halt("panicked")
         /\ UNCHANGED <<objs, works, served, known, history>>

cluster == <<objs, served>>
informer == <<mwq, seen>>
sync == <<appEvents, todo, items>>
-----------------------------------------------------------------------------
Init ==
    /\ objs = [o \in Objs |-> [live |-> o \in InitObjs, host |-> None, rv |-> 0]]
    /\ works = [w \in Works |-> NoWork]
    /\ served = InitKinds
    /\ known = {}
    /\ proc = "down"
    /\ mwq = <<>>
    /\ seen = [w \in Works |-> NoWork]
    /\ appEvents = 0
    /\ todo = {}
    /\ items = {}
    /\ th = [t \in Threads |-> Idle]
    /\ history = {}
    /\ left = [ops |-> MaxOps, syncs |-> MaxSyncs, faults |-> MaxFaults,
               crashes |-> MaxCrashes]

(* InitExplorer fills GVKGVRMap, then both informers list: one Add per      *)
(* existing work and one for the application.                               *)
Start ==
    /\ ~Up
    /\ proc' = "up"
    /\ known' = served
    /\ mwq' \in SetToSeqs({[w |-> w, new |-> works[w]] : w \in {v \in Works : works[v].live}})
    /\ appEvents' = 1
    /\ UNCHANGED <<cluster, works, seen, todo, items, th, history, left>>

Crash ==
    /\ Up
    /\ Spend("crashes")
    /\ Halt("down")
    /\ UNCHANGED <<cluster, works, known, history>>
-----------------------------------------------------------------------------
(* The Application listener: syncApplication lists the components of each   *)
(* kind of the application it has a resource for, then runs                 *)
(* SyncManifestWork on every one of them.                                   *)

ApplicationChanged ==
    /\ Up
    /\ Spend("syncs")
    /\ appEvents' = appEvents + 1
    /\ UNCHANGED <<cluster, works, known, proc, informer, todo, items, th, history>>

BeginSync ==
    /\ At(App, "idle")
    /\ appEvents > 0
    /\ appEvents' = appEvents - 1
    /\ todo' = known \cap {KindOf[o] : o \in AppObjs}
    /\ Goto(App, "list")
    /\ UNCHANGED <<cluster, works, known, proc, informer, items, history, left>>

(* Faulty variant: a later kind replaces the components listed before.      *)
ListKindKeepingLast(k) ==
    /\ At(App, "list")
    /\ k \in todo
    /\ todo' = todo \ {k}
    /\ items' = {Snapshot(o) : o \in {p \in AppObjs : KindOf[p] = k /\ objs[p].live}}
    /\ UNCHANGED <<cluster, works, known, proc, informer, appEvents, th, history, left>>

ListKind(k) ==
    /\ At(App, "list")
    /\ k \in todo
    /\ todo' = todo \ {k}
    /\ items' = items \cup {Snapshot(o) : o \in {p \in AppObjs : KindOf[p] = k /\ objs[p].live}}
    /\ UNCHANGED <<cluster, works, known, proc, informer, appEvents, th, history, left>>

(* A failed List returns a nil list, whose Items are read before the error. *)
ListKindFails ==
    /\ At(App, "list")
    /\ todo # {}
    /\ Spend("faults")
    /\ Panic

(* Components that already carry a hosting annotation are ignored.          *)
TakeItem(i) ==
    /\ At(App, "list")
    /\ todo = {}
    /\ i \in items
    /\ items' = items \ {i}
    /\ th' = IF i.host # None THEN th
             ELSE [th EXCEPT ![App] = [Idle EXCEPT !.pc = "locate", !.cur = i]]
    /\ UNCHANGED <<cluster, works, known, proc, informer, appEvents, todo, history, left>>

EndSync ==
    /\ At(App, "list")
    /\ todo = {}
    /\ items = {}
    /\ Goto(App, "idle")
    /\ UNCHANGED <<cluster, works, known, proc, informer, sync, history, left>>

(* Faulty variants: the lookup ignores the key, or skips completed works.   *)
AnyWork(o) == {w \in Works : works[w].live /\ works[w].src # None}
EnabledWorksOf(o) == {w \in Works : works[w].live /\ works[w].src = o /\ works[w].disc = "enabled"}

(* Works whose source-object annotation names resource o.                   *)
WorksOf(o) == {w \in Works : works[w].live /\ works[w].src = o}

LocateWork ==
    /\ At(App, "locate")
    /\ \E w \in IF WorksOf(th[App].cur.o) = {} THEN {None} ELSE WorksOf(th[App].cur.o) :
          th' = [th EXCEPT ![App].pc = "walk", ![App].wk = w]
    /\ UNCHANGED <<cluster, works, known, proc, informer, sync, history, left>>
-----------------------------------------------------------------------------
(* findRootResource: climb the owner references of cur, one lookup a step.  *)

RootFound(t) == Goto(t, IF th[t].wk = None THEN "create" ELSE "get")

(* Faulty variant: an owner of an unknown kind counts as missing.           *)
FindRootSkippingUnknown(t) ==
    /\ At(t, "walk")
    /\ LET p == OwnerOf[th[t].cur.o] IN
          p # None => KindOf[p] \notin known \/ ~objs[p].live
    /\ RootFound(t)
    /\ UNCHANGED <<cluster, works, known, proc, informer, sync, history, left>>

FindRoot(t) ==
    /\ At(t, "walk")
    /\ LET p == OwnerOf[th[t].cur.o] IN
          p # None => KindOf[p] \in known /\ ~objs[p].live
    /\ RootFound(t)
    /\ UNCHANGED <<cluster, works, known, proc, informer, sync, history, left>>

(* Faulty variant: the owner references of the child are climbed again.     *)
ClimbOwnerAgain(t) ==
    /\ At(t, "walk")
    /\ LET p == OwnerOf[th[t].cur.o] IN
          /\ p # None
          /\ KindOf[p] \in known
          /\ objs[p].live
          /\ th' = [th EXCEPT ![t].cur = Snapshot(th[t].cur.o)]
    /\ UNCHANGED <<cluster, works, known, proc, informer, sync, history, left>>

ClimbOwner(t) ==
    /\ At(t, "walk")
    /\ LET p == OwnerOf[th[t].cur.o] IN
          /\ p # None
          /\ KindOf[p] \in known
          /\ objs[p].live
          /\ th' = [th EXCEPT ![t].cur = Snapshot(p)]
    /\ UNCHANGED <<cluster, works, known, proc, informer, sync, history, left>>

(* An owner of a kind outside GVKGVRMap is returned as a nil object with a  *)
(* nil error, and its owner references are read.                            *)
OwnerKindUnknown(t) ==
    /\ At(t, "walk")
    /\ LET p == OwnerOf[th[t].cur.o] IN p # None /\ KindOf[p] \notin known
    /\ Panic
    /\ UNCHANGED left

(* A failed lookup in the namespace falls back to a cluster-scoped lookup:  *)
(* that one is answered NotFound for a namespaced owner, which then counts  *)
(* as missing, or it fails too and the routine returns the error.           *)
OwnerLookupFails(t) ==
    /\ At(t, "walk")
    /\ LET p == OwnerOf[th[t].cur.o] IN p # None /\ KindOf[p] \in known
    /\ Spend("faults")
    /\ RootFound(t) \/ Done(t)
    /\ UNCHANGED <<cluster, works, known, proc, informer, sync, history>>
-----------------------------------------------------------------------------
(* updateManifestWorkAndObject without a work: create one for the root. The *)
(* hub completes the generated name with a suffix not in use.               *)

CreateEffect(t) ==
    \E w \in Works :
        /\ ~works[w].live
        /\ WriteWork(w, [NoWork EXCEPT !.live = TRUE, !.src = th[t].cur.o,
                                       !.wraps = th[t].cur.o, !.disc = "enabled"])
        /\ UNCHANGED <<cluster, history>>

CreateWork(t) ==
    /\ At(t, "create")
    /\ CreateEffect(t)
    /\ Done(t)
    /\ UNCHANGED <<known, proc, seen, sync, left>>

(* With a work: retry.RetryOnConflict around get, patch and update.         *)

Leave(t) == Done(t) /\ UNCHANGED history
GiveUp(t) == Done(t) /\ history' = history \cup {<<th[t].wk, th[t].cur.o, "gaveUp">>}
Retry(t, prep) ==
    /\ th' = [th EXCEPT ![t].pc = "get", ![t].tries = @ + 1, ![t].prep = @ \/ prep]
    /\ UNCHANGED history

(* Faulty variants: a conflict ends the routine; one attempt too many.      *)
NoRetry(t, prep) == Leave(t)
RetryOnceMore(t, prep) == IF th[t].tries < RetrySteps THEN Retry(t, prep) ELSE GiveUp(t)

Conflict(t, prep) == IF th[t].tries + 1 < RetrySteps THEN Retry(t, prep) ELSE GiveUp(t)

(* A resource annotated with another owner when the root was read is left   *)
(* alone: the patch returns cur itself, so there is nothing to update.      *)
HostedElsewhere(t) == th[t].cur.host \notin {None, th[t].wk}

GetWork(t) ==
    /\ At(t, "get")
    /\ LET w == works[th[t].wk] IN
          IF ~w.live \/ HostedElsewhere(t)
          THEN Done(t)
          ELSE th' = [th EXCEPT ![t].pc = "fetch", ![t].got = w]
    /\ UNCHANGED <<cluster, works, known, proc, informer, sync, history, left>>

(* A resource that is gone gives a nil object, which differs from cur.      *)
FetchObj(t) ==
    /\ At(t, "fetch")
    /\ LET o == th[t].cur.o IN
          IF objs[o].live
          THEN /\ th' = [th EXCEPT ![t].pc = "claim", ![t].fet = objs[o].rv]
               /\ UNCHANGED history
          ELSE /\ Goto(t, "update")
               /\ history' = history \cup {<<th[t].wk, o, "gone">>}
    /\ UNCHANGED <<cluster, works, known, proc, informer, sync, left>>

Current(t) == objs[th[t].cur.o].live /\ objs[th[t].cur.o].rv = th[t].fet

(* Writing the annotations a resource already has does not change it.       *)
ClaimEffect(t) ==
    LET o == th[t].cur.o IN
    /\ Current(t)
    /\ IF objs[o].host = th[t].wk THEN UNCHANGED objs
       ELSE WriteObj(o, [objs[o] EXCEPT !.host = th[t].wk])
    /\ history' = history \cup {<<th[t].wk, o, "claimed">>}
    /\ UNCHANGED <<served, works, mwq>>

(* The answer to the patch equals cur: there is nothing to update.          *)
Unchanged(t) == /\ objs[th[t].cur.o].host = th[t].wk
                /\ th[t].cur = Snapshot(th[t].cur.o)
                /\ ~th[t].prep

ClaimObj(t) ==
    /\ At(t, "claim")
    /\ ClaimEffect(t)
    /\ IF Unchanged(t)
       THEN Done(t)
       ELSE Goto(t, "update")
    /\ UNCHANGED <<known, proc, seen, sync, left>>

(* Faulty variant: the error of the patch is ignored.                       *)
ClaimErrorIgnored(t) ==
    /\ At(t, "claim")
    /\ ~Current(t)
    /\ Goto(t, "update")
    /\ UNCHANGED <<cluster, works, known, proc, informer, sync, history, left>>

ClaimRefused(t) ==
    /\ At(t, "claim")
    /\ ~Current(t)
    /\ IF objs[th[t].cur.o].live THEN Conflict(t, FALSE) ELSE Leave(t)
    /\ UNCHANGED <<cluster, works, known, proc, informer, sync, left>>

(* A work without any annotation has a nil annotations map.                 *)
NoAnnotations(w) == w.src = None /\ w.disc = "none"

(* Faulty variant: the manifest of the work is left as it was read.         *)
UpdateKeepingManifest(t) ==
    LET w == th[t].wk IN
    /\ ~NoAnnotations(th[t].got)
    /\ works[w].live
    /\ works[w].rv = th[t].got.rv
    /\ WriteWork(w, [works[w] EXCEPT !.disc = "completed"])
    /\ UNCHANGED <<cluster, history>>

UpdateEffect(t) ==
    LET w == th[t].wk IN
    /\ ~NoAnnotations(th[t].got)
    /\ works[w].live
    /\ works[w].rv = th[t].got.rv
    /\ WriteWork(w, [works[w] EXCEPT !.wraps = th[t].cur.o, !.disc = "completed"])
    /\ UNCHANGED <<cluster, history>>

UpdateWork(t) ==
    /\ At(t, "update")
    /\ UpdateEffect(t)
    /\ Done(t)
    /\ UNCHANGED <<known, proc, seen, sync, left>>

UpdateRefused(t) ==
    /\ At(t, "update")
    /\ ~NoAnnotations(th[t].got)
    /\ LET w == works[th[t].wk] IN
          IF ~w.live THEN Leave(t) ELSE w.rv # th[t].got.rv /\ Conflict(t, TRUE)
    /\ UNCHANGED <<cluster, works, known, proc, informer, sync, left>>

AnnotationsMissing(t) ==
    /\ At(t, "update")
    /\ NoAnnotations(th[t].got)
    /\ Panic
    /\ UNCHANGED left
-----------------------------------------------------------------------------
(* The ManifestWork listener.  It filters a notification on the discovery   *)
(* annotation and on a change of labels, annotations or spec; a deletion is *)
(* ignored.                                                                 *)

Content(w) == <<w.src, w.wraps, w.disc>>

Relevant(old, new) ==
    /\ new.live
    /\ new.disc = "enabled"
    /\ old.live => Content(old) # Content(new)

Deliver ==
    /\ At(Mw, "idle")
    /\ mwq # <<>>
    /\ LET w == Head(mwq).w
           new == Head(mwq).new
       IN  /\ seen' = [seen EXCEPT ![w] = new]
           /\ th' = IF Relevant(seen[w], new)
                    THEN [th EXCEPT ![Mw] = [Idle EXCEPT !.pc = "wrapped", !.wk = w,
                                                         !.cur.o = new.wraps]]
                    ELSE th
    /\ mwq' = Tail(mwq)
    /\ UNCHANGED <<cluster, works, known, proc, sync, history, left>>

(* A relist after a broken watch skips the versions that a later one of the *)
(* same work supersedes.                                                    *)
Relist ==
    /\ Up
    /\ \E i, j \in DOMAIN mwq :
          /\ i < j
          /\ mwq[i].w = mwq[j].w
          /\ mwq' = RemoveAt(mwq, i)
    /\ UNCHANGED <<cluster, works, known, proc, seen, sync, th, history, left>>

(* Faulty variant: the error of the lookup is ignored, so that a failed one *)
(* looks like a missing resource.                                           *)
GetWrappedIgnoringErrors ==
    /\ At(Mw, "wrapped")
    /\ th[Mw].cur.o \in Objs
    /\ LET o == th[Mw].cur.o
           found == KindOf[o] \in known /\ objs[o].live
       IN  \/ /\ th' = [th EXCEPT ![Mw].cur = Snapshot(o),
                                  ![Mw].pc = IF found THEN "walk" ELSE "cleanup"]
              /\ UNCHANGED left
           \/ /\ th' = [th EXCEPT ![Mw].cur = Snapshot(o), ![Mw].pc = "cleanup"]
              /\ Spend("faults")
    /\ UNCHANGED <<cluster, works, known, proc, informer, sync, history>>

(* locateObjectForManifestWork returns no object and no error for a         *)
(* resource that is gone, for a kind outside GVKGVRMap, and for a manifest  *)
(* it cannot read.                                                          *)
GetWrapped ==
    /\ At(Mw, "wrapped")
    /\ th[Mw].cur.o \in Objs
    /\ LET o == th[Mw].cur.o IN
          th' = [th EXCEPT ![Mw].cur = Snapshot(o),
                           ![Mw].pc = IF KindOf[o] \in known /\ objs[o].live
                                      THEN "walk" ELSE "cleanup"]
    /\ UNCHANGED <<cluster, works, known, proc, informer, sync, history, left>>

ManifestUnreadable ==
    /\ At(Mw, "wrapped")
    /\ th[Mw].cur.o = Unreadable
    /\ Goto(Mw, "cleanup")
    /\ UNCHANGED <<cluster, works, known, proc, informer, sync, history, left>>

(* The first manifest of the list is read whatever its length; reading the  *)
(* second part of an apiVersion that has none panics just the same.         *)
ManifestMissing ==
    /\ At(Mw, "wrapped")
    /\ th[Mw].cur.o = Empty
    /\ Panic
    /\ UNCHANGED left

(* The delete names the work only: no precondition on UID or version.       *)
CleanupEffect ==
    LET w == th[Mw].wk IN
    /\ IF works[w].live THEN WriteWork(w, NoWork) ELSE UNCHANGED <<works, mwq>>
    /\ UNCHANGED <<cluster, history>>

Cleanup ==
    /\ At(Mw, "cleanup")
    /\ CleanupEffect
    /\ Done(Mw)
    /\ UNCHANGED <<known, proc, seen, sync, left>>
-----------------------------------------------------------------------------
(* Any call may fail with an error other than a conflict: the handler logs  *)
(* it and returns.                                                          *)
CallFails(t) ==
    /\ Up
    /\ th[t].pc \in {"locate", "create", "get", "fetch", "claim", "update",
                     "wrapped", "cleanup"}
    /\ Spend("faults")
    /\ Done(t)
    /\ UNCHANGED <<cluster, works, known, proc, informer, sync, history>>

(* A write may take effect although the handler sees an error.              *)
ReplyLost(t) ==
    /\ Spend("faults")
    /\ \/ At(t, "create") /\ CreateEffect(t)
       \/ At(t, "claim") /\ ClaimEffect(t)
       \/ At(t, "update") /\ UpdateEffect(t)
    /\ Done(t)
    /\ UNCHANGED <<known, proc, seen, sync>>
-----------------------------------------------------------------------------
(* Users of the two clusters, the work agent, other controllers.  A new     *)
(* resource is of a kind that discovery lists by then; one of another kind, *)
(* say of a version that is not the preferred one, is there from the start. *)

UserOp(op) == op \in UserOps /\ Spend("ops")

UserWritesObj(o) ==
    /\ \/ /\ UserOp("createObj")
          /\ ~objs[o].live
          /\ KindOf[o] \in served
          /\ WriteObj(o, [objs[o] EXCEPT !.live = TRUE, !.host = None])
       \/ /\ UserOp("deleteObj")
          /\ objs[o].live
          /\ WriteObj(o, [objs[o] EXCEPT !.live = FALSE, !.host = None])
       \/ /\ UserOp("touchObj")
          /\ objs[o].live
          /\ WriteObj(o, objs[o])
       \/ /\ UserOp("clearHost")
          /\ objs[o].live
          /\ objs[o].host # None
          /\ WriteObj(o, [objs[o] EXCEPT !.host = None])
       \/ /\ UserOp("foreignHost")
          /\ objs[o].live
          /\ objs[o].host = None
          /\ WriteObj(o, [objs[o] EXCEPT !.host = Foreign])
    /\ UNCHANGED <<works, served, known, proc, informer, sync, th, history>>

(* requestWork creates a work that asks for the discovery of o, editWork    *)
(* changes an existing one to that end, breakWork does so with a manifest   *)
(* that wraps nothing; touchWork is a change of status.                     *)
UserWritesWork(w) ==
    /\ \/ /\ UserOp("requestWork")
          /\ ~works[w].live
          /\ \E o \in Objs :
                WriteWork(w, [NoWork EXCEPT !.live = TRUE, !.wraps = o, !.disc = "enabled"])
       \/ /\ UserOp("editWork")
          /\ works[w].live
          /\ \E o \in Objs :
                WriteWork(w, [works[w] EXCEPT !.wraps = o, !.disc = "enabled"])
       \/ /\ UserOp("breakWork")
          /\ works[w].live
          /\ \E m \in {Unreadable, Empty} :
                WriteWork(w, [works[w] EXCEPT !.wraps = m, !.disc = "enabled"])
       \/ /\ UserOp("disableWork")
          /\ works[w].live
          /\ works[w].disc # "none"
          /\ WriteWork(w, [works[w] EXCEPT !.disc = "none"])
       \/ /\ UserOp("touchWork")
          /\ works[w].live
          /\ WriteWork(w, works[w])
       \/ /\ UserOp("deleteWork")
          /\ works[w].live
          /\ WriteWork(w, NoWork)
    /\ UNCHANGED <<cluster, known, proc, seen, sync, th, history>>

(* A CRD is installed, or its version becomes the preferred one.            *)
InstallKind(k) ==
    /\ UserOp("installKind")
    /\ k \notin served
    /\ served' = served \cup {k}
    /\ UNCHANGED <<objs, works, known, proc, informer, sync, th, history>>
-----------------------------------------------------------------------------
AppStep ==
    \/ BeginSync
    \/ \E k \in Kinds : ListKind(k)
    \/ \E i \in items : TakeItem(i)
    \/ EndSync
    \/ LocateWork

MwStep ==
    \/ Deliver
    \/ GetWrapped
    \/ ManifestUnreadable
    \/ ManifestMissing
    \/ Cleanup

SharedStep(t) ==
    \/ FindRoot(t)
    \/ ClimbOwner(t)
    \/ OwnerKindUnknown(t)
    \/ CreateWork(t)
    \/ GetWork(t)
    \/ FetchObj(t)
    \/ ClaimObj(t)
    \/ ClaimRefused(t)
    \/ UpdateWork(t)
    \/ UpdateRefused(t)
    \/ AnnotationsMissing(t)

Fault ==
    \/ Crash
    \/ ListKindFails
    \/ Relist
    \/ \E t \in Threads : OwnerLookupFails(t) \/ CallFails(t) \/ ReplyLost(t)

Environment ==
    \/ ApplicationChanged
    \/ \E o \in Objs : UserWritesObj(o)
    \/ \E w \in Works : UserWritesWork(w)
    \/ \E k \in Kinds : InstallKind(k)

Next ==
    \/ Start
    \/ AppStep
    \/ MwStep
    \/ \E t \in Threads : SharedStep(t)
    \/ Fault
    \/ Environment

Spec == Init /\ [][Next]_vars

(* The kubelet restarts the container, and neither listener goroutine rests *)
(* while it has something to do; nobody else is obliged to act.             *)
FairSpec ==
    /\ Spec
    /\ WF_vars(Start)
    /\ WF_vars(AppStep \/ SharedStep(App))
    /\ WF_vars(MwStep \/ SharedStep(Mw))
-----------------------------------------------------------------------------
(* Type invariant.                                                          *)

(* What handler t has in its locals at each point of its routine.           *)
HandlerOK(t, l) ==
    /\ l \in Locals
    /\ l.tries < RetrySteps
    /\ l.pc \notin {"idle", "list", "wrapped", "cleanup"} => l.cur.o \in Objs
    /\ l.pc = "wrapped" => l.cur.o \in Manifests
    /\ l.pc \in {"get", "fetch", "claim", "update"} => l.wk \in Works
    /\ t = App => l.pc \notin {"wrapped", "cleanup"}
    /\ t = Mw => l.pc \notin {"list", "locate", "create"}
    /\ (t = Mw /\ l.pc # "idle") => l.wk \in Works

HandlersOK == th \in [Threads -> Locals] /\ \A t \in Threads : HandlerOK(t, th[t])
ClusterOK == objs \in [Objs -> ObjState] /\ served \subseteq Kinds
HubOK == works \in [Works -> WorkState] /\ mwq \in Seq(Notifications)
SyncOK == appEvents \in Nat /\ todo \subseteq Kinds /\ items \subseteq Items

TypeOK ==
    /\ ClusterOK
    /\ HubOK
    /\ SyncOK
    /\ HandlersOK
    /\ known \subseteq Kinds
    /\ proc \in {"up", "down", "panicked"}
    /\ seen \in [Works -> WorkState]
    /\ history \subseteq Works \X Objs \X Marks
    /\ left \in [{"ops", "syncs", "faults", "crashes"} -> Nat]

(* A work is marked completed only after the resource it wraps has been     *)
(* patched with its hosting annotations, or was found gone by that patch:   *)
(* updateManifestWorkAndObject patches first and then updates the work,     *)
(* whatever fails, crashes or is retried in between.                        *)
CompletedWasClaimed ==
    \A w \in Works : works[w].disc = "completed" =>
        \E how \in {"claimed", "gone"} : <<w, works[w].wraps, how>> \in history

(* While nobody clears hosting annotations or recreates resources, a work   *)
(* marked completed hosts the resource it wraps: no conflict, retry, edit   *)
(* of the work or crash makes the handler complete a work whose claim is    *)
(* not, or no longer, in place (updateManifestWorkAndObject).               *)
CompletedIsHost ==
    \A w \in Works : LET o == works[w].wraps IN
        (works[w].live /\ works[w].disc = "completed" /\ objs[o].live) => objs[o].host = w

(* Syncing a resource again finds the work made for it instead of making    *)
(* another (locateManifestWorkForObject before Create), also when the reply *)
(* of the create was lost or the process crashed in between.                *)
UniqueSource ==
    \A v, w \in Works :
        (works[v].live /\ works[w].live /\ works[v].src # None
           /\ works[v].src = works[w].src) => v = w

(* The work made for a discovered component records its root owner as the   *)
(* source, unless a lookup failed: findRootResource climbs to the top of    *)
(* the owner references and never settles for an owner it cannot look up.   *)
SourceIsRoot ==
    left.faults = MaxFaults =>
        \A w \in Works : works[w].src # None => OwnerOf[works[w].src] = None

(* A resource hosted by one work is never taken over by another writer: the *)
(* hosting annotation only goes from absent to present, or is cleared.      *)
(* PatchManagedClusterObject checks it before it patches.                   *)
OwnershipKept ==
    [][\A o \in Objs : objs[o].host = None \/ objs'[o].host \in {None, objs[o].host}]_vars

(* The ManifestWork handler implements the contract on hosting, as long as  *)
(* nobody clears hosting annotations, recreates resources or lets others    *)
(* host them: what updateManifestWorkAndObject marks completed is what it   *)
(* patched, even if the work was edited to wrap something else meanwhile.   *)
Contract == INSTANCE HostingContract WITH
    present <- {o \in Objs : objs[o].live},
    host <- [o \in Objs |-> objs[o].host],
    done <- [w \in Works |-> IF works[w].disc = "completed" THEN works[w].wraps ELSE None]

RefinesContract == Contract!ContractSpec

(* The controller deletes a work only as orphaned (syncManifestWork): if it *)
(* wraps something that can be read and that exists, then somebody created  *)
(* that resource after the lookup which missed it, or rewrote the work      *)
(* after the version that was looked into.  No other delete of the code     *)
(* reaches a work, whatever is edited, recreated, fails or crashes between  *)
(* the notification, the lookup and a delete that names the work only.      *)
OnlyOrphansDeleted ==
    [][\A w \in Works :
          LET o == works[w].wraps
              deleted == works[w].live /\ ~works'[w].live /\ left'.ops = left.ops
          IN  (deleted /\ o \in Objs /\ objs[o].live) =>
                  \/ objs[o].rv > th[Mw].cur.rv
                  \/ works[w].rv > seen[w].rv]_vars

(* Completing a discovery does not make the work wrap another resource:     *)
(* both handlers update the work that stands for the resource they patched, *)
(* and read it afresh before every attempt.                                 *)
CompletionKeepsObject ==
    [][\A w \in Works : (works[w].disc = "enabled" /\ works'[w].disc = "completed")
                           => works'[w].wraps = works[w].wraps]_vars

(* The discovery work w asks for has come to an end: it is completed or     *)
(* withdrawn, wraps nothing, or its resource is gone or hosted elsewhere.   *)
Settled(w) ==
    LET o == works[w].wraps IN
    \/ ~works[w].live
    \/ works[w].disc # "enabled"
    \/ o \notin Objs
    \/ ~objs[o].live
    \/ objs[o].host \notin {None, w}

(* A handler ran out of attempts on a request of w, see Conflict.           *)
GivenUp(w) == \E o \in Objs : <<w, o, "gaveUp">> \in history

(* The discovery flag of a work that was created for a resource nobody      *)
(* hosts turns from enabled into completed unless the request lapses, or a  *)
(* handler runs out of attempts: no single conflict between the handlers,   *)
(* or with a user, leaves it enabled (the retry.RetryOnConflict of          *)
(* updateManifestWorkAndObject).                                            *)
DiscoveryCompletes ==
    \A w \in Works : (works[w].live /\ works[w].disc = "enabled") ~> (Settled(w) \/ GivenUp(w))

(* A handler that has started on a notification comes back for the next     *)
(* one: climbing the owner references ends, and so does the retry loop,     *)
(* however often the other handler or a user gets in the way.               *)
HandlersReturn == \A t \in Threads : (th[t].pc # "idle") ~> (th[t].pc = "idle")

Covered(o) == ~objs[o].live \/ objs[o].host # None \/ WorksOf(o) # {}
AllCovered == \A o \in AppObjs : KindOf[o] \in known => Covered(o)

(* An application that is to be synced ends up with a work for each of its  *)
(* resources, unless that is hosted or deleted meanwhile (syncApplication). *)
ComponentsGetWorks == (Up /\ appEvents > 0) ~> AllCovered

(* Both listeners have handled every notification there was.                *)
AtRest == Up /\ appEvents = 0 /\ mwq = <<>> /\ \A t \in Threads : th[t].pc = "idle"

(* What must have happened is done when the listeners come to rest, unless  *)
(* calls failed.  A request that is still open, though the process did not  *)
(* crash, is one that a handler ran out of attempts on, and then users had  *)
(* got in its way once per attempt: conflicts between the two handlers      *)
(* alone never use the attempts up (updateManifestWorkAndObject).           *)
Provocations == MaxOps - left.ops
RequestsSettled ==
    (AtRest /\ left.faults = MaxFaults /\ left.crashes = MaxCrashes) =>
        \A w \in Works : Settled(w) \/ (GivenUp(w) /\ Provocations >= RetrySteps)

(* Each component of a known kind has a work by then, or a host.            *)
ComponentsCovered ==
    (AtRest /\ left.faults = MaxFaults) => AllCovered
=============================================================================
