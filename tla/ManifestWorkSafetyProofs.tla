----------------------- MODULE ManifestWorkSafetyProofs ------------------------
(***************************************************************************)
(* Safety theorems about ManifestWorkSync, for every value of its          *)
(* constants.  They rest on type correctness and on four lemmas that say   *)
(* who writes the works, the resources, the history and a handler's locals.*)
(***************************************************************************)
EXTENDS ManifestWorkSyncProofs

(* Each way the routine is left, and what it leaves behind.                 *)
LEMMA HandlerEnds ==
    ASSUME TypeOK, NEW t \in Threads, NEW u \in Threads, Done(t)
    PROVE  IF u = t THEN th'[u].pc \in {"idle", "list"} ELSE th'[u] = th[u]
<1>1. th'[u] = IF u = t THEN [Idle EXCEPT !.pc = IF t = App THEN "list" ELSE "idle"] ELSE th[u]
  BY DEF TypeOK, HandlersOK, Done
<1> QED
  BY <1>1 DEF Idle

(* A halt sends both handlers back to idle.                                 *)
LEMMA HandlersHalt ==
    ASSUME NEW u \in Threads, NEW how, Halt(how)
    PROVE  th'[u].pc = "idle"
BY DEF Halt, Idle

(* The hub's works are written by a create, by an update, by a cleanup and  *)
(* by users, and by nothing else.                                           *)
LEMMA HubWriters ==
    ASSUME [Next]_vars
    PROVE  \/ UNCHANGED works
           \/ \E t \in Threads : At(t, "create") /\ CreateEffect(t) /\ Done(t)
           \/ \E t \in Threads : At(t, "update") /\ UpdateEffect(t)
           \/ At(Mw, "cleanup") /\ CleanupEffect
           \/ \E w \in Works : UserWritesWork(w)
<1>1. CASE UNCHANGED vars
  BY <1>1 DEF vars
<1>2. CASE Start
  BY <1>2 DEF Start
<1>3. CASE AppStep
  BY <1>3 DEF AppStep, BeginSync, ListKind, TakeItem, EndSync, LocateWork
<1>4. CASE MwStep
  BY <1>4 DEF MwStep, Deliver, GetWrapped, ManifestUnreadable, ManifestMissing, Panic, Cleanup
<1>5. ASSUME NEW t \in Threads, SharedStep(t)
      PROVE  \/ UNCHANGED works
             \/ At(t, "create") /\ CreateEffect(t) /\ Done(t)
             \/ At(t, "update") /\ UpdateEffect(t)
  BY <1>5 DEF SharedStep, FindRoot, ClimbOwner, OwnerKindUnknown, CreateWork, GetWork, FetchObj,
              ClaimObj, ClaimEffect, ClaimRefused, UpdateWork, UpdateRefused, AnnotationsMissing,
              Panic
<1>6. CASE Crash \/ ListKindFails \/ Relist
  BY <1>6 DEF Crash, ListKindFails, Panic, Relist
<1>7. ASSUME NEW t \in Threads, OwnerLookupFails(t) \/ CallFails(t) \/ ReplyLost(t)
      PROVE  \/ UNCHANGED works
             \/ At(t, "create") /\ CreateEffect(t) /\ Done(t)
             \/ At(t, "update") /\ UpdateEffect(t)
  BY <1>7 DEF OwnerLookupFails, CallFails, ReplyLost, ClaimEffect
<1>8. CASE ApplicationChanged \/ (\E o \in Objs : UserWritesObj(o))
           \/ (\E k \in Kinds : InstallKind(k))
  BY <1>8 DEF ApplicationChanged, UserWritesObj, InstallKind
<1> QED
  BY <1>1, <1>2, <1>3, <1>4, <1>5, <1>6, <1>7, <1>8 DEF Next, Fault, Environment

(* The resources are written by a claim and by users.                       *)
LEMMA ClusterWriters ==
    ASSUME [Next]_vars
    PROVE  \/ UNCHANGED objs
           \/ \E t \in Threads : At(t, "claim") /\ ClaimEffect(t)
           \/ \E o \in Objs : UserWritesObj(o)
<1> USE DEF cluster
<1>0. \A t \in Threads : CreateEffect(t) \/ UpdateEffect(t) => UNCHANGED objs
  BY DEF CreateEffect, UpdateEffect
<1>1. CASE UNCHANGED vars
  BY <1>1 DEF vars
<1>2. CASE Start
  BY <1>2 DEF Start
<1>3. CASE AppStep
  BY <1>3 DEF AppStep, BeginSync, ListKind, TakeItem, EndSync, LocateWork
<1>4. CASE MwStep
  BY <1>4 DEF MwStep, Deliver, GetWrapped, ManifestUnreadable, ManifestMissing, Panic, Cleanup,
          CleanupEffect
<1>5. ASSUME NEW t \in Threads, SharedStep(t)
      PROVE  UNCHANGED objs \/ (At(t, "claim") /\ ClaimEffect(t))
  <2>1. CASE ClaimObj(t)
    BY <2>1 DEF ClaimObj
  <2>2. CASE CreateWork(t) \/ UpdateWork(t)
    BY <2>2, <1>0 DEF CreateWork, UpdateWork
  <2> QED
    BY <1>5, <2>1, <2>2 DEF SharedStep, FindRoot, ClimbOwner, OwnerKindUnknown, GetWork, FetchObj,
                            ClaimRefused, UpdateRefused, AnnotationsMissing, Panic
<1>6. CASE Crash \/ ListKindFails \/ Relist
  BY <1>6 DEF Crash, ListKindFails, Panic, Relist
<1>7. ASSUME NEW t \in Threads, OwnerLookupFails(t) \/ CallFails(t) \/ ReplyLost(t)
      PROVE  UNCHANGED objs \/ (At(t, "claim") /\ ClaimEffect(t))
  BY <1>0, <1>7 DEF OwnerLookupFails, CallFails, ReplyLost
<1>8. CASE ApplicationChanged \/ (\E w \in Works : UserWritesWork(w))
           \/ (\E k \in Kinds : InstallKind(k))
  BY <1>8 DEF ApplicationChanged, UserWritesWork, InstallKind
<1> QED
  BY <1>1, <1>2, <1>3, <1>4, <1>5, <1>6, <1>7, <1>8 DEF Next, Fault, Environment

(* The history is never rewritten.                                          *)
LEMMA HistoryGrows ==
    ASSUME [Next]_vars
    PROVE  history \subseteq history'
<1>1. CASE UNCHANGED vars
  BY <1>1 DEF vars
<1>2. CASE Start
  BY <1>2 DEF Start
<1>3. CASE AppStep
  BY <1>3 DEF AppStep, BeginSync, ListKind, TakeItem, EndSync, LocateWork
<1>4. CASE MwStep
  BY <1>4 DEF MwStep, Deliver, GetWrapped, ManifestUnreadable, ManifestMissing, Panic, Cleanup,
          CleanupEffect
<1>5. CASE \E t \in Threads : SharedStep(t)
  BY <1>5 DEF SharedStep, FindRoot, ClimbOwner, OwnerKindUnknown, CreateWork, CreateEffect,
              GetWork, FetchObj, ClaimObj, ClaimEffect, ClaimRefused, UpdateWork, UpdateEffect,
              UpdateRefused, AnnotationsMissing, Panic, Conflict, Retry, GiveUp, Leave
<1>6. CASE Fault
  BY <1>6 DEF Fault, Crash, ListKindFails, Panic, Relist, OwnerLookupFails, CallFails, ReplyLost,
              CreateEffect, ClaimEffect, UpdateEffect
<1>7. CASE Environment
  BY <1>7 DEF Environment, ApplicationChanged, UserWritesObj, UserWritesWork, InstallKind
<1> QED
  BY <1>1, <1>2, <1>3, <1>4, <1>5, <1>6, <1>7 DEF Next

(* The steps that take a handler somewhere other than its resting points.   *)
HandlerMoving(t) ==
    \/ t = App /\ (LocateWork \/ \E i \in items : TakeItem(i))
    \/ t = Mw /\ (Deliver \/ GetWrapped \/ ManifestUnreadable)
    \/ FindRoot(t) \/ ClimbOwner(t) \/ OwnerLookupFails(t)
    \/ GetWork(t) \/ FetchObj(t) \/ ClaimObj(t) \/ ClaimRefused(t) \/ UpdateRefused(t)

(* A step of one handler leaves the locals of the other alone.              *)
LEMMA OtherHandler ==
    ASSUME TypeOK, NEW t \in Threads, NEW u \in Threads, u # t,
           SharedStep(t) \/ OwnerLookupFails(t) \/ CallFails(t) \/ ReplyLost(t)
    PROVE  th'[u] = th[u] \/ th'[u].pc = "idle"
<1>1. th \in [Threads -> Locals]
  BY DEF TypeOK, HandlersOK
<1>2. CASE Panic
  BY <1>2, HandlersHalt DEF Panic
<1>3. CASE Done(t)
  BY <1>3, HandlerEnds
<1>4. CASE \E l : th' = [th EXCEPT ![t] = l]
  BY <1>1, <1>4
<1>5. CASE SharedStep(t)
  <2>1. CASE FindRoot(t) \/ ClimbOwner(t) \/ GetWork(t) \/ FetchObj(t)
    BY <1>1, <1>3, <2>1 DEF FindRoot, ClimbOwner, GetWork, FetchObj, RootFound, Goto
  <2>2. CASE ClaimObj(t) \/ ClaimRefused(t) \/ UpdateRefused(t)
    BY <1>1, <1>3, <2>2 DEF ClaimObj, ClaimRefused, UpdateRefused, Conflict, Retry, GiveUp, Leave, Goto
  <2>3. CASE CreateWork(t) \/ UpdateWork(t)
    BY <1>3, <2>3 DEF CreateWork, UpdateWork
  <2>4. CASE OwnerKindUnknown(t) \/ AnnotationsMissing(t)
    BY <1>2, <2>4 DEF OwnerKindUnknown, AnnotationsMissing
  <2> QED
    BY <1>5, <2>1, <2>2, <2>3, <2>4 DEF SharedStep
<1>6. CASE OwnerLookupFails(t)
  BY <1>1, <1>3, <1>6 DEF OwnerLookupFails, RootFound, Goto
<1>7. CASE CallFails(t) \/ ReplyLost(t)
  BY <1>3, <1>7 DEF CallFails, ReplyLost
<1> QED
  BY <1>5, <1>6, <1>7

(* Where a handler is after a step: where it was, at rest, or where one of  *)
(* its own steps has taken it.                                              *)
LEMMA HandlerSteps ==
    ASSUME TypeOK, [Next]_vars, NEW u \in Threads
    PROVE  th'[u] = th[u] \/ th'[u].pc \in {"idle", "list"} \/ HandlerMoving(u)
<1>1. th \in [Threads -> Locals]
  BY DEF TypeOK, HandlersOK
<1>2. CASE Panic \/ Crash
  BY <1>2, HandlersHalt DEF Panic, Crash
<1>3. CASE \E t \in Threads : Done(t)
  BY <1>3, HandlerEnds
<1>4. CASE UNCHANGED vars
  BY <1>4 DEF vars
<1>5. CASE Start
  BY <1>5 DEF Start
<1>6. CASE AppStep
  <2>1. CASE \E k \in Kinds : ListKind(k)
    BY <2>1 DEF ListKind
  <2>2. CASE BeginSync \/ EndSync
    BY <1>1, <2>2 DEF BeginSync, EndSync, Goto, Locals
  <2>3. CASE (\E i \in items : TakeItem(i)) \/ LocateWork
    BY <1>1, <2>3 DEF TakeItem, LocateWork, HandlerMoving
  <2> QED
    BY <1>6, <2>1, <2>2, <2>3 DEF AppStep
<1>7. CASE MwStep
  <2>1. CASE ManifestMissing
    BY <1>2, <2>1 DEF ManifestMissing
  <2>2. CASE Deliver \/ GetWrapped \/ ManifestUnreadable
    BY <1>1, <2>2 DEF HandlerMoving, Deliver, GetWrapped, ManifestUnreadable, Goto, Threads
  <2>3. CASE Cleanup
    BY <1>3, <2>3 DEF Cleanup, Threads
  <2> QED
    BY <1>7, <2>1, <2>2, <2>3 DEF MwStep
<1>8. CASE \E t \in Threads : SharedStep(t)
  <2>1. PICK t \in Threads : SharedStep(t)
    BY <1>8
  <2>2. CASE u = t
    <3>1. CASE ClaimObj(t) \/ FetchObj(t) \/ ClaimRefused(t) \/ UpdateRefused(t) \/ GetWork(t)
               \/ FindRoot(t) \/ ClimbOwner(t)
      BY <2>2, <3>1 DEF HandlerMoving
    <3>2. CASE CreateWork(t) \/ UpdateWork(t)
      BY <1>3, <3>2 DEF CreateWork, UpdateWork
    <3>3. CASE OwnerKindUnknown(t) \/ AnnotationsMissing(t)
      BY <1>2, <3>3 DEF OwnerKindUnknown, AnnotationsMissing
    <3> QED
      BY <2>1, <3>1, <3>2, <3>3 DEF SharedStep
  <2> QED
    BY <2>1, <2>2, OtherHandler
<1>9. CASE Fault
  <2>1. CASE ListKindFails
    BY <1>2, <2>1 DEF ListKindFails
  <2>2. CASE Relist
    BY <2>2 DEF Relist
  <2>3. CASE \E t \in Threads : CallFails(t) \/ ReplyLost(t)
    BY <1>3, <2>3 DEF CallFails, ReplyLost
  <2>4. CASE \E t \in Threads : OwnerLookupFails(t)
    BY <2>4, OtherHandler DEF HandlerMoving
  <2> QED
    BY <1>2, <1>9, <2>1, <2>2, <2>3, <2>4 DEF Fault
<1>10. CASE Environment
  BY <1>10 DEF Environment, ApplicationChanged, UserWritesObj, UserWritesWork, InstallKind
<1> QED
  BY <1>4, <1>5, <1>6, <1>7, <1>8, <1>9, <1>10 DEF Next
-----------------------------------------------------------------------------
(* CompletedWasClaimed is not inductive by itself: a handler about to       *)
(* update its work must already have patched the resource.                  *)
Claimed(w, o) == \E how \in {"claimed", "gone"} : <<w, o, how>> \in history
UpdateWasClaimed ==
    \A t \in Threads : th[t].pc = "update" => Claimed(th[t].wk, th[t].cur.o)

(* A claim that takes effect is on record.                                  *)
LEMMA ClaimRecorded ==
    ASSUME NEW t \in Threads, ClaimEffect(t)
    PROVE  <<th[t].wk, th[t].cur.o, "claimed">> \in history'
BY DEF ClaimEffect

(* A handler comes to the update only after its patch.                      *)
LEMMA PatchBeforeUpdate ==
    ASSUME TypeOK, UpdateWasClaimed, [Next]_vars
    PROVE  UpdateWasClaimed'
<1> SUFFICES ASSUME NEW t \in Threads, th'[t].pc = "update"
             PROVE  \E how \in {"claimed", "gone"} :
                       <<th'[t].wk, th'[t].cur.o, how>> \in history'
  BY DEF UpdateWasClaimed, Claimed
<1>1. th \in [Threads -> Locals] /\ th[t] \in Locals
  BY DEF TypeOK, HandlersOK
<1>2. history \subseteq history'
  BY HistoryGrows
<1>3. CASE th'[t] = th[t]
  BY <1>2, <1>3 DEF UpdateWasClaimed, Claimed
<1>4. CASE th'[t].pc \in {"idle", "list"} \/ Done(t)
  BY <1>4, HandlerEnds
<1>5. CASE t = App /\ (LocateWork \/ \E i \in items : TakeItem(i))
  <2>1. CASE LocateWork
    <3>1. PICK w : th' = [th EXCEPT ![App].pc = "walk", ![App].wk = w]
      BY <2>1 DEF LocateWork
    <3> QED
      BY <1>1, <1>5, <3>1 DEF Locals
  <2>2. ASSUME NEW i \in items, TakeItem(i), th'[App] # th[App]
        PROVE  th'[App].pc = "locate"
    BY <1>1, <1>5, <2>2, IdleType DEF TakeItem, Locals
  <2> QED
    BY <1>3, <1>5, <2>1, <2>2
<1>6. CASE t = Mw /\ (Deliver \/ GetWrapped \/ ManifestUnreadable)
  <2>1. CASE Deliver /\ th' # th
    BY <1>1, <1>6, <2>1, IdleType DEF Deliver, Locals
  <2>2. CASE GetWrapped \/ ManifestUnreadable
    BY <1>1, <1>6, <2>2 DEF GetWrapped, ManifestUnreadable, Goto, Locals
  <2> QED
    BY <1>3, <1>6, <2>1, <2>2
<1>7. CASE FindRoot(t) \/ OwnerLookupFails(t)
  BY <1>1, <1>4, <1>7 DEF FindRoot, OwnerLookupFails, RootFound, Goto, Locals
<1>8. CASE ClimbOwner(t)
  BY <1>1, <1>8 DEF ClimbOwner, At, Locals
<1>9. CASE GetWork(t) \/ ClaimRefused(t) \/ UpdateRefused(t)
  BY <1>1, <1>4, <1>9 DEF GetWork, ClaimRefused, UpdateRefused, Conflict, Retry, GiveUp, Leave, Locals
<1>10. CASE FetchObj(t)
  <2>1. th'[t].wk = th[t].wk /\ th'[t].cur = th[t].cur /\ ~objs[th[t].cur.o].live
    BY <1>1, <1>10 DEF FetchObj, Goto, Locals
  <2> QED
    BY <1>10, <2>1 DEF FetchObj
<1>11. CASE ClaimObj(t)
  <2>1. th'[t].wk = th[t].wk /\ th'[t].cur = th[t].cur
    BY <1>1, <1>11, HandlerEnds DEF ClaimObj, Goto, Locals
  <2> QED
    BY <1>11, <2>1, ClaimRecorded DEF ClaimObj
<1> QED
  BY <1>3, <1>4, <1>5, <1>6, <1>7, <1>8, <1>9, <1>10, <1>11, HandlerSteps DEF HandlerMoving

(* A write to the hub changes that work, but for its resource version as    *)
(* the writer says.                                                         *)
LEMMA WriteWorkFields ==
    ASSUME TypeOK, NEW w \in Works, NEW new \in WorkState, WriteWork(w, new), NEW v \in Works
    PROVE  works'[v] = IF v = w THEN [new EXCEPT !.rv = works[w].rv + 1] ELSE works[v]
BY DEF TypeOK, HubOK, WriteWork

(* What users write is a work, and they do not mark works completed.        *)
LEMMA UserWorkWrites ==
    ASSUME TypeOK, NEW v \in Works, UserWritesWork(v)
    PROVE  \E new \in WorkState :
              /\ WriteWork(v, new)
              /\ new.disc # "completed" \/ new = works[v]
              /\ new.live /\ new.src # None => works[v].live /\ new.src = works[v].src
              /\ new.src \in {None, works[v].src}
<1>1. works[v] \in WorkState
  BY DEF TypeOK, HubOK
<1>2. \A o \in Objs : [NoWork EXCEPT !.live = TRUE, !.wraps = o, !.disc = "enabled"] \in WorkState
  BY Wrappable DEF NoWork, WorkState, Disc
<1>3. \A o \in Manifests : [works[v] EXCEPT !.wraps = o, !.disc = "enabled"] \in WorkState
  BY <1>1, Wrappable DEF WorkState, Disc
<1>4. [works[v] EXCEPT !.disc = "none"] \in WorkState
  BY <1>1 DEF WorkState, Disc
<1>5. NoWork \in WorkState
  BY ConstantsAssumption DEF NoWork, WorkState, Disc
<1>6. CASE \E o \in Objs :
             WriteWork(v, [NoWork EXCEPT !.live = TRUE, !.wraps = o, !.disc = "enabled"])
  BY <1>2, <1>6 DEF NoWork
<1>7. CASE \E o \in Manifests : WriteWork(v, [works[v] EXCEPT !.wraps = o, !.disc = "enabled"])
  <2>1. PICK o \in Manifests : WriteWork(v, [works[v] EXCEPT !.wraps = o, !.disc = "enabled"])
    BY <1>7
  <2> DEFINE new == [works[v] EXCEPT !.wraps = o, !.disc = "enabled"]
  <2>2. new.disc # "completed" /\ new.live = works[v].live /\ new.src = works[v].src
    BY <1>1 DEF WorkState
  <2> QED
    BY <1>3, <2>1, <2>2
<1>8. CASE WriteWork(v, [works[v] EXCEPT !.disc = "none"])
  <2> DEFINE new == [works[v] EXCEPT !.disc = "none"]
  <2>1. new.disc # "completed" /\ new.live = works[v].live /\ new.src = works[v].src
    BY <1>1 DEF WorkState
  <2> QED
    BY <1>4, <1>8, <2>1
<1>9. CASE WriteWork(v, works[v])
  BY <1>1, <1>9
<1>10. CASE WriteWork(v, NoWork)
  BY <1>5, <1>10 DEF NoWork
<1> QED
  BY <1>6, <1>7, <1>8, <1>9, <1>10 DEF UserWritesWork, Manifests

(* Only the update of a handler makes a work completed, or makes a          *)
(* completed work wrap another resource and stay completed.                 *)
LEMMA OnlyUpdateCompletes ==
    ASSUME TypeOK, [Next]_vars, NEW w \in Works, works'[w].disc = "completed"
    PROVE  \/ works[w].disc = "completed" /\ works'[w].wraps = works[w].wraps
           \/ \E t \in Threads : /\ th[t].pc = "update"
                                 /\ th[t].wk = w
                                 /\ works'[w].wraps = th[t].cur.o
<1>1. works \in [Works -> WorkState] /\ works[w] \in WorkState
  BY DEF TypeOK, HubOK
<1>2. CASE UNCHANGED works
  BY <1>2
<1>3. ASSUME NEW t \in Threads, CreateEffect(t)
      PROVE  works'[w] = works[w]
  <2>1. PICK v \in Works : works' = [works EXCEPT ![v] =
             [[NoWork EXCEPT !.live = TRUE, !.src = th[t].cur.o, !.wraps = th[t].cur.o,
                             !.disc = "enabled"] EXCEPT !.rv = works[v].rv + 1]]
    BY <1>3 DEF CreateEffect, WriteWork
  <2> QED
    BY <1>1, <2>1 DEF NoWork
<1>4. ASSUME NEW t \in Threads, At(t, "update"), UpdateEffect(t), works'[w] # works[w]
      PROVE  th[t].pc = "update" /\ th[t].wk = w /\ works'[w].wraps = th[t].cur.o
  <2>1. works' = [works EXCEPT ![th[t].wk] =
             [[works[th[t].wk] EXCEPT !.wraps = th[t].cur.o, !.disc = "completed"]
                 EXCEPT !.rv = works[th[t].wk].rv + 1]]
    BY <1>4 DEF UpdateEffect, WriteWork
  <2> QED
    BY <1>1, <1>4, <2>1 DEF At, WorkState
<1>5. CASE CleanupEffect
  BY <1>1, <1>5 DEF CleanupEffect, WriteWork, NoWork
<1>6. ASSUME NEW v \in Works, UserWritesWork(v)
      PROVE  works[w].disc = "completed" /\ works'[w].wraps = works[w].wraps
  <2>1. PICK new \in WorkState : WriteWork(v, new) /\ (new.disc # "completed" \/ new = works[v])
    BY <1>6, UserWorkWrites
  <2>2. works'[w] = IF w = v THEN [new EXCEPT !.rv = works[v].rv + 1] ELSE works[w]
    BY <2>1, WriteWorkFields
  <2> QED
    BY <1>1, <2>1, <2>2 DEF WorkState
<1> QED
  BY <1>2, <1>3, <1>4, <1>5, <1>6, HubWriters

(* No work is ever marked completed for a resource that was not patched     *)
(* for it: whatever conflicts, fails, crashes or is edited in between.      *)
THEOREM CompletedClaims == Spec => []CompletedWasClaimed
<1>1. Init => CompletedWasClaimed /\ UpdateWasClaimed
  BY DEF Init, CompletedWasClaimed, UpdateWasClaimed, NoWork, Idle
<1>2. TypeOK /\ CompletedWasClaimed /\ UpdateWasClaimed /\ [Next]_vars
         => CompletedWasClaimed' /\ UpdateWasClaimed'
  <2> SUFFICES ASSUME TypeOK, CompletedWasClaimed, UpdateWasClaimed, [Next]_vars
               PROVE  CompletedWasClaimed' /\ UpdateWasClaimed'
    OBVIOUS
  <2>1. ASSUME NEW w \in Works, works'[w].disc = "completed"
        PROVE  Claimed(w, works'[w].wraps)
    BY <2>1, OnlyUpdateCompletes DEF CompletedWasClaimed, UpdateWasClaimed, Claimed
  <2> QED
    BY <2>1, HistoryGrows, PatchBeforeUpdate DEF CompletedWasClaimed, Claimed
<1> QED
  BY <1>1, <1>2, TypeCorrect, PTL DEF Spec
-----------------------------------------------------------------------------
(* OnlyOrphansDeleted rests on GVKGVRMap holding every kind the works wrap. *)
AllKnown == served = Kinds /\ (Up => known = Kinds)

(* Kinds discovery lists from the start are in GVKGVRMap whenever the       *)
(* process runs.                                                            *)
LEMMA KindsStayKnown ==
    ASSUME AllKnown, [Next]_vars
    PROVE  AllKnown'
<1> USE DEF AllKnown, Up, cluster
<1>1. CASE UNCHANGED vars
  BY <1>1 DEF vars
<1>2. CASE Start
  BY <1>2 DEF Start
<1>3. CASE AppStep
  BY <1>3 DEF AppStep, BeginSync, ListKind, TakeItem, EndSync, LocateWork
<1>5. CASE Panic \/ Crash
  BY <1>5 DEF Panic, Crash, Halt
<1>4. CASE MwStep
  BY <1>4, <1>5 DEF MwStep, Deliver, GetWrapped, ManifestUnreadable, ManifestMissing, Cleanup,
                    CleanupEffect
<1>6. \A t \in Threads : CreateEffect(t) \/ UpdateEffect(t) \/ ClaimEffect(t) => UNCHANGED served
  BY DEF CreateEffect, UpdateEffect, ClaimEffect
<1>7. CASE \E t \in Threads : SharedStep(t)
  BY <1>5, <1>6, <1>7 DEF SharedStep, FindRoot, ClimbOwner, OwnerKindUnknown, CreateWork, GetWork,
       FetchObj, ClaimObj, ClaimRefused, UpdateWork, UpdateRefused, AnnotationsMissing
<1>8. CASE Fault
  BY <1>5, <1>6, <1>8 DEF Fault, ListKindFails, Relist, OwnerLookupFails, CallFails, ReplyLost
<1>9. CASE Environment
  BY <1>9 DEF Environment, ApplicationChanged, UserWritesObj, UserWritesWork, InstallKind
<1> QED
  BY <1>1, <1>2, <1>3, <1>4, <1>7, <1>8, <1>9 DEF Next

(* Every write to the hub stores a work and raises its resource version.    *)
LEMMA HubWrites ==
    ASSUME TypeOK, [Next]_vars, ~UNCHANGED works
    PROVE  \E w \in Works, new \in WorkState : WriteWork(w, new)
<1>1. works \in [Works -> WorkState] /\ NoWork \in WorkState
  BY DEF TypeOK, HubOK, NoWork, WorkState, Disc
<1>2. ASSUME NEW t \in Threads, At(t, "create"), CreateEffect(t)
      PROVE  \E w \in Works, new \in WorkState : WriteWork(w, new)
  <2>1. th[t].cur.o \in Objs
    BY <1>2 DEF TypeOK, HandlersOK, HandlerOK, At
  <2>2. [NoWork EXCEPT !.live = TRUE, !.src = th[t].cur.o, !.wraps = th[t].cur.o,
                       !.disc = "enabled"] \in WorkState
    BY <2>1, Wrappable DEF NoWork, WorkState, Disc
  <2> QED
    BY <1>2, <2>2 DEF CreateEffect
<1>3. ASSUME NEW t \in Threads, At(t, "update"), UpdateEffect(t)
      PROVE  \E w \in Works, new \in WorkState : WriteWork(w, new)
  <2>1. PICK w \in Works, o \in Objs : w = th[t].wk /\ o = th[t].cur.o
    BY <1>3 DEF TypeOK, HandlersOK, HandlerOK, At
  <2>2. [works[w] EXCEPT !.wraps = o, !.disc = "completed"] \in WorkState
    <3>1. works[w] \in WorkState /\ o \in Manifests /\ o # None
      BY <1>1, Wrappable
    <3> QED
      BY <3>1 DEF WorkState, Disc
  <2> QED
    BY <1>3, <2>1, <2>2 DEF UpdateEffect
<1>4. ASSUME At(Mw, "cleanup"), CleanupEffect
      PROVE  \E w \in Works, new \in WorkState : WriteWork(w, new)
  <2>1. th[Mw].wk \in Works
    BY <1>4, ConstantsAssumption DEF TypeOK, HandlersOK, HandlerOK, At, Threads
  <2> QED
    BY <1>1, <1>4, <2>1 DEF CleanupEffect
<1> QED
  BY <1>2, <1>3, <1>4, HubWriters, UserWorkWrites

(* So a work that has changed has a higher version.                         *)
LEMMA WorksGrow ==
    ASSUME TypeOK, [Next]_vars, NEW w \in Works
    PROVE  works'[w] = works[w] \/ works'[w].rv > works[w].rv
<1>1. CASE UNCHANGED works
  BY <1>1
<1>2. ASSUME NEW v \in Works, NEW new \in WorkState, WriteWork(v, new)
      PROVE  works'[w] = works[w] \/ works'[w].rv > works[w].rv
  <2>1. works'[w] = IF w = v THEN [new EXCEPT !.rv = works[v].rv + 1] ELSE works[w]
    BY <1>2, WriteWorkFields
  <2>2. works[w].rv \in Nat
    BY DEF TypeOK, HubOK, WorkState
  <2> QED
    BY <1>2, <2>1, <2>2 DEF WorkState
<1> QED
  BY <1>1, <1>2, HubWrites

(* And so has a resource.                                                   *)
LEMMA ObjsGrow ==
    ASSUME TypeOK, [Next]_vars, NEW o \in Objs
    PROVE  objs'[o] = objs[o] \/ objs'[o].rv > objs[o].rv
<1>1. objs \in [Objs -> ObjState] /\ objs[o].rv \in Nat
  BY DEF TypeOK, ClusterOK, ObjState
<1>2. ASSUME NEW p \in Objs, NEW new \in ObjState, WriteObj(p, new)
      PROVE  objs'[o] = objs[o] \/ objs'[o].rv > objs[o].rv
  <2>1. objs' = [objs EXCEPT ![p] = [new EXCEPT !.rv = objs[p].rv + 1]]
    BY <1>2 DEF WriteObj
  <2>2. CASE p = o
    BY <1>1, <1>2, <2>1, <2>2 DEF ObjState
  <2>3. CASE p # o
    BY <1>1, <2>1, <2>3
  <2> QED
    BY <2>2, <2>3
<1>3. ASSUME NEW t \in Threads, At(t, "claim"), ClaimEffect(t)
      PROVE  objs'[o] = objs[o] \/ objs'[o].rv > objs[o].rv
  <2>1. PICK p \in Objs, w \in Works : p = th[t].cur.o /\ w = th[t].wk
    BY <1>3 DEF TypeOK, HandlersOK, HandlerOK, At
  <2>2. [objs[p] EXCEPT !.host = w] \in ObjState
    BY <1>1 DEF ObjState, Hosts
  <2> QED
    BY <1>2, <1>3, <2>1, <2>2 DEF ClaimEffect
<1>4. ASSUME NEW p \in Objs, UserWritesObj(p)
      PROVE  objs'[o] = objs[o] \/ objs'[o].rv > objs[o].rv
  <2>1. /\ objs[p] \in ObjState
        /\ [objs[p] EXCEPT !.live = TRUE, !.host = None] \in ObjState
        /\ [objs[p] EXCEPT !.live = FALSE, !.host = None] \in ObjState
        /\ [objs[p] EXCEPT !.host = None] \in ObjState
        /\ [objs[p] EXCEPT !.host = Foreign] \in ObjState
    BY <1>1 DEF ObjState, Hosts
  <2> QED
    BY <1>2, <1>4, <2>1 DEF UserWritesObj
<1> QED
  BY <1>3, <1>4, ClusterWriters

(* What is left of a sequence without one of its elements.                  *)
LEMMA RemoveAtEntries ==
    ASSUME NEW S, NEW s \in Seq(S), NEW i \in 1 .. Len(s)
    PROVE  /\ DOMAIN RemoveAt(s, i) = 1 .. Len(s) - 1
           /\ \A k \in 1 .. Len(s) - 1 : RemoveAt(s, i)[k] = IF k < i THEN s[k] ELSE s[k + 1]
<1> DEFINE h == SubSeq(s, 1, i - 1)
           t == SubSeq(s, i + 1, Len(s))
<1>1. h \in Seq(S) /\ Len(h) = i - 1 /\ \A k \in 1 .. i - 1 : h[k] = s[k]
  OBVIOUS
<1>2. t \in Seq(S) /\ Len(t) = Len(s) - i /\ \A k \in 1 .. Len(s) - i : t[k] = s[i + k]
  OBVIOUS
<1>3. RemoveAt(s, i) = h \o t
  BY DEF RemoveAt
<1> HIDE DEF h, t
<1>4. DOMAIN (h \o t) = 1 .. Len(s) - 1
  BY <1>1, <1>2
<1>5. ASSUME NEW k \in 1 .. Len(s) - 1
      PROVE  (h \o t)[k] = IF k < i THEN s[k] ELSE s[k + 1]
  <2>1. CASE k < i
    BY <1>1, <1>2, <2>1
  <2>2. CASE k >= i
    <3>1. (h \o t)[k] = t[k - (i - 1)]
      BY <1>1, <1>2, <2>2
    <3>2. t[k - (i - 1)] = s[i + (k - (i - 1))]
      BY <1>2, <2>2
    <3> QED
      BY <2>2, <3>1, <3>2
  <2>3. k < i \/ k >= i
    OBVIOUS
  <2> QED
    BY <2>1, <2>2, <2>3
<1> QED
  BY <1>3, <1>4, <1>5

(* What the queue holds after a step: what it held, or a current version.   *)
Fresh(n) == n.w \in Works /\ works'[n.w] = n.new /\ (n.new.live \/ works'[n.w] # works[n.w])
Old(n) == \E j \in DOMAIN mwq : n = mwq[j]

LEMMA QueueWriters ==
    ASSUME TypeOK, [Next]_vars, NEW i \in DOMAIN mwq'
    PROVE  Old(mwq'[i]) \/ Fresh(mwq'[i])
<1>0. mwq \in Seq(Notifications) /\ works \in [Works -> WorkState]
  BY DEF TypeOK, HubOK
<1>1. CASE UNCHANGED mwq
  BY <1>1 DEF Old
<1>2. CASE mwq' = <<>>
  BY <1>2
<1>3. CASE ~UNCHANGED works
  <2>1. PICK w \in Works, new \in WorkState : WriteWork(w, new)
    BY <1>3, HubWrites
  <2> DEFINE next == [new EXCEPT !.rv = works[w].rv + 1]
             n == [w |-> w, new |-> next]
  <2>2. works'[w] = next
    BY <2>1, WriteWorkFields
  <2>3. works'[w] # works[w]
    <3>1. works'[w].rv = works[w].rv + 1 /\ works[w].rv \in Nat
      BY <1>0, <2>2 DEF WorkState
    <3> QED
      BY <3>1
  <2>4. Fresh(n)
    BY <2>2, <2>3 DEF Fresh
  <2>5. UNCHANGED mwq \/ mwq' = Append(mwq, n)
    BY <2>1 DEF WriteWork
  <2> HIDE DEF n
  <2> QED
    BY <1>0, <1>1, <2>4, <2>5 DEF Old
<1>4. CASE UNCHANGED works
  <2>1. ASSUME NEW w \in Works, NEW new \in WorkState, WriteWork(w, new)
        PROVE  FALSE
    <3>1. works'[w].rv = works[w].rv + 1
      BY <2>1, WriteWorkFields DEF WorkState
    <3>2. works[w].rv \in Nat
      BY <1>0 DEF WorkState
    <3> QED
      BY <1>4, <3>1, <3>2
  <2>2. CASE Start
    <3> DEFINE S == {[w |-> w, new |-> works[w]] : w \in {v \in Works : works[v].live}}
    <3>1. mwq' \in SetToSeqs(S)
      BY <2>2 DEF Start
    <3>2. mwq'[i] \in S
      BY <3>1 DEF SetToSeqs
    <3> QED
      BY <1>4, <3>2 DEF Fresh
  <2>3. CASE Deliver
    <3>1. mwq # <<>> /\ mwq' = Tail(mwq)
      BY <2>3 DEF Deliver
    <3>2. i + 1 \in DOMAIN mwq /\ mwq'[i] = mwq[i + 1]
      BY <1>0, <3>1
    <3> QED
      BY <3>2 DEF Old
  <2>4. CASE Relist
    <3>1. PICK k \in DOMAIN mwq : mwq' = RemoveAt(mwq, k)
      BY <2>4 DEF Relist
    <3>2. k \in 1 .. Len(mwq)
      BY <1>0, <3>1
    <3>3. i \in 1 .. Len(mwq) - 1 /\ mwq'[i] = IF i < k THEN mwq[i] ELSE mwq[i + 1]
      BY <1>0, <3>1, <3>2, RemoveAtEntries
    <3>4. mwq'[i] \in {mwq[i], mwq[i + 1]} /\ {i, i + 1} \subseteq DOMAIN mwq
      BY <1>0, <3>3
    <3> QED
      BY <3>4 DEF Old
  <2>5. CASE Panic \/ Crash
    BY <1>2, <2>5 DEF Panic, Crash, Halt
  <2>6. CASE UNCHANGED vars
    BY <1>1, <2>6 DEF vars
  <2>7. CASE AppStep
    BY <1>1, <2>7 DEF AppStep, BeginSync, ListKind, TakeItem, EndSync, LocateWork, informer
  <2>8. ASSUME NEW t \in Threads, At(t, "create"), CreateEffect(t)
        PROVE  FALSE
    <3>1. th[t].cur.o \in Objs
      BY <2>8 DEF TypeOK, HandlersOK, HandlerOK, At
    <3>2. [NoWork EXCEPT !.live = TRUE, !.src = th[t].cur.o, !.wraps = th[t].cur.o,
                         !.disc = "enabled"] \in WorkState
      BY <3>1, Wrappable DEF NoWork, WorkState, Disc
    <3> QED
      BY <2>1, <2>8, <3>2 DEF CreateEffect
  <2>9. ASSUME NEW t \in Threads, At(t, "update"), UpdateEffect(t)
        PROVE  FALSE
    <3>1. PICK w \in Works, o \in Objs : w = th[t].wk /\ o = th[t].cur.o
      BY <2>9 DEF TypeOK, HandlersOK, HandlerOK, At
    <3>2. [works[w] EXCEPT !.wraps = o, !.disc = "completed"] \in WorkState
      <4>1. works[w] \in WorkState /\ o \in Manifests /\ o # None
        BY <1>0, Wrappable
      <4> QED
        BY <4>1 DEF WorkState, Disc
    <3> QED
      BY <2>1, <2>9, <3>1, <3>2 DEF UpdateEffect
  <2>10. ASSUME NEW w \in Works, UserWritesWork(w)
         PROVE  FALSE
    BY <2>1, <2>10, UserWorkWrites
  <2>11. CASE MwStep /\ ~Deliver
    <3>1. CASE Cleanup
      <4>1. th[Mw].wk \in Works /\ NoWork \in WorkState
        BY <3>1, ConstantsAssumption
           DEF Cleanup, At, TypeOK, HandlersOK, HandlerOK, Threads, NoWork, WorkState, Disc
      <4> QED
        BY <1>1, <2>1, <3>1, <4>1 DEF Cleanup, CleanupEffect
    <3> QED
      BY <1>1, <2>5, <2>11, <3>1 DEF MwStep, GetWrapped, ManifestUnreadable, ManifestMissing, informer
  <2>12. ASSUME NEW t \in Threads, SharedStep(t)
         PROVE  Old(mwq'[i]) \/ Fresh(mwq'[i])
    <3>1. CASE CreateWork(t) \/ UpdateWork(t)
      BY <2>8, <2>9, <3>1 DEF CreateWork, UpdateWork
    <3>2. CASE OwnerKindUnknown(t) \/ AnnotationsMissing(t)
      BY <2>5, <3>2 DEF OwnerKindUnknown, AnnotationsMissing
    <3>3. CASE ClaimObj(t)
      BY <1>1, <3>3 DEF ClaimObj, ClaimEffect
    <3>4. CASE FindRoot(t) \/ ClimbOwner(t) \/ GetWork(t) \/ FetchObj(t) \/ ClaimRefused(t)
               \/ UpdateRefused(t)
      BY <1>1, <3>4 DEF FindRoot, ClimbOwner, GetWork, FetchObj, ClaimRefused, UpdateRefused, informer
    <3> QED
      BY <2>12, <3>1, <3>2, <3>3, <3>4 DEF SharedStep
  <2>13. CASE Fault /\ ~Crash /\ ~Relist
    BY <1>1, <2>5, <2>8, <2>9, <2>13 DEF Fault, ListKindFails, OwnerLookupFails, CallFails,
       ReplyLost, ClaimEffect, informer
  <2>14. CASE Environment
    BY <1>1, <2>10, <2>14 DEF Environment, ApplicationChanged, UserWritesObj, InstallKind, informer
  <2> QED
    BY <2>2, <2>3, <2>4, <2>5, <2>6, <2>7, <2>11, <2>12, <2>13, <2>14 DEF Next, Fault
<1> QED
  BY <1>3, <1>4

(* The informer's last versions change as it hands over another, and with   *)
(* the end of the process.                                                  *)
LEMMA SeenWriters ==
    ASSUME [Next]_vars
    PROVE  UNCHANGED seen \/ Deliver \/ (\E how : Halt(how))
<1> USE DEF informer
<1>1. CASE UNCHANGED vars
  BY <1>1 DEF vars
<1>2. CASE Panic \/ Crash
  BY <1>2 DEF Panic, Crash
<1>3. CASE Start \/ AppStep
  BY <1>3 DEF Start, AppStep, BeginSync, ListKind, TakeItem, EndSync, LocateWork
<1>4. CASE MwStep
  BY <1>2, <1>4 DEF MwStep, GetWrapped, ManifestUnreadable, ManifestMissing, Cleanup
<1>5. CASE \E t \in Threads : SharedStep(t)
  BY <1>2, <1>5 DEF SharedStep, FindRoot, ClimbOwner, OwnerKindUnknown, CreateWork, GetWork,
       FetchObj, ClaimObj, ClaimRefused, UpdateWork, UpdateRefused, AnnotationsMissing
<1>6. CASE Fault
  BY <1>2, <1>6 DEF Fault, ListKindFails, Relist, OwnerLookupFails, CallFails, ReplyLost
<1>7. CASE Environment
  BY <1>7 DEF Environment, ApplicationChanged, UserWritesObj, UserWritesWork, InstallKind
<1> QED
  BY <1>1, <1>3, <1>4, <1>5, <1>6, <1>7 DEF Next

(* Notifications are of versions their works have had, and what leads to a  *)
(* cleanup is the work as it was notified and its resource as it was read:  *)
(* each is out of date, or is as it says.                                   *)
VersionOf(w, s) == s.rv <= works[w].rv /\ (s.rv = works[w].rv => s = works[w])
QueueTrue == \A i \in DOMAIN mwq : VersionOf(mwq[i].w, mwq[i].new)
Missed(cur) == cur.rv <= objs[cur.o].rv /\ (cur.rv = objs[cur.o].rv => ~objs[cur.o].live)
LookedInto ==
    LET me == th[Mw] IN
    /\ me.pc \in {"wrapped", "cleanup"} =>
          seen[me.wk].wraps = me.cur.o /\ VersionOf(me.wk, seen[me.wk])
    /\ me.pc = "cleanup" /\ me.cur.o \in Objs => Missed(me.cur)

(* A version that a work has had remains one.                               *)
LEMMA VersionLasts ==
    ASSUME TypeOK, [Next]_vars, NEW w \in Works, NEW s \in WorkState, VersionOf(w, s)
    PROVE  s.rv <= works'[w].rv /\ (s.rv = works'[w].rv => s = works'[w])
<1>1. works[w].rv \in Nat /\ works'[w].rv \in Nat /\ s.rv \in Nat
  BY NextType DEF TypeOK, HubOK, WorkState
<1> QED
  BY <1>1, WorksGrow DEF VersionOf

(* A resource that was missed is still missing, or has been written since.  *)
LEMMA MissedLasts ==
    ASSUME TypeOK, [Next]_vars, NEW cur \in Snapshots, cur.o \in Objs, Missed(cur)
    PROVE  cur.rv <= objs'[cur.o].rv /\ (cur.rv = objs'[cur.o].rv => ~objs'[cur.o].live)
<1>1. objs[cur.o].rv \in Nat /\ objs'[cur.o].rv \in Nat /\ cur.rv \in Nat
  BY NextType DEF TypeOK, ClusterOK, ObjState, Snapshots
<1> QED
  BY <1>1, ObjsGrow DEF Missed

LEMMA QueueStaysTrue ==
    ASSUME TypeOK, QueueTrue, [Next]_vars
    PROVE  QueueTrue'
<1> SUFFICES ASSUME NEW i \in DOMAIN mwq'
             PROVE  LET n == mwq'[i] IN
                    n.new.rv <= works'[n.w].rv /\ (n.new.rv = works'[n.w].rv => n.new = works'[n.w])
  BY DEF QueueTrue, VersionOf
<1>1. CASE Fresh(mwq'[i])
  <2>1. works'[mwq'[i].w].rv \in Nat
    BY <1>1, NextType DEF Fresh, TypeOK, HubOK, WorkState
  <2> QED
    BY <1>1, <2>1 DEF Fresh
<1>2. ASSUME NEW j \in DOMAIN mwq, mwq'[i] = mwq[j]
      PROVE  LET n == mwq'[i] IN
             n.new.rv <= works'[n.w].rv /\ (n.new.rv = works'[n.w].rv => n.new = works'[n.w])
  <2>1. mwq[j].w \in Works /\ mwq[j].new \in WorkState
    <3>1. mwq \in Seq(Notifications)
      BY DEF TypeOK, HubOK
    <3>2. mwq[j] \in Notifications
      BY <3>1
    <3> QED
      BY <3>2 DEF Notifications
  <2> QED
    BY <1>2, <2>1, VersionLasts DEF QueueTrue
<1> QED
  BY <1>1, <1>2, QueueWriters DEF Old

LEMMA LookupStep ==
    ASSUME TypeOK, AllKnown, QueueTrue, LookedInto, [Next]_vars
    PROVE  LookedInto'
<1> DEFINE me == th[Mw]
<1>1. /\ th \in [Threads -> Locals] /\ th[Mw] \in Locals /\ Mw \in Threads /\ Mw # App
      /\ HandlerOK(Mw, th[Mw]) /\ seen \in [Works -> WorkState]
  BY DEF TypeOK, HandlersOK, Threads, Mw, App
<1>2. CASE th'[Mw].pc \notin {"wrapped", "cleanup"}
  BY <1>2 DEF LookedInto
<1>3. CASE Done(Mw)
  BY <1>1, <1>2, <1>3, HandlerEnds
<1>4. ASSUME th[Mw].pc \in {"wrapped", "cleanup"}, th'[Mw].pc \in {"wrapped", "cleanup"},
             th'[Mw].wk = th[Mw].wk, th'[Mw].cur.o = th[Mw].cur.o,
             th'[Mw].pc = "cleanup" /\ th'[Mw].cur.o \in Objs => Missed(th[Mw].cur)'
      PROVE  LookedInto'
  <2>1. UNCHANGED seen
    BY <1>4, SeenWriters, HandlersHalt, <1>1 DEF Deliver, At
  <2>2. th[Mw].wk \in Works /\ seen[th[Mw].wk] \in WorkState
    BY <1>1, <1>4, ConstantsAssumption DEF HandlerOK
  <2>3. seen[th[Mw].wk].wraps = th[Mw].cur.o /\ VersionOf(th[Mw].wk, seen[th[Mw].wk])
    BY <1>4 DEF LookedInto
  <2>4. LET s == seen[th[Mw].wk]
            w == works'[th[Mw].wk]
        IN  s.rv <= w.rv /\ (s.rv = w.rv => s = w)
    BY <2>2, <2>3, VersionLasts
  <2> QED
    BY <1>4, <2>1, <2>3, <2>4 DEF LookedInto, VersionOf
<1>5. CASE th'[Mw] = th[Mw] /\ th[Mw].pc \in {"wrapped", "cleanup"}
  <2>1. th[Mw].cur \in Snapshots
    BY <1>1 DEF Locals
  <2>2. ASSUME th[Mw].pc = "cleanup", th[Mw].cur.o \in Objs
        PROVE  Missed(th[Mw].cur)'
    BY <1>5, <2>1, <2>2, MissedLasts DEF LookedInto, Missed
  <2> QED
    BY <1>4, <1>5, <2>2
<1>6. CASE Deliver /\ th'[Mw] # th[Mw]
  <2> DEFINE n == Head(mwq)
  <2>1. mwq \in Seq(Notifications) /\ mwq # <<>> /\ n = mwq[1] /\ 1 \in DOMAIN mwq
    BY <1>6 DEF Deliver, TypeOK, HubOK
  <2>2. n.w \in Works /\ n.new \in WorkState /\ VersionOf(n.w, n.new)
    <3>1. n \in Notifications
      BY <2>1
    <3> QED
      BY <2>1, <3>1 DEF Notifications, QueueTrue
  <2>3. /\ seen' = [seen EXCEPT ![n.w] = n.new]
        /\ th' = [th EXCEPT ![Mw] = [Idle EXCEPT !.pc = "wrapped", !.wk = n.w, !.cur.o = n.new.wraps]]
        /\ UNCHANGED works
    BY <1>6 DEF Deliver
  <2>4. th'[Mw].pc = "wrapped" /\ th'[Mw].wk = n.w /\ th'[Mw].cur.o = n.new.wraps
    BY <1>1, <2>3 DEF Idle, NoSnapshot
  <2>5. seen'[n.w] = n.new
    BY <1>1, <2>2, <2>3
  <2> QED
    BY <2>2, <2>3, <2>4, <2>5 DEF LookedInto, VersionOf
<1>7. CASE GetWrapped
  <2> DEFINE o == th[Mw].cur.o
             pc == IF KindOf[o] \in known /\ objs[o].live THEN "walk" ELSE "cleanup"
  <2>1. /\ At(Mw, "wrapped") /\ th' = [th EXCEPT ![Mw].cur = Snapshot(o), ![Mw].pc = pc]
        /\ o \in Objs /\ UNCHANGED objs
    BY <1>7 DEF GetWrapped, cluster
  <2>2. th'[Mw].cur = Snapshot(o) /\ th'[Mw].pc = pc /\ th'[Mw].wk = th[Mw].wk
    BY <1>1, <2>1 DEF Locals
  <2>3. KindOf[o] \in known
    BY <2>1, ConstantsAssumption DEF At, AllKnown
  <2>4. CASE objs[o].live
    BY <1>2, <2>2, <2>3, <2>4
  <2>5. CASE ~objs[o].live
    <3>1. objs[o].rv \in Nat
      BY <2>1 DEF TypeOK, ClusterOK, ObjState
    <3>2. th'[Mw].cur.o = o /\ th'[Mw].cur.rv = objs[o].rv
      BY <2>2 DEF Snapshot
    <3>3. Missed(th[Mw].cur)'
      BY <2>1, <2>5, <3>1, <3>2 DEF Missed
    <3> QED
      BY <1>4, <2>1, <2>2, <2>5, <3>2, <3>3 DEF At
  <2> QED
    BY <2>4, <2>5
<1>8. CASE ManifestUnreadable
  <2>1. At(Mw, "wrapped") /\ th[Mw].cur.o = Unreadable
    BY <1>8 DEF ManifestUnreadable
  <2>2. th'[Mw].cur = th[Mw].cur /\ th'[Mw].pc = "cleanup" /\ th'[Mw].wk = th[Mw].wk
    BY <1>1, <1>8 DEF ManifestUnreadable, Goto, Locals
  <2> QED
    BY <1>4, <2>1, <2>2, ConstantsAssumption DEF At
<1>9. CASE FindRoot(Mw) \/ (OwnerLookupFails(Mw) /\ ~Done(Mw))
  BY <1>1, <1>2, <1>9 DEF FindRoot, OwnerLookupFails, RootFound, Goto, Locals
<1>10. CASE ClimbOwner(Mw)
  BY <1>1, <1>2, <1>10 DEF ClimbOwner, At, Locals
<1>11. CASE (GetWork(Mw) \/ ClaimRefused(Mw) \/ UpdateRefused(Mw)) /\ ~Done(Mw)
  BY <1>1, <1>2, <1>11 DEF GetWork, ClaimRefused, UpdateRefused, Conflict, Retry, GiveUp, Leave, Locals
<1>12. CASE (FetchObj(Mw) \/ ClaimObj(Mw)) /\ ~Done(Mw)
  BY <1>1, <1>2, <1>12 DEF FetchObj, ClaimObj, Goto, Locals
<1> QED
  BY <1>1, <1>2, <1>3, <1>5, <1>6, <1>7, <1>8, <1>9, <1>10, <1>11, <1>12, HandlerSteps
     DEF HandlerMoving

(* A user who writes a work spends an operation.                            *)
LEMMA UsersSpend ==
    ASSUME TypeOK, NEW w \in Works, UserWritesWork(w)
    PROVE  left'.ops # left.ops
<1>1. Spend("ops")
  BY DEF UserWritesWork, UserOp
<1>2. left.ops \in Nat /\ left'.ops = left.ops - 1
  BY <1>1 DEF Spend, TypeOK
<1> QED
  BY <1>2

(* The controller deletes only the work its ManifestWork handler cleans up. *)
LEMMA OnlyCleanupDeletes ==
    ASSUME TypeOK, [Next]_vars, NEW w \in Works, works[w].live, ~works'[w].live,
           left'.ops = left.ops
    PROVE  th[Mw].pc = "cleanup" /\ th[Mw].wk = w
<1>1. works \in [Works -> WorkState]
  BY DEF TypeOK, HubOK
<1>2. ASSUME NEW t \in Threads, CreateEffect(t)
      PROVE  FALSE
  <2>1. PICK v \in Works : works' = [works EXCEPT ![v] =
             [[NoWork EXCEPT !.live = TRUE, !.src = th[t].cur.o, !.wraps = th[t].cur.o,
                             !.disc = "enabled"] EXCEPT !.rv = works[v].rv + 1]]
    BY <1>2 DEF CreateEffect, WriteWork
  <2> QED
    BY <1>1, <2>1 DEF NoWork
<1>3. ASSUME NEW t \in Threads, UpdateEffect(t)
      PROVE  FALSE
  <2>1. works' = [works EXCEPT ![th[t].wk] =
             [[works[th[t].wk] EXCEPT !.wraps = th[t].cur.o, !.disc = "completed"]
                 EXCEPT !.rv = works[th[t].wk].rv + 1]]
    BY <1>3 DEF UpdateEffect, WriteWork
  <2> QED
    BY <1>1, <2>1 DEF WorkState
<1>4. ASSUME At(Mw, "cleanup"), CleanupEffect
      PROVE  th[Mw].pc = "cleanup" /\ th[Mw].wk = w
  <2>1. works' = [works EXCEPT ![th[Mw].wk] = [NoWork EXCEPT !.rv = works[th[Mw].wk].rv + 1]]
    BY <1>4 DEF CleanupEffect, WriteWork
  <2> QED
    BY <1>1, <1>4, <2>1 DEF At
<1> QED
  BY <1>2, <1>3, <1>4, HubWriters, UsersSpend

(* When discovery has listed every kind before the process starts, the      *)
(* controller deletes a work whose resource exists only if that was created *)
(* after the lookup, or the work rewritten after the version looked into:   *)
(* no lookup that failed, no stale notification and no crash is taken for a *)
(* missing resource.                                                        *)
THEOREM DeletesOnlyOrphans ==
    ASSUME InitKinds = Kinds
    PROVE  Spec => OnlyOrphansDeleted
<1>1. Init => AllKnown /\ QueueTrue /\ LookedInto
  BY DEF Init, AllKnown, Up, QueueTrue, LookedInto, Idle, Threads, Mw
<1>2. TypeOK /\ AllKnown /\ QueueTrue /\ LookedInto /\ [Next]_vars => AllKnown' /\ QueueTrue' /\ LookedInto'
  BY KindsStayKnown, QueueStaysTrue, LookupStep
<1>3. TypeOK /\ AllKnown /\ QueueTrue /\ LookedInto /\ [Next]_vars
         => [\A w \in Works :
                LET o == works[w].wraps
                    deleted == works[w].live /\ ~works'[w].live /\ left'.ops = left.ops
                IN  (deleted /\ o \in Objs /\ objs[o].live) =>
                        \/ objs[o].rv > th[Mw].cur.rv
                        \/ works[w].rv > seen[w].rv]_vars
  <2> SUFFICES ASSUME TypeOK, LookedInto, [Next]_vars, NEW w \in Works, works[w].wraps \in Objs,
                      works[w].live, ~works'[w].live, left'.ops = left.ops, objs[works[w].wraps].live,
                      ~(works[w].rv > seen[w].rv)
               PROVE  objs[works[w].wraps].rv > th[Mw].cur.rv
    OBVIOUS
  <2>1. th[Mw].pc = "cleanup" /\ th[Mw].wk = w
    BY OnlyCleanupDeletes
  <2>2. works[w].rv \in Nat /\ seen[w].rv \in Nat
    BY DEF TypeOK, HubOK, WorkState
  <2>3. seen[w].wraps = th[Mw].cur.o /\ seen[w] = works[w]
    BY <2>1, <2>2 DEF LookedInto, VersionOf
  <2>4. Missed(th[Mw].cur)
    BY <2>1, <2>3 DEF LookedInto
  <2>5. objs[works[w].wraps].rv \in Nat /\ th[Mw].cur.rv \in Nat
    BY DEF TypeOK, ClusterOK, ObjState, HandlersOK, Threads, Locals, Snapshots
  <2> QED
    BY <2>3, <2>4, <2>5 DEF Missed
<1> QED
  BY <1>1, <1>2, <1>3, TypeCorrect, PTL DEF Spec, OnlyOrphansDeleted
-----------------------------------------------------------------------------
(* UniqueSource rests on what the application handler knows when it is      *)
(* about to create: no work names its component, and nobody else makes one. *)
NoneMadeYet ==
    LET me == th[App] IN
    /\ me.pc = "create" => me.wk = None
    /\ (me.pc \in {"walk", "create"} /\ me.wk = None) =>
          \A w \in Works : works[w].live => works[w].src # me.cur.o

(* A work gets its source when the application handler creates it, and      *)
(* keeps it while it exists.                                                *)
LEMMA SourceWriters ==
    ASSUME TypeOK, [Next]_vars, NEW w \in Works, works'[w].live, works'[w].src # None
    PROVE  \/ works[w].live /\ works[w].src = works'[w].src
           \/ /\ At(App, "create") /\ Done(App)
              /\ works'[w].src = th[App].cur.o
              /\ \A v \in Works \ {w} : works'[v] = works[v]
<1>1. works \in [Works -> WorkState] /\ works[w] \in WorkState
  BY DEF TypeOK, HubOK
<1>2. CASE UNCHANGED works
  BY <1>2
<1>3. ASSUME NEW t \in Threads, At(t, "create"), CreateEffect(t), Done(t),
             ~(works[w].live /\ works[w].src = works'[w].src)
      PROVE  /\ At(App, "create") /\ Done(App)
             /\ works'[w].src = th[App].cur.o
             /\ \A v \in Works \ {w} : works'[v] = works[v]
  <2>1. t = App
    BY <1>3 DEF At, Threads, TypeOK, HandlersOK, HandlerOK
  <2>2. PICK v \in Works : works' = [works EXCEPT ![v] =
             [[NoWork EXCEPT !.live = TRUE, !.src = th[t].cur.o, !.wraps = th[t].cur.o,
                             !.disc = "enabled"] EXCEPT !.rv = works[v].rv + 1]]
    BY <1>3 DEF CreateEffect, WriteWork
  <2>3. v = w
    BY <1>1, <1>3, <2>2
  <2> QED
    BY <1>1, <1>3, <2>1, <2>2, <2>3 DEF NoWork
<1>4. ASSUME NEW t \in Threads, At(t, "update"), UpdateEffect(t)
      PROVE  works[w].live /\ works[w].src = works'[w].src
  <2>1. works' = [works EXCEPT ![th[t].wk] =
             [[works[th[t].wk] EXCEPT !.wraps = th[t].cur.o, !.disc = "completed"]
                 EXCEPT !.rv = works[th[t].wk].rv + 1]]
    BY <1>4 DEF UpdateEffect, WriteWork
  <2> QED
    BY <1>1, <1>4, <2>1 DEF UpdateEffect, WorkState
<1>5. CASE CleanupEffect
  BY <1>1, <1>5 DEF CleanupEffect, WriteWork, NoWork
<1>6. ASSUME NEW v \in Works, UserWritesWork(v)
      PROVE  works[w].live /\ works[w].src = works'[w].src
  <2>1. PICK new \in WorkState :
           WriteWork(v, new) /\ (new.live /\ new.src # None => works[v].live /\ new.src = works[v].src)
    BY <1>6, UserWorkWrites
  <2>2. works'[w] = IF w = v THEN [new EXCEPT !.rv = works[v].rv + 1] ELSE works[w]
    BY <2>1, WriteWorkFields
  <2> QED
    BY <1>1, <2>1, <2>2 DEF WorkState
<1> QED
  BY <1>2, <1>3, <1>4, <1>5, <1>6, HubWriters

(* What the application handler has looked up stays true until it creates.  *)
LEMMA NoneMadeStep ==
    ASSUME TypeOK, NoneMadeYet, [Next]_vars, \A o \in Objs : OwnerOf[o] = None
    PROVE  NoneMadeYet'
<1>1. /\ th \in [Threads -> Locals] /\ th[App] \in Locals /\ App \in Threads /\ Mw # App
      /\ HandlerOK(App, th[App])
  BY DEF TypeOK, HandlersOK, Threads, Mw, App
<1>2. CASE th'[App] = th[App]
  <2>1. ASSUME NEW w \in Works, th[App].pc \in {"walk", "create"}, th[App].wk = None, works'[w].live
        PROVE  works'[w].src # th[App].cur.o
    <3>1. th[App].cur.o # None
      BY <1>1, <2>1, ConstantsAssumption DEF HandlerOK
    <3>2. ~Done(App)
      BY <1>1, <1>2, <2>1, HandlerEnds
    <3> QED
      BY <2>1, <3>1, <3>2, SourceWriters DEF NoneMadeYet
  <2> QED
    BY <1>2, <2>1 DEF NoneMadeYet
<1>3. CASE th'[App].pc \notin {"walk", "create"} \/ Done(App)
  BY <1>1, <1>3, HandlerEnds DEF NoneMadeYet
<1>4. CASE LocateWork
  <2>1. PICK w \in IF WorksOf(th[App].cur.o) = {} THEN {None} ELSE WorksOf(th[App].cur.o) :
           th' = [th EXCEPT ![App].pc = "walk", ![App].wk = w]
    BY <1>4 DEF LocateWork
  <2>2. th'[App].pc = "walk" /\ th'[App].wk = w /\ th'[App].cur = th[App].cur
    BY <1>1, <2>1 DEF Locals
  <2>3. w = None => WorksOf(th[App].cur.o) = {}
    BY <2>1, ConstantsAssumption DEF WorksOf
  <2> QED
    BY <1>4, <2>2, <2>3 DEF LocateWork, WorksOf, NoneMadeYet
<1>5. ASSUME NEW i \in items, TakeItem(i), th'[App] # th[App]
      PROVE  th'[App].pc = "locate"
  BY <1>1, <1>5, IdleType DEF TakeItem, Locals
<1>6. CASE FindRoot(App) \/ (OwnerLookupFails(App) /\ ~Done(App))
  <2>1. At(App, "walk") /\ RootFound(App) /\ UNCHANGED works
    BY <1>6 DEF FindRoot, OwnerLookupFails
  <2>2. /\ th'[App].pc = IF th[App].wk = None THEN "create" ELSE "get"
        /\ th'[App].wk = th[App].wk /\ th'[App].cur = th[App].cur
    BY <1>1, <2>1 DEF RootFound, Goto, Locals
  <2> QED
    BY <2>1, <2>2 DEF At, NoneMadeYet
<1>7. ~ClimbOwner(App)
  BY <1>1 DEF ClimbOwner, At, HandlerOK
<1>8. CASE GetWork(App) \/ ClaimRefused(App) \/ UpdateRefused(App)
  BY <1>1, <1>3, <1>8 DEF GetWork, ClaimRefused, UpdateRefused, Conflict, Retry, GiveUp, Leave, Locals
<1>9. CASE FetchObj(App) \/ ClaimObj(App)
  BY <1>1, <1>3, <1>9 DEF FetchObj, ClaimObj, Goto, Locals
<1> QED
  BY <1>1, <1>2, <1>3, <1>4, <1>5, <1>6, <1>7, <1>8, <1>9, HandlerSteps DEF HandlerMoving

(* Without owner references a resource never gets a second work: not when   *)
(* creates fail or their replies are lost, nor when the process crashes.    *)
THEOREM NoDuplicateWorks ==
    ASSUME \A o \in Objs : OwnerOf[o] = None
    PROVE  Spec => []UniqueSource
<1>1. Init => NoneMadeYet /\ UniqueSource
  BY DEF Init, NoneMadeYet, UniqueSource, Idle, NoWork, Threads, App
<1>2. TypeOK /\ NoneMadeYet /\ UniqueSource /\ [Next]_vars => NoneMadeYet' /\ UniqueSource'
  <2> SUFFICES ASSUME TypeOK, NoneMadeYet, UniqueSource, [Next]_vars
               PROVE  UniqueSource'
    BY NoneMadeStep
  <2> SUFFICES ASSUME NEW v \in Works, NEW w \in Works, v # w, works'[v].live, works'[w].live,
                      works'[v].src # None, works'[v].src = works'[w].src
               PROVE  FALSE
    BY DEF UniqueSource
  <2>1. \A u \in Works : At(App, "create") /\ works[u].live => works[u].src # th[App].cur.o
    BY DEF At, NoneMadeYet
  <2> QED
    BY <2>1, SourceWriters DEF UniqueSource
<1> QED
  BY <1>1, <1>2, TypeCorrect, PTL DEF Spec
-----------------------------------------------------------------------------
(* OwnershipKept, when the ManifestWork handler is the only one to annotate *)
(* resources: what it checks before its patch then stays true until then.   *)
AppRests == items = {} /\ th[App].pc \in {"idle", "list"}
HostUnclaimed ==
    LET me == th[Mw]
        host == objs[me.cur.o].host
    IN  /\ me.pc \in {"walk", "get"} => host \in {None, me.cur.host, me.wk}
        /\ me.pc \in {"fetch", "claim", "update"} => /\ me.cur.host \in {None, me.wk}
                                                    /\ host \in {None, me.wk}

(* An application without components never leaves its listing.              *)
LEMMA AppStaysAtRest ==
    ASSUME TypeOK, AppRests, [Next]_vars, AppObjs = {}
    PROVE  AppRests'
<1>1. /\ th \in [Threads -> Locals] /\ App \in Threads /\ Mw # App
  BY DEF TypeOK, HandlersOK, Threads, Mw, App
<1>2. th'[App].pc \in {"idle", "list"}
  <2>1. ~HandlerMoving(App)
    BY <1>1 DEF HandlerMoving, AppRests, LocateWork, TakeItem, FindRoot, ClimbOwner, OwnerLookupFails,
                GetWork, FetchObj, ClaimObj, ClaimRefused, UpdateRefused, At
  <2> QED
    BY <1>1, <2>1, HandlerSteps DEF AppRests
<1>3. items' = {}
  <2> USE DEF AppRests, sync
  <2>1. CASE UNCHANGED vars
    BY <2>1 DEF vars
  <2>2. CASE Start
    BY <2>2 DEF Start
  <2>3. CASE AppStep
    BY <2>3 DEF AppStep, BeginSync, ListKind, TakeItem, EndSync, LocateWork
  <2>5. CASE Panic \/ Crash
    BY <2>5 DEF Panic, Crash, Halt
  <2>4. CASE MwStep
    BY <2>4, <2>5 DEF MwStep, Deliver, GetWrapped, ManifestUnreadable, ManifestMissing, Cleanup
  <2>6. CASE \E t \in Threads : SharedStep(t)
    BY <2>5, <2>6 DEF SharedStep, FindRoot, ClimbOwner, OwnerKindUnknown, CreateWork, GetWork,
         FetchObj, ClaimObj, ClaimRefused, UpdateWork, UpdateRefused, AnnotationsMissing
  <2>7. CASE Fault
    BY <2>5, <2>7 DEF Fault, ListKindFails, Relist, OwnerLookupFails, CallFails, ReplyLost
  <2>8. CASE Environment
    BY <2>8 DEF Environment, ApplicationChanged, UserWritesObj, UserWritesWork, InstallKind
  <2> QED
    BY <2>1, <2>2, <2>3, <2>4, <2>6, <2>7, <2>8 DEF Next
<1> QED
  BY <1>2, <1>3 DEF AppRests

(* A resource's host is cleared, or set by a claim of its handler.          *)
LEMMA HostWriters ==
    ASSUME TypeOK, [Next]_vars, "foreignHost" \notin UserOps, NEW o \in Objs
    PROVE  \/ objs'[o].host \in {None, objs[o].host}
           \/ \E t \in Threads : /\ At(t, "claim") /\ ClaimEffect(t)
                                 /\ th[t].cur.o = o /\ objs'[o].host = th[t].wk
<1>1. objs \in [Objs -> ObjState] /\ objs[o] \in ObjState
  BY DEF TypeOK, ClusterOK
<1>2. CASE UNCHANGED objs
  BY <1>2
<1>3. ASSUME NEW t \in Threads, At(t, "claim"), ClaimEffect(t), objs'[o].host # objs[o].host
      PROVE  th[t].cur.o = o /\ objs'[o].host = th[t].wk
  <2> DEFINE p == th[t].cur.o
  <2>1. objs' = [objs EXCEPT ![p] = [[objs[p] EXCEPT !.host = th[t].wk] EXCEPT !.rv = objs[p].rv + 1]]
    BY <1>3 DEF ClaimEffect, WriteObj
  <2> QED
    BY <1>1, <1>3, <2>1 DEF ObjState
<1>4. ASSUME NEW p \in Objs, UserWritesObj(p)
      PROVE  objs'[o].host \in {None, objs[o].host}
  <2>1. objs[p] \in ObjState
    BY <1>1
  <2>2. ASSUME NEW live \in BOOLEAN,
               WriteObj(p, [objs[p] EXCEPT !.live = live, !.host = None])
        PROVE  objs'[o].host \in {None, objs[o].host}
    BY <1>1, <2>1, <2>2 DEF WriteObj, ObjState
  <2>3. CASE WriteObj(p, objs[p])
    BY <1>1, <2>1, <2>3 DEF WriteObj, ObjState
  <2>4. CASE WriteObj(p, [objs[p] EXCEPT !.host = None])
    BY <1>1, <2>1, <2>4 DEF WriteObj, ObjState
  <2> QED
    BY <1>4, <2>2, <2>3, <2>4 DEF UserWritesObj, UserOp
<1> QED
  BY <1>2, <1>3, <1>4, ClusterWriters

(* Between the check of the hosting annotations and the patch nobody sets   *)
(* them.                                                                    *)
LEMMA HostStaysUnclaimed ==
    ASSUME TypeOK, AppRests, HostUnclaimed, [Next]_vars, "foreignHost" \notin UserOps
    PROVE  HostUnclaimed'
<1>1. /\ th \in [Threads -> Locals] /\ th[Mw] \in Locals /\ Mw \in Threads /\ Mw # App
      /\ HandlerOK(Mw, th[Mw])
  BY DEF TypeOK, HandlersOK, Threads, Mw, App
<1>2. CASE th'[Mw].pc \notin {"walk", "get", "fetch", "claim", "update"}
  BY <1>2 DEF HostUnclaimed
<1>3. CASE Done(Mw)
  BY <1>1, <1>2, <1>3, HandlerEnds
<1>4. CASE th'[Mw] = th[Mw] /\ th[Mw].pc \in {"walk", "get", "fetch", "claim", "update"}
  <2>1. th[Mw].cur.o \in Objs
    BY <1>1, <1>4 DEF HandlerOK
  <2>2. objs'[th[Mw].cur.o].host \in {None, objs[th[Mw].cur.o].host, th[Mw].wk}
    BY <2>1, HostWriters DEF AppRests, At, Threads
  <2> QED
    BY <1>4, <2>2 DEF HostUnclaimed
<1>5. CASE Deliver /\ th'[Mw] # th[Mw]
  <2>1. th'[Mw].pc = "wrapped"
    BY <1>1, <1>5, IdleType DEF Deliver, Locals
  <2> QED
    BY <1>2, <2>1
<1>6. ASSUME NEW o \in Objs, th'[Mw].cur = Snapshot(o), th'[Mw].pc \in {"walk", "cleanup"},
             UNCHANGED objs
      PROVE  HostUnclaimed'
  BY <1>6 DEF HostUnclaimed, Snapshot
<1>7. CASE GetWrapped
  <2>1. /\ th[Mw].cur.o \in Objs
        /\ th'[Mw].cur = Snapshot(th[Mw].cur.o) /\ th'[Mw].pc \in {"walk", "cleanup"}
        /\ UNCHANGED objs
    BY <1>1, <1>7 DEF GetWrapped, At, HandlerOK, Locals, cluster
  <2> QED
    BY <1>6, <2>1
<1>8. CASE ClimbOwner(Mw)
  <2> DEFINE p == OwnerOf[th[Mw].cur.o]
  <2>1. p \in Objs
    BY <1>1, <1>8, ConstantsAssumption DEF ClimbOwner, At, HandlerOK
  <2>2. th'[Mw].cur = Snapshot(p) /\ th'[Mw].pc = "walk" /\ UNCHANGED objs
    BY <1>1, <1>8 DEF ClimbOwner, At, Locals, cluster
  <2> QED
    BY <1>6, <2>1, <2>2
<1>9. CASE FindRoot(Mw) \/ (OwnerLookupFails(Mw) /\ ~Done(Mw))
  <2>1. At(Mw, "walk") /\ RootFound(Mw) /\ UNCHANGED objs
    BY <1>9 DEF FindRoot, OwnerLookupFails, cluster
  <2>2. th'[Mw].pc = "get" /\ th'[Mw].wk = th[Mw].wk /\ th'[Mw].cur = th[Mw].cur
    BY <1>1, <2>1, ConstantsAssumption DEF RootFound, Goto, Locals, HandlerOK, At
  <2> QED
    BY <2>1, <2>2 DEF At, HostUnclaimed
<1>10. CASE GetWork(Mw) /\ ~Done(Mw)
  <2>1. /\ At(Mw, "get") /\ ~HostedElsewhere(Mw) /\ UNCHANGED objs
        /\ th'[Mw].pc = "fetch" /\ th'[Mw].wk = th[Mw].wk /\ th'[Mw].cur = th[Mw].cur
    BY <1>1, <1>10 DEF GetWork, Locals, cluster
  <2> QED
    BY <2>1 DEF At, HostedElsewhere, HostUnclaimed
<1>11. ASSUME th[Mw].pc \in {"fetch", "claim", "update"}, UNCHANGED objs,
              th'[Mw].wk = th[Mw].wk, th'[Mw].cur = th[Mw].cur
       PROVE  HostUnclaimed'
  BY <1>11 DEF HostUnclaimed
<1>12. CASE FetchObj(Mw)
  BY <1>1, <1>11, <1>12 DEF FetchObj, At, Goto, Locals, cluster
<1>13. CASE (ClaimRefused(Mw) \/ UpdateRefused(Mw)) /\ ~Done(Mw)
  BY <1>1, <1>11, <1>13 DEF ClaimRefused, UpdateRefused, Conflict, Retry, GiveUp, Leave, At, Locals, cluster
<1>14. CASE ClaimObj(Mw) /\ ~Done(Mw)
  <2>1. /\ At(Mw, "claim") /\ th'[Mw].pc = "update"
        /\ th'[Mw].wk = th[Mw].wk /\ th'[Mw].cur = th[Mw].cur
    BY <1>1, <1>14 DEF ClaimObj, Goto, Locals
  <2>2. th[Mw].cur.o \in Objs
    BY <1>1, <2>1 DEF At, HandlerOK
  <2>3. objs'[th[Mw].cur.o].host \in {None, objs[th[Mw].cur.o].host, th[Mw].wk}
    BY <2>2, HostWriters DEF AppRests, At, Threads
  <2> QED
    BY <2>1, <2>3 DEF At, HostUnclaimed
<1>15. CASE ManifestUnreadable
  BY <1>1, <1>2, <1>15 DEF ManifestUnreadable, Goto, Locals
<1> QED
  BY <1>1, <1>2, <1>3, <1>4, <1>5, <1>7, <1>8, <1>9, <1>10, <1>12, <1>13, <1>14, <1>15, HandlerSteps
     DEF HandlerMoving

(* While the ManifestWork handler is the only writer of hosting annotations *)
(* it never takes a resource over from another work, however many works ask *)
(* for it, whatever users edit and however its calls conflict or fail.      *)
THEOREM NoTakeover ==
    ASSUME AppObjs = {}, "foreignHost" \notin UserOps
    PROVE  Spec => OwnershipKept
<1>1. Init => AppRests /\ HostUnclaimed
  BY DEF Init, AppRests, HostUnclaimed, Idle, Threads, App, Mw
<1>2. TypeOK /\ AppRests /\ HostUnclaimed /\ [Next]_vars => AppRests' /\ HostUnclaimed'
  BY AppStaysAtRest, HostStaysUnclaimed
<1>3. TypeOK /\ AppRests /\ HostUnclaimed /\ [Next]_vars
         => [\A o \in Objs : objs[o].host = None \/ objs'[o].host \in {None, objs[o].host}]_vars
  BY HostWriters DEF AppRests, HostUnclaimed, At, Threads
<1> QED
  BY <1>1, <1>2, <1>3, TypeCorrect, PTL DEF Spec, OwnershipKept
=============================================================================
