---------------------- MODULE ManifestWorkCompletionProofs ----------------------
(***************************************************************************)
(* One more safety theorem about ManifestWorkSync: completing a discovery  *)
(* does not redirect the work.  A work is found by its source, or by a     *)
(* notification of some earlier version of it, and then read again, so     *)
(* that what a handler has patched is what the work stands for only if all *)
(* of these agree.                                                         *)
(***************************************************************************)
EXTENDS ManifestWorkHostingProofs

(* Nobody deletes what discovery is about, or changes what a work wraps.    *)
OnlyRequests ==
    /\ {"deleteObj", "deleteWork", "editWork", "breakWork"} \cap UserOps = {}
    /\ \A o \in Objs : OwnerOf[o] = None

(* A work wraps a resource, which is the one it was made for if any.        *)
Stands(s) == s.wraps \in Objs /\ s.src \in {None, s.wraps}
WorksStand == \A w \in Works : works[w].live => Stands(works[w])

(* A notification is of a work that still wraps what it wrapped.            *)
Announced(n) == works[n.w].live /\ works[n.w].wraps = n.new.wraps
QueueStands == \A i \in DOMAIN mwq : Announced(mwq[i])

(* A handler that has a work has the resource that work wraps.              *)
Holding == {"wrapped", "walk", "get", "fetch", "claim", "update"}
HandlersStand ==
    \A t \in Threads :
        LET me == th[t] IN
        /\ me.pc # "cleanup"
        /\ (me.pc \in Holding /\ me.wk # None) =>
              works[me.wk].live /\ works[me.wk].wraps = me.cur.o

(* A write to the hub makes a work, or leaves what an existing one wraps.   *)
Kept(w, new) ==
    /\ new.live
    /\ Stands(new)
    /\ works[w].live => new.wraps = works[w].wraps /\ new.src = works[w].src

LEMMA HubKeeps ==
    ASSUME TypeOK, OnlyRequests, WorksStand, HandlersStand, [Next]_vars, ~UNCHANGED works
    PROVE  \E w \in Works, new \in WorkState : WriteWork(w, new) /\ Kept(w, new)
<1>0. works \in [Works -> WorkState]
  BY DEF TypeOK, HubOK
<1>1. ASSUME NEW t \in Threads, At(t, "create"), CreateEffect(t)
      PROVE  \E w \in Works, new \in WorkState : WriteWork(w, new) /\ Kept(w, new)
  <2>1. PICK o \in Objs : o = th[t].cur.o
    BY <1>1 DEF TypeOK, HandlersOK, HandlerOK, At
  <2> DEFINE new == [NoWork EXCEPT !.live = TRUE, !.src = o, !.wraps = o, !.disc = "enabled"]
  <2>2. PICK w \in Works : ~works[w].live /\ WriteWork(w, new)
    BY <1>1, <2>1 DEF CreateEffect
  <2>3. new \in WorkState
    BY Wrappable DEF NoWork, WorkState, Disc
  <2>4. Kept(w, new)
    BY <2>2 DEF Kept, Stands, NoWork
  <2> QED
    BY <2>2, <2>3, <2>4
<1>2. ASSUME NEW t \in Threads, At(t, "update"), UpdateEffect(t)
      PROVE  \E w \in Works, new \in WorkState : WriteWork(w, new) /\ Kept(w, new)
  <2>1. PICK w \in Works, o \in Objs : w = th[t].wk /\ o = th[t].cur.o
    BY <1>2 DEF TypeOK, HandlersOK, HandlerOK, At
  <2>2. w # None /\ works[w].live /\ Stands(works[w]) /\ works[w].wraps = o
    BY <1>2, <2>1, ConstantsAssumption DEF HandlersStand, Holding, WorksStand, At
  <2> DEFINE new == [works[w] EXCEPT !.wraps = o, !.disc = "completed"]
  <2>3. new \in WorkState /\ new.live /\ new.wraps = o /\ new.src = works[w].src
    BY <1>0, <2>2, Wrappable DEF WorkState, Disc
  <2>4. WriteWork(w, new)
    BY <1>2, <2>1 DEF UpdateEffect
  <2> HIDE DEF new
  <2>5. Kept(w, new)
    BY <2>2, <2>3 DEF Kept, Stands
  <2> QED
    BY <2>3, <2>4, <2>5
<1>3. ~At(Mw, "cleanup")
  BY DEF At, HandlersStand, Threads
<1>4. ASSUME NEW w \in Works, UserWritesWork(w)
      PROVE  \E new \in WorkState : WriteWork(w, new) /\ Kept(w, new)
  <2>1. CASE \E o \in Objs : /\ ~works[w].live
                             /\ WriteWork(w, [NoWork EXCEPT !.live = TRUE, !.wraps = o,
                                                            !.disc = "enabled"])
    <3>1. PICK o \in Objs : /\ ~works[w].live
                            /\ WriteWork(w, [NoWork EXCEPT !.live = TRUE, !.wraps = o,
                                                           !.disc = "enabled"])
      BY <2>1
    <3>2. [NoWork EXCEPT !.live = TRUE, !.wraps = o, !.disc = "enabled"] \in WorkState
      BY Wrappable DEF NoWork, WorkState, Disc
    <3>3. Kept(w, [NoWork EXCEPT !.live = TRUE, !.wraps = o, !.disc = "enabled"])
      BY <3>1 DEF Kept, Stands, NoWork
    <3> QED
      BY <3>1, <3>2, <3>3
  <2>2. CASE works[w].live /\ WriteWork(w, [works[w] EXCEPT !.disc = "none"])
    <3>1. [works[w] EXCEPT !.disc = "none"] \in WorkState
      BY <1>0 DEF WorkState, Disc
    <3>2. Kept(w, [works[w] EXCEPT !.disc = "none"])
      BY <1>0, <2>2 DEF Kept, Stands, WorksStand, WorkState
    <3> QED
      BY <2>2, <3>1, <3>2
  <2>3. CASE works[w].live /\ WriteWork(w, works[w])
    BY <1>0, <2>3 DEF Kept, WorksStand
  <2> QED
    BY <1>4, <2>1, <2>2, <2>3 DEF UserWritesWork, UserOp, OnlyRequests
<1> QED
  BY <1>1, <1>2, <1>3, <1>4, HubWriters

(* So works keep what they stand for.                                       *)
LEMMA WorksKeep ==
    ASSUME TypeOK, OnlyRequests, WorksStand, HandlersStand, [Next]_vars, NEW w \in Works
    PROVE  /\ works'[w].live => Stands(works'[w])
           /\ works[w].live => /\ works'[w].live
                               /\ works'[w].wraps = works[w].wraps
                               /\ works'[w].src = works[w].src
<1>1. CASE UNCHANGED works
  BY <1>1 DEF WorksStand
<1>2. CASE ~UNCHANGED works
  <2>1. PICK v \in Works, new \in WorkState : WriteWork(v, new) /\ Kept(v, new)
    BY <1>2, HubKeeps
  <2>2. works'[w] = IF w = v THEN [new EXCEPT !.rv = works[v].rv + 1] ELSE works[w]
    BY <2>1, WriteWorkFields
  <2> QED
    BY <2>1, <2>2 DEF Kept, Stands, WorksStand, WorkState
<1> QED
  BY <1>1, <1>2

(* The works that a step announces exist.                                   *)
LEMMA AnnouncedLive ==
    ASSUME TypeOK, OnlyRequests, WorksStand, HandlersStand, [Next]_vars, NEW n, Fresh(n)
    PROVE  n.new.live
<1>1. ASSUME works'[n.w] # works[n.w]
      PROVE  works'[n.w].live
  <2>1. PICK w \in Works, new \in WorkState : WriteWork(w, new) /\ Kept(w, new)
    BY <1>1, HubKeeps
  <2>2. n.w = w /\ works'[w] = [new EXCEPT !.rv = works[w].rv + 1]
    BY <1>1, <2>1, WriteWorkFields DEF Fresh
  <2> QED
    BY <2>1, <2>2 DEF Kept, WorkState
<1> QED
  BY <1>1 DEF Fresh

(* Notifications stay true: works are not edited.                           *)
LEMMA QueueKeeps ==
    ASSUME TypeOK, OnlyRequests, WorksStand, HandlersStand, QueueStands, [Next]_vars
    PROVE  QueueStands'
<1> SUFFICES ASSUME NEW i \in DOMAIN mwq'
             PROVE  works'[mwq'[i].w].live /\ works'[mwq'[i].w].wraps = mwq'[i].new.wraps
  BY DEF QueueStands, Announced
<1>1. CASE Fresh(mwq'[i])
  BY <1>1, AnnouncedLive DEF Fresh
<1>2. ASSUME NEW j \in DOMAIN mwq, mwq'[i] = mwq[j]
      PROVE  works'[mwq'[i].w].live /\ works'[mwq'[i].w].wraps = mwq'[i].new.wraps
  <2>1. mwq[j].w \in Works
    <3>1. mwq \in Seq(Notifications)
      BY DEF TypeOK, HubOK
    <3>2. mwq[j] \in Notifications
      BY <1>2, <3>1
    <3> QED
      BY <3>2 DEF Notifications
  <2>2. works[mwq[j].w].live /\ works[mwq[j].w].wraps = mwq[j].new.wraps
    BY DEF QueueStands, Announced
  <2> QED
    BY <1>2, <2>1, <2>2, WorksKeep
<1> QED
  BY <1>1, <1>2, QueueWriters DEF Old

(* A handler keeps its work, and the resource it came with.                 *)
LEMMA HandlersKeep ==
    ASSUME TypeOK, OnlyRequests, AllLive, AllKnown, WorksStand, QueueStands, HandlersStand, [Next]_vars
    PROVE  HandlersStand'
<1> SUFFICES ASSUME NEW t \in Threads
             PROVE  /\ th'[t].pc # "cleanup"
                    /\ (th'[t].pc \in Holding /\ th'[t].wk # None) =>
                          /\ works'[th'[t].wk].live
                          /\ works'[th'[t].wk].wraps = th'[t].cur.o
  BY DEF HandlersStand
<1> DEFINE Goal == /\ th'[t].pc # "cleanup"
                   /\ (th'[t].pc \in Holding /\ th'[t].wk # None) =>
                         /\ works'[th'[t].wk].live
                         /\ works'[th'[t].wk].wraps = th'[t].cur.o
<1>1. /\ th \in [Threads -> Locals] /\ th[t] \in Locals /\ HandlerOK(t, th[t])
      /\ App \in Threads /\ Mw \in Threads /\ Mw # App
  BY DEF TypeOK, HandlersOK, Threads, Mw, App
<1>2. ASSUME NEW w \in Works, works[w].live, works[w].wraps = th'[t].cur.o, th'[t].wk = w,
             th'[t].pc # "cleanup"
      PROVE  Goal
  BY <1>2, WorksKeep
<1>3. CASE th'[t].pc \in {"idle", "list", "locate", "create"}
  BY <1>3 DEF Holding
<1>4. ASSUME th[t].pc \in Holding, th'[t].pc # "cleanup",
             th'[t].wk = th[t].wk, th'[t].cur.o = th[t].cur.o
      PROVE  Goal
  <2>1. CASE th[t].wk = None
    BY <1>4, <2>1
  <2>2. CASE th[t].wk # None
    <3>1. th[t].wk \in Works /\ works[th[t].wk].live /\ works[th[t].wk].wraps = th[t].cur.o
      BY <1>1, <1>4, <2>2 DEF Locals, HandlersStand
    <3> QED
      BY <1>2, <1>4, <3>1
  <2> QED
    BY <2>1, <2>2
<1>5. CASE th'[t] = th[t]
  <2>1. th[t].pc # "cleanup"
    BY DEF HandlersStand
  <2>2. CASE th[t].pc \in Holding
    BY <1>4, <1>5, <2>1, <2>2
  <2> QED
    BY <1>5, <2>1, <2>2
<1>6. CASE Done(t)
  BY <1>3, <1>6, HandlerEnds
<1>7. CASE t = App /\ LocateWork
  <2> DEFINE o == th[App].cur.o
  <2>1. PICK w \in IF WorksOf(o) = {} THEN {None} ELSE WorksOf(o) :
           th' = [th EXCEPT ![App].pc = "walk", ![App].wk = w]
    BY <1>7 DEF LocateWork
  <2>2. th'[t].pc = "walk" /\ th'[t].wk = w /\ th'[t].cur = th[t].cur
    BY <1>1, <1>7, <2>1 DEF Locals
  <2>3. CASE w = None
    BY <2>2, <2>3
  <2>4. CASE w \in WorksOf(o)
    <3>1. w \in Works /\ works[w].live /\ works[w].src = o
      BY <2>4 DEF WorksOf
    <3>2. o \in Objs
      BY <1>1, <1>7 DEF LocateWork, At, HandlerOK
    <3>3. works[w].wraps = o
      BY <3>1, <3>2, ConstantsAssumption DEF WorksStand, Stands
    <3> QED
      BY <1>2, <1>7, <2>2, <3>1, <3>3
  <2> QED
    BY <2>1, <2>3, <2>4
<1>8. ASSUME NEW i \in items, t = App, TakeItem(i), th'[App] # th[App]
      PROVE  th'[App].pc = "locate"
  BY <1>1, <1>8, IdleType DEF TakeItem, Locals
<1>9. CASE t = Mw /\ Deliver /\ th'[t] # th[t]
  <2> DEFINE w == Head(mwq).w
             o == Head(mwq).new.wraps
  <2>1. /\ mwq # <<>>
        /\ th' = [th EXCEPT ![Mw] = [Idle EXCEPT !.pc = "wrapped", !.wk = w, !.cur.o = o]]
    BY <1>9 DEF Deliver
  <2>2. mwq \in Seq(Notifications)
    BY DEF TypeOK, HubOK
  <2>3. 1 \in DOMAIN mwq /\ Head(mwq) = mwq[1] /\ Head(mwq) \in Notifications
    BY <2>1, <2>2
  <2>4. w \in Works /\ works[w].live /\ works[w].wraps = o
    BY <2>3 DEF Notifications, QueueStands, Announced
  <2>5. th'[t].pc = "wrapped" /\ th'[t].wk = w /\ th'[t].cur.o = o
    <3> HIDE DEF w, o
    <3> QED
      BY <1>1, <1>9, <2>1 DEF Idle, NoSnapshot
  <2> QED
    BY <1>2, <2>4, <2>5
<1>10. CASE t = Mw /\ GetWrapped
  <2> DEFINE o == th[Mw].cur.o
  <2>1. /\ o \in Objs /\ th[Mw].pc = "wrapped"
        /\ th' = [th EXCEPT ![Mw].cur = Snapshot(o),
                            ![Mw].pc = IF KindOf[o] \in known /\ objs[o].live
                                       THEN "walk" ELSE "cleanup"]
    BY <1>10 DEF GetWrapped, At
  <2>2. KindOf[o] \in known /\ objs[o].live
    BY <1>10, <2>1, ConstantsAssumption DEF GetWrapped, At, AllKnown, AllLive
  <2>3. th'[t].pc = "walk" /\ th'[t].wk = th[t].wk /\ th'[t].cur = Snapshot(o)
    BY <1>1, <1>10, <2>1, <2>2 DEF Locals
  <2> QED
    <3>1. th[t].pc \in Holding /\ th'[t].pc # "cleanup"
      BY <1>10, <2>1, <2>3 DEF Holding
    <3>2. th'[t].cur.o = th[t].cur.o
      BY <1>10, <2>3 DEF Snapshot
    <3> QED
      BY <1>4, <2>3, <3>1, <3>2
<1>11. ~(t = Mw /\ ManifestUnreadable)
  <2>1. ASSUME t = Mw, ManifestUnreadable
        PROVE  FALSE
    <3>1. th[Mw].pc = "wrapped" /\ th[Mw].cur.o = Unreadable
      BY <2>1 DEF ManifestUnreadable, At
    <3>2. th[Mw].wk \in Works /\ th[Mw].wk # None
      BY <1>1, <2>1, <3>1, ConstantsAssumption DEF HandlerOK
    <3>3. works[th[Mw].wk].wraps = Unreadable /\ works[th[Mw].wk].wraps \in Objs
      BY <3>1, <3>2 DEF HandlersStand, Holding, WorksStand, Stands, Threads
    <3> QED
      BY <3>3, ConstantsAssumption
  <2> QED
    BY <2>1
<1>12. CASE FindRoot(t) \/ (OwnerLookupFails(t) /\ ~Done(t))
  <2>1. th[t].pc = "walk" /\ RootFound(t)
    BY <1>12 DEF FindRoot, OwnerLookupFails, At
  <2>2. th'[t].pc \in {"create", "get"} /\ th'[t].wk = th[t].wk /\ th'[t].cur = th[t].cur
    BY <1>1, <2>1 DEF RootFound, Goto, Locals
  <2> QED
    BY <1>4, <2>1, <2>2 DEF Holding
<1>13. ~ClimbOwner(t)
  BY <1>1 DEF ClimbOwner, At, HandlerOK, OnlyRequests
<1>14. CASE (GetWork(t) \/ FetchObj(t) \/ ClaimObj(t) \/ ClaimRefused(t) \/ UpdateRefused(t))
            /\ ~Done(t)
  <2>1. /\ th[t].pc \in Holding
        /\ th'[t].pc # "cleanup" /\ th'[t].wk = th[t].wk /\ th'[t].cur = th[t].cur
    BY <1>1, <1>14 DEF GetWork, FetchObj, ClaimObj, ClaimRefused, UpdateRefused, Conflict, Retry, GiveUp, Leave, Goto, At,
                       Holding, Locals
  <2> QED
    BY <1>4, <2>1
<1> QED
  BY <1>3, <1>5, <1>6, <1>7, <1>8, <1>9, <1>10, <1>11, <1>12, <1>13, <1>14, HandlerSteps
     DEF HandlerMoving

(* All of this holds throughout.                                            *)
Standing == AllLive /\ AllKnown /\ WorksStand /\ QueueStands /\ HandlersStand

LEMMA StandingThroughout ==
    ASSUME OnlyRequests, InitObjs = Objs, InitKinds = Kinds
    PROVE  Spec => []Standing
<1>1. Init => Standing
  <2> SUFFICES ASSUME Init PROVE Standing
    OBVIOUS
  <2>1. AllLive /\ AllKnown
    BY DEF Init, AllLive, AllKnown, Up
  <2>2. WorksStand /\ QueueStands
    BY DEF Init, WorksStand, QueueStands, NoWork
  <2>3. HandlersStand
    BY DEF Init, HandlersStand, Holding, Idle
  <2> QED
    BY <2>1, <2>2, <2>3 DEF Standing
<1>2. TypeOK /\ Standing /\ [Next]_vars => Standing'
  <2> SUFFICES ASSUME TypeOK, Standing, [Next]_vars PROVE Standing'
    OBVIOUS
  <2>1. AllLive' /\ AllKnown'
    BY NothingDeleted, KindsStayKnown DEF OnlyRequests, Standing
  <2>2. WorksStand'
    BY WorksKeep DEF WorksStand, Stands, Standing
  <2> QED
    BY <2>1, <2>2, QueueKeeps, HandlersKeep DEF Standing
<1> QED
  BY <1>1, <1>2, TypeCorrect, PTL DEF Spec

(* While nobody deletes resources or works, or edits what works wrap, no    *)
(* discovery ends with its work wrapping another resource, however the two  *)
(* handlers and their users conflict and whenever the process crashes.      *)
THEOREM CompletionKeeps ==
    ASSUME OnlyRequests, InitObjs = Objs, InitKinds = Kinds
    PROVE  Spec => CompletionKeepsObject
<1>1. TypeOK /\ Standing /\ [Next]_vars
         => [\A w \in Works : (works[w].disc = "enabled" /\ works'[w].disc = "completed")
                                => works'[w].wraps = works[w].wraps]_vars
  <2> SUFFICES ASSUME TypeOK, HandlersStand, [Next]_vars, NEW w \in Works,
                      works[w].disc = "enabled", works'[w].disc = "completed"
               PROVE  works'[w].wraps = works[w].wraps
    BY DEF Standing
  <2>1. w # None
    BY ConstantsAssumption
  <2> QED
    BY <2>1, OnlyUpdateCompletes DEF HandlersStand, Holding
<1> QED
  BY <1>1, StandingThroughout, TypeCorrect, PTL DEF Spec, CompletionKeepsObject
=============================================================================
