---------------------- MODULE ManifestWorkDiscoveryProofs ----------------------
(***************************************************************************)
(* Safety theorems about ManifestWorkSync with both listeners at work: the *)
(* application's components and the works that are made for them.          *)
(***************************************************************************)
EXTENDS ManifestWorkCompletionProofs

(* Works come from the application handler only, and hosting annotations    *)
(* from the two handlers only.                                              *)
OnlyDiscovered == OnlyRequests /\ {"requestWork", "foreignHost"} \cap UserOps = {}

(* What Standing and type correctness say of the handlers and works.        *)
LEMMA Setting ==
    ASSUME TypeOK, Standing, NEW t \in Threads
    PROVE  /\ works \in [Works -> WorkState] /\ objs \in [Objs -> ObjState]
           /\ th \in [Threads -> Locals] /\ th[t] \in Locals /\ HandlerOK(t, th[t])
           /\ mwq \in Seq(Notifications) /\ seen \in [Works -> WorkState]
           /\ App \in Threads /\ Mw \in Threads /\ Mw # App
           /\ None \notin Works \cup Objs
BY ConstantsAssumption DEF TypeOK, ClusterOK, HubOK, HandlersOK, Threads, Mw, App

(* A handler that is past its lookups has its work, which wraps the         *)
(* resource at hand.                                                        *)
LEMMA AtHand ==
    ASSUME TypeOK, Standing, NEW t \in Threads, th[t].pc \in Holding, th[t].wk # None
    PROVE  /\ th[t].wk \in Works /\ th[t].cur.o \in Objs
           /\ works[th[t].wk].live /\ works[th[t].wk].wraps = th[t].cur.o
<1>1. th[t].wk \in Works
  BY Setting DEF Locals
<1>2. works[th[t].wk].live /\ works[th[t].wk].wraps = th[t].cur.o
  BY DEF Standing, HandlersStand
<1> QED
  BY <1>1, <1>2 DEF Standing, WorksStand, Stands
-----------------------------------------------------------------------------
(* Every step of a handler, with what it does to its locals.  The steps     *)
(* that leave the routine are told apart below.                             *)
Takes(t) ==
    /\ t = App /\ th[t].pc = "list"
    /\ \E i \in items : i.host = None /\ th'[t] = [Idle EXCEPT !.pc = "locate", !.cur = i]
Locates(t) ==
    /\ t = App /\ th[t].pc = "locate"
    /\ \E w \in IF WorksOf(th[t].cur.o) = {} THEN {None} ELSE WorksOf(th[t].cur.o) :
          th'[t] = [th[t] EXCEPT !.pc = "walk", !.wk = w]
Receives(t) ==
    /\ t = Mw /\ th[t].pc = "idle" /\ Deliver
    /\ th'[t] = [Idle EXCEPT !.pc = "wrapped", !.wk = Head(mwq).w, !.cur.o = Head(mwq).new.wraps]
LooksUp(t) ==
    /\ t = Mw /\ th[t].pc = "wrapped"
    /\ th'[t] = [th[t] EXCEPT !.pc = "walk", !.cur = Snapshot(th[t].cur.o)]
Climbed(t) ==
    /\ th[t].pc = "walk"
    /\ th'[t] = [th[t] EXCEPT !.pc = IF th[t].wk = None THEN "create" ELSE "get"]
Reads(t) ==
    /\ th[t].pc = "get" /\ ~HostedElsewhere(t)
    /\ th'[t] = [th[t] EXCEPT !.pc = "fetch", !.got = works[th[t].wk]]
Fetches(t) ==
    /\ th[t].pc = "fetch"
    /\ th'[t] = [th[t] EXCEPT !.pc = "claim", !.fet = objs[th[t].cur.o].rv]
Claims(t) ==
    /\ th[t].pc = "claim" /\ ClaimEffect(t) /\ ~Unchanged(t)
    /\ th'[t] = [th[t] EXCEPT !.pc = "update"]
RetriesClaim(t) ==
    /\ th[t].pc = "claim" /\ th[t].fet # objs[th[t].cur.o].rv
    /\ th'[t] = [th[t] EXCEPT !.pc = "get", !.tries = @ + 1]
RetriesUpdate(t) ==
    /\ th[t].pc = "update" /\ works[th[t].wk].rv # th[t].got.rv
    /\ th'[t] = [th[t] EXCEPT !.pc = "get", !.tries = @ + 1, !.prep = TRUE]

LEMMA HandlerAdvances ==
    ASSUME TypeOK, OnlyRequests, Standing, [Next]_vars, NEW t \in Threads
    PROVE  \/ th'[t] = th[t]
           \/ th'[t].pc \in {"idle", "list"}
           \/ Claims(t)
           \/ /\ UNCHANGED <<objs, works>>
              /\ \/ Takes(t) \/ Locates(t) \/ Receives(t) \/ LooksUp(t) \/ Climbed(t)
                 \/ Reads(t) \/ Fetches(t) \/ RetriesClaim(t) \/ RetriesUpdate(t)
<1> USE DEF cluster
<1>1. /\ th \in [Threads -> Locals] /\ th[t] \in Locals /\ HandlerOK(t, th[t])
      /\ works \in [Works -> WorkState] /\ objs \in [Objs -> ObjState]
  BY Setting
<1>2. CASE Done(t)
  BY <1>2, HandlerEnds
<1>3. ASSUME NEW i \in items, t = App, TakeItem(i), th'[t] # th[t]
      PROVE  Takes(t) /\ UNCHANGED <<objs, works>>
  BY <1>1, <1>3 DEF TakeItem, Takes, At
<1>4. ASSUME t = App, LocateWork
      PROVE  Locates(t) /\ UNCHANGED <<objs, works>>
  BY <1>1, <1>4 DEF LocateWork, Locates, At
<1>5. ASSUME t = Mw, Deliver, th'[t] # th[t]
      PROVE  Receives(t) /\ UNCHANGED <<objs, works>>
  BY <1>1, <1>5 DEF Deliver, Receives, At
<1>6. ASSUME t = Mw, GetWrapped
      PROVE  LooksUp(t) /\ UNCHANGED <<objs, works>>
  <2>1. KindOf[th[t].cur.o] \in known /\ objs[th[t].cur.o].live
    BY <1>6, ConstantsAssumption DEF GetWrapped, At, AllKnown, AllLive, Standing
  <2> QED
    BY <1>1, <1>6, <2>1 DEF GetWrapped, LooksUp, At
<1>7. ~(t = Mw /\ ManifestUnreadable)
  <2>1. ASSUME t = Mw, ManifestUnreadable
        PROVE  FALSE
    <3>1. th[t].pc \in Holding /\ th[t].wk # None /\ th[t].cur.o = Unreadable
      BY <1>1, <2>1, ConstantsAssumption DEF ManifestUnreadable, At, HandlerOK, Holding
    <3> QED
      BY <3>1, AtHand, ConstantsAssumption
  <2> QED
    BY <2>1
<1>8. ASSUME FindRoot(t) \/ (OwnerLookupFails(t) /\ ~Done(t))
      PROVE  Climbed(t) /\ UNCHANGED <<objs, works>>
  BY <1>1, <1>8 DEF FindRoot, OwnerLookupFails, RootFound, Goto, Climbed, At
<1>9. ~ClimbOwner(t)
  BY <1>1 DEF ClimbOwner, At, HandlerOK, OnlyRequests
<1>10. ASSUME GetWork(t), ~Done(t)
       PROVE  Reads(t) /\ UNCHANGED <<objs, works>>
  BY <1>1, <1>10 DEF GetWork, Reads, At
<1>11. ASSUME FetchObj(t)
       PROVE  Fetches(t) /\ UNCHANGED <<objs, works>>
  <2>1. objs[th[t].cur.o].live
    BY <1>1, <1>11 DEF FetchObj, At, HandlerOK, Standing, AllLive
  <2> QED
    BY <1>1, <1>11, <2>1 DEF FetchObj, Fetches, At
<1>12. ASSUME ClaimObj(t), ~Done(t)
       PROVE  Claims(t)
  BY <1>1, <1>12 DEF ClaimObj, Claims, Goto, At
<1>13. ASSUME ClaimRefused(t), ~Done(t)
       PROVE  RetriesClaim(t) /\ UNCHANGED <<objs, works>>
  BY <1>1, <1>13 DEF ClaimRefused, Conflict, Retry, GiveUp, Leave, RetriesClaim, Current, At, Locals
<1>14. ASSUME UpdateRefused(t), ~Done(t)
       PROVE  RetriesUpdate(t) /\ UNCHANGED <<objs, works>>
  BY <1>1, <1>14 DEF UpdateRefused, Conflict, Retry, GiveUp, Leave, RetriesUpdate, At, Locals
<1>15. ASSUME ~Done(t), th'[t] # th[t], HandlerMoving(t)
       PROVE  \/ Claims(t)
              \/ /\ UNCHANGED <<objs, works>>
                 /\ \/ Takes(t) \/ Locates(t) \/ Receives(t) \/ LooksUp(t) \/ Climbed(t)
                    \/ Reads(t) \/ Fetches(t) \/ RetriesClaim(t) \/ RetriesUpdate(t)
  <2>1. CASE t = App /\ (LocateWork \/ \E i \in items : TakeItem(i))
    BY <1>3, <1>4, <1>15, <2>1
  <2>2. CASE t = Mw /\ (Deliver \/ GetWrapped \/ ManifestUnreadable)
    BY <1>5, <1>6, <1>7, <1>15, <2>2
  <2>3. CASE FindRoot(t) \/ ClimbOwner(t) \/ OwnerLookupFails(t)
    BY <1>8, <1>9, <1>15, <2>3
  <2>4. CASE GetWork(t) \/ FetchObj(t) \/ ClaimObj(t) \/ ClaimRefused(t) \/ UpdateRefused(t)
    BY <1>10, <1>11, <1>12, <1>13, <1>14, <1>15, <2>4
  <2> QED
    BY <1>15, <2>1, <2>2, <2>3, <2>4 DEF HandlerMoving
<1> QED
  BY <1>2, <1>15, HandlerSteps
-----------------------------------------------------------------------------
(* A work that appears is one the application handler creates.              *)
LEMMA NewWorks ==
    ASSUME TypeOK, OnlyRequests, Standing, "requestWork" \notin UserOps, [Next]_vars,
           NEW w \in Works, works'[w].live, ~works[w].live
    PROVE  /\ At(App, "create") /\ CreateEffect(App) /\ Done(App)
           /\ th[App].cur.o \in Objs
           /\ works'[w].src = th[App].cur.o /\ works'[w].wraps = th[App].cur.o
           /\ mwq' = Append(mwq, [w |-> w, new |-> works'[w]])
<1>1. /\ works \in [Works -> WorkState] /\ App \in Threads /\ Mw \in Threads /\ HandlerOK(App, th[App])
      /\ \A t \in Threads : HandlerOK(t, th[t])
  BY Setting DEF Threads, App, Mw
<1>2. ASSUME NEW t \in Threads, At(t, "create"), CreateEffect(t), Done(t)
      PROVE  /\ At(App, "create") /\ CreateEffect(App) /\ Done(App)
             /\ th[App].cur.o \in Objs
             /\ works'[w].src = th[App].cur.o /\ works'[w].wraps = th[App].cur.o
             /\ mwq' = Append(mwq, [w |-> w, new |-> works'[w]])
  <2>1. t = App
    BY <1>1, <1>2 DEF At, Threads, HandlerOK
  <2>2. th[App].cur.o \in Objs
    BY <1>1, <1>2, <2>1 DEF At, HandlerOK
  <2> DEFINE new == [NoWork EXCEPT !.live = TRUE, !.src = th[App].cur.o,
                                   !.wraps = th[App].cur.o, !.disc = "enabled"]
  <2>3. PICK v \in Works : WriteWork(v, new)
    BY <1>2, <2>1 DEF CreateEffect
  <2>4. new \in WorkState /\ new.src = th[App].cur.o /\ new.wraps = th[App].cur.o
    BY <2>2, Wrappable DEF NoWork, WorkState, Disc
  <2> HIDE DEF new
  <2>5. works'[v] = [new EXCEPT !.rv = works[v].rv + 1] /\ (v # w => works'[w] = works[w])
    BY <2>3, <2>4, WriteWorkFields
  <2>6. v = w
    BY <2>5
  <2>7. works'[w].src = th[App].cur.o /\ works'[w].wraps = th[App].cur.o
    BY <2>4, <2>5, <2>6 DEF WorkState
  <2>8. mwq' = Append(mwq, [w |-> w, new |-> works'[w]])
    BY <1>2, <2>3, <2>5, <2>6 DEF WriteWork, At
  <2> QED
    BY <1>2, <2>1, <2>2, <2>7, <2>8
<1>3. ASSUME NEW t \in Threads, At(t, "update"), UpdateEffect(t)
      PROVE  FALSE
  <2>1. works'[w] # works[w]
    OBVIOUS
  <2>2. th[t].wk = w
    BY <1>1, <1>3, <2>1 DEF UpdateEffect, WriteWork
  <2> QED
    BY <1>3, <2>2 DEF UpdateEffect
<1>4. ~At(Mw, "cleanup")
  BY <1>1 DEF At, Standing, HandlersStand
<1>5. ASSUME NEW v \in Works, UserWritesWork(v)
      PROVE  FALSE
  <2>1. works[v].live
    BY <1>5 DEF UserWritesWork, UserOp
  <2>2. PICK new \in WorkState : WriteWork(v, new)
    BY <1>5, UserWorkWrites
  <2> QED
    BY <2>1, <2>2, WriteWorkFields
<1> QED
  BY <1>2, <1>3, <1>4, <1>5, HubWriters

(* What a step does to a work there is.                                     *)
LEMMA OldWorks ==
    ASSUME TypeOK, OnlyRequests, Standing, [Next]_vars, NEW w \in Works, works[w].live
    PROVE  \/ works'[w] = works[w]
           \/ \E t \in Threads : At(t, "update") /\ UpdateEffect(t) /\ works'[w].disc = "completed"
           \/ works'[w].disc = "none"
           \/ /\ works'[w] = [works[w] EXCEPT !.rv = @ + 1]
              /\ Spend("ops") /\ UNCHANGED <<objs, th>>
<1>1. works \in [Works -> WorkState] /\ works[w] \in WorkState
  BY DEF TypeOK, HubOK
<1> SUFFICES ASSUME works'[w] # works[w]
             PROVE  \/ \E t \in Threads : At(t, "update") /\ UpdateEffect(t) /\ works'[w].disc = "completed"
                    \/ works'[w].disc = "none"
                    \/ /\ works'[w] = [works[w] EXCEPT !.rv = @ + 1]
                       /\ Spend("ops") /\ UNCHANGED <<objs, th>>
  OBVIOUS
<1>2. ASSUME NEW t \in Threads, At(t, "create"), CreateEffect(t)
      PROVE  FALSE
  BY <1>1, <1>2 DEF CreateEffect, WriteWork
<1>3. ASSUME NEW t \in Threads, At(t, "update"), UpdateEffect(t)
      PROVE  works'[w].disc = "completed"
  <2>1. works' = [works EXCEPT ![th[t].wk] =
             [[works[th[t].wk] EXCEPT !.wraps = th[t].cur.o, !.disc = "completed"]
                 EXCEPT !.rv = works[th[t].wk].rv + 1]]
    BY <1>3 DEF UpdateEffect, WriteWork
  <2> QED
    BY <1>1, <2>1 DEF WorkState
<1>4. ~At(Mw, "cleanup")
  BY DEF At, Standing, HandlersStand, Threads
<1>5. ASSUME NEW v \in Works, UserWritesWork(v)
      PROVE  \/ works'[w].disc = "none"
             \/ /\ works'[w] = [works[w] EXCEPT !.rv = @ + 1]
                /\ Spend("ops") /\ UNCHANGED <<objs, th>>
  <2>1. \/ \E o \in Objs : /\ ~works[v].live
                            /\ WriteWork(v, [NoWork EXCEPT !.live = TRUE, !.wraps = o, !.disc = "enabled"])
        \/ WriteWork(v, [works[v] EXCEPT !.disc = "none"])
        \/ WriteWork(v, works[v])
    BY <1>5 DEF UserWritesWork, UserOp, OnlyRequests
  <2>2. v = w
    BY <1>1, <2>1 DEF WriteWork
  <2>3. \/ works'[w] = [[works[w] EXCEPT !.disc = "none"] EXCEPT !.rv = works[w].rv + 1]
        \/ works'[w] = [works[w] EXCEPT !.rv = works[w].rv + 1]
    BY <1>1, <2>1, <2>2 DEF WriteWork
  <2>4. Spend("ops") /\ UNCHANGED <<objs, th>>
    BY <1>5 DEF UserWritesWork, UserOp, cluster
  <2> QED
    BY <1>1, <2>3, <2>4 DEF WorkState
<1> QED
  BY <1>2, <1>3, <1>4, <1>5, HubWriters

(* Every work is made by the handler, and a hosting annotation names the    *)
(* work that wraps its resource.                                            *)
Made == \A w \in Works : works[w].live => works[w].src # None
OwnHosts ==
    \A o \in Objs : objs[o].host # None =>
        LET w == objs[o].host IN w \in Works /\ works[w].live /\ works[w].wraps = o
Discovered == Standing /\ Made /\ NoneMadeYet /\ UniqueSource /\ OwnHosts

LEMMA MadeStep ==
    ASSUME TypeOK, OnlyDiscovered, Standing, Made, [Next]_vars
    PROVE  Made'
<1> SUFFICES ASSUME NEW w \in Works, works'[w].live
             PROVE  works'[w].src # None
  BY DEF Made
<1>1. CASE works[w].live
  BY <1>1, WorksKeep DEF Standing, Made, OnlyDiscovered
<1>2. CASE ~works[w].live
  BY <1>2, NewWorks, ConstantsAssumption DEF OnlyDiscovered
<1> QED
  BY <1>1, <1>2

LEMMA OwnHostsStep ==
    ASSUME TypeOK, OnlyDiscovered, Standing, OwnHosts, [Next]_vars
    PROVE  OwnHosts'
<1> SUFFICES ASSUME NEW o \in Objs, objs'[o].host # None
             PROVE  LET w == objs'[o].host IN w \in Works /\ works'[w].live /\ works'[w].wraps = o
  BY DEF OwnHosts
<1>1. CASE objs'[o].host = objs[o].host
  BY <1>1, WorksKeep DEF OwnHosts, Standing, OnlyDiscovered
<1>2. ASSUME NEW t \in Threads, At(t, "claim"), th[t].cur.o = o, objs'[o].host = th[t].wk
      PROVE  LET w == objs'[o].host IN w \in Works /\ works'[w].live /\ works'[w].wraps = o
  <2>1. th[t].wk \in Works /\ works[th[t].wk].live /\ works[th[t].wk].wraps = o
    BY <1>2, AtHand DEF At, Holding
  <2> QED
    BY <1>2, <2>1, WorksKeep DEF Standing, OnlyDiscovered
<1> QED
  BY <1>1, <1>2, HostWriters DEF OnlyDiscovered

(* Two works never wrap the same resource.                                  *)
LEMMA OneWork ==
    ASSUME Discovered, NEW v \in Works, NEW w \in Works,
           works[v].live, works[w].live, works[v].wraps = works[w].wraps
    PROVE  v = w
BY DEF Discovered, Standing, WorksStand, Stands, Made, UniqueSource

(* All of this holds throughout.                                            *)
LEMMA DiscoveredThroughout ==
    ASSUME OnlyDiscovered, InitObjs = Objs, InitKinds = Kinds
    PROVE  Spec => []Discovered
<1>1. Init => Made /\ OwnHosts
  BY DEF Init, Made, OwnHosts, NoWork
<1>2. TypeOK /\ Standing /\ Made /\ OwnHosts /\ [Next]_vars => Made' /\ OwnHosts'
  BY MadeStep, OwnHostsStep
<1>3. Init => NoneMadeYet
  BY DEF Init, NoneMadeYet, Idle, Threads, App
<1>4. TypeOK /\ NoneMadeYet /\ [Next]_vars => NoneMadeYet'
  BY NoneMadeStep DEF OnlyDiscovered, OnlyRequests
<1>5. Spec => []Standing
  BY StandingThroughout DEF OnlyDiscovered
<1>6. Spec => []UniqueSource
  BY NoDuplicateWorks DEF OnlyDiscovered, OnlyRequests
<1>7. Standing /\ Made /\ NoneMadeYet /\ UniqueSource /\ OwnHosts => Discovered
  BY DEF Discovered
<1> QED
  BY <1>1, <1>2, <1>3, <1>4, <1>5, <1>6, <1>7, TypeCorrect, PTL DEF Spec
-----------------------------------------------------------------------------
(* With both listeners at work a resource is only ever claimed for the one  *)
(* work that wraps it.                                                      *)
LEMMA BothClaimFree ==
    ASSUME TypeOK, Discovered
    PROVE  ClaimFree
<1> SUFFICES ASSUME NEW t \in Threads, th[t].pc = "claim"
             PROVE  objs[th[t].cur.o].host \in {None, th[t].wk}
  BY DEF ClaimFree
<1> DEFINE o == th[t].cur.o
           w == th[t].wk
<1>1. w \in Works /\ o \in Objs /\ works[w].live /\ works[w].wraps = o
  <2>1. HandlerOK(t, th[t])
    BY DEF TypeOK, HandlersOK
  <2>2. w \in Works /\ th[t].pc \in Holding
    BY <2>1 DEF HandlerOK, Holding
  <2> QED
    BY <2>2, AtHand, ConstantsAssumption DEF Discovered
<1>2. ASSUME objs[o].host # None
      PROVE  objs[o].host = w
  <2>1. objs[o].host \in Works /\ works[objs[o].host].live /\ works[objs[o].host].wraps = o
    BY <1>1, <1>2 DEF Discovered, OwnHosts
  <2> QED
    BY <1>1, <2>1, OneWork
<1> QED
  BY <1>2

LEMMA OwnersStay ==
    ASSUME TypeOK, OnlyDiscovered, Discovered, [Next]_vars, NEW o \in Objs, objs[o].host # None
    PROVE  objs'[o].host \in {None, objs[o].host}
<1>1. ASSUME NEW t \in Threads, At(t, "claim"), th[t].cur.o = o, objs'[o].host = th[t].wk
      PROVE  objs'[o].host = objs[o].host
  BY <1>1, BothClaimFree DEF ClaimFree, At
<1> QED
  BY <1>1, HostWriters DEF OnlyDiscovered

(* No component's host is replaced, although the application handler and    *)
(* the handler of the work just made for a component both claim it.         *)
THEOREM BothKeepOwners ==
    ASSUME OnlyDiscovered, InitObjs = Objs, InitKinds = Kinds
    PROVE  Spec => OwnershipKept
<1>1. TypeOK /\ Discovered /\ [Next]_vars
         => [\A o \in Objs : objs[o].host = None \/ objs'[o].host \in {None, objs[o].host}]_vars
  BY OwnersStay
<1> QED
  BY <1>1, DiscoveredThroughout, TypeCorrect, PTL DEF Spec, OwnershipKept

(* If nobody clears hosting annotations either, every completed work hosts  *)
(* the component it wraps.                                                  *)
THEOREM BothCompletedHost ==
    ASSUME OnlyDiscovered, {"createObj", "clearHost"} \cap UserOps = {},
           InitObjs = Objs, InitKinds = Kinds
    PROVE  Spec => []CompletedIsHost
<1>1. Init => ClaimsHold
  BY DEF Init, ClaimsHold
<1>2. TypeOK /\ Discovered /\ ClaimsHold /\ [Next]_vars => ClaimsHold'
  BY BothClaimFree, ClaimsStay DEF OnlyDiscovered
<1>3. TypeOK /\ ClaimsHold /\ CompletedWasClaimed => CompletedIsHost
  <2> SUFFICES ASSUME TypeOK, ClaimsHold, CompletedWasClaimed, NEW w \in Works,
                      works[w].disc = "completed", objs[works[w].wraps].live
               PROVE  objs[works[w].wraps].host = w
    BY DEF CompletedIsHost
  <2>1. PICK how \in {"claimed", "gone"} : <<w, works[w].wraps, how>> \in history
    BY DEF CompletedWasClaimed
  <2>2. works[w].wraps \in Objs
    BY <2>1 DEF TypeOK
  <2> QED
    BY <2>1, <2>2 DEF ClaimsHold
<1> QED
  BY <1>1, <1>2, <1>3, DiscoveredThroughout, TypeCorrect, CompletedClaims, PTL DEF Spec

(* And the two handlers together implement the contract on hosting.         *)
THEOREM BothImplementContract ==
    ASSUME OnlyDiscovered, {"createObj", "clearHost"} \cap UserOps = {},
           InitObjs = Objs, InitKinds = Kinds
    PROVE  Spec => RefinesContract
<1>1. Init => Contract!ContractInit /\ ClaimsHold /\ UpdateWasClaimed
  BY DEF Init, Contract!ContractInit, NoWork, ClaimsHold, UpdateWasClaimed, Idle
<1>2. TypeOK /\ Discovered /\ ClaimsHold /\ UpdateWasClaimed /\ [Next]_vars
         => ClaimsHold' /\ UpdateWasClaimed'
  BY BothClaimFree, ClaimsStay, PatchBeforeUpdate DEF OnlyDiscovered
<1>3. TypeOK /\ Discovered /\ ClaimsHold /\ UpdateWasClaimed /\ [Next]_vars
         => [Contract!ContractNext]_Contract!contractVars
  BY HubStepsMap, BothClaimFree, ClusterStepsMap, ClusterWriters DEF OnlyDiscovered
<1> QED
  BY <1>1, <1>2, <1>3, DiscoveredThroughout, TypeCorrect, PTL
     DEF Spec, RefinesContract, Contract!ContractSpec
-----------------------------------------------------------------------------
(* Which components have works.  A hosting annotation that nobody clears    *)
(* and a work that nobody deletes or edits stay.                            *)
OnlyAnnotated == OnlyRequests /\ "clearHost" \notin UserOps

LEMMA HostsRemain ==
    ASSUME TypeOK, OnlyAnnotated, AllLive, [Next]_vars, NEW o \in Objs, objs[o].host # None
    PROVE  objs'[o].host # None
<1>1. objs \in [Objs -> ObjState] /\ \A p \in Objs : objs[p] \in ObjState
  BY DEF TypeOK, ClusterOK
<1>2. ASSUME NEW t \in Threads, At(t, "claim"), ClaimEffect(t)
      PROVE  objs'[o].host # None
  <2>1. PICK p \in Objs, w \in Works : p = th[t].cur.o /\ w = th[t].wk
    BY <1>2 DEF TypeOK, HandlersOK, HandlerOK, At
  <2>2. UNCHANGED objs \/ objs' =
            [objs EXCEPT ![p] = [[objs[p] EXCEPT !.host = w] EXCEPT !.rv = objs[p].rv + 1]]
    BY <1>2, <2>1 DEF ClaimEffect, WriteObj
  <2>3. objs'[o] = objs[o]
          \/ objs'[o] = [[objs[p] EXCEPT !.host = w] EXCEPT !.rv = objs[p].rv + 1]
    BY <1>1, <2>2
  <2>4. [[objs[p] EXCEPT !.host = w] EXCEPT !.rv = objs[p].rv + 1].host = w
    BY <1>1 DEF ObjState
  <2> QED
    BY <2>3, <2>4, ConstantsAssumption
<1>3. ASSUME NEW p \in Objs, UserWritesObj(p)
      PROVE  objs'[o].host # None
  <2>1. WriteObj(p, objs[p]) \/ (objs[p].host = None /\ WriteObj(p, [objs[p] EXCEPT !.host = Foreign]))
    BY <1>3 DEF UserWritesObj, UserOp, OnlyAnnotated, OnlyRequests, AllLive
  <2>2. CASE WriteObj(p, objs[p])
    BY <1>1, <2>2 DEF WriteObj, ObjState
  <2>3. CASE objs[p].host = None /\ WriteObj(p, [objs[p] EXCEPT !.host = Foreign])
    <3>1. objs'[o] = objs[o]
      BY <1>1, <2>3 DEF WriteObj
    <3> QED
      BY <3>1
  <2> QED
    BY <2>1, <2>2, <2>3
<1> QED
  BY <1>2, <1>3, ClusterWriters

LEMMA CoveredStays ==
    ASSUME TypeOK, OnlyAnnotated, Standing, [Next]_vars, NEW o \in Objs, Covered(o)
    PROVE  Covered(o)'
<1>1. CASE objs[o].host # None
  BY <1>1, HostsRemain DEF Covered, Standing
<1>2. CASE WorksOf(o) # {}
  <2>1. PICK w \in Works : works[w].live /\ works[w].src = o
    BY <1>2 DEF WorksOf
  <2>2. works'[w].live /\ works'[w].src = o
    BY <2>1, WorksKeep DEF OnlyAnnotated, Standing
  <2> QED
    BY <2>2 DEF Covered, WorksOf
<1> QED
  BY <1>1, <1>2 DEF Covered, Standing, AllLive

(* The application handler has yet to come to component o, or is about to   *)
(* make a work for it.                                                      *)
Pursued(o) ==
    \/ appEvents > 0
    \/ KindOf[o] \in todo
    \/ \E i \in items : i.o = o /\ i.host = None
    \/ /\ th[App].cur.o = o
       /\ \/ th[App].pc = "locate"
          \/ th[App].pc \in {"walk", "create"} /\ th[App].wk = None
Pursuit ==
    /\ th[App].pc = "idle" => todo = {} /\ items = {}
    /\ (Up /\ left.faults = MaxFaults) => \A o \in AppObjs : Covered(o) \/ Pursued(o)

(* Steps that have nothing to do with the application handler.              *)
Aside == UNCHANGED <<appEvents, todo, items, proc>> /\ th'[App] = th[App]

LEMMA PursuitAside ==
    ASSUME TypeOK, OnlyAnnotated, Standing, FaultsLeft, Pursuit, [Next]_vars, Aside
    PROVE  Pursuit'
<1>1. ASSUME NEW o \in AppObjs, Pursued(o)
      PROVE  Pursued(o)'
  BY <1>1 DEF Pursued, Aside
<1>2. left'.faults = MaxFaults => left.faults = MaxFaults
  BY FaultCount, ConstantsAssumption DEF FaultsLeft, TypeOK
<1>3. \A o \in AppObjs : o \in Objs
  BY ConstantsAssumption
<1>4. ASSUME Up', left'.faults = MaxFaults, NEW o \in AppObjs
      PROVE  Covered(o)' \/ Pursued(o)'
  BY <1>1, <1>2, <1>3, <1>4, CoveredStays DEF Pursuit, Up, Aside
<1> QED
  BY <1>4 DEF Pursuit, Aside

(* Steps of the application handler while it is at work on its list.        *)
LEMMA PursuitLists ==
    ASSUME TypeOK, OnlyAnnotated, Standing, Pursuit, [Next]_vars,
           BeginSync \/ EndSync \/ (\E k \in Kinds : ListKind(k)) \/ (\E i \in items : TakeItem(i))
    PROVE  Pursuit'
<1>1. /\ th \in [Threads -> Locals] /\ th[App] \in Locals /\ App \in Threads
      /\ \A o \in AppObjs : o \in Objs /\ KindOf[o] \in Kinds
      /\ appEvents \in Nat /\ objs \in [Objs -> ObjState]
  BY ConstantsAssumption DEF TypeOK, HandlersOK, SyncOK, ClusterOK, Threads
<1>2. UNCHANGED <<proc, left>>
  BY DEF BeginSync, EndSync, ListKind, TakeItem
<1> SUFFICES /\ th'[App].pc = "idle" => todo' = {} /\ items' = {}
             /\ \A o \in AppObjs : Up /\ Pursued(o) /\ ~Covered(o) => Pursued(o)'
  BY <1>1, <1>2, CoveredStays DEF Pursuit, Up
<1>3. CASE BeginSync
  <2>1. th'[App].pc = "list"
    BY <1>1, <1>3 DEF BeginSync, Goto, Locals
  <2>2. ASSUME NEW o \in AppObjs, Up PROVE KindOf[o] \in todo'
    BY <1>1, <1>3, <2>2 DEF BeginSync, Standing, AllKnown
  <2> QED
    BY <2>1, <2>2 DEF Pursued
<1>4. CASE EndSync
  <2>1. th'[App].pc = "idle" /\ todo' = {} /\ items' = {} /\ th[App].pc = "list" /\ appEvents' = appEvents
    BY <1>1, <1>4 DEF EndSync, Goto, At, Locals, sync
  <2> QED
    BY <1>4, <2>1 DEF Pursued, EndSync
<1>5. ASSUME NEW k \in Kinds, ListKind(k)
      PROVE  /\ th'[App].pc = "idle" => todo' = {} /\ items' = {}
             /\ \A o \in AppObjs : Pursued(o) /\ ~Covered(o) => Pursued(o)'
  <2>1. UNCHANGED <<appEvents, th>> /\ th[App].pc = "list"
    BY <1>5 DEF ListKind, At
  <2>2. ASSUME NEW o \in AppObjs, KindOf[o] \in todo, ~Covered(o)
        PROVE  KindOf[o] \in todo' \/ \E i \in items' : i.o = o /\ i.host = None
    <3>1. CASE KindOf[o] = k
      <4>1. Snapshot(o) \in items'
        BY <1>5, <2>2, <3>1 DEF ListKind, Covered
      <4> QED
        BY <2>2, <4>1 DEF Snapshot, Covered
    <3>2. CASE KindOf[o] # k
      BY <1>5, <2>2, <3>2 DEF ListKind
    <3> QED
      BY <3>1, <3>2
  <2>3. items \subseteq items'
    BY <1>5 DEF ListKind
  <2> QED
    BY <2>1, <2>2, <2>3 DEF Pursued
<1>6. ASSUME NEW i \in items, TakeItem(i)
      PROVE  /\ th'[App].pc = "idle" => todo' = {} /\ items' = {}
             /\ \A o \in AppObjs : Pursued(o) => Pursued(o)'
  <2>1. UNCHANGED <<appEvents, todo>> /\ th[App].pc = "list" /\ items' = items \ {i}
    BY <1>6 DEF TakeItem, At
  <2>2. CASE i.host # None
    <3>1. th' = th
      BY <1>6, <2>2 DEF TakeItem
    <3> QED
      BY <2>1, <2>2, <3>1 DEF Pursued
  <2>3. CASE i.host = None
    <3>1. th'[App] = [Idle EXCEPT !.pc = "locate", !.cur = i]
      BY <1>1, <1>6, <2>3 DEF TakeItem
    <3>2. th'[App].pc = "locate" /\ th'[App].cur = i
      BY <3>1 DEF Idle
    <3> QED
      BY <2>1, <3>2 DEF Pursued
  <2> QED
    BY <2>2, <2>3
<1> QED
  BY <1>3, <1>4, <1>5, <1>6

(* Steps of the application handler on the component at hand.               *)
LEMMA PursuitMakes ==
    ASSUME TypeOK, OnlyAnnotated, Standing, Pursuit, [Next]_vars,
           LocateWork \/ (SharedStep(App) /\ ~Panic)
    PROVE  Pursuit'
<1>1. /\ th \in [Threads -> Locals] /\ th[App] \in Locals /\ App \in Threads
      /\ HandlerOK(App, th[App]) /\ \A o \in AppObjs : o \in Objs
      /\ works \in [Works -> WorkState]
  BY ConstantsAssumption DEF TypeOK, HandlersOK, HubOK, Threads
<1> DEFINE InHand(o) == /\ th[App].cur.o = o
                        /\ \/ th[App].pc = "locate"
                           \/ th[App].pc \in {"walk", "create"} /\ th[App].wk = None
<1>2. UNCHANGED <<proc, left, appEvents, todo, items>>
  BY DEF LocateWork, SharedStep, FindRoot, ClimbOwner, OwnerKindUnknown, CreateWork, GetWork, FetchObj,
     ClaimObj, ClaimRefused, UpdateWork, UpdateRefused, AnnotationsMissing, sync
<1>3. th'[App].pc # "idle"
  <2>1. Done(App) => th'[App].pc = "list"
    BY <1>1 DEF Done, Idle
  <2>2. CASE LocateWork
    <3>1. PICK w : th' = [th EXCEPT ![App].pc = "walk", ![App].wk = w]
      BY <2>2 DEF LocateWork
    <3> QED
      BY <1>1, <3>1 DEF Locals
  <2>3. CASE FindRoot(App)
    BY <1>1, <2>3 DEF FindRoot, RootFound, Goto, Locals
  <2>4. CASE ClimbOwner(App)
    BY <1>1, <2>4 DEF ClimbOwner, At, Locals
  <2>5. CASE GetWork(App)
    BY <1>1, <2>1, <2>5 DEF GetWork, Locals
  <2>6. CASE FetchObj(App) \/ ClaimObj(App)
    BY <1>1, <2>1, <2>6 DEF FetchObj, ClaimObj, Goto, Locals
  <2>7. CASE ClaimRefused(App) \/ UpdateRefused(App)
    BY <1>1, <2>1, <2>7 DEF ClaimRefused, UpdateRefused, Conflict, Retry, GiveUp, Leave, Locals
  <2>8. CASE CreateWork(App) \/ UpdateWork(App)
    BY <2>1, <2>8 DEF CreateWork, UpdateWork
  <2> QED
    BY <2>2, <2>3, <2>4, <2>5, <2>6, <2>7, <2>8 DEF SharedStep, OwnerKindUnknown, AnnotationsMissing
<1>4. ASSUME NEW o \in AppObjs, InHand(o)
      PROVE  Covered(o)' \/ Pursued(o)'
  <2>1. CASE LocateWork
    <3>1. PICK w \in IF WorksOf(o) = {} THEN {None} ELSE WorksOf(o) :
             th' = [th EXCEPT ![App].pc = "walk", ![App].wk = w]
      BY <1>4, <2>1 DEF LocateWork
    <3>2. CASE WorksOf(o) = {}
      <4>1. th'[App].pc = "walk" /\ th'[App].wk = None /\ th'[App].cur = th[App].cur
        BY <1>1, <3>1, <3>2 DEF Locals
      <4> QED
        BY <1>4, <4>1 DEF Pursued
    <3>3. CASE WorksOf(o) # {}
      BY <1>1, <1>4, <3>3, CoveredStays DEF Covered
    <3> QED
      BY <3>2, <3>3
  <2>2. CASE FindRoot(App)
    <3>1. th'[App].pc = "create" /\ th'[App].wk = None /\ th'[App].cur = th[App].cur
      BY <1>1, <1>4, <2>2 DEF FindRoot, RootFound, Goto, At, Locals
    <3> QED
      BY <1>4, <3>1 DEF Pursued
  <2>3. CASE CreateWork(App)
    <3> DEFINE new == [NoWork EXCEPT !.live = TRUE, !.src = o, !.wraps = o, !.disc = "enabled"]
    <3>1. PICK w \in Works : WriteWork(w, new)
      BY <1>4, <2>3 DEF CreateWork, CreateEffect
    <3>2. new \in WorkState /\ new.live /\ new.src = o
      BY <1>1, Wrappable DEF NoWork, WorkState, Disc
    <3> HIDE DEF new
    <3>3. works'[w] = [new EXCEPT !.rv = works[w].rv + 1]
      BY <3>1, <3>2, WriteWorkFields
    <3>4. works'[w].live /\ works'[w].src = o
      BY <3>2, <3>3 DEF WorkState
    <3> QED
      BY <3>4 DEF Covered, WorksOf
  <2>4. ~ClimbOwner(App)
    BY <1>1 DEF ClimbOwner, At, HandlerOK, OnlyRequests, OnlyAnnotated
  <2>5. ~(GetWork(App) \/ FetchObj(App) \/ ClaimObj(App) \/ ClaimRefused(App) \/ UpdateWork(App)
            \/ UpdateRefused(App))
    BY <1>4 DEF GetWork, FetchObj, ClaimObj, ClaimRefused, UpdateWork, UpdateRefused, At
  <2> QED
    BY <2>1, <2>2, <2>3, <2>4, <2>5 DEF SharedStep, OwnerKindUnknown, AnnotationsMissing
<1>5. ASSUME NEW o \in AppObjs, Pursued(o), ~InHand(o)
      PROVE  Pursued(o)'
  BY <1>2, <1>5 DEF Pursued
<1>6. ASSUME Up', left'.faults = MaxFaults, NEW o \in AppObjs
      PROVE  Covered(o)' \/ Pursued(o)'
  <2>1. Covered(o) \/ Pursued(o)
    BY <1>2, <1>6 DEF Pursuit, Up
  <2> HIDE DEF InHand
  <2> QED
    BY <1>1, <1>4, <1>5, <1>6, <2>1, CoveredStays
<1> QED
  BY <1>3, <1>6 DEF Pursuit

LEMMA PursuitStep ==
    ASSUME TypeOK, OnlyAnnotated, Standing, FaultsLeft, Pursuit, [Next]_vars
    PROVE  Pursuit'
<1>1. /\ th \in [Threads -> Locals] /\ App \in Threads /\ Mw \in Threads /\ Mw # App
      /\ \A o \in AppObjs : o \in Objs
  BY ConstantsAssumption DEF TypeOK, HandlersOK, Threads, Mw, App
<1>2. CASE UNCHANGED vars
  BY <1>2, PursuitAside DEF Aside, vars
<1>3. CASE Start
  <2>1. appEvents' = 1 /\ UNCHANGED <<todo, items, th>>
    BY <1>3 DEF Start
  <2> QED
    BY <2>1 DEF Pursuit, Pursued
<1>4. CASE Panic \/ Crash
  <2>1. ~Up' /\ todo' = {} /\ items' = {}
    BY <1>4 DEF Panic, Crash, Halt, Up
  <2> QED
    BY <2>1 DEF Pursuit
<1>5. CASE AppStep
  BY <1>5, PursuitLists, PursuitMakes DEF AppStep
<1>6. \A t \in Threads : Done(t) /\ t # App => th'[App] = th[App]
  BY <1>1 DEF Done
<1>7. CASE MwStep
  <2>1. CASE ManifestMissing
    BY <1>4, <2>1 DEF ManifestMissing
  <2>2. CASE Deliver \/ GetWrapped \/ ManifestUnreadable \/ Cleanup
    BY <1>1, <1>6, <2>2, PursuitAside
       DEF Deliver, GetWrapped, ManifestUnreadable, Cleanup, Goto, Aside, sync
  <2> QED
    BY <1>7, <2>1, <2>2 DEF MwStep
<1>8. ASSUME NEW t \in Threads, SharedStep(t)
      PROVE  Pursuit'
  <2>1. CASE t = App
    BY <1>4, <1>8, <2>1, PursuitMakes
  <2>2. CASE t # App /\ ~Panic
    <3>1. Aside
      BY <1>1, <1>6, <1>8, <2>2 DEF SharedStep, FindRoot, RootFound, ClimbOwner, OwnerKindUnknown,
         CreateWork, GetWork, FetchObj, ClaimObj, ClaimRefused, Conflict, Retry, GiveUp, Leave, UpdateWork,
         UpdateRefused, AnnotationsMissing, Goto, Aside, sync
    <3> QED
      BY <3>1, PursuitAside
  <2> QED
    BY <1>4, <2>1, <2>2
<1>9. CASE Environment
  <2>1. CASE ApplicationChanged
    <3>1. appEvents' > 0 /\ UNCHANGED <<todo, items, th>>
      BY <2>1 DEF ApplicationChanged, TypeOK, SyncOK
    <3> QED
      BY <3>1 DEF Pursuit, Pursued
  <2>2. CASE ~ApplicationChanged
    BY <1>9, <2>2, PursuitAside
       DEF Environment, UserWritesObj, UserWritesWork, InstallKind, Aside, sync
  <2> QED
    BY <2>1, <2>2
<1>10. CASE Relist
  BY <1>10, PursuitAside DEF Relist, Aside, sync
<1>11. ASSUME NEW t \in Threads, OwnerLookupFails(t) \/ CallFails(t) \/ ReplyLost(t)
       PROVE  Pursuit'
  <2>1. left'.faults # MaxFaults
    BY <1>11, ConstantsAssumption DEF OwnerLookupFails, CallFails, ReplyLost, Spend, FaultsLeft, TypeOK
  <2>2. UNCHANGED sync
    BY <1>11 DEF OwnerLookupFails, CallFails, ReplyLost
  <2>3. th'[App] = th[App] \/ th'[App].pc # "idle"
    <3>1. Done(App) => th'[App].pc = "list"
      BY <1>1 DEF Done, Idle
    <3>2. CASE Done(t)
      BY <1>6, <3>1, <3>2
    <3>3. CASE ~Done(t)
      BY <1>1, <1>11, <3>3 DEF OwnerLookupFails, CallFails, ReplyLost, RootFound, Goto, Locals
    <3> QED
      BY <3>2, <3>3
  <2> QED
    BY <2>1, <2>2, <2>3 DEF Pursuit, sync
<1> QED
  BY <1>2, <1>3, <1>4, <1>5, <1>7, <1>8, <1>9, <1>10, <1>11 DEF Next, Fault, ListKindFails

(* When both listeners have come to rest and no call has failed, every      *)
(* component of the application has a work or a host: whatever the users    *)
(* touch, however often the process crashes or panics and starts again, and *)
(* however its two handlers get in each other's way.                        *)
THEOREM ComponentsHaveWorks ==
    ASSUME OnlyAnnotated, InitObjs = Objs, InitKinds = Kinds
    PROVE  Spec => []ComponentsCovered
<1>1. Init => Pursuit /\ FaultsLeft
  <2> SUFFICES ASSUME Init PROVE Pursuit /\ FaultsLeft
    OBVIOUS
  <2>1. left.faults <= MaxFaults
    BY ConstantsAssumption DEF Init
  <2> QED
    BY <2>1 DEF Init, Pursuit, FaultsLeft, Up
<1>2. TypeOK /\ Standing /\ FaultsLeft /\ Pursuit /\ [Next]_vars => FaultsLeft' /\ Pursuit'
  <2> SUFFICES ASSUME TypeOK, Standing, FaultsLeft, Pursuit, [Next]_vars PROVE FaultsLeft' /\ Pursuit'
    OBVIOUS
  <2>1. left'.faults <= MaxFaults
    BY FaultCount, ConstantsAssumption DEF FaultsLeft, TypeOK
  <2> QED
    BY <2>1, PursuitStep DEF FaultsLeft
<1>3. TypeOK /\ Pursuit => ComponentsCovered
  <2>1. ASSUME TypeOK, Pursuit, AtRest, left.faults = MaxFaults, NEW o \in AppObjs
        PROVE  Covered(o)
    <3>1. th[App].pc = "idle" /\ appEvents = 0 /\ Up
      BY <2>1 DEF AtRest, Threads
    <3> QED
      BY <2>1, <3>1 DEF Pursuit, Pursued
  <2> QED
    BY <2>1 DEF ComponentsCovered, AllCovered
<1>4. Spec => []Standing
  BY StandingThroughout DEF OnlyAnnotated
<1> QED
  BY <1>1, <1>2, <1>3, <1>4, TypeCorrect, PTL DEF Spec
-----------------------------------------------------------------------------
(* What becomes of a request.  Users may touch resources and works and      *)
(* withdraw requests, as often as they like.                                *)
HostsLast == OnlyDiscovered /\ "clearHost" \notin UserOps

(* A hosting annotation stays as it is.                                     *)
LEMMA HostsKept ==
    ASSUME TypeOK, HostsLast, Discovered, [Next]_vars, NEW o \in Objs, objs[o].host # None
    PROVE  objs'[o].host = objs[o].host
BY OwnersStay, HostsRemain DEF HostsLast, OnlyDiscovered, OnlyAnnotated, Discovered, Standing

(* The work of a handler hosts its resource as soon as any work does.       *)
LEMMA HostIsOwn ==
    ASSUME TypeOK, Discovered, NEW w \in Works, works[w].live, objs[works[w].wraps].host # None
    PROVE  objs[works[w].wraps].host = w
<1>1. works[w].wraps \in Objs
  BY DEF Discovered, Standing, WorksStand, Stands
<1> QED
  BY <1>1, OneWork DEF Discovered, OwnHosts

(* The bounds are counted down.                                             *)
Bounded == left.ops <= MaxOps /\ left.faults <= MaxFaults /\ left.crashes <= MaxCrashes

(* No call has failed and the process has not been stopped.                 *)
Calm == left.faults = MaxFaults /\ left.crashes = MaxCrashes

LEMMA LeftCount ==
    ASSUME [Next]_vars
    PROVE  UNCHANGED left \/ \E b \in {"ops", "syncs", "faults", "crashes"} : Spend(b)
<1>1. CASE Start \/ AppStep \/ UNCHANGED vars
  BY <1>1 DEF Start, AppStep, BeginSync, ListKind, TakeItem, EndSync, LocateWork, vars
<1>2. CASE MwStep \/ \E t \in Threads : SharedStep(t)
  BY <1>2 DEF MwStep, Deliver, GetWrapped, ManifestUnreadable, ManifestMissing, Cleanup,
     SharedStep, FindRoot, ClimbOwner, OwnerKindUnknown, CreateWork, GetWork, FetchObj, ClaimObj,
     ClaimRefused, UpdateWork, UpdateRefused, AnnotationsMissing
<1>3. CASE Environment
  BY <1>3 DEF Environment, ApplicationChanged, UserWritesObj, UserWritesWork, InstallKind, UserOp
<1>4. CASE Fault
  BY <1>4 DEF Fault, Crash, ListKindFails, Relist, OwnerLookupFails, CallFails, ReplyLost
<1> QED
  BY <1>1, <1>2, <1>3, <1>4 DEF Next

LEMMA CalmLasts ==
    ASSUME TypeOK, Bounded, [Next]_vars
    PROVE  /\ Bounded'
           /\ Calm' => Calm
           /\ left'.ops \in Nat /\ left'.ops <= left.ops
           /\ Spend("ops") => left'.ops = left.ops - 1
<1>1. /\ left \in [{"ops", "syncs", "faults", "crashes"} -> Nat]
      /\ MaxOps \in Nat /\ MaxFaults \in Nat /\ MaxCrashes \in Nat
  BY ConstantsAssumption DEF TypeOK
<1>2. CASE UNCHANGED left
  BY <1>1, <1>2 DEF Bounded, Calm, Spend
<1>3. ASSUME NEW b \in {"ops", "syncs", "faults", "crashes"}, Spend(b)
      PROVE  /\ left' = [left EXCEPT ![b] = @ - 1] /\ left[b] > 0
  BY <1>3 DEF Spend
<1>4. ASSUME NEW b \in {"ops", "syncs", "faults", "crashes"}, Spend(b),
             NEW c \in {"ops", "syncs", "faults", "crashes"}
      PROVE  left'[c] = IF c = b THEN left[c] - 1 ELSE left[c]
  BY <1>1, <1>3, <1>4
<1>5. ASSUME NEW b \in {"ops", "syncs", "faults", "crashes"}, Spend(b)
      PROVE  /\ left'.ops \in Nat /\ left'.ops <= left.ops
             /\ left'.faults \in Nat /\ left'.faults <= left.faults
             /\ left'.crashes \in Nat /\ left'.crashes <= left.crashes
  BY <1>1, <1>3, <1>4, <1>5
<1>6. Spend("ops") => left'.ops = left.ops - 1
  BY <1>4
<1>7. /\ left'.ops \in Nat /\ left'.ops <= left.ops
      /\ left'.faults \in Nat /\ left'.faults <= left.faults
      /\ left'.crashes \in Nat /\ left'.crashes <= left.crashes
  BY <1>1, <1>2, <1>5, LeftCount
<1> QED
  BY <1>1, <1>6, <1>7 DEF Bounded, Calm

(* What the informer has seen is there, and what handlers have read holds.  *)
SeenStands == \A w \in Works : seen[w].live => works[w].live
HandlersRead ==
    \A t \in Threads :
        LET me == th[t] IN
        /\ me.pc \in {"locate", "wrapped", "walk", "create"} => me.tries = 0 /\ ~me.prep
        /\ me.pc \in {"fetch", "claim", "update"} => me.got.src # None
        /\ (me.pc \in {"locate", "walk", "create", "get", "fetch", "claim", "update"}
              /\ me.cur.host # None) => objs[me.cur.o].host = me.cur.host

LEMMA SeenStandsStep ==
    ASSUME TypeOK, OnlyDiscovered, Standing, SeenStands, [Next]_vars
    PROVE  SeenStands'
<1>1. \A w \in Works : works[w].live => works'[w].live
  BY WorksKeep DEF OnlyDiscovered, Standing
<1>2. CASE UNCHANGED seen
  BY <1>1, <1>2 DEF SeenStands
<1>3. CASE Panic \/ Crash
  BY <1>3 DEF Panic, Crash, Halt, NoWork, SeenStands
<1>4. CASE Deliver
  <2>1. mwq \in Seq(Notifications) /\ mwq # <<>> /\ seen \in [Works -> WorkState]
    BY <1>4 DEF TypeOK, HubOK, Deliver
  <2>2. 1 \in DOMAIN mwq /\ Head(mwq) = mwq[1] /\ Head(mwq) \in Notifications
    BY <2>1
  <2>3. Head(mwq).w \in Works /\ works[Head(mwq).w].live
    BY <2>2 DEF Notifications, Standing, QueueStands, Announced
  <2>4. seen' = [seen EXCEPT ![Head(mwq).w] = Head(mwq).new]
    BY <1>4 DEF Deliver
  <2> QED
    BY <1>1, <2>1, <2>3, <2>4 DEF SeenStands
<1>5. CASE AppStep \/ Start \/ UNCHANGED vars
  BY <1>2, <1>5 DEF AppStep, BeginSync, ListKind, TakeItem, EndSync, LocateWork, Start, informer, vars
<1>6. CASE MwStep
  BY <1>2, <1>3, <1>4, <1>6 DEF MwStep, GetWrapped, ManifestUnreadable, ManifestMissing, Cleanup, informer
<1>7. ASSUME NEW t \in Threads, SharedStep(t)
      PROVE  SeenStands'
  BY <1>2, <1>3, <1>7 DEF SharedStep, FindRoot, ClimbOwner, OwnerKindUnknown, CreateWork, GetWork,
     FetchObj, ClaimObj, ClaimRefused, UpdateWork, UpdateRefused, AnnotationsMissing, informer
<1>8. CASE Fault
  BY <1>2, <1>3, <1>8 DEF Fault, ListKindFails, Relist, OwnerLookupFails, CallFails, ReplyLost, informer
<1>9. CASE Environment
  BY <1>2, <1>9 DEF Environment, ApplicationChanged, UserWritesObj, UserWritesWork, InstallKind, informer
<1> QED
  BY <1>5, <1>6, <1>7, <1>8, <1>9 DEF Next

LEMMA HandlersReadStep ==
    ASSUME TypeOK, HostsLast, Discovered, HandlersRead, [Next]_vars
    PROVE  HandlersRead'
<1> SUFFICES ASSUME NEW t \in Threads
             PROVE  /\ th'[t].pc \in {"locate", "wrapped", "walk", "create"}
                         => th'[t].tries = 0 /\ ~th'[t].prep
                    /\ th'[t].pc \in {"fetch", "claim", "update"} => th'[t].got.src # None
                    /\ (th'[t].pc \in {"locate", "walk", "create", "get", "fetch", "claim", "update"}
                         /\ th'[t].cur.host # None) => objs'[th'[t].cur.o].host = th'[t].cur.host
  BY DEF HandlersRead
<1> DEFINE Read == {"locate", "walk", "create", "get", "fetch", "claim", "update"}
<1>0. OnlyRequests /\ Standing
  BY DEF HostsLast, OnlyDiscovered, Discovered
<1>1. th[t] \in Locals /\ HandlerOK(t, th[t])
  BY <1>0, Setting
<1>2. ASSUME th[t].pc \in Read, th[t].cur.host # None
      PROVE  objs'[th[t].cur.o].host = th[t].cur.host
  <2>1. th[t].cur.o \in Objs /\ objs[th[t].cur.o].host = th[t].cur.host
    BY <1>1, <1>2 DEF HandlersRead, HandlerOK
  <2> QED
    BY <1>2, <2>1, HostsKept
<1>3. CASE th'[t] = th[t]
  BY <1>2, <1>3 DEF HandlersRead
<1>4. CASE th'[t].pc \in {"idle", "list"}
  BY <1>4
<1>5. CASE Takes(t)
  <2>1. PICK i \in items : i.host = None /\ th'[t] = [Idle EXCEPT !.pc = "locate", !.cur = i]
    BY <1>5 DEF Takes
  <2>2. th'[t].pc = "locate" /\ th'[t].cur.host = None /\ th'[t].tries = 0 /\ th'[t].prep = FALSE
    BY <2>1 DEF Idle
  <2> QED
    BY <2>2
<1>6. CASE Locates(t)
  <2>1. /\ th[t].pc = "locate" /\ th'[t].pc = "walk" /\ th'[t].cur = th[t].cur
        /\ th'[t].tries = th[t].tries /\ th'[t].prep = th[t].prep
    BY <1>1, <1>6 DEF Locates, Locals
  <2> QED
    BY <1>2, <2>1 DEF HandlersRead
<1>7. CASE Receives(t)
  <2>1. th'[t].pc = "wrapped" /\ th'[t].tries = 0 /\ th'[t].prep = FALSE
    BY <1>7 DEF Receives, Idle
  <2> QED
    BY <2>1
<1>8. CASE LooksUp(t) /\ UNCHANGED objs
  <2>1. /\ th[t].pc = "wrapped" /\ th'[t].pc = "walk" /\ th'[t].cur = Snapshot(th[t].cur.o)
        /\ th'[t].tries = th[t].tries /\ th'[t].prep = th[t].prep
    BY <1>1, <1>8 DEF LooksUp, Locals
  <2> QED
    BY <1>8, <2>1 DEF HandlersRead, Snapshot
<1>9. CASE Climbed(t)
  <2>1. /\ th[t].pc = "walk" /\ th'[t].pc \in {"create", "get"} /\ th'[t].cur = th[t].cur
        /\ th'[t].tries = th[t].tries /\ th'[t].prep = th[t].prep
    BY <1>1, <1>9 DEF Climbed, Locals
  <2> QED
    BY <1>2, <2>1 DEF HandlersRead
<1>10. CASE Reads(t)
  <2>1. /\ th[t].pc = "get" /\ th'[t].pc = "fetch" /\ th'[t].cur = th[t].cur
        /\ th'[t].got = works[th[t].wk]
    BY <1>1, <1>10 DEF Reads, Locals
  <2>2. th[t].wk \in Works /\ works[th[t].wk].live
    <3>1. th[t].wk \in Works /\ th[t].pc \in Holding
      BY <1>1, <2>1 DEF HandlerOK, Holding
    <3> QED
      BY <1>0, <3>1, AtHand, ConstantsAssumption
  <2>3. th'[t].got.src # None
    BY <2>1, <2>2 DEF Discovered, Made
  <2> QED
    BY <1>2, <2>1, <2>3
<1>11. CASE Fetches(t) \/ Claims(t)
  <2>1. /\ th[t].pc \in {"fetch", "claim"} /\ th'[t].pc \in {"claim", "update"}
        /\ th'[t].cur = th[t].cur /\ th'[t].got = th[t].got
    BY <1>1, <1>11 DEF Fetches, Claims, Locals
  <2> QED
    BY <1>2, <2>1 DEF HandlersRead
<1>12. CASE RetriesClaim(t) \/ RetriesUpdate(t)
  <2>1. /\ th[t].pc \in {"claim", "update"} /\ th'[t].pc = "get" /\ th'[t].cur = th[t].cur
    BY <1>1, <1>12 DEF RetriesClaim, RetriesUpdate, Locals
  <2> QED
    BY <1>2, <2>1
<1> QED
  BY <1>0, <1>3, <1>4, <1>5, <1>6, <1>7, <1>8, <1>9, <1>10, <1>11, <1>12, HandlerAdvances
-----------------------------------------------------------------------------
(* The steps that are left while no call fails: the handlers never come to  *)
(* a step that panics, and find nothing to clean up.                        *)
CalmStep ==
    \/ UNCHANGED vars
    \/ Start
    \/ AppStep
    \/ Deliver
    \/ GetWrapped
    \/ Relist
    \/ Environment
    \/ \E t \in Threads : \/ FindRoot(t) \/ CreateWork(t) \/ GetWork(t) \/ FetchObj(t) \/ ClaimObj(t)
                          \/ ClaimRefused(t) \/ UpdateWork(t) \/ UpdateRefused(t)

LEMMA CalmSteps ==
    ASSUME TypeOK, HostsLast, Discovered, HandlersRead, Calm, Calm', [Next]_vars
    PROVE  CalmStep
<1>0. /\ OnlyRequests /\ Standing /\ App \in Threads /\ Mw \in Threads
      /\ MaxFaults \in Nat /\ MaxCrashes \in Nat
      /\ left \in [{"ops", "syncs", "faults", "crashes"} -> Nat]
  BY ConstantsAssumption DEF HostsLast, OnlyDiscovered, Discovered, Threads, TypeOK
<1>1. ~Spend("faults") /\ ~Spend("crashes")
  BY <1>0 DEF Spend, Calm
<1>2. ~Crash /\ ~ListKindFails /\ \A t \in Threads : ~(OwnerLookupFails(t) \/ CallFails(t) \/ ReplyLost(t))
  BY <1>1 DEF Crash, ListKindFails, OwnerLookupFails, CallFails, ReplyLost
<1>3. ~ManifestMissing /\ ~ManifestUnreadable
  <2>1. ASSUME th[Mw].pc = "wrapped"
        PROVE  th[Mw].cur.o \in Objs
    <3>1. HandlerOK(Mw, th[Mw])
      BY <1>0, Setting
    <3>2. th[Mw].wk # None /\ th[Mw].pc \in Holding
      BY <2>1, <3>1, ConstantsAssumption DEF HandlerOK, Holding
    <3> QED
      BY <1>0, <3>2, AtHand
  <2> QED
    BY <2>1, ConstantsAssumption DEF ManifestMissing, ManifestUnreadable, At
<1>4. ~Cleanup
  BY <1>0 DEF Cleanup, At, Standing, HandlersStand
<1>5. ASSUME NEW t \in Threads
      PROVE  ~ClimbOwner(t) /\ ~OwnerKindUnknown(t) /\ ~AnnotationsMissing(t)
  <2>1. th[t].pc = "walk" => OwnerOf[th[t].cur.o] = None
    BY <1>0, Setting DEF HandlerOK, OnlyRequests
  <2> QED
    BY <2>1 DEF ClimbOwner, OwnerKindUnknown, AnnotationsMissing, At, HandlersRead, NoAnnotations
<1> QED
  BY <1>2, <1>3, <1>4, <1>5 DEF Next, MwStep, SharedStep, Fault, CalmStep

(* How a handler comes to the end of its routine.                           *)
Leaves(t) == th[t].pc = "get" /\ HostedElsewhere(t)
NothingToDo(t) == th[t].pc = "claim" /\ Unchanged(t)
Completes(t) == th[t].pc = "update" /\ UpdateEffect(t)
GivesUp(t) ==
    /\ GiveUp(t)
    /\ th[t].tries + 1 >= RetrySteps
    /\ \/ th[t].pc = "claim" /\ th[t].fet # objs[th[t].cur.o].rv
       \/ th[t].pc = "update" /\ th[t].got.rv # works[th[t].wk].rv

LEMMA HandlerFinishes ==
    ASSUME TypeOK, OnlyDiscovered, Discovered, CalmStep, NEW t \in Threads,
           th'[t] # th[t], th'[t].pc \in {"idle", "list"}
    PROVE  \/ th[t].pc \in {"idle", "list", "create"}
           \/ Leaves(t) \/ NothingToDo(t) \/ Completes(t) \/ GivesUp(t)
<1>0. /\ OnlyRequests /\ Standing /\ th \in [Threads -> Locals] /\ th[t] \in Locals /\ HandlerOK(t, th[t])
      /\ App \in Threads /\ Mw \in Threads /\ Mw # App /\ RetrySteps \in Nat
  BY ConstantsAssumption, Setting
     DEF OnlyDiscovered, Discovered, TypeOK, HandlersOK, Threads, App, Mw
<1>1. ASSUME th[t].pc \in {"get", "fetch", "claim", "update"}
      PROVE  /\ works[th[t].wk].live /\ th[t].wk \in Works
             /\ objs[th[t].cur.o].live /\ th[t].cur.o \in Objs
  <2>1. th[t].wk # None /\ th[t].pc \in Holding
    BY <1>0, <1>1, ConstantsAssumption DEF HandlerOK, Holding
  <2> QED
    BY <1>0, <2>1, AtHand DEF Standing, AllLive
<1>2. CASE UNCHANGED vars \/ Start \/ Relist \/ Environment
  BY <1>2 DEF vars, Start, Relist, Environment, ApplicationChanged, UserWritesObj, UserWritesWork, InstallKind
<1>3. CASE AppStep
  <2>1. CASE LocateWork
    <3>1. PICK w : th' = [th EXCEPT ![App].pc = "walk", ![App].wk = w]
      BY <2>1 DEF LocateWork
    <3> QED
      BY <1>0, <3>1 DEF Locals
  <2>2. CASE BeginSync \/ EndSync \/ (\E k \in Kinds : ListKind(k)) \/ (\E i \in items : TakeItem(i))
    BY <1>0, <2>2 DEF BeginSync, EndSync, ListKind, TakeItem, Goto, At
  <2> QED
    BY <1>3, <2>1, <2>2 DEF AppStep
<1>4. CASE Deliver \/ GetWrapped
  BY <1>0, <1>4 DEF Deliver, GetWrapped, At, Locals
<1>5. ASSUME NEW u \in Threads,
             \/ FindRoot(u) \/ CreateWork(u) \/ GetWork(u) \/ FetchObj(u) \/ ClaimObj(u)
             \/ ClaimRefused(u) \/ UpdateWork(u) \/ UpdateRefused(u)
      PROVE  \/ th[t].pc \in {"idle", "list", "create"}
             \/ Leaves(t) \/ NothingToDo(t) \/ Completes(t) \/ GivesUp(t)
  <2>1. t = u
    <3>1. Done(u) => t = u
      BY <1>0 DEF Done
    <3> QED
      BY <1>0, <1>5, <3>1 DEF FindRoot, RootFound, CreateWork, GetWork, FetchObj, ClaimObj, ClaimRefused,
         UpdateWork, UpdateRefused, Conflict, Retry, GiveUp, Leave, Goto
  <2>2. CASE FindRoot(t)
    BY <1>0, <2>2 DEF FindRoot, RootFound, Goto, Locals
  <2>3. CASE CreateWork(t)
    BY <2>3 DEF CreateWork, At
  <2>4. CASE GetWork(t)
    BY <1>0, <1>1, <2>4 DEF GetWork, At, Leaves, Locals
  <2>5. CASE FetchObj(t)
    BY <1>0, <1>1, <2>5 DEF FetchObj, At, Goto, Locals
  <2>6. CASE ClaimObj(t)
    BY <1>0, <2>6 DEF ClaimObj, At, Goto, Locals, NothingToDo
  <2>7. CASE ClaimRefused(t)
    <3>1. th[t].pc = "claim" /\ objs[th[t].cur.o].live /\ Conflict(t, FALSE)
      BY <1>1, <2>7 DEF ClaimRefused, At
    <3>2. th[t].fet # objs[th[t].cur.o].rv
      BY <2>7, <3>1 DEF ClaimRefused, Current
    <3>3. ~(th[t].tries + 1 < RetrySteps) /\ GiveUp(t)
      BY <1>0, <3>1 DEF Conflict, Retry, Locals
    <3>4. th[t].tries \in Nat
      BY <1>0 DEF Locals
    <3> QED
      BY <1>0, <3>1, <3>2, <3>3, <3>4 DEF GivesUp
  <2>8. CASE UpdateWork(t)
    BY <2>8 DEF UpdateWork, At, Completes
  <2>9. CASE UpdateRefused(t)
    <3>1. th[t].pc = "update" /\ works[th[t].wk].rv # th[t].got.rv /\ Conflict(t, TRUE)
      BY <1>1, <2>9 DEF UpdateRefused, At
    <3>2. ~(th[t].tries + 1 < RetrySteps) /\ GiveUp(t)
      BY <1>0, <3>1 DEF Conflict, Retry, Locals
    <3>3. th[t].tries \in Nat
      BY <1>0 DEF Locals
    <3> QED
      BY <1>0, <3>1, <3>2, <3>3 DEF GivesUp
  <2> QED
    BY <1>5, <2>1, <2>2, <2>3, <2>4, <2>5, <2>6, <2>7, <2>8, <2>9
<1> QED
  BY <1>2, <1>3, <1>4, <1>5 DEF CalmStep

(* What becomes of a resource: a user's edit, or its first claim.           *)
LEMMA CalmResources ==
    ASSUME TypeOK, HostsLast, Discovered, CalmStep, NEW o \in Objs
    PROVE  \/ objs'[o] = objs[o]
           \/ Spend("ops") /\ UNCHANGED th /\ objs'[o].host \in {None, objs[o].host}
           \/ \E t \in Threads : /\ ClaimObj(t) /\ th[t].cur.o = o
                                 /\ objs[o].host = None /\ objs'[o].host = th[t].wk
<1> USE DEF cluster
<1>0. objs \in [Objs -> ObjState] /\ objs[o] \in ObjState
  BY DEF TypeOK, ClusterOK
<1>1. ASSUME NEW t \in Threads, ClaimObj(t), objs'[o] # objs[o]
      PROVE  th[t].cur.o = o /\ objs[o].host = None /\ objs'[o].host = th[t].wk
  <2> DEFINE p == th[t].cur.o
  <2>1. /\ objs[p].host # th[t].wk
        /\ objs' = [objs EXCEPT ![p] = [[objs[p] EXCEPT !.host = th[t].wk] EXCEPT !.rv = objs[p].rv + 1]]
    BY <1>1 DEF ClaimObj, ClaimEffect, WriteObj
  <2>2. p = o
    BY <1>0, <1>1, <2>1
  <2>3. objs'[o].host = th[t].wk
    BY <1>0, <2>1, <2>2 DEF ObjState
  <2>4. objs[o].host \in {None, th[t].wk}
    BY <1>1, <2>2, BothClaimFree DEF ClaimFree, ClaimObj, At
  <2> QED
    BY <2>1, <2>2, <2>3, <2>4
<1>2. ASSUME NEW p \in Objs, UserWritesObj(p), objs'[o] # objs[o]
      PROVE  Spend("ops") /\ UNCHANGED th /\ objs'[o].host \in {None, objs[o].host}
  <2>1. Spend("ops") /\ UNCHANGED th
    BY <1>2 DEF UserWritesObj, UserOp
  <2>2. WriteObj(p, objs[p])
    BY <1>2 DEF UserWritesObj, UserOp, HostsLast, OnlyDiscovered, OnlyRequests, Discovered,
                Standing, AllLive
  <2>3. objs'[o].host = objs[o].host
    BY <1>0, <2>2 DEF WriteObj, ObjState
  <2> QED
    BY <2>1, <2>3
<1>3. CASE UNCHANGED objs
  BY <1>3
<1>4. CASE Environment
  BY <1>2, <1>3, <1>4 DEF Environment, ApplicationChanged, UserWritesWork, InstallKind
<1>5. CASE \E t \in Threads : \/ FindRoot(t) \/ CreateWork(t) \/ GetWork(t) \/ FetchObj(t) \/ ClaimObj(t)
                              \/ ClaimRefused(t) \/ UpdateWork(t) \/ UpdateRefused(t)
  BY <1>1, <1>3, <1>5 DEF FindRoot, CreateWork, CreateEffect, GetWork, FetchObj, ClaimRefused, UpdateWork,
     UpdateEffect, UpdateRefused
<1>6. CASE UNCHANGED vars \/ Start \/ AppStep \/ Deliver \/ GetWrapped \/ Relist
  BY <1>3, <1>6 DEF vars, Start, AppStep, BeginSync, ListKind, TakeItem, EndSync, LocateWork, Deliver,
     GetWrapped, Relist
<1> QED
  BY <1>4, <1>5, <1>6 DEF CalmStep

(* What becomes of a request that stays: users spend an operation on it.    *)
Open(w) == works[w].live /\ works[w].disc = "enabled"

LEMMA OpenWas ==
    ASSUME TypeOK, OnlyDiscovered, Standing, [Next]_vars, NEW w \in Works, works[w].live, Open(w)'
    PROVE  /\ Open(w) /\ works'[w].wraps = works[w].wraps
           /\ (works'[w].rv = works[w].rv) \/ (Spend("ops") /\ UNCHANGED <<objs, th>>)
<1>1. works'[w].disc = "enabled"
  BY DEF Open
<1>2. works'[w].wraps = works[w].wraps
  BY WorksKeep DEF OnlyDiscovered, Standing
<1>3. works[w] \in WorkState
  BY DEF TypeOK, HubOK
<1>4. \/ works'[w] = works[w]
      \/ works'[w] = [works[w] EXCEPT !.rv = @ + 1] /\ Spend("ops") /\ UNCHANGED <<objs, th>>
  BY <1>1, OldWorks DEF OnlyDiscovered
<1>5. [works[w] EXCEPT !.rv = @ + 1].disc = works[w].disc
  BY <1>3 DEF WorkState
<1> QED
  BY <1>1, <1>2, <1>4, <1>5 DEF Open

(* What the informer has seen changes with a notification.                  *)
LEMMA CalmSeen ==
    ASSUME TypeOK, CalmStep, NEW w \in Works
    PROVE  \/ seen'[w] = seen[w]
           \/ Deliver /\ Head(mwq).w = w /\ seen'[w] = Head(mwq).new
<1> USE DEF informer
<1>1. seen \in [Works -> WorkState]
  BY DEF TypeOK
<1>2. CASE Deliver
  BY <1>1, <1>2 DEF Deliver
<1>3. CASE UNCHANGED vars \/ Start \/ AppStep \/ GetWrapped \/ Relist \/ Environment
  BY <1>3 DEF vars, Start, AppStep, BeginSync, ListKind, TakeItem, EndSync, LocateWork, GetWrapped,
     Relist, Environment, ApplicationChanged, UserWritesObj, UserWritesWork, InstallKind
<1>4. CASE \E t \in Threads : \/ FindRoot(t) \/ CreateWork(t) \/ GetWork(t) \/ FetchObj(t) \/ ClaimObj(t)
                              \/ ClaimRefused(t) \/ UpdateWork(t) \/ UpdateRefused(t)
  BY <1>4 DEF FindRoot, CreateWork, GetWork, FetchObj, ClaimObj, ClaimRefused, UpdateWork, UpdateRefused
<1> QED
  BY <1>2, <1>3, <1>4 DEF CalmStep

(* A work that has a notification in the queue has one after a step as      *)
(* well, unless it was the one delivered.                                   *)
LEMMA QueueLasts ==
    ASSUME TypeOK, CalmStep, Up, NEW i \in DOMAIN mwq, ~(Deliver /\ i = 1)
    PROVE  \E j \in DOMAIN mwq' : mwq'[j].w = mwq[i].w
<1> USE DEF informer
<1>0. mwq \in Seq(Notifications) /\ i \in 1 .. Len(mwq)
  BY DEF TypeOK, HubOK
<1>1. CASE UNCHANGED mwq
  BY <1>1
<1>2. ASSUME NEW n, mwq' = Append(mwq, n)
      PROVE  \E j \in DOMAIN mwq' : mwq'[j].w = mwq[i].w
  <2>1. i \in DOMAIN mwq' /\ mwq'[i] = mwq[i]
    BY <1>0, <1>2
  <2> QED
    BY <2>1
<1>3. CASE Deliver
  <2>1. mwq # <<>> /\ mwq' = Tail(mwq) /\ i # 1
    BY <1>3 DEF Deliver
  <2>2. i - 1 \in DOMAIN mwq' /\ mwq'[i - 1] = mwq[i]
    BY <1>0, <2>1
  <2> QED
    BY <2>2
<1>4. CASE Relist
  <2>1. PICK k \in DOMAIN mwq, l \in DOMAIN mwq :
           k < l /\ mwq[k].w = mwq[l].w /\ mwq' = RemoveAt(mwq, k)
    BY <1>4 DEF Relist
  <2>2. k \in Nat /\ l \in Nat /\ k >= 1 /\ k < l /\ l <= Len(mwq)
    BY <1>0, <2>1
  <2>3. PICK m \in 1 .. Len(mwq) : m # k /\ mwq[m].w = mwq[i].w
    BY <1>0, <2>1, <2>2
  <2>4. /\ DOMAIN mwq' = 1 .. Len(mwq) - 1
        /\ \A j \in 1 .. Len(mwq) - 1 : mwq'[j] = IF j < k THEN mwq[j] ELSE mwq[j + 1]
    BY <1>0, <2>1, <2>2, RemoveAtEntries
  <2>5. CASE m < k
    <3>1. m \in DOMAIN mwq' /\ mwq'[m] = mwq[m]
      BY <1>0, <2>2, <2>4, <2>5
    <3> QED
      BY <2>3, <3>1
  <2>6. CASE m > k
    <3>1. m - 1 \in DOMAIN mwq' /\ mwq'[m - 1] = mwq[m]
      BY <1>0, <2>2, <2>4, <2>6
    <3> QED
      BY <2>3, <3>1
  <2> QED
    BY <2>2, <2>3, <2>5, <2>6
<1>5. ASSUME NEW w, NEW new, WriteWork(w, new)
      PROVE  UNCHANGED mwq \/ \E n : mwq' = Append(mwq, n)
  BY <1>5 DEF WriteWork
<1>6. CASE UNCHANGED vars \/ AppStep \/ GetWrapped
  BY <1>1, <1>6 DEF vars, AppStep, BeginSync, ListKind, TakeItem, EndSync, LocateWork, GetWrapped
<1>7. CASE Environment
  <2>1. CASE \E w \in Works : UserWritesWork(w)
    <3>1. PICK w \in Works : UserWritesWork(w)
      BY <2>1
    <3>2. \E new : WriteWork(w, new)
      BY <3>1, UserWorkWrites
    <3> QED
      BY <1>1, <1>2, <1>5, <3>2
  <2>2. CASE ~\E w \in Works : UserWritesWork(w)
    BY <1>1, <1>7, <2>2 DEF Environment, ApplicationChanged, UserWritesObj, InstallKind
  <2> QED
    BY <2>1, <2>2
<1>8. ASSUME NEW t \in Threads,
             \/ FindRoot(t) \/ CreateWork(t) \/ GetWork(t) \/ FetchObj(t) \/ ClaimObj(t)
             \/ ClaimRefused(t) \/ UpdateWork(t) \/ UpdateRefused(t)
      PROVE  UNCHANGED mwq \/ \E n : mwq' = Append(mwq, n)
  <2>1. CASE CreateWork(t)
    <3>1. \E w, new : WriteWork(w, new)
      BY <2>1 DEF CreateWork, CreateEffect
    <3> QED
      BY <1>5, <3>1
  <2>2. CASE UpdateWork(t)
    <3>1. \E w, new : WriteWork(w, new)
      BY <2>2 DEF UpdateWork, UpdateEffect
    <3> QED
      BY <1>5, <3>1
  <2>3. CASE FindRoot(t) \/ GetWork(t) \/ FetchObj(t) \/ ClaimObj(t) \/ ClaimRefused(t) \/ UpdateRefused(t)
    BY <2>3 DEF FindRoot, GetWork, FetchObj, ClaimObj, ClaimEffect, ClaimRefused, UpdateRefused
  <2> QED
    BY <1>8, <2>1, <2>2, <2>3
<1>9. ~Start
  BY DEF Start
<1> QED
  BY <1>1, <1>2, <1>3, <1>4, <1>6, <1>7, <1>8, <1>9 DEF CalmStep
-----------------------------------------------------------------------------
(* A handler ran out of attempts on a request, and by then users had got in *)
(* its way once for each of them.                                           *)
Overrun(w) == GivenUp(w) /\ Provocations >= RetrySteps

(* Where an open request is: the listener has a notification of it that it  *)
(* will act upon; once it has, it hosts its resource or is about to; and    *)
(* then a handler is at work that is going to mark it completed; unless a   *)
(* handler ran out of attempts on it.                                       *)
Heard(w) ==
    /\ ~seen[w].live => \E i \in DOMAIN mwq : mwq[i].w = w
    /\ \A i \in DOMAIN mwq : mwq[i].w = w => mwq[i].new.live /\ mwq[i].new.disc = "enabled"
Tried(w) ==
    seen[w].live =>
        \/ Overrun(w)
        \/ objs[works[w].wraps].host = w
        \/ th[Mw].wk = w /\ th[Mw].pc \in {"wrapped", "walk", "get", "fetch", "claim"}
Finishing(t, w) ==
    LET me == th[t] IN
    /\ me.wk = w
    /\ \/ me.pc = "update"
       \/ me.pc \in {"get", "fetch", "claim"} /\ (me.prep \/ me.cur.host = None)

(* Conflicts are paid for: each by an operation of a user, the one to come  *)
(* of a stale read included.  The first claim of the resource makes the     *)
(* other handler conflict too, but then the claimant is the one to finish.  *)
Routine == {"get", "fetch", "claim", "update"}
Stale(t) ==
    LET me == th[t] IN
    \/ me.pc \in {"fetch", "claim", "update"} /\ me.got.rv # works[me.wk].rv
    \/ me.pc = "claim" /\ me.fet # objs[me.cur.o].rv
Paid(t) == th[t].tries + (IF Stale(t) THEN 1 ELSE 0) <= MaxOps - left.ops
Provoked(t) ==
    (th[t].pc \in Routine /\ Open(th[t].wk) /\ objs[th[t].cur.o].host = None) => Paid(t)
Finished(w) ==
    objs[works[w].wraps].host = w => Overrun(w) \/ \E t \in Threads : Finishing(t, w) /\ Paid(t)

Quiet == ~Up => \A w \in Works : ~works[w].live
Requested == \A w \in Works : Open(w) => Heard(w) /\ Tried(w) /\ Finished(w)
UnderWay == Quiet /\ Requested /\ \A t \in Threads : Provoked(t)
Serving == Discovered /\ SeenStands /\ HandlersRead /\ Bounded

(* What a handler in the routine has at hand.                               *)
LEMMA InRoutine ==
    ASSUME TypeOK, Standing, NEW t \in Threads, th[t].pc \in Routine
    PROVE  /\ th[t].wk \in Works /\ th[t].wk # None /\ th[t].cur.o \in Objs
           /\ works[th[t].wk].live /\ works[th[t].wk].wraps = th[t].cur.o
<1>1. th[t].wk \in Works /\ th[t].pc \in Holding
  BY Setting DEF HandlerOK, Routine, Holding
<1>2. th[t].wk # None
  BY <1>1, ConstantsAssumption
<1> QED
  BY <1>1, <1>2, AtHand

(* A handler whose conflicts are paid for runs out of attempts only when    *)
(* users have got in its way once for each.                                 *)
LEMMA NoGivingUp ==
    ASSUME TypeOK, Bounded, [Next]_vars, NEW t \in Threads, Paid(t), GivesUp(t),
           NEW w \in Works, th[t].wk = w, th[t].cur.o \in Objs
    PROVE  Overrun(w)'
<1>1. Stale(t)
  BY DEF GivesUp, Stale
<1>2. th[t].tries + 1 <= MaxOps - left.ops
  BY <1>1 DEF Paid
<1>3. /\ th[t].tries \in Nat /\ left.ops \in Nat /\ MaxOps \in Nat /\ RetrySteps \in Nat
      /\ left'.ops \in Nat /\ left'.ops <= left.ops
  BY ConstantsAssumption, CalmLasts DEF TypeOK, Locals, HandlersOK
<1>4. Provocations' >= RetrySteps
  BY <1>2, <1>3 DEF GivesUp, Provocations
<1>5. <<w, th[t].cur.o, "gaveUp">> \in history'
  BY DEF GivesUp, GiveUp
<1> QED
  BY <1>4, <1>5 DEF Overrun, GivenUp

LEMMA OverrunStays ==
    ASSUME TypeOK, Bounded, [Next]_vars, NEW w \in Works, Overrun(w)
    PROVE  Overrun(w)'
<1>1. left.ops \in Nat /\ MaxOps \in Nat /\ RetrySteps \in Nat /\ left'.ops \in Nat /\ left'.ops <= left.ops
  BY ConstantsAssumption, CalmLasts DEF TypeOK
<1>2. Provocations' >= RetrySteps
  BY <1>1 DEF Overrun, Provocations
<1>3. GivenUp(w)'
  BY HistoryGrows DEF Overrun, GivenUp
<1> QED
  BY <1>2, <1>3 DEF Overrun

(* A new work is not hosting anything yet, and has not been seen.           *)
LEMMA NewRequest ==
    ASSUME TypeOK, HostsLast, Serving, CalmStep, [Next]_vars,
           NEW w \in Works, ~works[w].live, works'[w].live
    PROVE  /\ ~seen'[w].live
           /\ objs'[works'[w].wraps].host # w
           /\ mwq' = Append(mwq, [w |-> w, new |-> works'[w]])
           /\ \A i \in DOMAIN mwq : mwq[i].w # w
<1>1. /\ At(App, "create") /\ CreateEffect(App) /\ Done(App) /\ th[App].cur.o \in Objs
      /\ works'[w].wraps = th[App].cur.o
      /\ mwq' = Append(mwq, [w |-> w, new |-> works'[w]])
  BY NewWorks DEF HostsLast, OnlyDiscovered, Serving, Discovered
<1>2. UNCHANGED objs
  BY <1>1 DEF CreateEffect, cluster
<1>3. objs'[works'[w].wraps].host # w
  <2>1. objs[th[App].cur.o].host # w
    BY <1>1, ConstantsAssumption DEF Serving, Discovered, OwnHosts
  <2> QED
    BY <1>1, <1>2, <2>1
<1>4. \A i \in DOMAIN mwq : mwq[i].w # w
  BY DEF Serving, Discovered, Standing, QueueStands, Announced
<1>5. ~seen'[w].live
  <2>1. ~Deliver
    BY <1>1, Setting DEF Deliver, Done, At, HandlerOK, Serving, Discovered, Threads, App, Mw, TypeOK,
                         HandlersOK, CreateEffect, WriteWork
  <2> QED
    BY <2>1, CalmSeen DEF Serving, SeenStands
<1> QED
  BY <1>1, <1>3, <1>4, <1>5

LEMMA HeardStep ==
    ASSUME TypeOK, HostsLast, Serving, UnderWay, CalmStep, [Next]_vars, NEW w \in Works, Open(w)'
    PROVE  Heard(w)'
<1>0. /\ OnlyRequests /\ OnlyDiscovered /\ Standing /\ WorksStand /\ HandlersStand
      /\ mwq \in Seq(Notifications)
  BY DEF HostsLast, OnlyDiscovered, Serving, Discovered, Standing, TypeOK, HubOK
<1>1. ASSUME ~works[w].live
      PROVE  Heard(w)'
  <2> DEFINE n == [w |-> w, new |-> works'[w]]
  <2>1. mwq' = Append(mwq, n) /\ \A i \in DOMAIN mwq : mwq[i].w # w
    BY <1>1, NewRequest DEF Open
  <2>2. n.w = w /\ n.new.live /\ n.new.disc = "enabled"
    BY DEF Open
  <2> HIDE DEF n
  <2>3. /\ DOMAIN mwq' = 1 .. Len(mwq) + 1 /\ mwq'[Len(mwq) + 1] = n
        /\ \A i \in 1 .. Len(mwq) : mwq'[i] = mwq[i] /\ i \in DOMAIN mwq
    BY <1>0, <2>1
  <2>4. \A i \in DOMAIN mwq' : mwq'[i].w = w => mwq'[i] = n
    BY <1>0, <2>1, <2>3
  <2>5. Len(mwq) + 1 \in DOMAIN mwq'
    BY <1>0, <2>3
  <2> QED
    BY <2>2, <2>3, <2>4, <2>5 DEF Heard
<1>2. ASSUME works[w].live
      PROVE  Heard(w)'
  <2>1. Open(w) /\ Heard(w)
    BY <1>0, <1>2, OpenWas DEF UnderWay, Requested
  <2>2. Up
    BY <1>2 DEF UnderWay, Quiet
  <2>3. ASSUME NEW i \in DOMAIN mwq', mwq'[i].w = w
        PROVE  mwq'[i].new.live /\ mwq'[i].new.disc = "enabled"
    <3>1. CASE Old(mwq'[i])
      BY <2>1, <2>3, <3>1 DEF Old, Heard
    <3>2. CASE Fresh(mwq'[i])
      BY <1>0, <2>3, <3>2, AnnouncedLive DEF Fresh, Open
    <3> QED
      BY <3>1, <3>2, QueueWriters
  <2>4. ASSUME Deliver, Head(mwq).w = w
        PROVE  seen'[w].live
    <3>1. mwq # <<>> /\ seen' = [seen EXCEPT ![Head(mwq).w] = Head(mwq).new]
      BY <2>4 DEF Deliver
    <3>2. 1 \in DOMAIN mwq /\ Head(mwq) = mwq[1]
      BY <1>0, <3>1
    <3> QED
      BY <2>1, <2>4, <3>1, <3>2 DEF Heard, TypeOK
  <2>5. ASSUME ~seen'[w].live
        PROVE  \E i \in DOMAIN mwq' : mwq'[i].w = w
    <3>1. ~seen[w].live /\ ~(Deliver /\ Head(mwq).w = w)
      BY <2>4, <2>5, CalmSeen
    <3>2. PICK i \in DOMAIN mwq : mwq[i].w = w
      BY <2>1, <3>1 DEF Heard
    <3>3. ~(Deliver /\ i = 1)
      BY <1>0, <3>1, <3>2
    <3> QED
      BY <2>2, <3>2, <3>3, QueueLasts
  <2> QED
    BY <2>3, <2>5 DEF Heard
<1> QED
  BY <1>1, <1>2

LEMMA TriedStep ==
    ASSUME TypeOK, HostsLast, Serving, UnderWay, CalmStep, [Next]_vars, NEW w \in Works, Open(w)'
    PROVE  Tried(w)'
<1>0. /\ OnlyRequests /\ OnlyDiscovered /\ Standing /\ Discovered /\ mwq \in Seq(Notifications)
      /\ App \in Threads /\ Mw \in Threads /\ Mw # App
      /\ th \in [Threads -> Locals] /\ th[Mw] \in Locals /\ HandlerOK(Mw, th[Mw])
  BY Setting DEF HostsLast, OnlyDiscovered, Serving, Discovered, TypeOK, HubOK, HandlersOK,
                 Threads, App, Mw
<1> SUFFICES ASSUME seen'[w].live, ~Overrun(w)'
             PROVE  \/ objs'[works'[w].wraps].host = w
                    \/ th'[Mw].wk = w /\ th'[Mw].pc \in {"wrapped", "walk", "get", "fetch", "claim"}
  BY DEF Tried
<1>1. works[w].live
  BY NewRequest DEF Open
<1>2. Open(w) /\ Heard(w) /\ Tried(w) /\ ~Overrun(w) /\ works'[w].wraps = works[w].wraps
  BY <1>0, <1>1, OpenWas, OverrunStays DEF UnderWay, Requested, Serving
<1>3. works[w].wraps \in Objs /\ w # None
  BY <1>0, <1>1, ConstantsAssumption DEF Standing, WorksStand, Stands
<1>4. CASE objs[works[w].wraps].host = w
  BY <1>2, <1>3, <1>4, HostsKept DEF Serving
<1>5. CASE ~seen[w].live
  <2>1. Deliver /\ Head(mwq).w = w /\ seen'[w] = Head(mwq).new
    BY <1>5, CalmSeen
  <2>2. 1 \in DOMAIN mwq /\ Head(mwq) = mwq[1]
    BY <1>0, <2>1 DEF Deliver
  <2>3. Relevant(seen[w], Head(mwq).new)
    BY <1>2, <1>5, <2>1, <2>2 DEF Heard, Relevant
  <2>4. th'[Mw] = [Idle EXCEPT !.pc = "wrapped", !.wk = w, !.cur.o = Head(mwq).new.wraps]
    BY <1>0, <2>1, <2>3 DEF Deliver
  <2>5. th'[Mw].pc = "wrapped" /\ th'[Mw].wk = w
    BY <2>4 DEF Idle
  <2> QED
    BY <2>5
<1>6. CASE th[Mw].wk = w /\ th[Mw].pc \in {"wrapped", "walk", "get", "fetch", "claim"}
           /\ objs[works[w].wraps].host # w
  <2>0. th[Mw].pc \in Holding /\ th[Mw].cur.o = works[w].wraps
    BY <1>0, <1>3, <1>6, AtHand DEF Holding
  <2>1. objs[works[w].wraps].host = None
    BY <1>1, <1>6, HostIsOwn DEF Serving
  <2>2. CASE th'[Mw] = th[Mw]
    BY <1>6, <2>2
  <2>3. ASSUME th'[Mw] # th[Mw], th'[Mw].pc \in {"idle", "list"}
        PROVE  FALSE
    <3>1. ~Leaves(Mw)
      <4>1. th[Mw].pc = "get" /\ th[Mw].cur.host # None => objs[th[Mw].cur.o].host = th[Mw].cur.host
        BY <1>0 DEF Serving, HandlersRead
      <4> QED
        BY <2>0, <2>1, <4>1 DEF Leaves, HostedElsewhere
    <3>2. ~NothingToDo(Mw)
      BY <1>3, <1>6, <2>0, <2>1 DEF NothingToDo, Unchanged
    <3>3. ~GivesUp(Mw)
      <4>1. GivesUp(Mw) => Paid(Mw)
        BY <1>0, <1>2, <1>6, <2>0, <2>1 DEF GivesUp, UnderWay, Provoked, Routine
      <4> QED
        BY <1>0, <1>3, <1>6, <2>0, <4>1, NoGivingUp DEF Serving
    <3> QED
      BY <1>0, <1>6, <2>3, <3>1, <3>2, <3>3, HandlerFinishes DEF Completes
  <2>4. CASE Claims(Mw)
    <3> DEFINE o == works[w].wraps
    <3>1. objs' = [objs EXCEPT ![o] = [[objs[o] EXCEPT !.host = w] EXCEPT !.rv = objs[o].rv + 1]]
      BY <1>6, <2>0, <2>4 DEF Claims, ClaimEffect, WriteObj
    <3>2. objs \in [Objs -> ObjState] /\ objs[o] \in ObjState
      BY <1>3 DEF TypeOK, ClusterOK
    <3> HIDE DEF o
    <3>3. o \in Objs
      BY <1>3 DEF o
    <3>4. objs'[o].host = w
      BY <3>1, <3>2, <3>3 DEF ObjState
    <3> QED
      BY <1>2, <3>4 DEF o
  <2>5. CASE Takes(Mw) \/ Locates(Mw) \/ Receives(Mw) \/ RetriesUpdate(Mw)
    BY <1>0, <1>6, <2>5 DEF Takes, Locates, Receives, RetriesUpdate
  <2>6. CASE LooksUp(Mw) \/ Climbed(Mw) \/ Reads(Mw) \/ Fetches(Mw) \/ RetriesClaim(Mw)
    BY <1>0, <1>3, <1>6, <2>6 DEF LooksUp, Climbed, Reads, Fetches, RetriesClaim, Locals
  <2> QED
    BY <1>0, <2>2, <2>3, <2>4, <2>5, <2>6, HandlerAdvances
<1> QED
  BY <1>2, <1>4, <1>5, <1>6 DEF Tried

(* What a handler in the routine has paid for stays paid, until the other   *)
(* handler is the first to claim its resource.                              *)
LEMMA PaidStep ==
    ASSUME TypeOK, HostsLast, Serving, CalmStep, [Next]_vars, NEW t \in Threads,
           th[t].pc \in Routine, Paid(t),
           th'[t].pc \in Routine, th'[t].wk = th[t].wk,
           works'[th[t].wk].live, works'[th[t].wk].disc = "enabled",
           objs'[th[t].cur.o].host = objs[th[t].cur.o].host \/ Claims(t)
    PROVE  Paid(t)'
<1> DEFINE room == MaxOps - left.ops
           grown == MaxOps - left'.ops
           cost == th[t].tries + (IF Stale(t) THEN 1 ELSE 0)
           w == th[t].wk
           o == th[t].cur.o
<1>0. /\ OnlyRequests /\ OnlyDiscovered /\ Standing /\ Discovered
      /\ th[t] \in Locals /\ HandlerOK(t, th[t]) /\ th[t].tries \in Nat
      /\ MaxOps \in Nat /\ left.ops \in Nat /\ left'.ops \in Nat
      /\ left'.ops <= left.ops /\ left.ops <= MaxOps
      /\ Spend("ops") => left'.ops = left.ops - 1
  BY Setting, CalmLasts, ConstantsAssumption
     DEF HostsLast, OnlyDiscovered, Serving, Discovered, TypeOK, Bounded, Locals
<1>1. room <= grown /\ cost <= room /\ (Spend("ops") => room + 1 <= grown)
  BY <1>0 DEF Paid
<1> SUFFICES th'[t].tries + (IF Stale(t)' THEN 1 ELSE 0) <= grown
  BY DEF Paid
<1>2. /\ w \in Works /\ o \in Objs
      /\ works'[w].rv = works[w].rv \/ Spend("ops")
  <2>1. w \in Works /\ w # None /\ o \in Objs /\ works[w].live
    BY <1>0, InRoutine
  <2>2. PICK v \in Works : v = w /\ works[v].live
    BY <2>1
  <2>3. Open(v)'
    BY <2>2 DEF Open
  <2>4. works'[v].rv = works[v].rv \/ Spend("ops")
    BY <1>0, <2>2, <2>3, OpenWas
  <2> QED
    BY <2>1, <2>2, <2>4
<1>4. CASE th'[t] = th[t]
  <2>1. ~Claims(t)
    BY <1>0, <1>4 DEF Claims, Locals
  <2>2. CASE Stale(t)' => Stale(t)
    BY <1>0, <1>1, <1>4, <2>2
  <2>3. CASE Stale(t)' /\ ~Stale(t)
    <3>1. works'[w].rv # works[w].rv \/ objs'[o].rv # objs[o].rv
      BY <1>4, <2>3 DEF Stale
    <3>2. Spend("ops")
      <4>1. ASSUME NEW u \in Threads, ClaimObj(u), objs'[o].host = th[u].wk
            PROVE  objs'[o].host # None
        BY <1>0, <4>1, InRoutine DEF ClaimObj, At, Routine
      <4> QED
        BY <1>2, <2>1, <3>1, <4>1, CalmResources DEF Serving
    <3> QED
      BY <1>0, <1>1, <1>4, <2>3, <3>2
  <2> QED
    BY <2>2, <2>3
<1>6. CASE Reads(t) /\ UNCHANGED <<objs, works>>
  <2>1. /\ th'[t].pc = "fetch" /\ th'[t].got = works[w]
        /\ th'[t].cur = th[t].cur /\ th'[t].tries = th[t].tries
    BY <1>0, <1>6 DEF Reads, Locals
  <2>2. ~Stale(t)'
    BY <1>6, <2>1 DEF Stale
  <2> QED
    BY <1>0, <1>1, <2>1, <2>2
<1>7. CASE Fetches(t) /\ UNCHANGED <<objs, works>>
  <2>1. /\ th[t].pc = "fetch" /\ th'[t].pc = "claim" /\ th'[t].fet = objs[o].rv
        /\ th'[t].got = th[t].got
        /\ th'[t].cur = th[t].cur /\ th'[t].tries = th[t].tries
    BY <1>0, <1>7 DEF Fetches, Locals
  <2>2. Stale(t)' => Stale(t)
    BY <1>7, <2>1 DEF Stale
  <2> QED
    BY <1>0, <1>1, <2>1, <2>2
<1>8. CASE Claims(t)
  <2>1. /\ th[t].pc = "claim" /\ th'[t].pc = "update" /\ th'[t].got = th[t].got
        /\ th'[t].cur = th[t].cur /\ th'[t].tries = th[t].tries
        /\ UNCHANGED works
    BY <1>0, <1>8 DEF Claims, ClaimEffect, Locals
  <2>2. Stale(t)' => Stale(t)
    BY <2>1 DEF Stale
  <2> QED
    BY <1>0, <1>1, <2>1, <2>2
<1>9. CASE RetriesClaim(t) \/ RetriesUpdate(t)
  <2>1. /\ th'[t].pc = "get" /\ th'[t].tries = th[t].tries + 1
        /\ th'[t].cur = th[t].cur
    BY <1>0, <1>9 DEF RetriesClaim, RetriesUpdate, Locals
  <2>2. Stale(t) /\ ~Stale(t)'
    BY <1>9, <2>1 DEF RetriesClaim, RetriesUpdate, Stale
  <2> QED
    BY <1>0, <1>1, <2>1, <2>2
<1>10. ~(Takes(t) \/ Locates(t) \/ Receives(t) \/ LooksUp(t) \/ Climbed(t))
  BY DEF Takes, Locates, Receives, LooksUp, Climbed, Routine
<1>11. th'[t].pc \notin {"idle", "list"}
  BY DEF Routine
<1> HIDE DEF room, cost
<1> QED
  BY <1>0, <1>4, <1>6, <1>7, <1>8, <1>9, <1>10, <1>11, HandlerAdvances

LEMMA ProvokedStep ==
    ASSUME TypeOK, HostsLast, Serving, UnderWay, CalmStep, [Next]_vars, NEW t \in Threads
    PROVE  Provoked(t)'
<1> SUFFICES ASSUME th'[t].pc \in Routine, objs'[th'[t].cur.o].host = None,
                    works'[th'[t].wk].live, works'[th'[t].wk].disc = "enabled"
             PROVE  Paid(t)'
  BY DEF Provoked, Open
<1> DEFINE w == th[t].wk
           o == th[t].cur.o
<1>0. /\ OnlyRequests /\ OnlyDiscovered /\ Standing /\ Discovered
      /\ th[t] \in Locals /\ HandlerOK(t, th[t])
      /\ MaxOps \in Nat /\ left.ops \in Nat /\ left'.ops \in Nat
      /\ left'.ops <= left.ops /\ left.ops <= MaxOps
  BY Setting, CalmLasts, ConstantsAssumption
     DEF HostsLast, OnlyDiscovered, Serving, Discovered, TypeOK, Bounded
<1>1. ASSUME th[t].pc \in Routine, th'[t].wk = w, th'[t].cur = th[t].cur
      PROVE  Paid(t)'
  <2>1. w \in Works /\ w # None /\ o \in Objs /\ works[w].live
    BY <1>0, <1>1, InRoutine
  <2>2. PICK v \in Works : v = w /\ works[v].live
    BY <2>1
  <2>3. Open(v)'
    BY <1>1, <2>2 DEF Open
  <2>4. Open(w)
    BY <1>0, <2>2, <2>3, OpenWas
  <2>5. objs[o].host = None /\ objs'[o].host = None
    BY <1>1, <2>1, HostsKept DEF Serving
  <2>6. Paid(t)
    BY <1>1, <2>4, <2>5 DEF UnderWay, Provoked
  <2> QED
    BY <1>1, <2>5, <2>6, PaidStep
<1>2. CASE Climbed(t)
  <2>1. th[t].pc = "walk" /\ th'[t].pc = "get" /\ th'[t].tries = th[t].tries
    BY <1>0, <1>2 DEF Climbed, Locals, Routine
  <2>2. th'[t].tries = 0 /\ ~Stale(t)'
    BY <1>0, <2>1 DEF Serving, HandlersRead, HandlerOK, Stale
  <2>3. 0 <= MaxOps - left'.ops
    BY <1>0
  <2> QED
    BY <2>2, <2>3 DEF Paid
<1>3. CASE Reads(t) \/ Fetches(t) \/ Claims(t) \/ RetriesClaim(t) \/ RetriesUpdate(t)
  <2>1. th[t].pc \in Routine /\ th'[t].wk = w /\ th'[t].cur = th[t].cur
    BY <1>0, <1>3 DEF Reads, Fetches, Claims, RetriesClaim, RetriesUpdate, Routine, Locals
  <2> QED
    BY <1>1, <2>1
<1>4. CASE th'[t] = th[t]
  BY <1>1, <1>4
<1>5. ~(Takes(t) \/ Locates(t) \/ Receives(t) \/ LooksUp(t))
  BY <1>0 DEF Takes, Locates, Receives, LooksUp, Idle, Routine, Locals
<1>6. th'[t].pc \notin {"idle", "list"}
  BY DEF Routine
<1> QED
  BY <1>0, <1>2, <1>3, <1>4, <1>5, <1>6, HandlerAdvances

LEMMA FinishedStep ==
    ASSUME TypeOK, HostsLast, Serving, UnderWay, CalmStep, [Next]_vars, NEW w \in Works, Open(w)'
    PROVE  Finished(w)'
<1>0. /\ OnlyRequests /\ OnlyDiscovered /\ Standing /\ Discovered /\ th \in [Threads -> Locals]
      /\ \A t \in Threads : th[t] \in Locals /\ HandlerOK(t, th[t])
  BY Setting DEF HostsLast, OnlyDiscovered, Serving, Discovered, TypeOK, HandlersOK
<1> SUFFICES ASSUME objs'[works'[w].wraps].host = w, ~Overrun(w)'
             PROVE  \E t \in Threads : Finishing(t, w)' /\ Paid(t)'
  BY DEF Finished
<1>1. works[w].live
  BY NewRequest DEF Open
<1>2. Open(w) /\ Finished(w) /\ ~Overrun(w) /\ works'[w].wraps = works[w].wraps
  BY <1>0, <1>1, OpenWas, OverrunStays DEF UnderWay, Requested, Serving
<1> DEFINE o == works[w].wraps
<1>3. o \in Objs /\ w # None
  BY <1>0, <1>1, ConstantsAssumption DEF Standing, WorksStand, Stands
<1>4. CASE objs[o].host # w
  <2>1. objs[o].host = None
    BY <1>1, <1>4, HostIsOwn DEF Serving
  <2>2. PICK t \in Threads : ClaimObj(t) /\ th[t].cur.o = o /\ objs'[o].host = th[t].wk
    BY <1>2, <1>3, <2>1, CalmResources DEF Serving
  <2>3. th[t].wk = w /\ ~Unchanged(t)
    BY <1>2, <1>4, <2>2 DEF Unchanged
  <2>4. th[t].pc = "claim" /\ th'[t].pc = "update" /\ th'[t].wk = w /\ Claims(t)
    BY <1>0, <2>2, <2>3 DEF ClaimObj, At, Goto, Claims, Locals
  <2>5. Paid(t)
    BY <1>2, <2>1, <2>2, <2>3, <2>4 DEF UnderWay, Provoked, Routine
  <2>6. Paid(t)'
    <3>1. works'[w].live /\ works'[w].disc = "enabled"
      BY DEF Open
    <3> QED
      BY <2>3, <2>4, <2>5, <3>1, PaidStep DEF Routine
  <2> QED
    BY <2>4, <2>6 DEF Finishing
<1>5. ASSUME objs[o].host = w, NEW t \in Threads, Finishing(t, w), Paid(t)
      PROVE  Finishing(t, w)'
  <2>0. th[t].wk = w /\ th[t].pc \in Routine /\ th[t].cur.o = o
    <3>1. th[t].wk = w /\ th[t].pc \in Routine
      BY <1>5 DEF Finishing, Routine
    <3> QED
      BY <1>0, <3>1, InRoutine
  <2>1. CASE th'[t] = th[t]
    BY <1>5, <2>1 DEF Finishing
  <2>2. ASSUME th'[t] # th[t], th'[t].pc \in {"idle", "list"}
        PROVE  FALSE
    <3>1. ~Leaves(t)
      <4>1. th[t].pc = "get" /\ th[t].cur.host # None => objs[th[t].cur.o].host = th[t].cur.host
        BY DEF Serving, HandlersRead
      <4> QED
        BY <1>5, <2>0, <4>1 DEF Leaves, HostedElsewhere
    <3>2. ~NothingToDo(t)
      <4> SUFFICES ASSUME th[t].pc = "claim", th[t].cur = Snapshot(th[t].cur.o), ~th[t].prep
                   PROVE  FALSE
        BY DEF NothingToDo, Unchanged
      <4>1. th[t].cur.host = None
        BY <1>5 DEF Finishing
      <4>2. th[t].cur.host = objs[o].host
        BY <2>0 DEF Snapshot
      <4> QED
        BY <1>3, <1>5, <4>1, <4>2
    <3>3. ~Completes(t)
      <4> SUFFICES ASSUME UpdateEffect(t) PROVE FALSE
        BY DEF Completes
      <4>1. works' = [works EXCEPT ![w] = [[works[w] EXCEPT !.wraps = o, !.disc = "completed"]
                                              EXCEPT !.rv = works[w].rv + 1]]
        BY <2>0 DEF UpdateEffect, WriteWork
      <4>2. works'[w].disc = "completed"
        BY <4>1 DEF TypeOK, HubOK, WorkState
      <4> QED
        BY <4>2 DEF Open
    <3>4. ~GivesUp(t)
      BY <1>3, <1>5, <2>0, NoGivingUp DEF Serving
    <3> QED
      BY <1>0, <2>0, <2>2, <3>1, <3>2, <3>3, <3>4, HandlerFinishes DEF Routine
  <2>3. CASE Claims(t)
    <3>1. th'[t].pc = "update" /\ th'[t].wk = w
      BY <1>0, <2>0, <2>3 DEF Claims, Locals
    <3> QED
      BY <3>1 DEF Finishing
  <2>4. CASE Takes(t) \/ Locates(t) \/ Receives(t) \/ LooksUp(t) \/ Climbed(t)
    BY <2>0, <2>4 DEF Takes, Locates, Receives, LooksUp, Climbed, Routine
  <2>5. CASE Reads(t) \/ Fetches(t) \/ RetriesClaim(t)
    <3>1. /\ th[t].pc \in {"get", "fetch", "claim"} /\ th'[t].pc \in {"get", "fetch", "claim"}
          /\ th'[t].wk = w /\ th'[t].cur = th[t].cur /\ th'[t].prep = th[t].prep
      BY <1>0, <2>0, <2>5 DEF Reads, Fetches, RetriesClaim, Locals
    <3> QED
      BY <1>5, <3>1 DEF Finishing
  <2>6. CASE RetriesUpdate(t)
    <3>1. th'[t].pc = "get" /\ th'[t].wk = w /\ th'[t].prep = TRUE
      BY <1>0, <2>0, <2>6 DEF RetriesUpdate, Locals
    <3> QED
      BY <3>1 DEF Finishing
  <2> QED
    BY <1>0, <2>1, <2>2, <2>3, <2>4, <2>5, <2>6, HandlerAdvances
<1>6. ASSUME objs[o].host = w, NEW t \in Threads, Finishing(t, w), Paid(t)
      PROVE  Paid(t)'
  <2>1. th[t].wk = w /\ th[t].pc \in Routine
    BY <1>6 DEF Finishing, Routine
  <2>2. th[t].cur.o = o
    BY <1>0, <2>1, InRoutine
  <2>3. th'[t].wk = w /\ th'[t].pc \in Routine
    <3>1. Finishing(t, w)'
      BY <1>5, <1>6
    <3> QED
      BY <3>1 DEF Finishing, Routine
  <2>4. objs'[o].host = objs[o].host
    BY <1>2, <1>6
  <2>5. works'[w].live /\ works'[w].disc = "enabled"
    BY DEF Open
  <2> QED
    BY <1>6, <2>1, <2>2, <2>3, <2>4, <2>5, PaidStep
<1> QED
  BY <1>2, <1>4, <1>5, <1>6 DEF Finished

(* A process that was never started has no works to listen for.             *)
LEMMA QuietStep ==
    ASSUME TypeOK, HostsLast, Serving, UnderWay, CalmStep, [Next]_vars
    PROVE  Quiet'
<1> SUFFICES ASSUME ~Up', NEW w \in Works, works'[w].live PROVE FALSE
  BY DEF Quiet
<1>1. ~Up
  <2>1. UNCHANGED proc
    BY DEF CalmStep, vars, Start, AppStep, BeginSync, ListKind, TakeItem, EndSync, LocateWork, Deliver,
       GetWrapped, Relist, Environment, ApplicationChanged, UserWritesObj, UserWritesWork, InstallKind,
       FindRoot, CreateWork, GetWork, FetchObj, ClaimObj, ClaimRefused, UpdateWork, UpdateRefused, Up
  <2> QED
    BY <2>1 DEF Up
<1>2. ~works[w].live
  BY <1>1 DEF UnderWay, Quiet
<1> QED
  BY <1>1, <1>2, NewWorks DEF HostsLast, OnlyDiscovered, Serving, Discovered, At

(* All requests stay under way for as long as no call fails.                *)
LEMMA UnderWayStep ==
    ASSUME TypeOK, HostsLast, Serving, Calm => UnderWay, [Next]_vars
    PROVE  (Calm => UnderWay)'
<1> SUFFICES ASSUME Calm' PROVE UnderWay'
  OBVIOUS
<1>1. Calm
  BY CalmLasts DEF Serving
<1>2. CalmStep
  BY <1>1, CalmSteps DEF Serving
<1>3. Quiet'
  BY <1>1, <1>2, QuietStep
<1>4. Requested'
  BY <1>1, <1>2, HeardStep, TriedStep, FinishedStep DEF Requested
<1>5. \A t \in Threads : Provoked(t)'
  BY <1>1, <1>2, ProvokedStep
<1> QED
  BY <1>3, <1>4, <1>5 DEF UnderWay

(* When both listeners have come to rest, no call has failed and the        *)
(* process has not been stopped, every request is settled: completed with   *)
(* its resource hosted, or withdrawn.  The one exception is a request that  *)
(* a handler ran out of attempts on, and that takes as many operations of   *)
(* users as there are attempts: however the two handlers get in each        *)
(* other's way, and whatever notifications are skipped, they do not use     *)
(* the attempts up by themselves.                                           *)
THEOREM RequestsAreSettled ==
    ASSUME HostsLast, InitObjs = Objs, InitKinds = Kinds
    PROVE  Spec => []RequestsSettled
<1>1. Init => SeenStands /\ HandlersRead /\ Bounded /\ (Calm => UnderWay)
  <2> SUFFICES ASSUME Init PROVE SeenStands /\ HandlersRead /\ Bounded /\ UnderWay
    OBVIOUS
  <2>1. /\ seen = [w \in Works |-> NoWork] /\ works = [w \in Works |-> NoWork]
        /\ \A t \in Threads : th[t].pc = "idle"
    BY DEF Init, Idle
  <2>2. Bounded
    BY ConstantsAssumption DEF Init, Bounded
  <2>3. SeenStands /\ HandlersRead
    BY <2>1 DEF SeenStands, HandlersRead, NoWork
  <2>4. UnderWay
    BY <2>1 DEF UnderWay, Quiet, Requested, Open, Provoked, Routine, NoWork
  <2> QED
    BY <2>2, <2>3, <2>4
<1>2. TypeOK /\ Discovered /\ SeenStands /\ HandlersRead /\ Bounded /\ (Calm => UnderWay) /\ [Next]_vars
         => SeenStands' /\ HandlersRead' /\ Bounded' /\ (Calm => UnderWay)'
  <2> SUFFICES ASSUME TypeOK, Serving, Calm => UnderWay, [Next]_vars
               PROVE  SeenStands' /\ HandlersRead' /\ Bounded' /\ (Calm => UnderWay)'
    BY DEF Serving
  <2>1. SeenStands'
    BY SeenStandsStep DEF HostsLast, Serving, Discovered
  <2>2. HandlersRead'
    BY HandlersReadStep DEF Serving
  <2>3. Bounded'
    BY CalmLasts DEF Serving
  <2> QED
    BY <2>1, <2>2, <2>3, UnderWayStep
<1>3. (Calm => UnderWay) => RequestsSettled
  <2> SUFFICES ASSUME UnderWay, AtRest, NEW w \in Works, Open(w), ~Overrun(w)
               PROVE  FALSE
    BY DEF RequestsSettled, Calm, Settled, Open, Overrun
  <2>1. mwq = <<>> /\ \A t \in Threads : th[t].pc = "idle"
    BY DEF AtRest
  <2>2. Heard(w) /\ Tried(w) /\ Finished(w)
    BY DEF UnderWay, Requested
  <2>3. seen[w].live
    BY <2>1, <2>2 DEF Heard
  <2>4. objs[works[w].wraps].host = w
    BY <2>1, <2>2, <2>3 DEF Tried, Threads
  <2> QED
    BY <2>1, <2>2, <2>4 DEF Finished, Finishing
<1>4. Spec => []Discovered
  BY DiscoveredThroughout DEF HostsLast
<1> QED
  BY <1>1, <1>2, <1>3, <1>4, TypeCorrect, PTL DEF Spec
=============================================================================
