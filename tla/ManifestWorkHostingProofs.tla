----------------------- MODULE ManifestWorkHostingProofs -----------------------
(***************************************************************************)
(* More safety theorems about ManifestWorkSync: where the sources of works *)
(* come from, and which work hosts a resource once discovery is completed. *)
(***************************************************************************)
EXTENDS ManifestWorkSafetyProofs

(* The failures still to come are only counted down, and a failed lookup of *)
(* an owner is one of them.                                                 *)
LEMMA FaultCount ==
    ASSUME TypeOK, [Next]_vars
    PROVE  /\ left'.faults \in Nat
           /\ left'.faults <= left.faults
           /\ (\E t \in Threads : OwnerLookupFails(t)) => left'.faults < left.faults
<1>1. left \in [{"ops", "syncs", "faults", "crashes"} -> Nat]
  BY DEF TypeOK
<1>2. ASSUME NEW bound \in {"ops", "syncs", "crashes"}, Spend(bound)
      PROVE  left'.faults = left.faults
  BY <1>1, <1>2 DEF Spend
<1>3. Spend("faults") => left'.faults = left.faults - 1 /\ left.faults > 0
  BY <1>1 DEF Spend
<1>4. CASE Start \/ AppStep \/ UNCHANGED vars
  <2>1. UNCHANGED left
    BY <1>4 DEF Start, AppStep, BeginSync, ListKind, TakeItem, EndSync, LocateWork, vars
  <2>2. ~\E t \in Threads : OwnerLookupFails(t)
    BY <1>1, <1>3, <2>1 DEF OwnerLookupFails
  <2> QED
    BY <1>1, <2>1, <2>2
<1>5. CASE MwStep \/ \E t \in Threads : SharedStep(t)
  <2>1. UNCHANGED left
    BY <1>5 DEF MwStep, Deliver, GetWrapped, ManifestUnreadable, ManifestMissing, Cleanup,
       SharedStep, FindRoot, ClimbOwner, OwnerKindUnknown, CreateWork, GetWork, FetchObj, ClaimObj,
       ClaimRefused, UpdateWork, UpdateRefused, AnnotationsMissing
  <2>2. ~\E t \in Threads : OwnerLookupFails(t)
    BY <1>1, <1>3, <2>1 DEF OwnerLookupFails
  <2> QED
    BY <1>1, <2>1, <2>2
<1>6. ASSUME UNCHANGED left \/ Spend("ops") \/ Spend("syncs") \/ Spend("crashes") \/ Spend("faults")
      PROVE  /\ left'.faults \in Nat
             /\ left'.faults <= left.faults
             /\ Spend("faults") => left'.faults < left.faults
  BY <1>1, <1>2, <1>3, <1>6
<1>7. CASE Environment
  <2>1. Spend("ops") \/ Spend("syncs")
    BY <1>7 DEF Environment, ApplicationChanged, UserWritesObj, UserWritesWork, InstallKind, UserOp
  <2> QED
    BY <1>6, <2>1 DEF OwnerLookupFails
<1>8. CASE Fault
  <2>1. UNCHANGED left \/ Spend("crashes") \/ Spend("faults")
    BY <1>8 DEF Fault, Crash, ListKindFails, Relist, OwnerLookupFails, CallFails, ReplyLost
  <2> QED
    BY <1>6, <2>1 DEF OwnerLookupFails
<1> QED
  BY <1>4, <1>5, <1>7, <1>8 DEF Next

(* Without a recorded source a work stays without one, until the creation   *)
(* of the application handler.                                              *)
LEMMA SourceOrigin ==
    ASSUME TypeOK, [Next]_vars, NEW w \in Works
    PROVE  \/ works'[w].src \in {None, works[w].src}
           \/ At(App, "create") /\ works'[w].src = th[App].cur.o
<1>1. works \in [Works -> WorkState] /\ works[w] \in WorkState
  BY DEF TypeOK, HubOK
<1>2. CASE UNCHANGED works
  BY <1>2
<1>3. ASSUME NEW t \in Threads, At(t, "create"), CreateEffect(t), works'[w] # works[w]
      PROVE  At(App, "create") /\ works'[w].src = th[App].cur.o
  <2>1. t = App
    BY <1>3 DEF At, Threads, TypeOK, HandlersOK, HandlerOK
  <2>2. PICK v \in Works : works' = [works EXCEPT ![v] =
             [[NoWork EXCEPT !.live = TRUE, !.src = th[t].cur.o, !.wraps = th[t].cur.o,
                             !.disc = "enabled"] EXCEPT !.rv = works[v].rv + 1]]
    BY <1>3 DEF CreateEffect, WriteWork
  <2> QED
    BY <1>1, <1>3, <2>1, <2>2 DEF NoWork
<1>4. ASSUME NEW t \in Threads, At(t, "update"), UpdateEffect(t)
      PROVE  works'[w].src = works[w].src
  <2>1. works' = [works EXCEPT ![th[t].wk] =
             [[works[th[t].wk] EXCEPT !.wraps = th[t].cur.o, !.disc = "completed"]
                 EXCEPT !.rv = works[th[t].wk].rv + 1]]
    BY <1>4 DEF UpdateEffect, WriteWork
  <2> QED
    BY <1>1, <1>4, <2>1 DEF UpdateEffect, WorkState
<1>5. CASE CleanupEffect
  BY <1>1, <1>5 DEF CleanupEffect, WriteWork, NoWork
<1>6. ASSUME NEW v \in Works, UserWritesWork(v)
      PROVE  works'[w].src \in {None, works[w].src}
  <2>1. PICK new \in WorkState : WriteWork(v, new) /\ new.src \in {None, works[v].src}
    BY <1>6, UserWorkWrites
  <2>2. works'[w] = IF w = v THEN [new EXCEPT !.rv = works[v].rv + 1] ELSE works[w]
    BY <2>1, WriteWorkFields
  <2> QED
    BY <1>1, <2>1, <2>2 DEF WorkState
<1> QED
  BY <1>2, <1>3, <1>4, <1>5, <1>6, HubWriters

(* Resources that nobody deletes stay: a claim writes their annotations.    *)
AllLive == \A o \in Objs : objs[o].live

LEMMA NothingDeleted ==
    ASSUME TypeOK, AllLive, [Next]_vars, "deleteObj" \notin UserOps
    PROVE  AllLive'
<1>1. objs \in [Objs -> ObjState] /\ \A o \in Objs : objs[o] \in ObjState
  BY DEF TypeOK, ClusterOK
<1>2. CASE UNCHANGED objs
  BY <1>2 DEF AllLive
<1>3. ASSUME NEW t \in Threads, At(t, "claim"), ClaimEffect(t)
      PROVE  AllLive'
  <2> DEFINE p == th[t].cur.o
  <2>1. UNCHANGED objs \/ objs' =
            [objs EXCEPT ![p] = [[objs[p] EXCEPT !.host = th[t].wk] EXCEPT !.rv = objs[p].rv + 1]]
    BY <1>3 DEF ClaimEffect, WriteObj
  <2> HIDE DEF p
  <2>3. ASSUME NEW o \in Objs PROVE objs'[o].live = objs[o].live
    <3>1. o # p => objs'[o] = objs[o]
      BY <1>1, <2>1
    <3>2. o = p => objs'[o] = objs[o]
                   \/ objs'[o] = [[objs[o] EXCEPT !.host = th[t].wk] EXCEPT !.rv = objs[o].rv + 1]
      BY <1>1, <2>1
    <3>3. [[objs[o] EXCEPT !.host = th[t].wk] EXCEPT !.rv = objs[o].rv + 1].live = objs[o].live
      BY <1>1 DEF ObjState
    <3> QED
      BY <3>1, <3>2, <3>3
  <2> QED
    BY <2>3 DEF AllLive
<1>4. ASSUME NEW p \in Objs, UserWritesObj(p)
      PROVE  AllLive'
  <2>1. ASSUME NEW new \in ObjState, new.live, WriteObj(p, new)
        PROVE  AllLive'
    BY <1>1, <2>1 DEF WriteObj, AllLive, ObjState
  <2>2. /\ objs[p] \in ObjState /\ objs[p].live
        /\ [objs[p] EXCEPT !.host = None] \in ObjState /\ [objs[p] EXCEPT !.host = None].live
        /\ [objs[p] EXCEPT !.host = Foreign] \in ObjState /\ [objs[p] EXCEPT !.host = Foreign].live
    BY <1>1 DEF AllLive, ObjState, Hosts
  <2> QED
    BY <1>4, <2>1, <2>2 DEF UserWritesObj, UserOp, AllLive
<1> QED
  BY <1>2, <1>3, <1>4, ClusterWriters

(* As long as no lookup has failed, the application handler is about to     *)
(* create works for root owners only.                                       *)
FaultsLeft == left.faults <= MaxFaults
RootsOnly ==
    left.faults = MaxFaults =>
        /\ th[App].pc = "create" => OwnerOf[th[App].cur.o] = None
        /\ \A w \in Works : works[w].src # None => OwnerOf[works[w].src] = None

LEMMA ClimbsToRoot ==
    ASSUME TypeOK, AllLive, RootsOnly, left.faults = MaxFaults, left'.faults = MaxFaults, [Next]_vars,
           th'[App].pc = "create"
    PROVE  OwnerOf[th'[App].cur.o] = None
<1>1. /\ th \in [Threads -> Locals] /\ th[App] \in Locals /\ App \in Threads /\ Mw # App
      /\ HandlerOK(App, th[App])
  BY DEF TypeOK, HandlersOK, Threads, Mw, App
<1>2. CASE th'[App] = th[App]
  BY <1>2 DEF RootsOnly
<1>3. CASE Done(App)
  BY <1>1, <1>3, HandlerEnds
<1>4. CASE LocateWork
  <2>1. PICK w : th' = [th EXCEPT ![App].pc = "walk", ![App].wk = w]
    BY <1>4 DEF LocateWork
  <2> QED
    BY <1>1, <2>1 DEF Locals
<1>5. ASSUME NEW i \in items, TakeItem(i), th'[App] # th[App]
      PROVE  th'[App].pc = "locate"
  BY <1>1, <1>5, IdleType DEF TakeItem, Locals
<1>6. CASE FindRoot(App)
  <2> DEFINE o == th[App].cur.o
  <2>1. o \in Objs /\ OwnerOf[o] \in Objs \cup {None}
    BY <1>1, <1>6, ConstantsAssumption DEF FindRoot, At, HandlerOK
  <2>2. OwnerOf[o] = None
    BY <1>6, <2>1 DEF FindRoot, AllLive
  <2>3. th'[App].cur = th[App].cur
    BY <1>1, <1>6 DEF FindRoot, RootFound, Goto, Locals
  <2> QED
    BY <2>2, <2>3
<1>7. ~OwnerLookupFails(App)
  <2>1. MaxFaults \in Nat
    BY ConstantsAssumption
  <2> QED
    BY <1>1, <2>1, FaultCount
<1>8. CASE ClimbOwner(App)
  BY <1>1, <1>8 DEF ClimbOwner, At, Locals
<1>9. CASE GetWork(App) \/ ClaimRefused(App) \/ UpdateRefused(App)
  BY <1>1, <1>3, <1>9 DEF GetWork, ClaimRefused, UpdateRefused, Conflict, Retry, GiveUp, Leave, Locals
<1>10. CASE FetchObj(App) \/ ClaimObj(App)
  BY <1>1, <1>3, <1>10 DEF FetchObj, ClaimObj, Goto, Locals
<1> QED
  BY <1>1, <1>2, <1>4, <1>5, <1>6, <1>7, <1>8, <1>9, <1>10, HandlerSteps DEF HandlerMoving

(* However long the chain of owners, and whatever panics, crashes or is     *)
(* edited in between, works are made for root owners as long as the owners  *)
(* exist and no lookup of one fails.                                        *)
THEOREM SourcesAreRoots ==
    ASSUME InitObjs = Objs, "deleteObj" \notin UserOps
    PROVE  Spec => []SourceIsRoot
<1>1. Init => AllLive /\ RootsOnly /\ FaultsLeft
  <2> SUFFICES ASSUME Init PROVE AllLive /\ RootsOnly /\ FaultsLeft
    OBVIOUS
  <2>1. AllLive
    BY DEF Init, AllLive
  <2>2. RootsOnly
    BY DEF Init, RootsOnly, Idle, NoWork, Threads, App
  <2>3. FaultsLeft
    BY ConstantsAssumption DEF Init, FaultsLeft
  <2> QED
    BY <2>1, <2>2, <2>3
<1>2. TypeOK /\ AllLive /\ RootsOnly /\ FaultsLeft /\ [Next]_vars
         => AllLive' /\ RootsOnly' /\ FaultsLeft'
  <2> SUFFICES ASSUME TypeOK, AllLive, RootsOnly, left.faults <= MaxFaults, [Next]_vars
               PROVE  RootsOnly' /\ left'.faults <= MaxFaults
    BY NothingDeleted DEF FaultsLeft
  <2>1. MaxFaults \in Nat /\ left.faults \in Nat
    BY ConstantsAssumption DEF TypeOK
  <2>2. left'.faults <= MaxFaults /\ (left'.faults = MaxFaults => left.faults = MaxFaults)
    BY <2>1, FaultCount
  <2>3. ASSUME left'.faults = MaxFaults, NEW w \in Works, works'[w].src # None
        PROVE  OwnerOf[works'[w].src] = None
    BY <2>2, <2>3, SourceOrigin DEF RootsOnly, At
  <2> QED
    BY <2>2, <2>3, ClimbsToRoot DEF RootsOnly
<1>3. RootsOnly => SourceIsRoot
  BY DEF RootsOnly, SourceIsRoot
<1> QED
  BY <1>1, <1>2, <1>3, TypeCorrect, PTL DEF Spec
-----------------------------------------------------------------------------
(* CompletedIsHost rests on what the history says of the resources: claims  *)
(* stay in place and nothing found gone comes back.                         *)
ClaimsHold ==
    \A w \in Works, o \in Objs :
        /\ <<w, o, "gone">> \in history => ~objs[o].live
        /\ <<w, o, "claimed">> \in history /\ objs[o].live => objs[o].host = w

(* The history is written by the two calls of a patch, and when a handler   *)
(* gives up after a conflict.                                               *)
LEMMA PatchWriters ==
    ASSUME [Next]_vars
    PROVE  \/ UNCHANGED history
           \/ \E t \in Threads : At(t, "claim") /\ ClaimEffect(t)
           \/ \E t \in Threads : FetchObj(t)
           \/ \E t \in Threads : GiveUp(t)
<1>0. \A t \in Threads : CreateEffect(t) \/ UpdateEffect(t) => UNCHANGED history
  BY DEF CreateEffect, UpdateEffect
<1>1. CASE UNCHANGED vars
  BY <1>1 DEF vars
<1>2. CASE Start
  BY <1>2 DEF Start
<1>3. CASE AppStep
  BY <1>3 DEF AppStep, BeginSync, ListKind, TakeItem, EndSync, LocateWork
<1>4. CASE MwStep
  BY <1>4 DEF MwStep, Deliver, GetWrapped, ManifestUnreadable, ManifestMissing, Panic, Cleanup,
              CleanupEffect
<1>5. ASSUME NEW t \in Threads, SharedStep(t)
      PROVE  UNCHANGED history \/ (At(t, "claim") /\ ClaimEffect(t)) \/ FetchObj(t) \/ GiveUp(t)
  <2>1. \A prep \in BOOLEAN : Conflict(t, prep) => UNCHANGED history \/ GiveUp(t)
    BY DEF Conflict, Retry
  <2>2. ClaimRefused(t) \/ UpdateRefused(t) => UNCHANGED history \/ GiveUp(t)
    BY <2>1 DEF ClaimRefused, UpdateRefused, Leave
  <2> QED
    BY <1>0, <1>5, <2>2 DEF SharedStep, FindRoot, ClimbOwner, OwnerKindUnknown, CreateWork, GetWork,
       ClaimObj, UpdateWork, AnnotationsMissing, Panic
<1>6. CASE Fault
  BY <1>0, <1>6 DEF Fault, Crash, ListKindFails, Panic, Relist, OwnerLookupFails, CallFails, ReplyLost
<1>7. CASE Environment
  BY <1>7 DEF Environment, ApplicationChanged, UserWritesObj, UserWritesWork, InstallKind
<1> QED
  BY <1>1, <1>2, <1>3, <1>4, <1>5, <1>6, <1>7 DEF Next

(* A resource that exists existed before, with the host it had or the one   *)
(* it is claimed for.                                                       *)
LEMMA HostsStay ==
    ASSUME TypeOK, [Next]_vars, {"createObj", "clearHost", "foreignHost"} \cap UserOps = {},
           NEW o \in Objs, objs'[o].live
    PROVE  /\ objs[o].live
           /\ \/ objs'[o].host = objs[o].host
              \/ \E t \in Threads : /\ At(t, "claim") /\ ClaimEffect(t)
                                    /\ th[t].cur.o = o /\ objs'[o].host = th[t].wk
<1>1. objs \in [Objs -> ObjState] /\ objs[o] \in ObjState
  BY DEF TypeOK, ClusterOK
<1>2. CASE objs'[o] = objs[o]
  BY <1>2
<1>3. ASSUME NEW t \in Threads, At(t, "claim"), ClaimEffect(t), objs'[o] # objs[o]
      PROVE  objs[o].live /\ th[t].cur.o = o /\ objs'[o].host = th[t].wk
  <2> DEFINE p == th[t].cur.o
  <2>1. objs' = [objs EXCEPT ![p] = [[objs[p] EXCEPT !.host = th[t].wk] EXCEPT !.rv = objs[p].rv + 1]]
    BY <1>3 DEF ClaimEffect, WriteObj
  <2> QED
    BY <1>1, <1>3, <2>1 DEF ClaimEffect, Current, ObjState
<1>4. ASSUME NEW p \in Objs, UserWritesObj(p), objs'[o] # objs[o]
      PROVE  objs[o].live /\ objs'[o].host = objs[o].host
  <2>1. \/ WriteObj(p, [objs[p] EXCEPT !.live = FALSE, !.host = None])
        \/ objs[p].live /\ WriteObj(p, objs[p])
    BY <1>4 DEF UserWritesObj, UserOp
  <2>2. ~WriteObj(p, [objs[p] EXCEPT !.live = FALSE, !.host = None])
    BY <1>1, <1>4 DEF WriteObj, ObjState
  <2>3. objs[p].live /\ objs' = [objs EXCEPT ![p] = [objs[p] EXCEPT !.rv = objs[p].rv + 1]]
    BY <2>1, <2>2 DEF WriteObj
  <2> QED
    BY <1>1, <1>4, <2>3 DEF ObjState
<1> QED
  BY <1>2, <1>3, <1>4, ClusterWriters

(* A handler about to claim a resource finds it free, or its own.           *)
ClaimFree == \A t \in Threads : th[t].pc = "claim" => objs[th[t].cur.o].host \in {None, th[t].wk}

LEMMA MwClaimsFree ==
    ASSUME AppRests, HostUnclaimed
    PROVE  ClaimFree
BY DEF AppRests, HostUnclaimed, ClaimFree, Threads

(* A claim is made on a resource nobody else hosts, and then kept.          *)
LEMMA ClaimsStay ==
    ASSUME TypeOK, ClaimFree, ClaimsHold, [Next]_vars,
           {"createObj", "clearHost", "foreignHost"} \cap UserOps = {}
    PROVE  ClaimsHold'
<1>1. ASSUME NEW w \in Works, NEW o \in Objs, <<w, o, "gone">> \in history', objs'[o].live
      PROVE  FALSE
  <2>1. objs[o].live
    BY <1>1, HostsStay
  <2>2. <<w, o, "gone">> \notin history
    BY <2>1 DEF ClaimsHold
  <2>3. CASE \E t \in Threads : FetchObj(t)
    BY <1>1, <2>1, <2>2, <2>3 DEF FetchObj
  <2>4. CASE \E t \in Threads : ClaimEffect(t)
    BY <1>1, <2>2, <2>4 DEF ClaimEffect
  <2>5. CASE \E t \in Threads : GiveUp(t)
    BY <1>1, <2>2, <2>5 DEF GiveUp
  <2> QED
    BY <1>1, <2>2, <2>3, <2>4, <2>5, PatchWriters
<1>2. ASSUME NEW w \in Works, NEW o \in Objs, <<w, o, "claimed">> \in history', objs'[o].live
      PROVE  objs'[o].host = w
  <2>1. objs[o].live
    BY <1>2, HostsStay
  <2>2. CASE <<w, o, "claimed">> \in history
    <3>1. objs[o].host = w /\ w # None
      BY <2>1, <2>2, ConstantsAssumption DEF ClaimsHold
    <3>2. ASSUME NEW t \in Threads, At(t, "claim"), th[t].cur.o = o
          PROVE  th[t].wk = w
      BY <3>1, <3>2 DEF ClaimFree, At
    <3> QED
      BY <1>2, <3>1, <3>2, HostsStay
  <2>3. CASE <<w, o, "claimed">> \notin history
    <3>a. ASSUME NEW t \in Threads, FetchObj(t)
          PROVE  history' \subseteq history \cup {<<th[t].wk, th[t].cur.o, "gone">>}
      BY <3>a DEF FetchObj
    <3>b. ~\E t \in Threads : FetchObj(t) \/ GiveUp(t)
      BY <1>2, <2>3, <3>a DEF GiveUp
    <3>1. PICK t \in Threads : ClaimEffect(t)
      BY <1>2, <2>3, <3>b, PatchWriters
    <3>2. th[t].wk = w /\ th[t].cur.o = o
      BY <1>2, <2>3, <3>1 DEF ClaimEffect
    <3>3. objs[o] \in ObjState /\ objs \in [Objs -> ObjState]
      BY DEF TypeOK, ClusterOK
    <3>4. IF objs[o].host = w THEN UNCHANGED objs
          ELSE objs' = [objs EXCEPT ![o] = [[objs[o] EXCEPT !.host = w] EXCEPT !.rv = objs[o].rv + 1]]
      BY <3>1, <3>2 DEF ClaimEffect, WriteObj
    <3> QED
      BY <3>3, <3>4 DEF ObjState
  <2> QED
    BY <2>2, <2>3
<1> QED
  BY <1>1, <1>2 DEF ClaimsHold

(* While the ManifestWork handler alone sets hosting annotations, nobody    *)
(* clears them and nothing that was deleted comes back, every completed     *)
(* work hosts the resource it wraps: through all conflicts, retries, edits  *)
(* of works, lost replies and restarts.                                     *)
THEOREM CompletedHosts ==
    ASSUME AppObjs = {}, {"createObj", "clearHost", "foreignHost"} \cap UserOps = {}
    PROVE  Spec => []CompletedIsHost
<1>1. Init => AppRests /\ HostUnclaimed /\ ClaimsHold /\ CompletedWasClaimed
  BY DEF Init, AppRests, HostUnclaimed, ClaimsHold, CompletedWasClaimed, Idle, NoWork, Threads, App, Mw
<1>2. "foreignHost" \notin UserOps
  OBVIOUS
<1>3. TypeOK /\ AppRests /\ HostUnclaimed /\ ClaimsHold /\ [Next]_vars
         => AppRests' /\ HostUnclaimed' /\ ClaimsHold'
  BY <1>2, AppStaysAtRest, HostStaysUnclaimed, MwClaimsFree, ClaimsStay
<1>4. TypeOK /\ ClaimsHold /\ CompletedWasClaimed => CompletedIsHost
  <2> SUFFICES ASSUME TypeOK, ClaimsHold, CompletedWasClaimed, NEW w \in Works,
                      works[w].disc = "completed", objs[works[w].wraps].live
               PROVE  objs[works[w].wraps].host = w
    BY DEF CompletedIsHost
  <2>1. PICK how \in {"claimed", "gone"} : <<w, works[w].wraps, how>> \in history
    BY DEF CompletedWasClaimed
  <2>2. works[w].wraps \in Objs
    BY <2>1 DEF TypeOK
  <2> QED
    BY <2>1, <2>2 DEF ClaimsHold
<1> QED
  BY <1>1, <1>3, <1>4, TypeCorrect, CompletedClaims, PTL DEF Spec
-----------------------------------------------------------------------------
(* Every step of the operator, its environment and its faults is a step of  *)
(* the contract or none: first those that leave the resources alone.        *)
LEMMA HubStepsMap ==
    ASSUME TypeOK, ClaimsHold, UpdateWasClaimed, [Next]_vars, UNCHANGED objs
    PROVE  [Contract!ContractNext]_Contract!contractVars
<1> DEFINE done == [w \in Works |-> IF works[w].disc = "completed" THEN works[w].wraps ELSE None]
<1>0. works \in [Works -> WorkState]
  BY DEF TypeOK, HubOK
<1>1. ASSUME NEW w \in Works, NEW new \in WorkState, WriteWork(w, new)
      PROVE  done' = [done EXCEPT ![w] = IF new.disc = "completed" THEN new.wraps ELSE None]
  <2>1. works' = [works EXCEPT ![w] = [new EXCEPT !.rv = works[w].rv + 1]]
    BY <1>1 DEF WriteWork
  <2> QED
    BY <1>0, <2>1 DEF WorkState
<1>2. ASSUME NEW w \in Works, NEW new \in WorkState, WriteWork(w, new), new.disc # "completed"
      PROVE  Contract!Withdraw(w)
  BY <1>1, <1>2 DEF Contract!Withdraw
<1>3. CASE UNCHANGED works
  BY <1>3 DEF Contract!contractVars
<1>4. ASSUME NEW t \in Threads, At(t, "create"), CreateEffect(t)
      PROVE  \E w \in Works : Contract!Withdraw(w)
  <2>1. th[t].cur.o \in Objs
    BY <1>4 DEF TypeOK, HandlersOK, HandlerOK, At
  <2>2. [NoWork EXCEPT !.live = TRUE, !.src = th[t].cur.o, !.wraps = th[t].cur.o,
                       !.disc = "enabled"] \in WorkState
    BY <2>1, ConstantsAssumption DEF NoWork, WorkState, Manifests, Disc
  <2> QED
    BY <1>2, <1>4, <2>2 DEF CreateEffect, NoWork
<1>5. ASSUME NEW t \in Threads, At(t, "update"), UpdateEffect(t)
      PROVE  \E w \in Works, o \in Objs : Contract!Complete(w, o)
  <2>1. PICK w \in Works, o \in Objs : w = th[t].wk /\ o = th[t].cur.o
    BY <1>5 DEF TypeOK, HandlersOK, HandlerOK, At
  <2> DEFINE new == [works[w] EXCEPT !.wraps = o, !.disc = "completed"]
  <2>2. new \in WorkState /\ new.wraps = o /\ new.disc = "completed"
    <3>1. works[w] \in WorkState
      BY <1>0
    <3>2. o \in Manifests /\ o # None
      BY ConstantsAssumption DEF Manifests
    <3> QED
      BY <3>1, <3>2 DEF WorkState, Disc
  <2>3. done' = [done EXCEPT ![w] = o]
    <3>1. WriteWork(w, new)
      BY <1>5, <2>1 DEF UpdateEffect
    <3> HIDE DEF new, done
    <3> QED
      BY <1>1, <2>2, <3>1
  <2>4. objs[o].live => objs[o].host = w
    <3>1. PICK how \in {"claimed", "gone"} : <<w, o, how>> \in history
      BY <1>5, <2>1 DEF UpdateWasClaimed, At, Claimed
    <3> QED
      BY <3>1 DEF ClaimsHold
  <2>5. Contract!Complete(w, o)
    BY <2>3, <2>4 DEF Contract!Complete
  <2> QED
    BY <2>5
<1>6. ASSUME At(Mw, "cleanup"), CleanupEffect
      PROVE  UNCHANGED works \/ \E w \in Works : Contract!Withdraw(w)
  <2>1. th[Mw].wk \in Works
    BY <1>6 DEF TypeOK, HandlersOK, HandlerOK, At, Threads, Mw
  <2>2. NoWork \in WorkState /\ NoWork.disc # "completed"
    BY DEF NoWork, WorkState, Disc
  <2> QED
    BY <1>2, <1>6, <2>1, <2>2 DEF CleanupEffect
<1>7. ASSUME NEW w \in Works, UserWritesWork(w)
      PROVE  Contract!Withdraw(w) \/ done' = done
  <2>1. PICK new \in WorkState : WriteWork(w, new) /\ (new.disc # "completed" \/ new = works[w])
    BY <1>7, UserWorkWrites
  <2>2. CASE new.disc # "completed"
    BY <1>2, <2>1, <2>2
  <2>3. CASE new.disc = "completed" /\ new = works[w]
    <3>1. done' = [done EXCEPT ![w] = done[w]]
      BY <1>1, <2>1, <2>3
    <3> QED
      BY <3>1
  <2> QED
    BY <2>1, <2>2, <2>3
<1>8. \/ UNCHANGED works
      \/ \E w \in Works : Contract!Withdraw(w) \/ done' = done
      \/ \E w \in Works, o \in Objs : Contract!Complete(w, o)
  <2> HIDE DEF done
  <2> QED
    BY <1>4, <1>5, <1>6, <1>7, HubWriters
<1>9. ASSUME NEW w \in Works, Contract!Withdraw(w)
      PROVE  Contract!ContractNext
  BY <1>9 DEF Contract!ContractNext
<1>10. ASSUME NEW w \in Works, NEW o \in Objs, Contract!Complete(w, o)
       PROVE  Contract!ContractNext
  BY <1>10 DEF Contract!ContractNext
<1>11. ASSUME done' = done
       PROVE  UNCHANGED Contract!contractVars
  BY <1>11 DEF Contract!contractVars
<1> QED
  BY <1>3, <1>8, <1>9, <1>10, <1>11

(* Then those that write a resource.                                        *)
LEMMA ClusterStepsMap ==
    ASSUME TypeOK, ClaimFree, [Next]_vars,
           {"createObj", "clearHost", "foreignHost"} \cap UserOps = {},
           \/ \E t \in Threads : At(t, "claim") /\ ClaimEffect(t)
           \/ \E o \in Objs : UserWritesObj(o)
    PROVE  [Contract!ContractNext]_Contract!contractVars
<1> DEFINE present == {o \in Objs : objs[o].live}
           host == [o \in Objs |-> objs[o].host]
<1>0. objs \in [Objs -> ObjState]
  BY DEF TypeOK, ClusterOK
<1>1. ASSUME NEW t \in Threads, At(t, "claim"), ClaimEffect(t), UNCHANGED works
      PROVE  [Contract!ContractNext]_Contract!contractVars
  <2>1. PICK w \in Works, o \in Objs : w = th[t].wk /\ o = th[t].cur.o
    BY <1>1 DEF TypeOK, HandlersOK, HandlerOK, At
  <2>2. objs[o].live /\ objs[o].host \in {None, w}
    BY <1>1, <2>1 DEF ClaimEffect, Current, ClaimFree, At
  <2>3. CASE UNCHANGED objs
    BY <1>1, <2>3 DEF Contract!contractVars
  <2>4. CASE objs[o].host = None /\ WriteObj(o, [objs[o] EXCEPT !.host = w])
    <3>1. objs' = [objs EXCEPT ![o] = [[objs[o] EXCEPT !.host = w] EXCEPT !.rv = objs[o].rv + 1]]
      BY <2>4 DEF WriteObj
    <3>2. present' = present /\ host' = [host EXCEPT ![o] = w]
      BY <1>0, <2>1, <3>1 DEF ObjState
    <3>3. Contract!Claim(w, o)
      BY <1>1, <2>1, <2>2, <2>4, <3>2 DEF Contract!Claim
    <3> QED
      BY <3>3 DEF Contract!ContractNext
  <2> QED
    BY <1>1, <2>1, <2>2, <2>3, <2>4 DEF ClaimEffect
<1>2. ASSUME NEW o \in Objs, UserWritesObj(o), UNCHANGED works
      PROVE  [Contract!ContractNext]_Contract!contractVars
  <2>1. \/ WriteObj(o, [objs[o] EXCEPT !.live = FALSE, !.host = None])
        \/ WriteObj(o, objs[o])
    BY <1>2 DEF UserWritesObj, UserOp
  <2>2. CASE WriteObj(o, [objs[o] EXCEPT !.live = FALSE, !.host = None])
    <3>1. objs' = [objs EXCEPT ![o] = [[objs[o] EXCEPT !.live = FALSE, !.host = None]
                                         EXCEPT !.rv = objs[o].rv + 1]]
      BY <2>2 DEF WriteObj
    <3>2. present' = present \ {o} /\ host' = [host EXCEPT ![o] = None]
      BY <1>0, <3>1 DEF ObjState
    <3>3. Contract!Vanish(o)
      BY <1>2, <3>2 DEF Contract!Vanish
    <3> QED
      BY <3>3 DEF Contract!ContractNext
  <2>3. CASE WriteObj(o, objs[o])
    <3>1. objs' = [objs EXCEPT ![o] = [objs[o] EXCEPT !.rv = objs[o].rv + 1]]
      BY <2>3 DEF WriteObj
    <3>2. present' = present /\ host' = host
      BY <1>0, <3>1 DEF ObjState
    <3> QED
      BY <1>2, <3>2 DEF Contract!contractVars
  <2> QED
    BY <2>1, <2>2, <2>3
<1>3. \A t \in Threads : ClaimEffect(t) => UNCHANGED works
  BY DEF ClaimEffect
<1>4. \A o \in Objs : UserWritesObj(o) => UNCHANGED works
  BY DEF UserWritesObj
<1> QED
  BY <1>1, <1>2, <1>3, <1>4

(* What the ManifestWork handler makes of requests, conflicts, failures and *)
(* restarts is the contract on hosting, for every number of resources and   *)
(* works: a host stays, and a work is completed for what it hosts.          *)
THEOREM ImplementsContract ==
    ASSUME AppObjs = {}, {"createObj", "clearHost", "foreignHost"} \cap UserOps = {}
    PROVE  Spec => RefinesContract
<1> DEFINE Safe == AppRests /\ HostUnclaimed /\ ClaimsHold /\ UpdateWasClaimed
<1>1. Init => Contract!ContractInit /\ Safe
  BY DEF Init, Contract!ContractInit, NoWork, AppRests, HostUnclaimed, ClaimsHold, UpdateWasClaimed,
     Idle, Threads, App, Mw
<1>2. TypeOK /\ Safe /\ [Next]_vars => Safe'
  BY AppStaysAtRest, HostStaysUnclaimed, MwClaimsFree, ClaimsStay, PatchBeforeUpdate
<1>3. TypeOK /\ Safe /\ [Next]_vars => [Contract!ContractNext]_Contract!contractVars
  BY HubStepsMap, MwClaimsFree, ClusterStepsMap, ClusterWriters
<1> QED
  BY <1>1, <1>2, <1>3, TypeCorrect, PTL DEF Spec, RefinesContract, Contract!ContractSpec
=============================================================================
