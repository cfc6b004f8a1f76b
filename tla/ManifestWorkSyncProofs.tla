------------------------ MODULE ManifestWorkSyncProofs ------------------------
(***************************************************************************)
(* Theorems about ManifestWorkSync, for every value of its constants.      *)
(***************************************************************************)
EXTENDS ManifestWorkSync, FiniteSetTheorems, TLAPS

(* A resource can be wrapped, and what is wrapped is something.             *)
LEMMA Wrappable == Objs \subseteq Manifests /\ None \notin Manifests
BY ConstantsAssumption DEF Manifests

(* One handler moves on to a good state, the other stays where it is.       *)
LEMMA HandlerMoves ==
    ASSUME HandlersOK, NEW t \in Threads, NEW l, HandlerOK(t, l),
           th' = [th EXCEPT ![t] = l]
    PROVE  HandlersOK'
<1>1. l \in Locals
  BY DEF HandlerOK
<1>2. th \in [Threads -> Locals] /\ \A u \in Threads : HandlerOK(u, th[u])
  BY DEF HandlersOK
<1>3. \A u \in Threads : th'[u] = IF u = t THEN l ELSE th[u]
  BY <1>2
<1> QED
  BY <1>1, <1>2, <1>3 DEF HandlersOK

(* A handler may go where the locals it has suffice.                        *)
LEMMA GotoType ==
    ASSUME HandlersOK, NEW t \in Threads, NEW pc \in PCs, Goto(t, pc),
           pc \notin {"idle", "list", "wrapped", "cleanup"} => th[t].cur.o \in Objs,
           pc = "wrapped" => th[t].cur.o \in Manifests,
           pc \in {"get", "fetch", "claim", "update"} => th[t].wk \in Works,
           t = App => pc \notin {"wrapped", "cleanup"},
           t = Mw => pc \notin {"list", "locate", "create"},
           (t = Mw /\ pc # "idle") => th[t].wk \in Works
    PROVE  HandlersOK'
<1> DEFINE l == [th[t] EXCEPT !.pc = pc]
<1>1. HandlerOK(t, th[t])
  BY DEF HandlersOK
<1>2. l \in Locals /\ l.pc = pc /\ l.cur = th[t].cur /\ l.wk = th[t].wk /\ l.tries = th[t].tries
  BY <1>1 DEF HandlerOK, Locals
<1>3. HandlerOK(t, l)
  BY <1>1, <1>2 DEF HandlerOK
<1>4. th' = [th EXCEPT ![t] = l]
  BY DEF Goto
<1> QED
  BY <1>3, <1>4, HandlerMoves

(* The locals of a handler at rest.                                         *)
LEMMA IdleType ==
    Idle \in Locals /\ \A pc \in PCs : [Idle EXCEPT !.pc = pc] \in Locals
BY ConstantsAssumption DEF Idle, Locals, NoSnapshot, NoWork, PCs, Snapshots, WorkState, Hosts, Disc

(* A finished handler is where it starts.                                   *)
LEMMA DoneType ==
    ASSUME HandlersOK, NEW t \in Threads, Done(t)
    PROVE  HandlersOK'
<1> DEFINE l == [Idle EXCEPT !.pc = IF t = App THEN "list" ELSE "idle"]
<1>1. l \in Locals
  BY IdleType DEF PCs
<1>2. HandlerOK(t, l)
  BY <1>1, ConstantsAssumption DEF HandlerOK, Idle, App, Mw, Threads
<1>3. th' = [th EXCEPT ![t] = l]
  BY DEF Done
<1> QED
  BY <1>2, <1>3, HandlerMoves

(* A write to the hub stores and announces a work.                          *)
LEMMA WriteWorkType ==
    ASSUME HubOK, NEW w \in Works, NEW new \in WorkState, WriteWork(w, new)
    PROVE  HubOK'
<1> DEFINE next == [new EXCEPT !.rv = works[w].rv + 1]
<1>1. works[w].rv \in Nat
  BY DEF HubOK, WorkState
<1>2. next \in WorkState
  BY <1>1 DEF WorkState
<1>3. [w |-> w, new |-> next] \in Notifications
  BY <1>2 DEF Notifications
<1>4. works' = [works EXCEPT ![w] = next]
      /\ mwq' = IF Up THEN Append(mwq, [w |-> w, new |-> next]) ELSE mwq
  BY DEF WriteWork
<1> QED
  BY <1>2, <1>3, <1>4 DEF HubOK

(* A write to the managed cluster stores a resource.                        *)
LEMMA WriteObjType ==
    ASSUME ClusterOK, NEW o \in Objs, NEW new \in ObjState, WriteObj(o, new), UNCHANGED served
    PROVE  ClusterOK'
BY DEF ClusterOK, WriteObj, ObjState

(* A halt leaves the process with nothing to do.                            *)
LEMMA HaltType ==
    ASSUME NEW how \in {"down", "panicked"}, Halt(how)
    PROVE  /\ HandlersOK'
           /\ mwq' \in Seq(Notifications)
           /\ seen' \in [Works -> WorkState]
           /\ proc' \in {"up", "down", "panicked"}
           /\ SyncOK'
<1>1. NoWork \in WorkState
  BY DEF NoWork, WorkState, Disc
<1>2. \A t \in Threads : HandlerOK(t, Idle)
  BY IdleType, ConstantsAssumption DEF HandlerOK, Idle
<1>3. HandlersOK'
  BY <1>2, IdleType DEF Halt, HandlersOK
<1> QED
  BY <1>1, <1>3 DEF Halt, SyncOK

(* A bound that is spent from remains a number.                             *)
LEMMA SpendType ==
    ASSUME left \in [{"ops", "syncs", "faults", "crashes"} -> Nat], NEW b \in {"ops", "syncs", "faults", "crashes"}, Spend(b)
    PROVE  left' \in [{"ops", "syncs", "faults", "crashes"} -> Nat]
BY DEF Spend

(* Every step of the Application listener keeps the types.                  *)
LEMMA AppStepType == TypeOK /\ AppStep => TypeOK'
<1> SUFFICES ASSUME TypeOK, AppStep PROVE TypeOK'
  OBVIOUS
<1> USE DEF TypeOK, cluster, informer, sync
<1>0. App \in Threads /\ HandlerOK(App, th[App])
  BY DEF Threads, HandlersOK
<1>1. CASE BeginSync
  <2>1. HandlersOK'
    BY <1>1, GotoType, ConstantsAssumption DEF BeginSync, PCs, App, Mw, Threads
  <2> QED
    BY <1>1, <2>1 DEF BeginSync, SyncOK, ClusterOK, HubOK
<1>2. CASE \E k \in Kinds : ListKind(k)
  <2> PICK k \in Kinds : ListKind(k)
    BY <1>2
  <2>1. \A o \in Objs : Snapshot(o) \in Items
    BY DEF Snapshot, Items, ClusterOK, ObjState
  <2>2. SyncOK'
    BY <2>1, ConstantsAssumption DEF ListKind, SyncOK
  <2> QED
    BY <2>2 DEF ListKind, ClusterOK, HubOK, HandlersOK
<1>3. CASE \E i \in items : TakeItem(i)
  <2> PICK i \in items : TakeItem(i)
    BY <1>3
  <2> DEFINE l == [Idle EXCEPT !.pc = "locate", !.cur = i]
  <2>a. i \in Snapshots /\ i.o \in Objs
    BY Wrappable DEF TakeItem, SyncOK, Items, Snapshots
  <2>b. Idle \in Locals /\ Idle.tries = 0 /\ Idle.wk = None
    BY IdleType DEF Idle
  <2>1. l \in Locals /\ l.pc = "locate" /\ l.cur = i /\ l.tries = 0
    BY <2>a, <2>b DEF Locals, PCs
  <2>2. HandlerOK(App, l)
    BY <2>1, <2>a, ConstantsAssumption DEF HandlerOK, App, Mw
  <2>3. HandlersOK'
    <3>1. CASE i.host # None
      BY <3>1 DEF TakeItem, HandlersOK
    <3>2. CASE i.host = None
      BY <3>2, <2>2, <1>0, HandlerMoves DEF TakeItem
    <3> QED
      BY <3>1, <3>2
  <2> QED
    BY <2>3 DEF TakeItem, ClusterOK, HubOK, SyncOK
<1>4. CASE EndSync
  <2>1. HandlersOK'
    BY <1>4, <1>0, GotoType DEF EndSync, PCs, App, Mw
  <2> QED
    BY <1>4, <2>1 DEF EndSync, ClusterOK, HubOK, SyncOK
<1>5. CASE LocateWork
  <2>1. PICK w \in Works \cup {None} : th' = [th EXCEPT ![App].pc = "walk", ![App].wk = w]
    BY <1>5 DEF LocateWork, WorksOf
  <2> DEFINE l == [th[App] EXCEPT !.pc = "walk", !.wk = w]
  <2>2. l \in Locals /\ l.pc = "walk" /\ l.cur = th[App].cur /\ l.tries = th[App].tries
    BY <1>0 DEF HandlerOK, Locals, PCs
  <2>3. HandlerOK(App, l)
    BY <1>0, <1>5, <2>2 DEF HandlerOK, LocateWork, At, App, Mw
  <2>4. HandlersOK'
    BY <1>0, <2>1, <2>3, HandlerMoves
  <2> QED
    BY <1>5, <2>4 DEF LocateWork, ClusterOK, HubOK, SyncOK
<1> QED
  BY <1>1, <1>2, <1>3, <1>4, <1>5 DEF AppStep

(* The three writes of updateManifestWorkAndObject.                         *)
LEMMA CreateEffectType ==
    ASSUME TypeOK, NEW t \in Threads, th[t].cur.o \in Objs, CreateEffect(t)
    PROVE  ClusterOK' /\ HubOK' /\ UNCHANGED history
<1> PICK w \in Works :
        /\ WriteWork(w, [NoWork EXCEPT !.live = TRUE, !.src = th[t].cur.o,
                                       !.wraps = th[t].cur.o, !.disc = "enabled"])
        /\ UNCHANGED <<cluster, history>>
  BY DEF CreateEffect
<1> DEFINE new == [NoWork EXCEPT !.live = TRUE, !.src = th[t].cur.o,
                                 !.wraps = th[t].cur.o, !.disc = "enabled"]
<1>1. new \in WorkState
  BY Wrappable DEF NoWork, WorkState, Disc
<1> QED
  BY <1>1, WriteWorkType DEF TypeOK, ClusterOK, cluster

(* The patch of hosting annotations stores a resource and a history entry.  *)
LEMMA ClaimEffectType ==
    ASSUME TypeOK, NEW t \in Threads, th[t].cur.o \in Objs, th[t].wk \in Works,
           ClaimEffect(t)
    PROVE  ClusterOK' /\ HubOK' /\ history' \subseteq Works \X Objs \X Marks
<1> DEFINE o == th[t].cur.o
           new == [objs[o] EXCEPT !.host = th[t].wk]
<1>1. new \in ObjState
  BY DEF TypeOK, ClusterOK, ObjState, Hosts
<1>2. ClusterOK'
  <2>1. CASE objs[o].host = th[t].wk
    BY <2>1 DEF ClaimEffect, TypeOK, ClusterOK
  <2>2. CASE objs[o].host # th[t].wk
    BY <2>2, <1>1, WriteObjType DEF ClaimEffect, TypeOK
  <2> QED
    BY <2>1, <2>2
<1> QED
  BY <1>2 DEF ClaimEffect, TypeOK, HubOK, Marks

(* The completion of a work stores and announces a work.                    *)
LEMMA UpdateEffectType ==
    ASSUME TypeOK, NEW t \in Threads, th[t].cur.o \in Objs, th[t].wk \in Works,
           UpdateEffect(t)
    PROVE  ClusterOK' /\ HubOK' /\ UNCHANGED history
<1> DEFINE w == th[t].wk
           o == th[t].cur.o
           new == [works[w] EXCEPT !.wraps = o, !.disc = "completed"]
<1>1. new \in WorkState
  <2>1. works[w] \in WorkState
    BY DEF TypeOK, HubOK
  <2>2. o \in Objs
    OBVIOUS
  <2> HIDE DEF w, o
  <2> QED
    BY <2>1, <2>2, Wrappable DEF WorkState, Disc
<1> QED
  BY <1>1, WriteWorkType DEF UpdateEffect, TypeOK, ClusterOK, cluster

(* A refused write leads to another attempt or to the end of the routine.   *)
LEMMA ConflictType ==
    ASSUME HandlersOK, NEW t \in Threads, th[t].pc \in {"claim", "update"},
           NEW prep \in BOOLEAN, Conflict(t, prep), history \subseteq Works \X Objs \X Marks
    PROVE  HandlersOK' /\ history' \subseteq Works \X Objs \X Marks
<1>1. HandlerOK(t, th[t])
  BY DEF HandlersOK
<1>2. CASE th[t].tries + 1 < RetrySteps
  <2> DEFINE stripped == th[t].prep \/ prep
             l == [th[t] EXCEPT !.pc = "get", !.tries = th[t].tries + 1, !.prep = stripped]
  <2>1. th[t] \in Locals /\ th[t].tries \in Nat
    BY <1>1 DEF HandlerOK, Locals
  <2>2. stripped \in BOOLEAN
    OBVIOUS
  <2> HIDE DEF stripped
  <2>3. l \in Locals /\ l.pc = "get" /\ l.cur = th[t].cur /\ l.wk = th[t].wk
        /\ l.tries = th[t].tries + 1
    <3> DEFINE r == th[t]
               n == r.tries + 1
    <3>1. r \in Locals /\ n \in Nat
      BY <2>1
    <3> HIDE DEF r, n
    <3>2. LET m == [r EXCEPT !.pc = "get", !.tries = n, !.prep = stripped] IN
            m \in Locals /\ m.pc = "get" /\ m.cur = r.cur /\ m.wk = r.wk /\ m.tries = n
      BY <2>2, <3>1 DEF Locals, PCs
    <3> QED
      BY <3>2 DEF r, n
  <2>4. HandlerOK(t, l)
    BY <1>1, <1>2, <2>3 DEF HandlerOK
  <2>5. th' = [th EXCEPT ![t] = l]
    BY <1>2 DEF Conflict, Retry, stripped
  <2>6. UNCHANGED history
    BY <1>2 DEF Conflict, Retry
  <2> QED
    BY <2>4, <2>5, <2>6, HandlerMoves
<1>3. CASE ~(th[t].tries + 1 < RetrySteps)
  <2>1. th[t].wk \in Works /\ th[t].cur.o \in Objs
    BY <1>1 DEF HandlerOK
  <2> QED
    BY <1>3, <2>1, DoneType DEF Conflict, GiveUp, Marks
<1> QED
  BY <1>2, <1>3

(* A panic leaves both clusters as they are.                                *)
LEMMA PanicType == ASSUME TypeOK, Panic, left' \in [{"ops", "syncs", "faults", "crashes"} -> Nat]
                   PROVE  TypeOK'
BY HaltType DEF Panic, TypeOK, ClusterOK, HubOK

(* Every step of the routine shared by the two handlers keeps the types.    *)
LEMMA SharedStepType ==
    ASSUME TypeOK, NEW t \in Threads, SharedStep(t)
    PROVE  TypeOK'
<1> USE DEF TypeOK, cluster, informer, sync, At
<1>0. HandlerOK(t, th[t])
  BY DEF HandlersOK
<1>a. \A o \in Objs : Snapshot(o) \in Snapshots
  BY Wrappable DEF Snapshot, Snapshots, ClusterOK, ObjState
<1>1. CASE FindRoot(t)
  <2>1. HandlersOK'
    <3>1. CASE th[t].wk = None
      BY <1>0, <1>1, <3>1, GotoType, ConstantsAssumption
         DEF FindRoot, RootFound, HandlerOK, PCs, App, Mw, Threads
    <3>2. CASE th[t].wk # None
      <4>1. th[t].wk \in Works
        BY <1>0, <3>2 DEF HandlerOK, Locals
      <4> QED
        BY <1>0, <1>1, <3>2, <4>1, GotoType DEF FindRoot, RootFound, HandlerOK, PCs
    <3> QED
      BY <3>1, <3>2
  <2> QED
    BY <1>1, <2>1 DEF FindRoot, ClusterOK, HubOK, SyncOK
<1>2. CASE ClimbOwner(t)
  <2> DEFINE p == OwnerOf[th[t].cur.o]
             l == [th[t] EXCEPT !.cur = Snapshot(p)]
  <2>1. p \in Objs
    BY <1>0, <1>2, ConstantsAssumption DEF ClimbOwner, HandlerOK
  <2>2. l \in Locals /\ l.pc = th[t].pc /\ l.wk = th[t].wk /\ l.tries = th[t].tries
        /\ l.cur = Snapshot(p)
    BY <1>0, <1>a, <2>1 DEF HandlerOK, Locals
  <2> HIDE DEF l
  <2>3. HandlerOK(t, l)
    <3>1. l.cur.o \in Objs /\ l.pc = "walk"
      BY <1>2, <2>1, <2>2 DEF Snapshot, ClimbOwner
    <3>2. l.tries < RetrySteps
      BY <1>0, <2>2 DEF HandlerOK
    <3>3. t = Mw => l.wk \in Works
      BY <1>0, <2>2, <3>1 DEF HandlerOK
    <3> QED
      BY <2>2, <3>1, <3>2, <3>3 DEF HandlerOK
  <2>4. HandlersOK'
    <3>1. th' = [th EXCEPT ![t] = l]
      BY <1>2 DEF ClimbOwner, l
    <3> QED
      BY <2>3, <3>1, HandlerMoves
  <2> QED
    BY <1>2, <2>4 DEF ClimbOwner, ClusterOK, HubOK, SyncOK
<1>3. CASE OwnerKindUnknown(t)
  BY <1>3, PanicType DEF OwnerKindUnknown
<1>4. CASE CreateWork(t)
  <2>1. ClusterOK' /\ HubOK' /\ UNCHANGED history
    BY <1>0, <1>4, CreateEffectType DEF CreateWork, HandlerOK
  <2> QED
    BY <1>4, <2>1, DoneType DEF CreateWork, SyncOK
<1>5. CASE GetWork(t)
  <2> DEFINE w == works[th[t].wk]
  <2>1. HandlersOK'
    <3>1. CASE ~w.live \/ HostedElsewhere(t)
      BY <1>5, <3>1, DoneType DEF GetWork
    <3>2. CASE ~(~w.live \/ HostedElsewhere(t))
      <4> DEFINE l == [th[t] EXCEPT !.pc = "fetch", !.got = w]
      <4>1. w \in WorkState
        BY <1>0, <1>5 DEF GetWork, HandlerOK, HubOK
      <4>2. l \in Locals /\ l.pc = "fetch" /\ l.wk = th[t].wk /\ l.cur = th[t].cur
            /\ l.tries = th[t].tries
        BY <1>0, <4>1 DEF HandlerOK, Locals, PCs
      <4>3. HandlerOK(t, l)
        BY <1>0, <1>5, <4>2 DEF HandlerOK, GetWork
      <4>4. th' = [th EXCEPT ![t] = l]
        BY <1>5, <3>2 DEF GetWork
      <4> HIDE DEF l
      <4> QED
        BY <4>3, <4>4, HandlerMoves
    <3> QED
      BY <3>1, <3>2
  <2> QED
    BY <1>5, <2>1 DEF GetWork, ClusterOK, HubOK, SyncOK
<1>6. CASE FetchObj(t)
  <2> DEFINE o == th[t].cur.o
  <2>0. o \in Objs /\ th[t].wk \in Works
    BY <1>0, <1>6 DEF FetchObj, HandlerOK
  <2>1. CASE objs[o].live
    <3> DEFINE l == [th[t] EXCEPT !.pc = "claim", !.fet = objs[o].rv]
    <3>1. objs[o].rv \in Nat
      BY <2>0 DEF ClusterOK, ObjState
    <3>2. l \in Locals /\ l.pc = "claim" /\ l.wk = th[t].wk /\ l.cur = th[t].cur
          /\ l.tries = th[t].tries
      BY <1>0, <3>1 DEF HandlerOK, Locals, PCs
    <3>3. HandlerOK(t, l)
      BY <1>0, <2>0, <3>2 DEF HandlerOK
    <3>4. HandlersOK'
      <4>1. th' = [th EXCEPT ![t] = l]
        BY <1>6, <2>1 DEF FetchObj
      <4> HIDE DEF l
      <4> QED
        BY <3>3, <4>1, HandlerMoves
    <3> QED
      BY <1>6, <2>1, <3>4 DEF FetchObj, ClusterOK, HubOK, SyncOK
  <2>2. CASE ~objs[o].live
    <3>1. HandlersOK'
      BY <1>0, <1>6, <2>0, <2>2, GotoType DEF FetchObj, PCs
    <3>2. history' \subseteq Works \X Objs \X Marks
      BY <1>6, <2>0, <2>2 DEF FetchObj, Marks
    <3> QED
      BY <1>6, <3>1, <3>2 DEF FetchObj, ClusterOK, HubOK, SyncOK
  <2> QED
    BY <2>1, <2>2
<1>7. CASE ClaimObj(t)
  <2>0. th[t].cur.o \in Objs /\ th[t].wk \in Works
    BY <1>0, <1>7 DEF ClaimObj, HandlerOK
  <2>1. ClusterOK' /\ HubOK' /\ history' \subseteq Works \X Objs \X Marks
    BY <1>7, <2>0, ClaimEffectType DEF ClaimObj
  <2>2. HandlersOK'
    <3>1. CASE Done(t)
      BY <3>1, DoneType
    <3>2. CASE Goto(t, "update")
      BY <1>0, <2>0, <3>2, GotoType DEF PCs
    <3> QED
      BY <1>7, <3>1, <3>2 DEF ClaimObj
  <2> QED
    BY <1>7, <2>1, <2>2 DEF ClaimObj, SyncOK
<1>8. CASE ClaimRefused(t)
  <2>1. HandlersOK' /\ history' \subseteq Works \X Objs \X Marks
    BY <1>8, ConflictType, DoneType DEF ClaimRefused, Leave
  <2> QED
    BY <1>8, <2>1 DEF ClaimRefused, ClusterOK, HubOK, SyncOK
<1>9. CASE UpdateWork(t)
  <2>1. ClusterOK' /\ HubOK' /\ UNCHANGED history
    BY <1>0, <1>9, UpdateEffectType DEF UpdateWork, HandlerOK
  <2> QED
    BY <1>9, <2>1, DoneType DEF UpdateWork, SyncOK
<1>10. CASE UpdateRefused(t)
  <2>1. HandlersOK' /\ history' \subseteq Works \X Objs \X Marks
    BY <1>10, ConflictType, DoneType DEF UpdateRefused, Leave
  <2> QED
    BY <1>10, <2>1 DEF UpdateRefused, ClusterOK, HubOK, SyncOK
<1>11. CASE AnnotationsMissing(t)
  BY <1>11, PanicType DEF AnnotationsMissing
<1> QED
  BY <1>1, <1>2, <1>3, <1>4, <1>5, <1>6, <1>7, <1>8, <1>9, <1>10, <1>11 DEF SharedStep

(* Every step of the ManifestWork listener keeps the types.                 *)
LEMMA MwStepType == TypeOK /\ MwStep => TypeOK'
<1> SUFFICES ASSUME TypeOK, MwStep PROVE TypeOK'
  OBVIOUS
<1> USE DEF TypeOK, cluster, informer, sync, At
<1>0. Mw \in Threads /\ HandlerOK(Mw, th[Mw])
  BY DEF Threads, HandlersOK
<1>1. CASE Deliver
  <2> DEFINE n == Head(mwq)
             l == [Idle EXCEPT !.pc = "wrapped", !.wk = n.w, !.cur.o = n.new.wraps]
  <2>1. n \in Notifications /\ Tail(mwq) \in Seq(Notifications)
    BY <1>1 DEF Deliver, HubOK
  <2>2. n.w \in Works /\ n.new \in WorkState
    BY <2>1 DEF Notifications
  <2>3. HandlersOK'
    <3>1. CASE Relevant(seen[n.w], n.new)
      <4>1. n.new.wraps \in Manifests
        BY <2>2, <3>1 DEF Relevant, WorkState
      <4>2. Idle \in Locals /\ Idle.cur \in Snapshots /\ Idle.tries = 0
        BY IdleType DEF Idle, Locals
      <4>3. [Idle.cur EXCEPT !.o = n.new.wraps] \in Snapshots
        BY <4>1, <4>2 DEF Snapshots
      <4>4. l \in Locals /\ l.pc = "wrapped" /\ l.wk = n.w /\ l.cur.o = n.new.wraps
            /\ l.tries = 0
        <5> DEFINE o == n.new.wraps
                   w == n.w
        <5>1. o \in Manifests /\ w \in Works
          BY <2>2, <4>1
        <5> HIDE DEF o, w, n
        <5>2. LET m == [Idle EXCEPT !.pc = "wrapped", !.wk = w, !.cur.o = o] IN
                m \in Locals /\ m.pc = "wrapped" /\ m.wk = w /\ m.cur.o = o /\ m.tries = 0
          BY <4>2, <5>1 DEF Locals, Snapshots, PCs
        <5> QED
          BY <5>2 DEF o, w
      <4>5. HandlerOK(Mw, l)
        BY <2>2, <4>1, <4>4, ConstantsAssumption DEF HandlerOK, App, Mw
      <4>6. th' = [th EXCEPT ![Mw] = l]
        BY <1>1, <3>1 DEF Deliver
      <4> QED
        BY <1>0, <4>5, <4>6, HandlerMoves
    <3>2. CASE ~Relevant(seen[n.w], n.new)
      BY <1>1, <3>2 DEF Deliver, HandlersOK
    <3> QED
      BY <3>1, <3>2
  <2> QED
    BY <1>1, <2>1, <2>2, <2>3 DEF Deliver, ClusterOK, HubOK, SyncOK
<1>2. CASE GetWrapped
  <2> DEFINE o == th[Mw].cur.o
             pc == IF KindOf[o] \in known /\ objs[o].live THEN "walk" ELSE "cleanup"
             l == [th[Mw] EXCEPT !.cur = Snapshot(o), !.pc = pc]
  <2>1. o \in Objs /\ th[Mw].wk \in Works
    BY <1>0, <1>2 DEF GetWrapped, HandlerOK
  <2>2. Snapshot(o) \in Snapshots /\ Snapshot(o).o = o
    BY <2>1, Wrappable DEF Snapshot, Snapshots, ClusterOK, ObjState
  <2>3. pc \in {"walk", "cleanup"}
    OBVIOUS
  <2>4. l \in Locals /\ l.pc = pc /\ l.wk = th[Mw].wk /\ l.cur = Snapshot(o)
        /\ l.tries = th[Mw].tries
    <3> HIDE DEF pc
    <3> QED
      BY <1>0, <2>2, <2>3 DEF HandlerOK, Locals, PCs
  <2>5. HandlerOK(Mw, l)
    <3> HIDE DEF pc, l
    <3> QED
      BY <1>0, <2>1, <2>2, <2>3, <2>4 DEF HandlerOK, App, Mw
  <2>6. HandlersOK'
    BY <1>0, <1>2, <2>5, HandlerMoves DEF GetWrapped
  <2> QED
    BY <1>2, <2>6 DEF GetWrapped, ClusterOK, HubOK, SyncOK
<1>3. CASE Cleanup
  <2>1. th[Mw].wk \in Works /\ NoWork \in WorkState
    BY <1>0, <1>3 DEF Cleanup, HandlerOK, NoWork, WorkState, Disc
  <2>2. HubOK'
    BY <1>3, <2>1, WriteWorkType DEF Cleanup, CleanupEffect, HubOK
  <2>3. HandlersOK'
    BY <1>0, <1>3, DoneType DEF Cleanup
  <2> QED
    BY <1>3, <2>2, <2>3 DEF Cleanup, CleanupEffect, ClusterOK, SyncOK
<1>4. CASE ManifestUnreadable
  <2>1. th[Mw].wk \in Works
    BY <1>0, <1>4 DEF ManifestUnreadable, HandlerOK
  <2>2. HandlersOK'
    BY <1>0, <1>4, <2>1, GotoType DEF ManifestUnreadable, PCs, App, Mw
  <2> QED
    BY <1>4, <2>2 DEF ManifestUnreadable, ClusterOK, HubOK, SyncOK
<1>5. CASE ManifestMissing
  BY <1>5, PanicType DEF ManifestMissing
<1> QED
  BY <1>1, <1>2, <1>3, <1>4, <1>5 DEF MwStep

(* Crashes, failed calls and broken watches keep the types.                 *)
LEMMA FaultType == TypeOK /\ Fault => TypeOK'
<1> SUFFICES ASSUME TypeOK, Fault PROVE TypeOK'
  OBVIOUS
<1> USE DEF TypeOK, cluster, informer, sync, At
<1>1. CASE Crash
  BY <1>1, HaltType, SpendType DEF Crash, ClusterOK, HubOK
<1>2. CASE ListKindFails
  BY <1>2, PanicType, SpendType DEF ListKindFails
<1>3. CASE Relist
  <2>1. PICK i \in DOMAIN mwq : mwq' = RemoveAt(mwq, i)
    BY <1>3 DEF Relist
  <2>2. mwq' \in Seq(Notifications)
    BY <2>1 DEF RemoveAt, HubOK
  <2> QED
    BY <1>3, <2>2 DEF Relist, ClusterOK, HubOK, SyncOK, HandlersOK
<1>4. ASSUME NEW t \in Threads, OwnerLookupFails(t)
      PROVE  TypeOK'
  <2>0. HandlerOK(t, th[t])
    BY DEF HandlersOK
  <2>1. HandlersOK'
    <3>1. CASE RootFound(t) /\ th[t].wk = None
      BY <1>4, <2>0, <3>1, GotoType, ConstantsAssumption
         DEF OwnerLookupFails, RootFound, HandlerOK, PCs, App, Mw, Threads
    <3>2. CASE RootFound(t) /\ th[t].wk # None
      <4>1. th[t].wk \in Works
        BY <2>0, <3>2 DEF HandlerOK, Locals
      <4> QED
        BY <1>4, <2>0, <3>2, <4>1, GotoType DEF OwnerLookupFails, RootFound, HandlerOK, PCs
    <3>3. CASE Done(t)
      BY <3>3, DoneType
    <3> QED
      BY <1>4, <3>1, <3>2, <3>3 DEF OwnerLookupFails
  <2> QED
    BY <1>4, <2>1, SpendType DEF OwnerLookupFails, ClusterOK, HubOK, SyncOK
<1>5. ASSUME NEW t \in Threads, CallFails(t)
      PROVE  TypeOK'
  BY <1>5, DoneType, SpendType DEF CallFails, ClusterOK, HubOK, SyncOK
<1>6. ASSUME NEW t \in Threads, ReplyLost(t)
      PROVE  TypeOK'
  <2>0. HandlerOK(t, th[t])
    BY DEF HandlersOK
  <2>1. ClusterOK' /\ HubOK' /\ history' \subseteq Works \X Objs \X Marks
    <3>1. CASE th[t].pc = "create" /\ CreateEffect(t)
      BY <2>0, <3>1, CreateEffectType DEF HandlerOK
    <3>2. CASE th[t].pc = "claim" /\ ClaimEffect(t)
      BY <2>0, <3>2, ClaimEffectType DEF HandlerOK
    <3>3. CASE th[t].pc = "update" /\ UpdateEffect(t)
      BY <2>0, <3>3, UpdateEffectType DEF HandlerOK
    <3> QED
      BY <1>6, <3>1, <3>2, <3>3 DEF ReplyLost
  <2> QED
    BY <1>6, <2>1, DoneType, SpendType DEF ReplyLost, SyncOK
<1> QED
  BY <1>1, <1>2, <1>3, <1>4, <1>5, <1>6 DEF Fault

(* Users and other controllers keep the types.                              *)
LEMMA EnvironmentType == TypeOK /\ Environment => TypeOK'
<1> SUFFICES ASSUME TypeOK, Environment PROVE TypeOK'
  OBVIOUS
<1> USE DEF TypeOK, cluster, informer, sync
<1>1. CASE ApplicationChanged
  BY <1>1, SpendType DEF ApplicationChanged, ClusterOK, HubOK, SyncOK, HandlersOK
<1>2. ASSUME NEW o \in Objs, UserWritesObj(o)
      PROVE  TypeOK'
  <2>1. PICK new \in ObjState : WriteObj(o, new)
    <3>1. /\ objs[o] \in ObjState
          /\ [objs[o] EXCEPT !.live = TRUE, !.host = None] \in ObjState
          /\ [objs[o] EXCEPT !.live = FALSE, !.host = None] \in ObjState
          /\ [objs[o] EXCEPT !.host = None] \in ObjState
          /\ [objs[o] EXCEPT !.host = Foreign] \in ObjState
      BY DEF ClusterOK, ObjState, Hosts
    <3> QED
      BY <1>2, <3>1 DEF UserWritesObj
  <2>2. ClusterOK'
    BY <1>2, <2>1, WriteObjType DEF UserWritesObj
  <2>3. left' \in [{"ops", "syncs", "faults", "crashes"} -> Nat]
    BY <1>2, SpendType DEF UserWritesObj, UserOp
  <2> QED
    BY <1>2, <2>2, <2>3 DEF UserWritesObj, HubOK, SyncOK, HandlersOK
<1>3. ASSUME NEW w \in Works, UserWritesWork(w)
      PROVE  TypeOK'
  <2>1. PICK new \in WorkState : WriteWork(w, new)
    <3>1. works[w] \in WorkState /\ NoWork \in WorkState
      BY DEF HubOK, WorkState, NoWork, Disc
    <3>2. ASSUME NEW s \in WorkState, NEW o \in Manifests
          PROVE  /\ [s EXCEPT !.wraps = o, !.disc = "enabled"] \in WorkState
                 /\ [s EXCEPT !.live = TRUE, !.wraps = o, !.disc = "enabled"] \in WorkState
      BY Wrappable DEF WorkState, Disc
    <3>3. CASE \E o \in Objs :
                WriteWork(w, [NoWork EXCEPT !.live = TRUE, !.wraps = o, !.disc = "enabled"])
      BY <3>1, <3>2, <3>3, Wrappable
    <3>4. CASE \E o \in Manifests :
                WriteWork(w, [works[w] EXCEPT !.wraps = o, !.disc = "enabled"])
      BY <3>1, <3>2, <3>4
    <3>5. CASE WriteWork(w, [works[w] EXCEPT !.disc = "none"])
      <4>1. [works[w] EXCEPT !.disc = "none"] \in WorkState
        BY <3>1 DEF WorkState, Disc
      <4> QED
        BY <3>5, <4>1
    <3>6. CASE WriteWork(w, works[w]) \/ WriteWork(w, NoWork)
      BY <3>1, <3>6
    <3> QED
      BY <1>3, <3>3, <3>4, <3>5, <3>6 DEF UserWritesWork, Manifests
  <2>2. HubOK'
    BY <2>1, WriteWorkType
  <2>3. left' \in [{"ops", "syncs", "faults", "crashes"} -> Nat]
    BY <1>3, SpendType DEF UserWritesWork, UserOp
  <2> QED
    BY <1>3, <2>2, <2>3 DEF UserWritesWork, ClusterOK, SyncOK, HandlersOK
<1>4. ASSUME NEW k \in Kinds, InstallKind(k)
      PROVE  TypeOK'
  BY <1>4, SpendType DEF InstallKind, UserOp, ClusterOK, HubOK, SyncOK, HandlersOK
<1> QED
  BY <1>1, <1>2, <1>3, <1>4 DEF Environment

(* Before the process starts.                                               *)
LEMMA InitType == Init => TypeOK
<1>1. NoWork \in WorkState
  BY DEF NoWork, WorkState, Disc
<1>2. \A t \in Threads : HandlerOK(t, Idle)
  BY IdleType, ConstantsAssumption DEF HandlerOK, Idle
<1> SUFFICES ASSUME Init PROVE TypeOK
  OBVIOUS
<1>3. HandlersOK
  BY <1>2, IdleType DEF Init, HandlersOK
<1>4. ClusterOK
  BY ConstantsAssumption DEF Init, ClusterOK, ObjState, Hosts
<1>5. left \in [{"ops", "syncs", "faults", "crashes"} -> Nat]
  BY ConstantsAssumption DEF Init
<1> QED
  BY <1>1, <1>3, <1>4, <1>5 DEF Init, TypeOK, HubOK, SyncOK

(* The informers list the works one by one when the process starts.         *)
LEMMA StartType == TypeOK /\ Start => TypeOK'
<1> SUFFICES ASSUME TypeOK, Start PROVE TypeOK'
  OBVIOUS
<1> DEFINE S == {[w |-> w, new |-> works[w]] : w \in {v \in Works : works[v].live}}
<1>1. S \subseteq Notifications
  BY DEF TypeOK, HubOK, Notifications
<1>2. IsFiniteSet(S)
  <2>1. IsFiniteSet({v \in Works : works[v].live})
    BY FS_Subset, ConstantsAssumption
  <2> QED
    <3> DEFINE L == {v \in Works : works[v].live}
               f == [v \in L |-> [w |-> v, new |-> works[v]]]
    <3>1. f \in Surjection(L, S)
      BY DEF Surjection
    <3> QED
      BY <2>1, <3>1, FS_Surjection
<1>3. Cardinality(S) \in Nat
  BY <1>2, FS_CardinalityType
<1>4. mwq' \in Seq(Notifications)
  <2>1. mwq' \in SetToSeqs(S)
    BY DEF Start
  <2> HIDE DEF S
  <2>2. mwq' \in [1..Cardinality(S) -> S]
    BY <2>1 DEF SetToSeqs
  <2> QED
    BY <1>1, <1>3, <2>2
<1> QED
  BY <1>4 DEF Start, TypeOK, ClusterOK, HubOK, SyncOK, HandlersOK, cluster

(* Every step keeps the types.                                              *)
LEMMA NextType == TypeOK /\ [Next]_vars => TypeOK'
<1>1. CASE UNCHANGED vars
  BY <1>1 DEF vars, TypeOK, ClusterOK, HubOK, SyncOK, HandlersOK
<1>2. CASE Next
  BY <1>2, StartType, AppStepType, MwStepType, SharedStepType, FaultType, EnvironmentType DEF Next
<1> QED
  BY <1>1, <1>2

(* Type correctness: at every point of either handler the locals its next   *)
(* call uses have been read, and no handler retries beyond retry.Default-   *)
(* Retry's number of steps.                                                 *)
THEOREM TypeCorrect == Spec => []TypeOK
<1>1. Init => TypeOK
  BY InitType
<1>2. TypeOK /\ [Next]_vars => TypeOK'
  BY NextType
<1> QED
  BY <1>1, <1>2, PTL DEF Spec
=============================================================================
