------------------------- MODULE ApplicationSyncProofs -------------------------
(***************************************************************************)
(* Theorems about ApplicationSync, for every value of its constants.       *)
(***************************************************************************)
EXTENDS ApplicationSync, FiniteSetTheorems, TLAPS

Bounds == [{"ops", "late", "faults", "crashes"} -> Nat]

(* A bound that is spent from remains a number.                             *)
LEMMA SpendType ==
    ASSUME TypeOK, NEW b \in {"ops", "late", "faults", "crashes"}, Spend(b)
    PROVE  left' \in Bounds
BY DEF Spend, TypeOK, Bounds

(* An application that does not exist, and a listener at rest.              *)
LEMMA RestType == NoApp \in AppState /\ Idle \in Syncs
<1>1. (CHOOSE s \in Specs : TRUE) \in Specs /\ (CHOOSE a \in Apps : TRUE) \in Apps
  BY ConstantsAssumption
<1>2. NoApp \in AppState
  BY <1>1 DEF NoApp, AppState
<1> QED
  BY <1>1, <1>2 DEF Idle, Syncs

(* The informer hands over a set of notifications in some order.            *)
LEMMA ListedType ==
    ASSUME NEW S \in SUBSET Notifications, NEW L \in SUBSET Apps, NEW f \in [L -> S],
           \A n \in S : \E a \in L : f[a] = n, NEW q \in SetToSeqs(S)
    PROVE  q \in Seq(S)
<1>1. IsFiniteSet(L)
  BY FS_Subset, ConstantsAssumption
<1>2. f \in Surjection(L, S)
  BY DEF Surjection
<1>3. IsFiniteSet(S)
  BY <1>1, <1>2, FS_Surjection
<1>4. Cardinality(S) \in Nat
  BY <1>3, FS_CardinalityType
<1>5. q \in [1 .. Cardinality(S) -> S]
  BY DEF SetToSeqs
<1> QED
  BY <1>4, <1>5

(* What the informer lists when the process starts is how the applications  *)
(* are now.                                                                 *)
LEMMA StartLists ==
    ASSUME TypeOK, Start
    PROVE  appq' \in Seq({[a |-> a, new |-> apps[a]] : a \in Apps})
<1> DEFINE L == {b \in Apps : watching' /\ apps[b].live}
           S == {[a |-> a, new |-> apps[a]] : a \in L}
           f == [a \in L |-> [a |-> a, new |-> apps[a]]]
<1>1. S \subseteq Notifications
  BY DEF TypeOK, Notifications
<1>2. f \in [L -> S] /\ \A n \in S : \E a \in L : f[a] = n
  OBVIOUS
<1>3. appq' \in SetToSeqs(S)
  BY DEF Start
<1>4. L \subseteq Apps
  OBVIOUS
<1>5. S \subseteq {[a |-> a, new |-> apps[a]] : a \in Apps}
  OBVIOUS
<1> HIDE DEF L, S, f
<1>6. appq' \in Seq(S)
  BY <1>1, <1>2, <1>3, <1>4, ListedType
<1> QED
  BY <1>5, <1>6
-----------------------------------------------------------------------------
(* The process ends in a crash or in a panic of the listener.               *)
Ends == Crash \/ ListKindFails \/ (\E k \in Kinds : ListKindPanics(k))

(* The life of the process.                                                 *)
LEMMA LifecycleType ==
    ASSUME TypeOK, Start \/ Ends
    PROVE  TypeOK'
<1>1. CASE Start
  <2>1. {[a |-> a, new |-> apps[a]] : a \in Apps} \subseteq Notifications
    BY DEF TypeOK, Notifications
  <2>2. appq' \in Seq(Notifications)
    BY <1>1, <2>1, StartLists
  <2>3. watching' \in BOOLEAN /\ known' \subseteq Kinds
    BY <1>1 DEF Start, TypeOK
  <2> QED
    BY <1>1, <2>2, <2>3 DEF Start, TypeOK, cluster
<1>2. CASE Ends
  <2>1. left' \in Bounds
    BY <1>2, SpendType DEF Ends, Crash, ListKindFails, ListKindPanics, TypeOK, Bounds
  <2>2. Halt
    BY <1>2 DEF Ends, Crash, ListKindFails, ListKindPanics
  <2>3. seen' \in [Apps -> AppState] /\ sync' \in Syncs /\ appq' \in Seq(Notifications)
    BY <2>2, RestType DEF Halt
  <2> QED
    BY <2>1, <2>2, <2>3 DEF Halt, TypeOK, Bounds, cluster
<1> QED
  BY <1>1, <1>2

(* The informer and the listener.                                           *)
LEMMA ListenerType ==
    ASSUME TypeOK, Listener \/ Relist
    PROVE  TypeOK'
<1> USE DEF cluster, process
<1>1. CASE Deliver
  <2> DEFINE a == Head(appq).a
             new == Head(appq).new
             next == [busy |-> TRUE, a |-> a, app |-> new,
                      todo |-> KindsIn[new.spec] \cap known, items |-> {}]
  <2>1. Head(appq) \in Notifications /\ Tail(appq) \in Seq(Notifications)
    BY <1>1 DEF Deliver, TypeOK
  <2>2. a \in Apps /\ new \in AppState
    BY <2>1 DEF Notifications
  <2>3. next \in Syncs
    BY <2>2, ConstantsAssumption DEF Syncs, TypeOK, AppState
  <2>4. sync' = next \/ sync' = sync
    BY <1>1 DEF Deliver
  <2>5. seen' = [seen EXCEPT ![a] = new]
    BY <1>1 DEF Deliver
  <2>6. seen' \in [Apps -> AppState] /\ sync' \in Syncs
    BY <2>2, <2>3, <2>4, <2>5 DEF TypeOK
  <2> QED
    BY <1>1, <2>1, <2>6 DEF Deliver, TypeOK
<1>2. ASSUME NEW k \in Kinds, ListKind(k)
      PROVE  TypeOK'
  <2>1. sync' \in Syncs
    BY <1>2, ConstantsAssumption DEF ListKind, TypeOK, Syncs
  <2> QED
    BY <1>2, <2>1 DEF ListKind, TypeOK
<1>3. ASSUME NEW o \in sync.items, HandOver(o)
      PROVE  TypeOK'
  <2>1. sync.a \in Apps /\ sync.app \in AppState /\ o \in Objs
    BY DEF TypeOK, Syncs
  <2>2. sync' \in Syncs
    BY <1>3 DEF HandOver, TypeOK, Syncs
  <2> QED
    BY <1>3, <2>1, <2>2 DEF HandOver, TypeOK
<1>4. CASE EndSync
  BY <1>4, RestType DEF EndSync, TypeOK
<1>5. CASE Relist
  <2>1. PICK i \in DOMAIN appq : appq' = RemoveAt(appq, i)
    BY <1>5 DEF Relist
  <2>2. appq' \in Seq(Notifications)
    BY <2>1 DEF RemoveAt, TypeOK
  <2> QED
    BY <1>5, <2>2 DEF Relist, TypeOK
<1>6. CASE \E k \in Kinds : ListKindPanics(k)
  BY <1>6, LifecycleType DEF Ends
<1> QED
  BY <1>1, <1>2, <1>3, <1>4, <1>5, <1>6 DEF Listener

(* A new version of an application is recorded and announced.               *)
LEMMA UserVersions ==
    ASSUME TypeOK, NEW a \in Apps, UserWritesApp(a)
    PROVE  \E new \in AppState : WriteApp(a, new)
<1>1. apps[a] \in AppState
  BY DEF TypeOK
<1>2. \A s \in Specs : [apps[a] EXCEPT !.spec = s] \in AppState
  BY <1>1 DEF AppState
<1>3. [apps[a] EXCEPT !.enabled = ~@] \in AppState /\ [apps[a] EXCEPT !.scoped = ~@] \in AppState
  BY <1>1 DEF AppState
<1> QED
  BY <1>2, <1>3, RestType DEF UserWritesApp

(* The users.                                                               *)
LEMMA UsersType ==
    ASSUME TypeOK, Users
    PROVE  TypeOK'
<1> USE DEF process, UserOp
<1>1. left' \in Bounds
  BY SpendType DEF Users, UserWritesApp, UserWritesObj, InstallKind
<1>2. ASSUME NEW a \in Apps, UserWritesApp(a)
      PROVE  TypeOK'
  <2>1. PICK new \in AppState : WriteApp(a, new)
    BY <1>2, UserVersions
  <2>2. [a |-> a, new |-> new] \in Notifications
    BY DEF Notifications
  <2>3. appq' \in Seq(Notifications)
    BY <2>1, <2>2 DEF WriteApp, TypeOK
  <2>4. apps' \in [Apps -> AppState] /\ past' \subseteq Apps \X AppState
    BY <2>1 DEF WriteApp, TypeOK
  <2> QED
    BY <1>1, <1>2, <2>3, <2>4 DEF UserWritesApp, TypeOK, Bounds
<1>3. CASE \E o \in Objs : UserWritesObj(o)
  BY <1>1, <1>3 DEF UserWritesObj, TypeOK, Bounds
<1>4. CASE \E k \in Kinds : InstallKind(k)
  BY <1>1, <1>4 DEF InstallKind, TypeOK, Bounds
<1> QED
  BY <1>2, <1>3, <1>4 DEF Users

(* Type correctness: notifications, the version being synced and what is    *)
(* handed over are versions of the applications and resources.              *)
THEOREM TypeCorrect == Spec => []TypeOK
<1>1. Init => TypeOK
  <2> SUFFICES ASSUME Init PROVE TypeOK
    OBVIOUS
  <2>1. apps \in [Apps -> AppState]
    BY ConstantsAssumption DEF Init
  <2>2. past \subseteq Apps \X AppState
    BY <2>1 DEF Init
  <2>3. seen \in [Apps -> AppState] /\ sync \in Syncs
    BY RestType DEF Init
  <2>4. left \in Bounds
    BY ConstantsAssumption DEF Init, Bounds
  <2>5. appq \in Seq(Notifications) /\ handed = {}
    BY DEF Init
  <2>7. up \in BOOLEAN /\ watching \in BOOLEAN
    BY DEF Init
  <2>6. objs \subseteq Objs /\ served \subseteq Kinds /\ known \subseteq Kinds
    BY ConstantsAssumption DEF Init
  <2> QED
    BY <2>1, <2>2, <2>3, <2>4, <2>5, <2>6, <2>7 DEF TypeOK, Bounds
<1>2. TypeOK /\ [Next]_vars => TypeOK'
  <2>1. CASE UNCHANGED vars
    BY <2>1 DEF vars, TypeOK
  <2>2. CASE Next
    BY <2>2, LifecycleType, ListenerType, UsersType DEF Next, Fault, Ends
  <2> QED
    BY <2>1, <2>2
<1> QED
  BY <1>1, <1>2, PTL DEF Spec
-----------------------------------------------------------------------------
(* HandedWasAskedFor rests on what the informer holds and on what the       *)
(* listener works from: real versions, and a selection of the very version  *)
(* being synced.                                                            *)
Announced == {n \in Notifications : <<n.a, n.new>> \in past}
Asked(s) == s.live /\ s.enabled

AskedInv ==
    /\ \A a \in Apps : <<a, apps[a]>> \in past
    /\ appq \in Seq(Announced)
    /\ sync.busy => <<sync.a, sync.app>> \in past /\ Asked(sync.app)
    /\ sync.items \subseteq Selected(sync.a, sync.app)
    /\ ~sync.busy => sync.todo = {} /\ sync.items = {}
    /\ HandedWasAskedFor

(* A version that has been stays on record.                                 *)
LEMMA PastGrows ==
    ASSUME [Next]_vars
    PROVE  past \subseteq past'
BY DEF Next, Start, Listener, Deliver, ListKind, ListKindPanics, HandOver, EndSync, Fault, Crash,
       ListKindFails, Halt, Relist, Users, UserWritesApp, WriteApp, UserWritesObj, InstallKind, cluster, vars

(* Every step of the process keeps to what was asked for.                   *)
LEMMA AskedProcess ==
    ASSUME TypeOK, AskedInv, Start \/ Ends \/ Listener \/ Relist
    PROVE  AskedInv'
<1>0. UNCHANGED <<apps, past>>
  BY DEF Start, Ends, Crash, ListKindFails, ListKindPanics, Halt, Listener, Deliver, ListKind, HandOver,
         EndSync, Relist, cluster
<1>1. CASE Start
  <2>1. {[a |-> a, new |-> apps[a]] : a \in Apps} \subseteq Announced
    BY DEF TypeOK, AskedInv, Announced, Notifications
  <2>2. appq' \in Seq(Announced)
    BY <1>1, <2>1, StartLists
  <2>3. UNCHANGED <<sync, handed>>
    BY <1>1 DEF Start
  <2> QED
    BY <1>0, <2>2, <2>3 DEF AskedInv, Announced, HandedWasAskedFor
<1>2. CASE Halt
  <2>1. appq' \in Seq(Announced)
    BY <1>2 DEF Halt
  <2>2. sync'.busy = FALSE /\ sync'.todo = {} /\ sync'.items = {} /\ UNCHANGED handed
    BY <1>2 DEF Halt, Idle
  <2> QED
    BY <1>0, <2>1, <2>2 DEF AskedInv, Announced, HandedWasAskedFor
<1>3. CASE Deliver
  <2> DEFINE a == Head(appq).a
             new == Head(appq).new
             next == [busy |-> TRUE, a |-> a, app |-> new,
                      todo |-> KindsIn[new.spec] \cap known, items |-> {}]
  <2>1. Head(appq) \in Announced /\ Tail(appq) \in Seq(Announced) /\ appq' = Tail(appq)
    BY <1>3 DEF Deliver, AskedInv
  <2>2. UNCHANGED handed
    BY <1>3 DEF Deliver
  <2>3. (sync' = next /\ Asked(new)) \/ UNCHANGED sync
    BY <1>3 DEF Deliver, Relevant, Asked
  <2>4. CASE sync' = next /\ Asked(new)
    BY <1>0, <2>1, <2>2, <2>4 DEF AskedInv, Announced, HandedWasAskedFor
  <2>5. CASE UNCHANGED sync
    BY <1>0, <2>1, <2>2, <2>5 DEF AskedInv, Announced, HandedWasAskedFor
  <2> QED
    BY <2>3, <2>4, <2>5
<1>4. ASSUME NEW k \in Kinds, ListKind(k)
      PROVE  AskedInv'
  <2>1. sync \in Syncs /\ sync.busy
    BY <1>4 DEF TypeOK, ListKind, AskedInv
  <2>2. /\ sync'.busy = sync.busy /\ sync'.a = sync.a /\ sync'.app = sync.app
        /\ sync'.items \subseteq sync.items \cup Selected(sync.a, sync.app)
    BY <1>4, <2>1 DEF ListKind, Syncs
  <2>3. UNCHANGED <<appq, handed>>
    BY <1>4 DEF ListKind
  <2> QED
    BY <1>0, <2>1, <2>2, <2>3 DEF AskedInv, Announced, Selected, HandedWasAskedFor
<1>5. ASSUME NEW o \in sync.items, HandOver(o)
      PROVE  AskedInv'
  <2>1. sync \in Syncs /\ sync.busy
    BY <1>5 DEF TypeOK, HandOver, AskedInv
  <2>2. /\ sync'.busy = sync.busy /\ sync'.a = sync.a /\ sync'.app = sync.app
        /\ sync'.items \subseteq sync.items
    BY <1>5, <2>1 DEF HandOver, Syncs
  <2>3. UNCHANGED appq /\ handed' = handed \cup {<<sync.a, sync.app, o>>}
    BY <1>5 DEF HandOver
  <2>4. /\ <<sync.a, sync.app>> \in past /\ Asked(sync.app)
        /\ o \in Selected(sync.a, sync.app)
    BY <1>5, <2>1 DEF AskedInv
  <2>5. HandedWasAskedFor'
    <3> SUFFICES ASSUME NEW h \in handed'
                 PROVE  /\ <<h[1], h[2]>> \in past
                        /\ h[2].live /\ h[2].enabled
                        /\ h[3] \in Selected(h[1], h[2])
      BY <1>0 DEF HandedWasAskedFor, Selected
    <3>1. CASE h \in handed
      BY <3>1 DEF AskedInv, HandedWasAskedFor
    <3>2. CASE h = <<sync.a, sync.app, o>>
      BY <2>4, <3>2 DEF Asked
    <3> QED
      BY <2>3, <3>1, <3>2
  <2> QED
    BY <1>0, <2>1, <2>2, <2>3, <2>5 DEF AskedInv, Announced, Selected
<1>6. CASE EndSync
  <2>1. sync'.busy = FALSE /\ sync'.todo = {} /\ sync'.items = {} /\ UNCHANGED <<appq, handed>>
    BY <1>6 DEF EndSync, Idle
  <2> QED
    BY <1>0, <2>1 DEF AskedInv, Announced, HandedWasAskedFor
<1>7. CASE Relist
  <2>1. PICK i \in DOMAIN appq : appq' = RemoveAt(appq, i)
    BY <1>7 DEF Relist
  <2>2. appq' \in Seq(Announced)
    BY <2>1 DEF RemoveAt, AskedInv
  <2>3. UNCHANGED <<sync, handed>>
    BY <1>7 DEF Relist
  <2> QED
    BY <1>0, <2>2, <2>3 DEF AskedInv, Announced, HandedWasAskedFor
<1> QED
  BY <1>1, <1>2, <1>3, <1>4, <1>5, <1>6, <1>7 DEF Ends, Crash, ListKindFails, ListKindPanics, Listener

(* So does every step of the users.                                         *)
LEMMA AskedUsers ==
    ASSUME TypeOK, AskedInv, Users
    PROVE  AskedInv'
<1>1. past \subseteq past'
  BY PastGrows DEF Next
<1>2. UNCHANGED <<sync, handed>>
  BY DEF Users, UserWritesApp, UserWritesObj, InstallKind
<1>3. HandedWasAskedFor'
  BY <1>1, <1>2 DEF AskedInv, HandedWasAskedFor, Selected
<1>4. ASSUME NEW a \in Apps, UserWritesApp(a)
      PROVE  (\A b \in Apps : <<b, apps'[b]>> \in past') /\ appq' \in Seq(Announced')
  <2>1. PICK new \in AppState : WriteApp(a, new)
    BY <1>4, UserVersions
  <2>2. [a |-> a, new |-> new] \in Announced'
    BY <2>1 DEF Announced, Notifications, WriteApp
  <2>3. Announced \subseteq Announced'
    BY <1>1 DEF Announced
  <2>4. appq \in Seq(Announced')
    BY <2>3 DEF AskedInv
  <2>5. appq' = appq \/ appq' = Append(appq, [a |-> a, new |-> new])
    BY <2>1 DEF WriteApp
  <2>6. appq' \in Seq(Announced')
    BY <2>2, <2>4, <2>5
  <2> QED
    BY <2>1, <2>6 DEF WriteApp, AskedInv, TypeOK
<1>5. CASE UNCHANGED <<apps, past, appq>>
  BY <1>2, <1>3, <1>5 DEF AskedInv, Announced, Selected
<1>6. CASE \E a \in Apps : UserWritesApp(a)
  BY <1>1, <1>2, <1>3, <1>4, <1>6 DEF AskedInv, Selected
<1> QED
  BY <1>5, <1>6 DEF Users, UserWritesObj, InstallKind

(* So this holds throughout.                                                *)
LEMMA AskedThroughout == Spec => []AskedInv
<1>1. Init => AskedInv
  <2> SUFFICES ASSUME Init PROVE AskedInv
    OBVIOUS
  <2>1. \A a \in Apps : <<a, apps[a]>> \in past
    BY DEF Init
  <2>2. appq \in Seq(Announced) /\ handed = {}
    BY DEF Init
  <2>3. sync.busy = FALSE /\ sync.todo = {} /\ sync.items = {}
    BY DEF Init, Idle
  <2> QED
    BY <2>1, <2>2, <2>3 DEF AskedInv, HandedWasAskedFor
<1>2. TypeOK /\ AskedInv /\ [Next]_vars => AskedInv'
  <2>1. CASE UNCHANGED vars
    BY <2>1 DEF vars, AskedInv, Announced, HandedWasAskedFor
  <2> QED
    BY <2>1, AskedProcess, AskedUsers DEF Next, Fault, Ends
<1> QED
  BY <1>1, <1>2, TypeCorrect, PTL DEF Spec

(* No resource is ever handed to discovery but for an application that, in  *)
(* one version it really had, asked for discovery and selected it: however  *)
(* edits, relists, failures and crashes fall between the notification, the  *)
(* lists and the components.                                                *)
THEOREM HandsOverWhatWasAsked == Spec => []HandedWasAskedFor
<1>1. AskedInv => HandedWasAskedFor
  BY DEF AskedInv
<1> QED
  BY <1>1, AskedThroughout, PTL
-----------------------------------------------------------------------------
(* FollowedAtRest rests on what the listener still holds while no operation *)
(* of LateOps has happened: the present version of each application is the  *)
(* one the informer has seen, or the last of those it will; what it has     *)
(* seen, or will, differs from the present only in the spec; and each       *)
(* resource the version seen asks for is handed over, or the sync of that   *)
(* version still has to list or to hand it over.                            *)
Steady == left.late = MaxLate
Alike(s, t) == s.live /\ t.live /\ s.enabled = t.enabled /\ s.scoped = t.scoped

Current ==
    /\ \A i \in DOMAIN appq : Alike(appq[i].new, apps[appq[i].a])
    /\ \A a \in Apps : seen[a].live => Alike(seen[a], apps[a])

NoneFrom(a, i) == \A j \in DOMAIN appq : j >= i => appq[j].a # a
Upcoming(a) ==
    \/ seen[a] = apps[a] /\ NoneFrom(a, 1)
    \/ \E i \in DOMAIN appq : appq[i] = [a |-> a, new |-> apps[a]] /\ NoneFrom(a, i + 1)

Searching(a, o) ==
    /\ sync.busy /\ sync.a = a /\ sync.app = seen[a]
    /\ KindOf[o] \in sync.todo \/ o \in sync.items
LookedFor(a, o) ==
    (Asked(seen[a]) /\ o \in Selected(a, seen[a]) \cap objs /\ KindOf[o] \in known)
        => (Handed(a, o) \/ Searching(a, o))

Stopped == appq = <<>> /\ ~sync.busy /\ \A a \in Apps : ~seen[a].live
Followed ==
    /\ up => known = served
    /\ Current
    /\ \A a \in Apps : watching /\ apps[a].live => Upcoming(a)
    /\ \A a \in Apps, o \in Objs : LookedFor(a, o)
FollowInv ==
    /\ left.late <= MaxLate
    /\ ~watching => Stopped
    /\ watching => up
    /\ Steady => Followed

(* The informer lists every application there is.                           *)
LEMMA StartListsAll ==
    ASSUME TypeOK, Start, watching'
    PROVE  \A a \in Apps : apps[a].live => \E i \in DOMAIN appq' : appq'[i] = [a |-> a, new |-> apps[a]]
<1> DEFINE L == {b \in Apps : watching' /\ apps[b].live}
           S == {[a |-> a, new |-> apps[a]] : a \in L}
           f == [a \in L |-> [a |-> a, new |-> apps[a]]]
           D == 1 .. Cardinality(S)
<1>1. appq' \in SetToSeqs(S)
  BY DEF Start
<1>2. f \in [L -> S] /\ \A n \in S : \E a \in L : f[a] = n
  OBVIOUS
<1>3. \A a \in Apps : apps[a].live => [a |-> a, new |-> apps[a]] \in S
  OBVIOUS
<1>4. IsFiniteSet(L)
  BY FS_Subset, ConstantsAssumption
<1> HIDE DEF L, S, f
<1>5. f \in Surjection(L, S)
  BY <1>2 DEF Surjection
<1>6. IsFiniteSet(S) /\ Cardinality(S) \in Nat
  BY <1>4, <1>5, FS_Surjection, FS_CardinalityType
<1>7. Cardinality(D) = Cardinality(S)
  <2>1. Cardinality(1 .. Cardinality(S)) = IF 1 > Cardinality(S) THEN 0 ELSE Cardinality(S) - 1 + 1
    BY <1>6, FS_Interval
  <2> QED
    BY <1>6, <2>1
<1>8. appq' \in [D -> S] /\ \A i, j \in D : i # j => appq'[i] # appq'[j]
  BY <1>1 DEF SetToSeqs
<1> HIDE DEF D
<1>9. appq' \in Injection(D, S)
  BY <1>8 DEF Injection, IsInjective
<1>10. appq' \in Surjection(D, S)
  BY <1>6, <1>7, <1>9, FS_Injection
<1>11. \A n \in S : \E i \in D : appq'[i] = n
  BY <1>10 DEF Surjection
<1> QED
  BY <1>3, <1>8, <1>11

(* The process comes and goes: it starts from a list of what is there.      *)
LEMMA FollowLifecycle ==
    ASSUME TypeOK, AskedInv, FollowInv, Start \/ Ends
    PROVE  FollowInv'
<1>1. CASE Start
  <2>1. UNCHANGED <<apps, objs, served, seen, sync, handed, left>> /\ up' /\ known' = served
    BY <1>1 DEF Start, cluster
  <2>2. ~watching /\ Stopped
    BY <1>1 DEF FollowInv, Start
  <2>3. ASSUME ~watching'
        PROVE  appq' = <<>>
    <3> DEFINE S == {[a |-> a, new |-> apps[a]] : a \in {b \in Apps : watching' /\ apps[b].live}}
    <3>1. S = {} /\ appq' \in SetToSeqs(S)
      BY <1>1, <2>3 DEF Start
    <3>2. Cardinality(S) = 0
      BY <3>1, FS_EmptySet
    <3> HIDE DEF S
    <3>3. appq' \in [1 .. 0 -> S]
      BY <3>1, <3>2 DEF SetToSeqs
    <3> QED
      BY <3>3
  <2>4. appq' \in Seq({[a |-> a, new |-> apps[a]] : a \in Apps})
    BY <1>1, StartLists
  <2>5. \A i \in DOMAIN appq' : apps[appq'[i].a].live
    <3> DEFINE S == {[a |-> a, new |-> apps[a]] : a \in {b \in Apps : watching' /\ apps[b].live}}
    <3>1. appq' \in [1 .. Cardinality(S) -> S]
      BY <1>1 DEF Start, SetToSeqs
    <3>2. \A n \in S : apps[n.a].live
      OBVIOUS
    <3> HIDE DEF S
    <3> QED
      BY <3>1, <3>2
  <2>6. Current'
    <3>1. \A i \in DOMAIN appq' : appq'[i].new = apps[appq'[i].a]
      BY <2>4
    <3> QED
      BY <2>1, <2>2, <2>5, <3>1 DEF Current, Alike, Stopped
  <2>7. ASSUME NEW a \in Apps, watching', apps[a].live
        PROVE  Upcoming(a)'
    <3>1. PICK i \in DOMAIN appq' : appq'[i] = [a |-> a, new |-> apps[a]]
      BY <1>1, <2>7, StartListsAll
    <3>2. \A j \in DOMAIN appq' : j # i => appq'[j] # appq'[i]
      BY <1>1 DEF Start, SetToSeqs
    <3>3. \A j \in DOMAIN appq' : appq'[j] = [a |-> appq'[j].a, new |-> apps[appq'[j].a]]
      BY <2>4
    <3>4. \A j \in DOMAIN appq' : j # i => appq'[j].a # a
      BY <3>1, <3>2, <3>3
    <3>5. DOMAIN appq' = 1 .. Len(appq') /\ Len(appq') \in Nat
      BY <2>4
    <3>6. NoneFrom(a, i + 1)'
      BY <3>4, <3>5 DEF NoneFrom
    <3> QED
      BY <2>1, <3>1, <3>6 DEF Upcoming
  <2>8. \A a \in Apps, o \in Objs : LookedFor(a, o)'
    BY <2>1, <2>2 DEF LookedFor, Stopped, Asked
  <2> QED
    BY <2>1, <2>2, <2>3, <2>6, <2>7, <2>8 DEF FollowInv, Followed, Stopped
<1>2. CASE Ends
  <2>1. UNCHANGED <<apps, objs, served, known, handed>> /\ ~up' /\ ~watching'
    BY <1>2 DEF Ends, Crash, ListKindFails, ListKindPanics, Halt, cluster
  <2>2. Stopped'
    BY <1>2 DEF Ends, Crash, ListKindFails, ListKindPanics, Halt, Stopped, Idle, NoApp
  <2>3. left'.late <= MaxLate
    BY <1>2, ConstantsAssumption
       DEF Ends, Crash, ListKindFails, ListKindPanics, Spend, FollowInv, TypeOK
  <2>4. Current' /\ \A a \in Apps, o \in Objs : LookedFor(a, o)'
    BY <2>2 DEF Stopped, Current, LookedFor, Asked
  <2> QED
    BY <2>1, <2>2, <2>3, <2>4 DEF FollowInv, Followed
<1> QED
  BY <1>1, <1>2

(* What is left of a queue that loses one entry.                            *)
LEMMA RemoveAtEntries ==
    ASSUME NEW S, NEW s \in Seq(S), NEW i \in 1 .. Len(s)
    PROVE  /\ DOMAIN RemoveAt(s, i) = 1 .. Len(s) - 1
           /\ \A k \in 1 .. Len(s) - 1 : RemoveAt(s, i)[k] = IF k < i THEN s[k] ELSE s[k + 1]
<1> DEFINE h == SubSeq(s, 1, i - 1)
           t == SubSeq(s, i + 1, Len(s))
<1>1. h \in Seq(S) /\ Len(h) = i - 1 /\ \A k \in 1 .. i - 1 : h[k] = s[k]
  OBVIOUS
<1>2. t \in Seq(S) /\ Len(t) = Len(s) - i /\ \A k \in 1 .. Len(s) - i : t[k] = s[i + k]
  OBVIOUS
<1>3. RemoveAt(s, i) = h \o t
  BY DEF RemoveAt
<1> HIDE DEF h, t
<1>4. DOMAIN (h \o t) = 1 .. Len(s) - 1
  BY <1>1, <1>2
<1>5. ASSUME NEW k \in 1 .. Len(s) - 1
      PROVE  (h \o t)[k] = IF k < i THEN s[k] ELSE s[k + 1]
  <2>1. CASE k < i
    BY <1>1, <1>2, <2>1
  <2>2. CASE k >= i
    <3>1. (h \o t)[k] = t[k - (i - 1)]
      BY <1>1, <1>2, <2>2
    <3>2. t[k - (i - 1)] = s[i + (k - (i - 1))]
      BY <1>2, <2>2
    <3> QED
      BY <2>2, <3>1, <3>2
  <2>3. k < i \/ k >= i
    OBVIOUS
  <2> QED
    BY <2>1, <2>2, <2>3
<1> QED
  BY <1>3, <1>4, <1>5

(* A relist skips no version that has no later one.                         *)
LEMMA FollowRelist ==
    ASSUME TypeOK, FollowInv, Relist
    PROVE  FollowInv'
<1>1. PICK i \in DOMAIN appq, j \in DOMAIN appq :
           i < j /\ appq[i].a = appq[j].a /\ appq' = RemoveAt(appq, i)
  BY DEF Relist
<1>2. UNCHANGED <<apps, objs, served, known, up, watching, seen, sync, handed, left>>
  BY DEF Relist, cluster, process
<1>3. appq \in Seq(Notifications) /\ DOMAIN appq = 1 .. Len(appq) /\ Len(appq) \in Nat
  BY DEF TypeOK
<1>4. DOMAIN appq' = 1 .. Len(appq) - 1
  BY <1>1, <1>3, RemoveAtEntries
<1>5. \A k \in DOMAIN appq' : appq'[k] = IF k < i THEN appq[k] ELSE appq[k + 1]
  BY <1>1, <1>3, <1>4, RemoveAtEntries
<1>6. Current => Current'
  <2>1. \A k \in DOMAIN appq' : \E m \in DOMAIN appq : appq'[k] = appq[m]
    BY <1>3, <1>4, <1>5
  <2> QED
    BY <1>2, <2>1 DEF Current
<1>7. ASSUME NEW a \in Apps, Upcoming(a)
      PROVE  Upcoming(a)'
  <2>1. ASSUME NEW m \in Nat, NoneFrom(a, m)
        PROVE  NoneFrom(a, m)' /\ (m > i => NoneFrom(a, m - 1)')
    BY <1>3, <1>4, <1>5, <2>1 DEF NoneFrom
  <2>2. CASE seen[a] = apps[a] /\ NoneFrom(a, 1)
    BY <1>2, <2>1, <2>2 DEF Upcoming
  <2>3. ASSUME NEW m \in DOMAIN appq, appq[m] = [a |-> a, new |-> apps[a]], NoneFrom(a, m + 1)
        PROVE  Upcoming(a)'
    <3>1. m # i
      BY <1>1, <1>3, <2>3 DEF NoneFrom
    <3>2. CASE m < i
      <4>1. m \in DOMAIN appq' /\ appq'[m] = appq[m]
        BY <1>1, <1>3, <1>4, <1>5, <3>2
      <4>2. NoneFrom(a, m + 1)'
        BY <1>3, <2>1, <2>3
      <4> QED
        BY <1>2, <2>3, <4>1, <4>2 DEF Upcoming
    <3>3. CASE m > i
      <4>1. m - 1 \in DOMAIN appq' /\ appq'[m - 1] = appq[m]
        BY <1>1, <1>3, <1>4, <1>5, <3>3
      <4>2. NoneFrom(a, (m - 1) + 1)'
        BY <1>3, <2>1, <2>3, <3>3
      <4> QED
        BY <1>2, <2>3, <4>1, <4>2 DEF Upcoming
    <3> QED
      BY <1>3, <3>1, <3>2, <3>3
  <2> QED
    BY <1>7, <2>2, <2>3 DEF Upcoming
<1>8. \A a \in Apps, o \in Objs : LookedFor(a, o) => LookedFor(a, o)'
  BY <1>2 DEF LookedFor, Handed, Searching
<1>9. appq # <<>>
  BY <1>1, <1>3
<1> QED
  BY <1>2, <1>6, <1>7, <1>8, <1>9 DEF FollowInv, Followed, Stopped, Steady

(* A version the listener takes is looked for unless nothing in it is new.  *)
LEMMA FollowDeliver ==
    ASSUME TypeOK, AskedInv, FollowInv, Deliver
    PROVE  FollowInv'
<1> DEFINE n == Head(appq)
           next == [busy |-> TRUE, a |-> n.a, app |-> n.new,
                    todo |-> KindsIn[n.new.spec] \cap known, items |-> {}]
<1>1. UNCHANGED <<apps, objs, served, known, up, watching, handed, left>>
  BY DEF Deliver, cluster, process
<1>2. appq \in Seq(Notifications) /\ appq # <<>> /\ appq' = Tail(appq)
  BY DEF Deliver, TypeOK
<1>3. DOMAIN appq = 1 .. Len(appq) /\ Len(appq) \in Nat \ {0} /\ n = appq[1] /\ n \in Notifications
  BY <1>2
<1>4. DOMAIN appq' = 1 .. Len(appq) - 1 /\ \A k \in DOMAIN appq' : appq'[k] = appq[k + 1]
  BY <1>2, <1>3
<1>5. ~sync.busy /\ seen' = [seen EXCEPT ![n.a] = n.new] /\ n.a \in Apps /\ n.new \in AppState
  BY <1>3 DEF Deliver, Notifications
<1>6. sync' = IF Relevant(seen[n.a], n.new) THEN next ELSE sync
  BY DEF Deliver
<1>7. watching
  BY <1>2 DEF FollowInv, Stopped
<1> SUFFICES ASSUME Steady, Followed
             PROVE  Followed'
  BY <1>1, <1>7 DEF FollowInv, Steady
<1>8. Alike(n.new, apps[n.a])
  BY <1>3 DEF Followed, Current
<1>9. Current'
  <2>1. \A k \in DOMAIN appq' : Alike(appq'[k].new, apps[appq'[k].a])
    BY <1>3, <1>4 DEF Followed, Current
  <2>2. \A a \in Apps : seen'[a].live => Alike(seen'[a], apps[a])
    BY <1>5, <1>8 DEF Followed, Current, TypeOK
  <2> QED
    BY <1>1, <2>1, <2>2 DEF Current
<1>10. ASSUME NEW a \in Apps, Upcoming(a)
       PROVE  Upcoming(a)'
  <2>1. ASSUME NEW m \in Nat, NoneFrom(a, m + 1)
        PROVE  NoneFrom(a, m)'
    BY <1>3, <1>4, <2>1 DEF NoneFrom
  <2>2. CASE seen[a] = apps[a] /\ NoneFrom(a, 1)
    <3>1. n.a # a
      BY <1>3, <2>2 DEF NoneFrom
    <3>2. NoneFrom(a, 1 + 1)
      BY <1>3, <2>2 DEF NoneFrom
    <3> QED
      BY <1>1, <1>5, <2>1, <2>2, <3>1, <3>2 DEF Upcoming, TypeOK
  <2>3. ASSUME NEW m \in DOMAIN appq, appq[m] = [a |-> a, new |-> apps[a]], NoneFrom(a, m + 1)
        PROVE  Upcoming(a)'
    <3>1. CASE m = 1
      <4>1. n.a = a /\ n.new = apps[a]
        BY <1>3, <2>3, <3>1
      <4>2. seen'[a] = apps[a]
        BY <1>5, <4>1 DEF TypeOK
      <4> QED
        BY <1>1, <2>1, <2>3, <3>1, <4>2 DEF Upcoming
    <3>2. CASE m > 1
      <4>1. m - 1 \in DOMAIN appq' /\ appq'[m - 1] = appq[m]
        BY <1>3, <1>4, <3>2
      <4>2. NoneFrom(a, m)'
        BY <1>3, <2>1, <2>3
      <4>3. NoneFrom(a, (m - 1) + 1)'
        BY <1>3, <4>2
      <4> QED
        BY <1>1, <2>3, <4>1, <4>3 DEF Upcoming
    <3> QED
      BY <1>3, <3>1, <3>2
  <2> QED
    BY <1>10, <2>2, <2>3 DEF Upcoming
<1>11. ASSUME NEW a \in Apps, NEW o \in Objs
       PROVE  LookedFor(a, o)'
  <2>1. LookedFor(a, o) /\ ~Searching(a, o)
    BY <1>5 DEF Followed, Searching
  <2>2. CASE seen'[a] = seen[a]
    BY <1>1, <2>1, <2>2 DEF LookedFor, Handed, Selected
  <2>3. CASE seen'[a] # seen[a]
    <3>1. n.a = a /\ seen'[a] = n.new
      BY <1>5, <2>3 DEF TypeOK
    <3>2. ASSUME Asked(n.new) PROVE Relevant(seen[a], n.new)
      <4>1. seen[a].live => Alike(seen[a], n.new)
        BY <1>8, <3>1 DEF Followed, Current, Alike
      <4>2. seen[a] \in AppState
        BY DEF TypeOK
      <4>3. seen[a].live => seen[a].spec # n.new.spec
        BY <1>5, <2>3, <3>1, <4>1, <4>2 DEF AppState, Alike
      <4> QED
        BY <3>2, <4>3 DEF Relevant, Asked
    <3>3. ASSUME Asked(n.new), o \in Selected(a, n.new), KindOf[o] \in known
          PROVE  Searching(a, o)'
      <4>1. sync' = next
        BY <1>6, <3>1, <3>2, <3>3
      <4>2. KindOf[o] \in KindsIn[n.new.spec] \cap known
        BY <3>3 DEF Selected
      <4> QED
        BY <3>1, <4>1, <4>2 DEF Searching
    <3> QED
      BY <1>1, <3>1, <3>3 DEF LookedFor, Selected
  <2> QED
    BY <2>2, <2>3
<1> QED
  BY <1>1, <1>9, <1>10, <1>11 DEF Followed

(* Listing and handing over leave nothing out.                              *)
LEMMA FollowSync ==
    ASSUME TypeOK, AskedInv, FollowInv,
           \/ \E k \in Kinds : ListKind(k)
           \/ \E o \in sync.items : HandOver(o)
           \/ EndSync
    PROVE  FollowInv'
<1>1. UNCHANGED <<apps, objs, served, known, up, watching, appq, seen, left>>
  BY DEF ListKind, HandOver, EndSync, cluster, process
<1>2. sync.busy
  BY DEF ListKind, HandOver, EndSync, AskedInv
<1>3. watching
  BY <1>2 DEF FollowInv, Stopped
<1> SUFFICES ASSUME Steady, Followed, NEW a \in Apps, NEW o \in Objs
             PROVE  LookedFor(a, o)'
  BY <1>1, <1>3 DEF FollowInv, Followed, Current, Upcoming, NoneFrom, Steady
<1>4. sync \in Syncs
  BY DEF TypeOK
<1>5. handed \subseteq handed'
  BY DEF ListKind, HandOver, EndSync
<1>6. Handed(a, o) => Handed(a, o)'
  BY <1>5 DEF Handed
<1> SUFFICES ASSUME o \in Selected(a, seen[a]) \cap objs, Searching(a, o)
             PROVE  Handed(a, o)' \/ Searching(a, o)'
  BY <1>1, <1>6 DEF LookedFor, Followed, Selected
<1>7. ASSUME NEW k \in Kinds, ListKind(k)
      PROVE  Searching(a, o)'
  <2>1. /\ sync'.busy = sync.busy /\ sync'.a = sync.a /\ sync'.app = sync.app
        /\ sync'.todo = sync.todo \ {k}
        /\ sync'.items = sync.items \cup {r \in Selected(sync.a, sync.app) \cap objs : KindOf[r] = k}
    BY <1>4, <1>7 DEF ListKind, Syncs
  <2> QED
    BY <1>1, <2>1 DEF Searching
<1>8. ASSUME NEW r \in sync.items, HandOver(r)
      PROVE  Handed(a, o)' \/ Searching(a, o)'
  <2>1. /\ sync'.busy = sync.busy /\ sync'.a = sync.a /\ sync'.app = sync.app
        /\ sync'.todo = {} /\ sync.todo = {} /\ sync'.items = sync.items \ {r}
    BY <1>4, <1>8 DEF HandOver, Syncs
  <2>2. CASE r = o
    <3>1. <<a, sync.app, o>> \in handed' /\ sync.app \in AppState
      BY <1>4, <1>8, <2>2 DEF HandOver, Searching, Syncs
    <3> QED
      BY <3>1 DEF Handed
  <2>3. CASE r # o
    BY <1>1, <2>1, <2>3 DEF Searching
  <2> QED
    BY <2>2, <2>3
<1>9. CASE EndSync
  BY <1>9 DEF EndSync, Searching
<1> QED
  BY <1>7, <1>8, <1>9

(* What users write comes after what they wrote before.                     *)
LEMMA FollowUsers ==
    ASSUME TypeOK, FollowInv, Users
    PROVE  FollowInv'
<1>1. UNCHANGED <<known, up, watching, seen, sync, handed>>
  BY DEF Users, UserWritesApp, UserWritesObj, InstallKind, process
<1>2. left'.late \in Nat /\ left'.late <= left.late /\ left.late \in Nat /\ MaxLate \in Nat
  <2>1. \E op \in UserOps : UserOp(op)
    BY DEF Users, UserWritesApp, UserWritesObj, InstallKind, UserOp
  <2>2. Spend("late") \/ Spend("ops")
    BY <2>1 DEF UserOp
  <2>3. left.late \in Nat /\ MaxLate \in Nat
    BY ConstantsAssumption DEF TypeOK
  <2>4. CASE Spend("late")
    <3>1. left'.late = left.late - 1 /\ left.late > 0
      BY <2>4 DEF Spend, TypeOK
    <3> QED
      BY <2>3, <3>1
  <2>5. CASE Spend("ops")
    <3>1. left'.late = left.late
      BY <2>5 DEF Spend, TypeOK
    <3> QED
      BY <2>3, <3>1
  <2> QED
    BY <2>2, <2>4, <2>5
<1>3. ~watching' => Stopped'
  BY <1>1 DEF FollowInv, Stopped, Users, UserWritesApp, WriteApp, UserWritesObj, InstallKind
<1>4. ASSUME NEW op \in LateOps, UserOp(op)
      PROVE  left'.late < left.late
  BY <1>4 DEF UserOp, Spend, TypeOK
<1> SUFFICES ASSUME Steady'
             PROVE  Followed'
  BY <1>1, <1>2, <1>3 DEF FollowInv
<1>5. Steady /\ Followed /\ left'.late = left.late
  BY <1>2 DEF Steady, FollowInv
<1>6. PICK a \in Apps : UserWritesApp(a) /\ (UserOp("create") \/ UserOp("editSpec"))
  BY <1>2, <1>4, <1>5 DEF Users, UserWritesApp, UserWritesObj, InstallKind, LateOps
<1>7. PICK new \in AppState :
           /\ WriteApp(a, new)
           /\ apps[a].live => Alike(new, apps[a])
           /\ new.live
  <2>1. ~UserOp("delete") /\ ~UserOp("enable") /\ ~UserOp("scope")
    BY <1>2, <1>4, <1>5 DEF LateOps
  <2>2. CASE ~apps[a].live
    BY <1>6, <2>1, <2>2 DEF UserWritesApp
  <2>3. CASE apps[a].live
    <3>1. PICK s \in Specs : WriteApp(a, [apps[a] EXCEPT !.spec = s])
      BY <1>6, <2>1, <2>3 DEF UserWritesApp
    <3>2. apps[a] \in AppState
      BY DEF TypeOK
    <3>3. [apps[a] EXCEPT !.spec = s] \in AppState /\ Alike([apps[a] EXCEPT !.spec = s], apps[a])
      BY <2>3, <3>2 DEF AppState, Alike
    <3> QED
      BY <3>1, <3>3 DEF Alike
  <2> QED
    BY <2>2, <2>3
<1>8. UNCHANGED <<objs, served>> /\ apps' = [apps EXCEPT ![a] = new]
  BY <1>6, <1>7 DEF UserWritesApp, WriteApp
<1>9. \A b \in Apps, s \in AppState : Alike(s, apps[b]) => Alike(s, apps'[b])
  BY <1>7, <1>8 DEF Alike, TypeOK
<1>10. appq \in Seq(Notifications) /\ [a |-> a, new |-> new] \in Notifications
  BY DEF TypeOK, Notifications
<1>11. ASSUME watching
       PROVE  /\ Len(appq) \in Nat /\ DOMAIN appq = 1 .. Len(appq)
              /\ DOMAIN appq' = 1 .. Len(appq) + 1
              /\ appq'[Len(appq) + 1] = [a |-> a, new |-> new]
              /\ \A i \in DOMAIN appq : appq'[i] = appq[i]
  BY <1>7, <1>10, <1>11 DEF WriteApp
<1>12. Current'
  <2>1. \A b \in Apps : seen'[b].live => Alike(seen'[b], apps'[b])
    BY <1>1, <1>5, <1>9 DEF Followed, Current, TypeOK
  <2>2. CASE ~watching
    BY <1>1, <1>3, <2>1, <2>2 DEF Stopped, Current
  <2>3. ASSUME watching, NEW i \in DOMAIN appq'
        PROVE  Alike(appq'[i].new, apps'[appq'[i].a])
    <3>1. CASE i \in DOMAIN appq
      <4>1. appq[i] \in Notifications /\ Alike(appq[i].new, apps[appq[i].a])
        BY <1>5, <1>10, <3>1 DEF Followed, Current
      <4> QED
        BY <1>9, <1>11, <2>3, <3>1, <4>1 DEF Notifications
    <3>2. CASE i = Len(appq) + 1
      BY <1>7, <1>8, <1>11, <2>3, <3>2 DEF Alike, TypeOK
    <3> QED
      BY <1>11, <2>3, <3>1, <3>2
  <2> QED
    BY <2>1, <2>2, <2>3 DEF Current
<1>13. ASSUME NEW b \in Apps, watching', apps'[b].live
       PROVE  Upcoming(b)'
  <2>0. watching
    BY <1>1, <1>13
  <2>1. CASE b = a
    <3>1. PICK m \in DOMAIN appq' : m = Len(appq) + 1
      BY <1>11, <2>0
    <3>2. appq'[m] = [a |-> a, new |-> apps'[a]]
      BY <1>8, <1>11, <2>0, <3>1 DEF TypeOK
    <3>3. NoneFrom(a, m + 1)'
      BY <1>11, <2>0, <3>1 DEF NoneFrom
    <3> QED
      BY <2>1, <3>2, <3>3 DEF Upcoming
  <2>2. CASE b # a
    <3>1. apps'[b] = apps[b] /\ Upcoming(b)
      BY <1>5, <1>8, <1>13, <2>0, <2>2 DEF TypeOK, Followed
    <3>2. \A m \in Nat : NoneFrom(b, m) => NoneFrom(b, m)'
      BY <1>11, <2>0, <2>2 DEF NoneFrom
    <3>3. CASE seen[b] = apps[b] /\ NoneFrom(b, 1)
      BY <1>1, <3>1, <3>2, <3>3 DEF Upcoming
    <3>4. ASSUME NEW m \in DOMAIN appq, appq[m] = [a |-> b, new |-> apps[b]], NoneFrom(b, m + 1)
          PROVE  Upcoming(b)'
      <4>1. m \in DOMAIN appq' /\ m + 1 \in Nat /\ appq'[m] = appq[m]
        BY <1>11, <2>0
      <4> QED
        BY <3>1, <3>2, <3>4, <4>1 DEF Upcoming
    <3> QED
      BY <3>1, <3>3, <3>4 DEF Upcoming
  <2> QED
    BY <2>1, <2>2
<1>14. \A b \in Apps, o \in Objs : LookedFor(b, o)'
  BY <1>1, <1>5, <1>8 DEF Followed, LookedFor, Handed, Searching, Selected
<1> QED
  BY <1>1, <1>5, <1>8, <1>12, <1>13, <1>14 DEF Followed

(* While applications are only created and edited, whatever is skipped,     *)
(* fails or crashes in between, the listener never comes to rest with a     *)
(* component undiscovered that an enabled application selects as it is now. *)
THEOREM FollowsSpecs == Spec => []FollowedAtRest
<1>1. Init => FollowInv
  <2> SUFFICES ASSUME Init PROVE FollowInv
    OBVIOUS
  <2>1. Stopped /\ ~up /\ ~watching /\ left.late = MaxLate /\ MaxLate \in Nat
    BY ConstantsAssumption DEF Init, Stopped, NoApp, Idle
  <2>2. Current /\ \A a \in Apps, o \in Objs : LookedFor(a, o)
    BY <2>1 DEF Stopped, Current, LookedFor, Asked
  <2> QED
    BY <2>1, <2>2 DEF FollowInv, Followed
<1>2. TypeOK /\ AskedInv /\ FollowInv /\ [Next]_vars => FollowInv'
  <2>1. CASE UNCHANGED vars
    BY <2>1 DEF vars, FollowInv, Followed, Current, Upcoming, NoneFrom, LookedFor, Handed, Searching, Stopped,
                Steady
  <2> QED
    BY <2>1, FollowLifecycle, FollowRelist, FollowDeliver, FollowSync, FollowUsers
       DEF Next, Listener, Fault, Ends
<1>3. FollowInv => FollowedAtRest
  <2> SUFFICES ASSUME FollowInv, AtRest, left.late = MaxLate, NEW a \in Apps, NEW o \in Objs, Wanted(a, o)
               PROVE  Handed(a, o)
    BY DEF FollowedAtRest
  <2>1. Followed /\ known = served
    BY DEF FollowInv, AtRest, Steady, Followed
  <2>2. seen[a] = apps[a]
    BY <2>1 DEF AtRest, Wanted, Followed, Upcoming
  <2>3. LookedFor(a, o)
    BY <2>1 DEF Followed
  <2> QED
    BY <2>1, <2>2, <2>3 DEF LookedFor, Wanted, Asked, Searching, AtRest
<1> QED
  BY <1>1, <1>2, <1>3, AskedThroughout, TypeCorrect, PTL DEF Spec
=============================================================================
