------------------------- MODULE DeployerSetSyncProofs -------------------------
(***************************************************************************)
(* Theorems about DeployerSetSync, for every value of its constants: type  *)
(* correctness, the order of what is published, the published default, and *)
(* that the controller implements DeployerMirror.                          *)
(***************************************************************************)
EXTENDS DeployerSetSync, TLAPS

(* A default is a Deployer, or there is none.                               *)
LEMMA DefaultsType ==
    ASSUME NEW s
    PROVE  Defaults(s) \subseteq Deployers \cup {None}
BY DEF Defaults, Flagged, Present

(* A bound that is spent from remains a number.                             *)
LEMMA SpendType ==
    ASSUME TypeOK, NEW b \in {"changes", "hubOps", "faults", "crashes"}, Spend(b)
    PROVE  left' \in [{"changes", "hubOps", "faults", "crashes"} -> Nat]
BY DEF Spend, TypeOK

(* The locals of a reconciliation that is over.                             *)
LEMMA ReturnType ==
    ASSUME TypeOK, Return
    PROVE  /\ pc' \in {"idle", "get", "create", "update", "delete"}
           /\ lver' \in 1 .. Len(hist)
           /\ ldef' \in Deployers \cup {None}
           /\ fresh' \in BOOLEAN
<1>1. 1 \in 1 .. Len(hist)
  BY DEF TypeOK
<1> QED
  BY <1>1 DEF Return

(* The process starts, or is gone.                                          *)
LEMMA LifecycleType ==
    ASSUME TypeOK, Start \/ Crash
    PROVE  TypeOK'
<1>1. CASE Start
  BY <1>1 DEF Start, TypeOK, worker, Present, Current
<1>2. CASE Crash
  <2>1. left' \in [{"changes", "hubOps", "faults", "crashes"} -> Nat]
    BY <1>2, SpendType DEF Crash
  <2>2. 1 \in 1 .. Len(hist)
    BY DEF TypeOK
  <2> QED
    BY <1>2, <2>1, <2>2, ReturnType DEF Crash, TypeOK
<1> QED
  BY <1>1, <1>2

(* The informer's cache stays within the states there have been.            *)
LEMMA InformerType ==
    ASSUME TypeOK, Observe \/ Relist \/ Resync
    PROVE  TypeOK'
<1>1. CASE Observe
  BY <1>1 DEF Observe, TypeOK, worker
<1>2. CASE Relist
  BY <1>2 DEF Relist, TypeOK, worker, Present, Current
<1>3. CASE Resync
  BY <1>3 DEF Resync, TypeOK, worker, Present
<1> QED
  BY <1>1, <1>2, <1>3

(* What the two writes of the set change.                                   *)
LEMMA PublishSetFields ==
    ASSUME PublishSet
    PROVE  hub'.exists = TRUE /\ hub'.ver = lver /\ hub'.def = ldef
BY DEF PublishSet

(* Removing the set keeps the version shown last.                           *)
LEMMA RemoveSetFields ==
    ASSUME TypeOK, RemoveSet
    PROVE  hub'.exists = FALSE /\ hub'.ver = hub.ver /\ hub'.def = None
BY DEF RemoveSet, TypeOK

(* What a call to the hub that takes effect leaves there.                   *)
LEMMA EffectType ==
    ASSUME TypeOK, CreateEffect \/ UpdateEffect \/ DeleteEffect
    PROVE  hub' \in [exists : BOOLEAN, ver : 1 .. Len(hist), def : Deployers \cup {None}]
<1>1. CASE CreateEffect \/ UpdateEffect
  <2>1. lver \in 1 .. Len(hist) /\ ldef \in Deployers \cup {None}
    BY DEF TypeOK
  <2>2. PublishSet
    BY <1>1 DEF CreateEffect, UpdateEffect
  <2> QED
    BY <2>1, <2>2 DEF PublishSet
<1>2. CASE DeleteEffect
  BY <1>2 DEF DeleteEffect, RemoveSet, TypeOK
<1> QED
  BY <1>1, <1>2

(* Each call of reconcileDeployerSet.                                       *)
LEMMA WorkerType ==
    ASSUME TypeOK, Worker \/ CallFails \/ ReplyLost
    PROVE  TypeOK'
<1>1. CASE \E d \in Deployers : ListDeployers(d)
  <2>1. ldef' \in Deployers \cup {None}
    BY <1>1, DefaultsType DEF ListDeployers
  <2> QED
    BY <1>1, <2>1 DEF ListDeployers, TypeOK
<1>2. CASE GetSet
  BY <1>2 DEF GetSet, TypeOK
<1>3. CASE WriteSet
  BY <1>3, EffectType, ReturnType DEF WriteSet, TypeOK
<1>4. CASE WriteRefused
  BY <1>4, ReturnType DEF WriteRefused, TypeOK
<1>5. CASE CallFails
  <2>1. left' \in [{"changes", "hubOps", "faults", "crashes"} -> Nat]
    BY <1>5, SpendType DEF CallFails
  <2> QED
    BY <1>5, <2>1, ReturnType DEF CallFails, TypeOK
<1>6. CASE ReplyLost
  <2>1. left' \in [{"changes", "hubOps", "faults", "crashes"} -> Nat]
    BY <1>6, SpendType DEF ReplyLost
  <2> QED
    BY <1>6, <2>1, EffectType, ReturnType DEF ReplyLost, TypeOK
<1> QED
  BY <1>1, <1>2, <1>3, <1>4, <1>5, <1>6 DEF Worker

(* A change of the Deployers is one more state; those before it stay.       *)
LEMMA ChangeAppends ==
    ASSUME TypeOK, NEW d \in Deployers, ChangeDeployer(d)
    PROVE  /\ \E s \in States : hist' = Append(hist, s)
           /\ hist' \in Seq(States)
           /\ Len(hist') = Len(hist) + 1
           /\ \A i \in 1 .. Len(hist) : hist'[i] = hist[i]
<1>1. PICK c \in Contents : hist' = Append(hist, [Current EXCEPT ![d] = c])
  BY DEF ChangeDeployer
<1>2. Current \in States
  BY DEF Current, TypeOK
<1>3. [Current EXCEPT ![d] = c] \in States
  BY <1>2 DEF States
<1> QED
  BY <1>1, <1>3 DEF TypeOK

(* The users of the two clusters.                                           *)
LEMMA EnvironmentType ==
    ASSUME TypeOK, Environment
    PROVE  TypeOK'
<1>1. CASE \E d \in Deployers : ChangeDeployer(d)
  <2>1. PICK d \in Deployers : ChangeDeployer(d)
    BY <1>1
  <2>2. left' \in [{"changes", "hubOps", "faults", "crashes"} -> Nat]
    BY <2>1, SpendType DEF ChangeDeployer
  <2>3. hist' \in Seq(States) /\ Len(hist') = Len(hist) + 1
    BY <2>1, ChangeAppends
  <2> QED
    BY <2>1, <2>2, <2>3 DEF ChangeDeployer, TypeOK, process, worker
<1>2. CASE HubWrites
  <2>1. left' \in [{"changes", "hubOps", "faults", "crashes"} -> Nat]
    BY <1>2, SpendType DEF HubWrites
  <2> QED
    BY <1>2, <2>1 DEF HubWrites, RemoveSet, TypeOK
<1> QED
  BY <1>1, <1>2 DEF Environment

(* Type correctness: the cache, the list a reconciliation works from and    *)
(* the published set are states the Deployers have had.                     *)
THEOREM TypeCorrect == Spec => []TypeOK
<1>1. Init => TypeOK
  <2> SUFFICES ASSUME Init PROVE TypeOK
    OBVIOUS
  <2>1. hist \in Seq(States) /\ Len(hist) = 1
    BY DEF Init
  <2>2. hub \in [exists : BOOLEAN, ver : 1 .. Len(hist), def : Deployers \cup {None}]
    BY <2>1 DEF Init
  <2>3. left \in [{"changes", "hubOps", "faults", "crashes"} -> Nat]
    BY ConstantsAssumption DEF Init
  <2>4. cver \in 1 .. Len(hist) /\ lver \in 1 .. Len(hist)
    BY <2>1 DEF Init
  <2>5. up \in BOOLEAN /\ fresh \in BOOLEAN
    BY DEF Init
  <2>6. /\ queue \subseteq Deployers
        /\ pc \in {"idle", "get", "create", "update", "delete"}
        /\ ldef \in Deployers \cup {None}
    BY DEF Init
  <2> QED
    BY <2>1, <2>2, <2>3, <2>4, <2>5, <2>6 DEF TypeOK
<1>2. TypeOK /\ [Next]_vars => TypeOK'
  <2>1. CASE UNCHANGED vars
    BY <2>1 DEF vars, TypeOK
  <2>2. CASE Next
    BY <2>2, LifecycleType, InformerType, WorkerType, EnvironmentType DEF Next, Fault
  <2> QED
    BY <2>1, <2>2
<1> QED
  BY <1>1, <1>2, PTL DEF Spec
-----------------------------------------------------------------------------
(* Every step keeps what is published, about to be published and cached in  *)
(* order.                                                                   *)
LEMMA OrderStep ==
    ASSUME TypeOK, NeverOlder, [Next]_vars
    PROVE  NeverOlder'
<1>1. CASE Start
  BY <1>1 DEF Start, TypeOK, NeverOlder, worker
<1>2. CASE Crash
  BY <1>2 DEF Crash, Return, NeverOlder
<1>3. CASE Observe \/ Relist
  BY <1>3 DEF Observe, Relist, TypeOK, NeverOlder, worker
<1>4. CASE Resync
  BY <1>4 DEF Resync, NeverOlder, worker
<1>5. CASE \E d \in Deployers : ListDeployers(d)
  BY <1>5 DEF ListDeployers, TypeOK, NeverOlder
<1>6. CASE GetSet
  BY <1>6 DEF GetSet, NeverOlder
<1>7. CASE WriteSet \/ ReplyLost
  <2>1. pc # "idle" /\ pc' = "idle" /\ UNCHANGED <<up, cver>>
    BY <1>7 DEF WriteSet, ReplyLost, CreateEffect, UpdateEffect, DeleteEffect, Return
  <2>2. hub'.ver = lver \/ hub'.ver = hub.ver
    BY <1>7, PublishSetFields, RemoveSetFields
       DEF WriteSet, ReplyLost, CreateEffect, UpdateEffect, DeleteEffect
  <2> QED
    BY <2>1, <2>2 DEF TypeOK, NeverOlder
<1>8. CASE WriteRefused \/ CallFails
  BY <1>8 DEF WriteRefused, CallFails, Return, NeverOlder
<1>9. CASE \E d \in Deployers : ChangeDeployer(d)
  BY <1>9 DEF ChangeDeployer, NeverOlder, process, worker
<1>10. CASE HubWrites
  BY <1>10 DEF HubWrites, RemoveSet, TypeOK, NeverOlder
<1>11. CASE UNCHANGED vars
  BY <1>11 DEF vars, NeverOlder
<1> QED
  BY <1>1, <1>2, <1>3, <1>4, <1>5, <1>6, <1>7, <1>8, <1>9, <1>10, <1>11
     DEF Next, Worker, Fault, Environment

(* The set on the hub never goes back to an older state of the Deployers,   *)
(* whatever fails, crashes or is written to it by others.                   *)
THEOREM NeverGoesBack == Spec => []NeverOlder
<1>1. Init => NeverOlder
  BY DEF Init, NeverOlder
<1>2. TypeOK /\ NeverOlder /\ [Next]_vars => NeverOlder'
  BY OrderStep
<1> QED
  BY <1>1, <1>2, TypeCorrect, PTL DEF Spec
-----------------------------------------------------------------------------
(* The first state of the controller is one of the mirror.                  *)
LEMMA MirrorStarts == Init => Mirror!MirrorInit
BY DEF Init, Mirror!MirrorInit

(* Every step of the controller is a step of the mirror, or none.           *)
LEMMA MirrorSteps ==
    ASSUME TypeOK, NeverOlder, [Next]_vars
    PROVE  [Mirror!Change \/ Mirror!Publish \/ Mirror!Remove]_(Mirror!mirrorVars)
<1> USE DEF Mirror!mirrorVars
<1>1. CASE (CreateEffect \/ UpdateEffect) /\ UNCHANGED hist
  <2>1. hub.ver <= lver /\ lver \in 1 .. Len(hist) /\ hub.ver \in 1 .. Len(hist)
    BY <1>1 DEF CreateEffect, UpdateEffect, TypeOK, NeverOlder
  <2>2. hub'.exists = TRUE /\ hub'.ver = lver
    BY <1>1, PublishSetFields DEF CreateEffect, UpdateEffect
  <2> QED
    BY <1>1, <2>1, <2>2 DEF Mirror!Publish
<1>2. CASE DeleteEffect /\ UNCHANGED hist
  BY <1>2, RemoveSetFields DEF DeleteEffect, Mirror!Remove
<1>3. HubWrites => RemoveSet \/ UNCHANGED hub
  BY DEF HubWrites
<1>4. CASE WriteSet \/ ReplyLost
  BY <1>1, <1>2, <1>4 DEF WriteSet, ReplyLost
<1>5. CASE \E d \in Deployers : ChangeDeployer(d)
  <2>1. UNCHANGED hub
    BY <1>5 DEF ChangeDeployer
  <2>2. \E s \in States : hist' = Append(hist, s)
    BY <1>5, ChangeAppends
  <2> QED
    BY <2>1, <2>2 DEF Mirror!Change
<1>6. CASE HubWrites
  BY <1>3, <1>6, RemoveSetFields DEF HubWrites, Mirror!Remove
<1>7. CASE UNCHANGED <<hist, hub>>
  BY <1>7
<1>8. CASE Start \/ Crash \/ Observe \/ Relist \/ Resync \/ GetSet \/ WriteRefused \/ CallFails
           \/ \E d \in Deployers : ListDeployers(d)
  BY <1>7, <1>8 DEF Start, Crash, Observe, Relist, Resync, GetSet, WriteRefused, CallFails,
                    ListDeployers
<1>9. CASE UNCHANGED vars
  BY <1>7, <1>9 DEF vars
<1> QED
  BY <1>4, <1>5, <1>6, <1>8, <1>9 DEF Next, Worker, Fault, Environment

(* The deployer controller implements the mirror: while the DeployerSet     *)
(* exists it shows one moment of the Deployers, and never an older one      *)
(* after a newer one.                                                       *)
THEOREM ImplementsMirror == Spec => RefinesMirror
<1>1. Init => Mirror!MirrorInit
  BY MirrorStarts
<1>2. TypeOK /\ NeverOlder /\ [Next]_vars
         => [Mirror!Change \/ Mirror!Publish \/ Mirror!Remove]_(Mirror!mirrorVars)
  BY MirrorSteps
<1> QED
  BY <1>1, <1>2, TypeCorrect, NeverGoesBack, PTL DEF Spec, RefinesMirror, Mirror!MirrorSpec
-----------------------------------------------------------------------------
(* The default a reconciliation has picked is one of the list it works from.*)
PickedDefault == pc # "idle" => ldef \in Defaults(hist[lver])

(* The published default belongs to the published list, after every step.   *)
LEMMA DefaultStep ==
    ASSUME TypeOK, DefaultIsPublished, PickedDefault, [Next]_vars
    PROVE  DefaultIsPublished' /\ PickedDefault'
<1>1. CASE Start \/ Observe \/ Relist \/ Resync \/ GetSet
  BY <1>1 DEF Start, Observe, Relist, Resync, GetSet, DefaultIsPublished, PickedDefault, worker
<1>2. CASE Crash \/ WriteRefused \/ CallFails
  BY <1>2 DEF Crash, WriteRefused, CallFails, Return, DefaultIsPublished, PickedDefault
<1>3. CASE \E d \in Deployers : ListDeployers(d)
  BY <1>3 DEF ListDeployers, DefaultIsPublished, PickedDefault
<1>4. CASE WriteSet \/ ReplyLost
  <2>1. pc # "idle" /\ pc' = "idle" /\ UNCHANGED hist
    BY <1>4 DEF WriteSet, ReplyLost, CreateEffect, UpdateEffect, DeleteEffect, Return
  <2>2. \/ hub'.exists = TRUE /\ hub'.ver = lver /\ hub'.def = ldef
        \/ hub'.exists = FALSE
    BY <1>4, PublishSetFields, RemoveSetFields
       DEF WriteSet, ReplyLost, CreateEffect, UpdateEffect, DeleteEffect
  <2> QED
    BY <2>1, <2>2 DEF DefaultIsPublished, PickedDefault
<1>5. CASE \E d \in Deployers : ChangeDeployer(d)
  <2>1. hist'[hub.ver] = hist[hub.ver] /\ hist'[lver] = hist[lver]
    BY <1>5, ChangeAppends DEF TypeOK
  <2> QED
    BY <1>5, <2>1 DEF ChangeDeployer, DefaultIsPublished, PickedDefault, process, worker
<1>6. CASE HubWrites
  BY <1>6 DEF HubWrites, RemoveSet, TypeOK, DefaultIsPublished, PickedDefault
<1>7. CASE UNCHANGED vars
  BY <1>7 DEF vars, DefaultIsPublished, PickedDefault
<1> QED
  BY <1>1, <1>2, <1>3, <1>4, <1>5, <1>6, <1>7 DEF Next, Worker, Fault, Environment

(* The default on the hub is always the default of the very list on the     *)
(* hub, never one left over from another list.                              *)
THEOREM DefaultMatchesList == Spec => []DefaultIsPublished
<1>1. Init => DefaultIsPublished /\ PickedDefault
  BY DEF Init, DefaultIsPublished, PickedDefault
<1>2. TypeOK /\ DefaultIsPublished /\ PickedDefault /\ [Next]_vars
         => DefaultIsPublished' /\ PickedDefault'
  BY DefaultStep
<1> QED
  BY <1>1, <1>2, TypeCorrect, PTL DEF Spec
-----------------------------------------------------------------------------
(* ShownAtRest rests on the queue.  While nobody else writes the set and no *)
(* call fails the worker's next write is not refused, and as long as the    *)
(* set does not show what the cache holds there is a key in the queue, or   *)
(* the worker is about to publish it.                                       *)
Ready ==
    /\ pc = "create" => ~hub.exists
    /\ pc = "update" => hub.exists /\ fresh
    /\ pc = "delete" => hub.exists /\ Present(hist[lver]) = {}

Pending ==
    \/ queue # {}
    \/ pc # "idle" /\ hist[lver] = hist[cver]
    \/ pc = "idle" /\ hub.exists /\ hist[hub.ver] = hist[cver]

InHand == Undisturbed => Ready /\ (up /\ Present(hist[cver]) # {} => Pending)

(* The bounds are only counted down, and a failure or a write of the set by *)
(* others is counted.                                                       *)
Counted == left.faults <= MaxFaults /\ left.hubOps <= MaxHubOps

LEMMA Disturbance ==
    ASSUME TypeOK, Counted, [Next]_vars
    PROVE  /\ Counted'
           /\ Undisturbed' => Undisturbed /\ ~HubWrites /\ ~CallFails /\ ~ReplyLost
<1>1. /\ left \in [{"changes", "hubOps", "faults", "crashes"} -> Nat]
      /\ MaxFaults \in Nat /\ MaxHubOps \in Nat
  BY ConstantsAssumption DEF TypeOK
<1>2. CASE UNCHANGED left /\ ~HubWrites /\ ~CallFails /\ ~ReplyLost
  BY <1>2 DEF Counted, Undisturbed
<1>3. CASE HubWrites
  BY <1>1, <1>3 DEF HubWrites, Spend, Counted, Undisturbed
<1>4. CASE CallFails \/ ReplyLost
  BY <1>1, <1>4 DEF CallFails, ReplyLost, Spend, Counted, Undisturbed
<1>5. CASE (Crash \/ \E d \in Deployers : ChangeDeployer(d)) /\ ~HubWrites /\ ~CallFails /\ ~ReplyLost
  BY <1>1, <1>5 DEF Crash, ChangeDeployer, Spend, Counted, Undisturbed
<1>6. Start \/ Observe \/ Resync \/ Worker \/ Relist \/ UNCHANGED vars => UNCHANGED left
  BY DEF Start, Observe, Resync, Worker, ListDeployers, GetSet, WriteSet, WriteRefused, Relist, vars
<1> QED
  BY <1>2, <1>3, <1>4, <1>5, <1>6 DEF Next, Fault, Environment

(* Whatever the informer, the worker and a restart do, what the cache holds *)
(* stays in hand.                                                           *)
LEMMA InHandStep ==
    ASSUME TypeOK, Counted, InHand, [Next]_vars
    PROVE  InHand'
<1> SUFFICES ASSUME Undisturbed'
             PROVE  Ready' /\ (up' /\ Present(hist'[cver']) # {} => Pending')
  BY DEF InHand, Present
<1>0. Undisturbed /\ ~HubWrites /\ ~CallFails /\ ~ReplyLost
  BY Disturbance
<1>1. Ready /\ (up /\ Present(hist[cver]) # {} => Pending)
  BY <1>0 DEF InHand
<1>2. /\ hist \in Seq(States) /\ cver \in 1 .. Len(hist) /\ lver \in 1 .. Len(hist)
      /\ hub.ver \in 1 .. Len(hist)
  BY DEF TypeOK
<1>3. CASE Start
  <2>1. hist'[cver'] = Current /\ queue' = Present(Current) /\ UNCHANGED <<hist, hub, worker>>
    BY <1>3 DEF Start, Current
  <2> QED
    BY <1>1, <2>1 DEF Ready, Pending, worker
<1>4. CASE Crash
  BY <1>4 DEF Crash, Return, Ready
<1>5. CASE Observe
  <2>1. /\ up /\ cver + 1 \in 1 .. Len(hist) /\ cver' = cver + 1
        /\ queue' = queue \cup {d \in Deployers : hist[cver][d] # hist[cver + 1][d]}
        /\ UNCHANGED <<hist, up, hub, worker>>
    BY <1>2, <1>5 DEF Observe
  <2>2. hist[cver] \in States /\ hist[cver + 1] \in States
    BY <1>2, <2>1
  <2>3. CASE queue' # {}
    BY <1>1, <2>1, <2>3 DEF Ready, Pending, worker
  <2>4. CASE queue' = {}
    <3>1. \A d \in Deployers : hist[cver][d] = hist[cver + 1][d]
      BY <2>1, <2>4
    <3>2. hist[cver] = hist[cver + 1]
      BY <2>2, <3>1 DEF States
    <3> QED
      BY <1>1, <2>1, <2>4, <3>2 DEF Ready, Pending, worker
  <2> QED
    BY <2>3, <2>4
<1>6. CASE Relist
  <2>1. /\ hist'[cver'] = Current /\ Present(Current) \subseteq queue'
        /\ UNCHANGED <<hist, hub, worker>>
    BY <1>6 DEF Relist, Current
  <2> QED
    BY <1>1, <2>1 DEF Ready, Pending, worker
<1>7. CASE Resync
  <2>1. queue \subseteq queue' /\ UNCHANGED <<hist, hub, up, cver, worker>>
    BY <1>7 DEF Resync
  <2> QED
    BY <1>1, <2>1 DEF Ready, Pending, worker
<1>8. CASE \E d \in Deployers : ListDeployers(d)
  BY <1>8 DEF ListDeployers, Ready, Pending
<1>9. CASE GetSet
  <2>1. /\ pc = "get" /\ UNCHANGED <<hist, up, cver, queue, lver, hub>> /\ fresh' = TRUE
        /\ pc' = IF ~hub.exists THEN "create"
                 ELSE IF Present(hist[lver]) = {} THEN "delete" ELSE "update"
    BY <1>9 DEF GetSet
  <2> QED
    BY <1>1, <2>1 DEF Ready, Pending
<1>10. CASE WriteSet
  <2>1. pc # "idle" /\ pc' = "idle" /\ UNCHANGED <<hist, up, cver, queue>>
    BY <1>10 DEF WriteSet, CreateEffect, UpdateEffect, DeleteEffect, Return
  <2>2. CASE CreateEffect \/ UpdateEffect
    <3>1. hub'.exists /\ hub'.ver = lver
      BY <2>2, PublishSetFields DEF CreateEffect, UpdateEffect
    <3> QED
      BY <1>1, <2>1, <3>1 DEF Ready, Pending
  <2>3. CASE DeleteEffect
    BY <1>1, <2>1, <2>3 DEF DeleteEffect, Ready, Pending
  <2> QED
    BY <1>10, <2>2, <2>3 DEF WriteSet
<1>11. ~WriteRefused
  BY <1>1 DEF WriteRefused, Ready
<1>12. CASE \E d \in Deployers : ChangeDeployer(d)
  <2>1. \A i \in 1 .. Len(hist) : hist'[i] = hist[i]
    BY <1>12, ChangeAppends
  <2>2. UNCHANGED <<up, cver, queue, pc, lver, fresh, hub>>
    BY <1>12 DEF ChangeDeployer, process, worker
  <2>3. hist'[cver] = hist[cver] /\ hist'[lver] = hist[lver] /\ hist'[hub.ver] = hist[hub.ver]
    BY <1>2, <2>1
  <2> QED
    BY <1>1, <2>2, <2>3 DEF Ready, Pending
<1>13. CASE UNCHANGED vars
  BY <1>1, <1>13 DEF vars, Ready, Pending
<1> QED
  BY <1>0, <1>3, <1>4, <1>5, <1>6, <1>7, <1>8, <1>9, <1>10, <1>11, <1>12, <1>13
     DEF Next, Worker, Fault, Environment

(* The events of the Deployers are enough: whatever the cache skips, however *)
(* often the process crashes, and without a single resync, the set shows the *)
(* Deployers once all events are handled, if no call to the hub has failed  *)
(* and nobody else has written it.                                          *)
THEOREM EventsSuffice == Spec => []ShownAtRest
<1>1. Init => Counted /\ InHand
  <2> SUFFICES ASSUME Init PROVE Counted /\ InHand
    OBVIOUS
  <2>1. Counted
    BY ConstantsAssumption DEF Init, Counted
  <2>2. pc = "idle" /\ up = FALSE
    BY DEF Init
  <2> QED
    BY <2>1, <2>2 DEF InHand, Ready
<1>2. TypeOK /\ Counted /\ InHand /\ [Next]_vars => Counted' /\ InHand'
  BY Disturbance, InHandStep
<1>3. TypeOK /\ DefaultIsPublished /\ InHand => ShownAtRest
  <2> SUFFICES ASSUME DefaultIsPublished, InHand, AtRest, Undisturbed, Present(Current) # {}
               PROVE  Shown
    BY DEF ShownAtRest
  <2>1. hub.exists /\ hist[hub.ver] = Current
    BY DEF InHand, Pending, AtRest, Current
  <2> QED
    BY <2>1 DEF Shown, DefaultIsPublished
<1> QED
  BY <1>1, <1>2, <1>3, TypeCorrect, DefaultMatchesList, PTL DEF Spec
=============================================================================
