------------------------- MODULE OperatorStartupProofs -------------------------
(***************************************************************************)
(* Theorems about OperatorStartup, for every value of its constants.       *)
(***************************************************************************)
EXTENDS OperatorStartup, TLAPS

Bounds == [{"ops", "faults", "forced"} -> Nat]

(* StripVersion and StripGroup make of a conventional apiVersion the key    *)
(* that the explorer made of it.                                            *)
LEMMA KeysAgree ==
    ASSUME NEW gv \in ApiVersions, NEW kind, Conventional(gv)
    PROVE  LookupKey(gv, kind) = MapKey(gv, kind)
<1>1. CASE \E s \in Segments : gv = <<s>>
  <2>1. PICK s \in Segments : gv = <<s>>
    BY <1>1
  <2>2. Len(gv) = 1 /\ gv[1] \in VersionLike /\ gv # <<>>
    BY <2>1 DEF Conventional
  <2> QED
    BY <2>1, <2>2 DEF LookupKey, MapKey, StripVersion, StripGroup
<1>2. CASE gv \in Segments \X Segments
  <2>1. PICK g \in Segments, v \in Segments : gv = <<g, v>>
    BY <1>2
  <2>2. Len(gv) = 2 /\ gv[1] = g /\ gv[2] = v /\ gv # <<>>
    BY <2>1
  <2>3. g \notin VersionLike
    BY <2>2 DEF Conventional
  <2>4. StripVersion(gv) = g /\ StripGroup(gv) = <<v>>
    BY <2>2, <2>3 DEF StripVersion, StripGroup
  <2>5. MapKey(gv, kind) = [group |-> g, version |-> <<v>>, kind |-> kind]
    BY <2>2 DEF MapKey
  <2> QED
    BY <2>4, <2>5 DEF LookupKey
<1> QED
  BY <1>1, <1>2 DEF ApiVersions

LEMMA KeyType ==
    ASSUME NEW group \in {""} \cup Segments, NEW version \in {<<s>> : s \in Segments}, NEW kind \in Kinds
    PROVE  [group |-> group, version |-> version, kind |-> kind] \in Keys
BY DEF Keys

LEMMA MapKeyType ==
    ASSUME NEW gv \in ApiVersions, NEW kind \in Kinds
    PROVE  MapKey(gv, kind) \in Keys
<1>1. CASE \E s \in Segments : gv = <<s>>
  <2>1. PICK s \in Segments : gv = <<s>>
    BY <1>1
  <2>2. MapKey(gv, kind) = [group |-> "", version |-> <<s>>, kind |-> kind]
    BY <2>1 DEF MapKey
  <2>3. <<s>> \in {<<x>> : x \in Segments}
    OBVIOUS
  <2> QED
    BY <2>2, <2>3, KeyType
<1>2. CASE gv \in Segments \X Segments
  <2>1. PICK g \in Segments, v \in Segments : gv = <<g, v>>
    BY <1>2
  <2>2. Len(gv) = 2 /\ gv[1] = g /\ gv[2] = v
    BY <2>1
  <2>3. MapKey(gv, kind) = [group |-> g, version |-> <<v>>, kind |-> kind]
    BY <2>2 DEF MapKey
  <2>4. <<v>> \in {<<x>> : x \in Segments}
    OBVIOUS
  <2> QED
    BY <2>3, <2>4, KeyType
<1> QED
  BY <1>1, <1>2 DEF ApiVersions

LEMMA DiscoveredType ==
    ASSUME TypeOK
    PROVE  Discovered \in Explorers
<1>1. served \subseteq ResourceType
  BY ConstantsAssumption DEF TypeOK
<1>2. \A r \in served : MapKey(r.gv, r.kind) \in Keys
  BY <1>1, MapKeyType DEF ResourceType
<1> QED
  BY <1>1, <1>2 DEF Discovered, Explorers, TypeOK

(* A bound that is spent from remains a number.                             *)
LEMMA SpendType ==
    ASSUME TypeOK, NEW b \in {"ops", "faults", "forced"}, Spend(b)
    PROVE  left' \in Bounds
BY DEF Spend, TypeOK, Bounds

LEMMA InitExplorerType ==
    ASSUME TypeOK, NEW p \in Pods, InitExplorer(p)
    PROVE  explorer' \in [Pods -> Explorers \cup {Unset}]
BY DiscoveredType DEF InitExplorer, TypeOK

LEMMA ExitType ==
    ASSUME TypeOK, NEW p \in Pods, Exit(p)
    PROVE  /\ explorer' \in [Pods -> Explorers \cup {Unset}]
           /\ pc' \in [Pods -> PCs]
           /\ on' \in [Pods -> SUBSET Listeners]
BY DEF Exit, Goto, TypeOK, PCs

LEMMA ListenersGrow ==
    ASSUME TypeOK, NEW p \in Pods, NEW l \in Listeners
    PROVE  [on EXCEPT ![p] = @ \cup {l}] \in [Pods -> SUBSET Listeners]
BY DEF TypeOK

(* The steps of RunManager.                                                 *)
LEMMA RunManagerType ==
    ASSUME TypeOK, NEW p \in Pods, RunManager(p)
    PROVE  TypeOK'
<1> USE DEF cluster, Goto, PCs, Listeners
<1>1. CASE Become(p)
  BY <1>1 DEF Become, TypeOK
<1>2. CASE InitExplorerFails(p)
  BY <1>2, ExitType DEF InitExplorerFails, TypeOK
<1>3. CASE AddApplication(p)
  BY <1>3, InitExplorerType, ListenersGrow DEF AddApplication, TypeOK
<1>4. CASE AddDeployer(p)
  BY <1>4 DEF AddDeployer, TypeOK
<1>5. CASE AddManifestWork(p)
  BY <1>5, InitExplorerType, ListenersGrow DEF AddManifestWork, TypeOK
<1>6. CASE AddMetrics(p)
  BY <1>6 DEF AddMetrics, TypeOK
<1>7. CASE StartManager(p)
  BY <1>7, ListenersGrow DEF StartManager, TypeOK
<1> QED
  BY <1>1, <1>2, <1>3, <1>4, <1>5, <1>6, <1>7 DEF RunManager

(* Pods and API groups change.                                              *)
LEMMA ChangePodType ==
    ASSUME TypeOK, NEW p \in Pods, NEW from,
           NEW to \in {"running", "terminating", "gone"}, ChangePod(p, from, to),
           left' \in Bounds
    PROVE  TypeOK'
BY DEF ChangePod, TypeOK, Bounds

LEMMA ChangeApiType ==
    ASSUME TypeOK, ChangeApi
    PROVE  TypeOK'
<1>1. left' \in Bounds
  BY SpendType DEF ChangeApi, TypeOK, Bounds
<1>2. served' \subseteq Resources
  BY DEF ChangeApi, TypeOK
<1>3. \A r \in served : r.gv \in ApiVersions
  BY ConstantsAssumption DEF TypeOK, ResourceType
<1>4. broken' \subseteq ApiVersions
  BY <1>3 DEF ChangeApi, TypeOK
<1> QED
  BY <1>1, <1>2, <1>4 DEF ChangeApi, TypeOK, Bounds

LEMMA StepType ==
    ASSUME TypeOK, [Next]_vars
    PROVE  TypeOK'
<1> USE DEF cluster
<1>1. CASE \E p \in Pods : RunManager(p)
  BY <1>1, RunManagerType
<1>2. ASSUME NEW p \in Pods, Kubelet(p)
      PROVE  TypeOK'
  <2>1. CASE Boot(p)
    BY <2>1 DEF Boot, Goto, PCs, TypeOK
  <2>2. CASE Terminate(p)
    BY <2>2, ExitType DEF Terminate, TypeOK
  <2>3. CASE RemovePod(p)
    BY <2>3, ChangePodType DEF RemovePod, TypeOK, Bounds
  <2> QED
    BY <1>2, <2>1, <2>2, <2>3 DEF Kubelet
<1>3. ASSUME NEW p \in Pods, Fail(p)
      PROVE  TypeOK'
  BY <1>3, ExitType, SpendType DEF Fail, TypeOK, Bounds
<1>4. ASSUME NEW p \in Pods, CreatePod(p) \/ DeletePod(p) \/ ForceDelete(p)
      PROVE  TypeOK'
  BY <1>4, ChangePodType, SpendType DEF CreatePod, DeletePod, ForceDelete, TypeOK, Bounds
<1>5. CASE CollectLock
  BY <1>5 DEF CollectLock, TypeOK
<1>6. CASE ChangeApi
  BY <1>6, ChangeApiType
<1>7. CASE UNCHANGED vars
  BY <1>7 DEF vars, TypeOK
<1> QED
  BY <1>1, <1>2, <1>3, <1>4, <1>5, <1>6, <1>7 DEF Next

(* Type correctness: what each process holds is an explorer it can have     *)
(* filled, and its listeners and next step are those of RunManager.         *)
THEOREM TypeCorrect == Spec => []TypeOK
<1>1. Init => TypeOK
  BY ConstantsAssumption DEF Init, TypeOK, PCs
<1> QED
  BY <1>1, StepType, PTL DEF Spec
-----------------------------------------------------------------------------
(* What each process knows follows from how far it has come: it has no      *)
(* listener before it has an explorer, and an explorer finds what it was    *)
(* filled from.                                                             *)
Filled(p) == explorer[p] # Unset => \A r \in explorer[p].from : Conventional(r.gv) => Found(p, r)

Ready ==
    \A p \in Pods :
        /\ Filled(p)
        /\ on[p] # {} => explorer[p] # Unset
        /\ explorer[p] # Unset <=> pc[p] \notin {"off", "elect", "application"}

(* A process past the election owns the lock, and its pod still exists.     *)
Elected ==
    /\ left.forced \in Nat
    /\ left.forced <= MaxForced
    /\ left.forced = MaxForced =>
           \A p \in Pods :
               /\ pc[p] # "off" => pods[p] \in {"running", "terminating"}
               /\ pc[p] \notin {"off", "elect"} => lock = p

LEMMA DiscoveredIsFound ==
    ASSUME TypeOK, broken = {}, NEW r \in Discovered.from, Conventional(r.gv)
    PROVE  LookupKey(r.gv, r.kind) \in Discovered.map
<1>1. r \in served /\ r.full /\ r.gv \in ApiVersions /\ r.kind \in Kinds
  BY ConstantsAssumption DEF Discovered, TypeOK, ResourceType
<1>2. MapKey(r.gv, r.kind) \in Discovered.map
  BY <1>1 DEF Discovered
<1> QED
  BY <1>1, <1>2, KeysAgree

LEMMA InitExplorerReady ==
    ASSUME TypeOK, Ready, NEW p \in Pods, InitExplorer(p)
    PROVE  /\ explorer'[p] # Unset => Filled(p)'
           /\ \A q \in Pods \ {p} : explorer'[q] = explorer[q]
           /\ explorer[p] # Unset => explorer'[p] = explorer[p]
<1>1. CASE explorer[p] # Unset
  BY <1>1 DEF InitExplorer, Ready, Filled, Found
<1>2. CASE explorer[p] = Unset
  <2>1. broken = {} /\ explorer'[p] = Discovered
    BY <1>2 DEF InitExplorer, TypeOK
  <2>2. Filled(p)'
    BY <2>1, DiscoveredIsFound DEF Filled, Found
  <2> QED
    BY <1>2, <2>2 DEF InitExplorer, TypeOK
<1> QED
  BY <1>1, <1>2

(* A step of the start-up fills the explorer before a listener starts.      *)
LEMMA RunManagerReady ==
    ASSUME TypeOK, Ready, NEW p \in Pods, RunManager(p)
    PROVE  Ready'
<1> USE DEF Goto
<1>1. CASE Become(p) \/ AddDeployer(p) \/ AddMetrics(p)
  BY <1>1 DEF Become, AddDeployer, AddMetrics, Ready, Filled, Found, TypeOK
<1>2. CASE InitExplorerFails(p)
  BY <1>2 DEF InitExplorerFails, Exit, Ready, Filled, Found, TypeOK
<1>3. CASE AddApplication(p) \/ AddManifestWork(p)
  <2>1. InitExplorer(p) /\ pc' \in [Pods -> PCs] /\ pc'[p] \in {"deployer", "metrics"}
    BY <1>3 DEF AddApplication, AddManifestWork, TypeOK, PCs
  <2>2. \A q \in Pods \ {p} : on'[q] = on[q] /\ pc'[q] = pc[q]
    BY <1>3 DEF AddApplication, AddManifestWork, TypeOK
  <2>3. explorer'[p] # Unset
    BY <2>1, DiscoveredType, ConstantsAssumption DEF InitExplorer, TypeOK
  <2> QED
    BY <2>1, <2>2, <2>3, InitExplorerReady DEF Ready, Filled, Found
<1>4. CASE StartManager(p)
  BY <1>4 DEF StartManager, Ready, Filled, Found, TypeOK
<1> QED
  BY <1>1, <1>2, <1>3, <1>4 DEF RunManager

LEMMA StepReady ==
    ASSUME TypeOK, Ready, [Next]_vars
    PROVE  Ready'
<1>1. CASE \E p \in Pods : RunManager(p)
  BY <1>1, RunManagerReady
<1>2. CASE \E p \in Pods : Boot(p)
  BY <1>2 DEF Boot, Goto, Ready, Filled, Found, TypeOK
<1>3. CASE \E p \in Pods : Terminate(p) \/ Fail(p)
  BY <1>3 DEF Terminate, Fail, Exit, Goto, Ready, Filled, Found, TypeOK
<1>4. CASE UNCHANGED <<pc, explorer, on>>
  BY <1>4 DEF Ready, Filled, Found
<1> QED
  BY <1>1, <1>2, <1>3, <1>4
     DEF Next, Kubelet, RemovePod, CreatePod, DeletePod, ForceDelete, ChangePod, CollectLock,
         ChangeApi, vars

(* Listeners find every conventional kind that was served when their        *)
(* process filled the explorer.                                             *)
THEOREM ListedKindsAreFound == Spec => []KindsAreFound
<1>1. Init => Ready
  BY DEF Init, Ready, Filled
<1>2. Ready => KindsAreFound
  BY DEF Ready, Filled, KindsAreFound
<1> QED
  BY <1>1, <1>2, TypeCorrect, StepReady, PTL DEF Spec

(* Nothing writes the map while a listener of its process may read it.      *)
THEOREM MapIsNotRewritten == Spec => ExplorerIsFixed
<1>1. Init => Ready
  BY DEF Init, Ready, Filled
<1>2. ASSUME TypeOK, Ready, [Next]_vars
      PROVE  \A p \in Pods : (on[p] # {} /\ on'[p] # {}) => explorer'[p] = explorer[p]
  <2> SUFFICES ASSUME NEW p \in Pods, on[p] # {}, on'[p] # {}
               PROVE  explorer'[p] = explorer[p]
    OBVIOUS
  <2>1. explorer[p] # Unset
    BY <1>2 DEF Ready
  <2>2. ASSUME NEW q \in Pods, InitExplorer(q)
        PROVE  explorer'[p] = explorer[p]
    BY <1>2, <2>1, <2>2 DEF InitExplorer, TypeOK
  <2>3. ASSUME NEW q \in Pods, Exit(q)
        PROVE  explorer'[p] = explorer[p]
    BY <1>2, <2>3 DEF Exit, TypeOK
  <2>4. \/ UNCHANGED explorer
        \/ \E q \in Pods : InitExplorer(q) \/ Exit(q)
    BY <1>2 DEF Next, RunManager, Kubelet, Boot, Become, InitExplorerFails, AddApplication,
       AddDeployer, AddManifestWork, AddMetrics, StartManager, Fail, Terminate, RemovePod,
       CreatePod, DeletePod, ForceDelete, ChangePod, CollectLock, ChangeApi, vars
  <2> QED
    BY <2>2, <2>3, <2>4
<1> QED
  BY <1>1, <1>2, TypeCorrect, StepReady, PTL DEF Spec, ExplorerIsFixed
-----------------------------------------------------------------------------
(* Forced deletions are only counted down.                                  *)
LEMMA ForcedCount ==
    ASSUME TypeOK, left.forced <= MaxForced, [Next]_vars
    PROVE  /\ left'.forced \in Nat
           /\ left'.forced <= MaxForced
           /\ left'.forced = MaxForced =>
                  left.forced = MaxForced /\ ~\E p \in Pods : ForceDelete(p)
<1>1. MaxForced \in Nat /\ left.forced \in Nat
  BY ConstantsAssumption DEF TypeOK
<1>2. UNCHANGED left \/ Spend("ops") \/ Spend("faults") \/ Spend("forced")
  BY DEF Next, RunManager, Kubelet, Boot, Become, InitExplorerFails, AddApplication,
     AddDeployer, AddManifestWork, AddMetrics, StartManager, Fail, Terminate, RemovePod,
     CreatePod, DeletePod, ForceDelete, CollectLock, ChangeApi, vars
<1>3. Spend("forced") => left'.forced = left.forced - 1 /\ left.forced > 0
  BY DEF Spend, TypeOK
<1>4. Spend("ops") \/ Spend("faults") => left'.forced = left.forced
  BY DEF Spend, TypeOK
<1>5. ASSUME NEW p \in Pods, ForceDelete(p)
      PROVE  left'.forced < left.forced
  BY <1>1, <1>3, <1>5 DEF ForceDelete
<1> QED
  BY <1>1, <1>2, <1>3, <1>4, <1>5

(* The lock stays with a process past its election.                         *)
LEMMA StepElected ==
    ASSUME TypeOK, Elected, [Next]_vars
    PROVE  Elected'
<1>1. /\ left'.forced \in Nat
      /\ left'.forced <= MaxForced
  BY ForcedCount DEF Elected
<1> SUFFICES ASSUME left'.forced = MaxForced
             PROVE  \A p \in Pods :
                        /\ pc'[p] # "off" => pods'[p] \in {"running", "terminating"}
                        /\ pc'[p] \notin {"off", "elect"} => lock' = p
  BY <1>1 DEF Elected
<1>2. left.forced = MaxForced /\ ~\E p \in Pods : ForceDelete(p)
  BY ForcedCount DEF Elected
<1>3. \A p \in Pods :
          /\ pc[p] # "off" => pods[p] \in {"running", "terminating"}
          /\ pc[p] \notin {"off", "elect"} => lock = p
  BY <1>2 DEF Elected
<1> USE DEF Goto, cluster
<1>4. CASE \E q \in Pods : Become(q)
  BY <1>3, <1>4, ConstantsAssumption DEF Become, TypeOK
<1>5. CASE \E q \in Pods : \/ AddApplication(q) \/ AddDeployer(q) \/ AddManifestWork(q)
                            \/ AddMetrics(q) \/ StartManager(q)
  BY <1>3, <1>5 DEF AddApplication, AddDeployer, AddManifestWork, AddMetrics, StartManager, TypeOK
<1>6. CASE \E q \in Pods : Exit(q) /\ UNCHANGED <<pods, lock>>
  BY <1>3, <1>6 DEF Exit, TypeOK
<1>7. CASE \E q \in Pods : Boot(q)
  BY <1>3, <1>7 DEF Boot, TypeOK
<1>8. CASE \E q \in Pods : RemovePod(q) \/ CreatePod(q) \/ DeletePod(q)
  BY <1>3, <1>8 DEF RemovePod, CreatePod, DeletePod, ChangePod, TypeOK
<1>9. CASE CollectLock
  BY <1>3, <1>9 DEF CollectLock, TypeOK
<1>10. CASE UNCHANGED <<pods, lock, pc>>
  BY <1>3, <1>10
<1> QED
  BY <1>2, <1>4, <1>5, <1>6, <1>7, <1>8, <1>9, <1>10
     DEF Next, RunManager, Kubelet, InitExplorerFails, Terminate, Fail, ChangeApi, vars

(* At most one process acts, unless a pod is deleted by force.              *)
THEOREM AtMostOneActs == Spec => []OneActs
<1>1. Init => Ready /\ Elected
  BY ConstantsAssumption DEF Init, Ready, Filled, Elected
<1>2. TypeOK /\ Ready /\ Elected => OneActs
  <2> SUFFICES ASSUME Ready, Elected, left.forced = MaxForced,
                      NEW p \in Pods, NEW q \in Pods, on[p] # {}, on[q] # {}
               PROVE  p = q
    BY DEF OneActs
  <2> QED
    BY DEF Ready, Elected
<1> QED
  BY <1>1, <1>2, TypeCorrect, StepReady, StepElected, PTL DEF Spec
=============================================================================
