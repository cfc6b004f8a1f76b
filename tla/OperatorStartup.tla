---------------------------- MODULE OperatorStartup ----------------------------
(***************************************************************************)
(* The life of the operator's processes: election, start-up, the explorer  *)
(* and the listeners each process ends up running.                         *)
(*                                                                         *)
(* The Deployment keeps a pod of the operator; a rollout adds another      *)
(* before the old one is deleted.  The container of a pod runs RunManager, *)
(* which waits for the leader-for-life lock, adds the three controllers in *)
(* the order of their files and starts the manager.  The two informers on  *)
(* dynamic clients run from the moment they are added, the deployer        *)
(* controller from the start of the manager.  Every error ends the         *)
(* process, and the kubelet restarts the container.                        *)
(***************************************************************************)
EXTENDS GroupVersions

CONSTANTS
    Pods,       \* names of pods, each used for one pod
    Kinds,      \* names of kinds
    Resources,  \* what discovery may list: [gv, kind, full], see ResourceType
    AppResource,\* the kind Application among them
    InitServed, \* what is served at first
    None,       \* the lock has no owner
    Unset,      \* the package-wide explorer is nil
    MaxOps,     \* bound: kinds installed, API groups that stop answering
    MaxFaults,  \* bound: other errors of the start-up, crashes
    MaxForced   \* bound: pods deleted by force, with the container running on

(* full: the resource supports the verbs that resourcePredicate asks for.   *)
ResourceType == [gv : ApiVersions, kind : Kinds, full : BOOLEAN]

Keys == [group : {""} \cup Segments, version : {<<s>> : s \in Segments}, kind : Kinds]
Explorers == [from : SUBSET Resources, map : SUBSET Keys]

ASSUME ConstantsAssumption ==
    /\ Resources \subseteq ResourceType
    /\ AppResource \in Resources
    /\ InitServed \subseteq Resources
    /\ None \notin Pods
    /\ Unset \notin Explorers
    /\ {MaxOps, MaxFaults, MaxForced} \subseteq Nat

VARIABLES
    pods,     \* API server: what has become of each pod
    lock,     \* API server: the pod that owns the ConfigMap of the lock
    served,   \* API server: resources discovery lists, preferred versions
    broken,   \* API server: group/versions that do not answer
    pc,       \* the next step of RunManager in each pod's process
    explorer, \* each process's explorer: its map, and what was served then
    on,       \* listeners that run in each process
    left      \* what remains of each bound

vars == <<pods, lock, served, broken, pc, explorer, on, left>>

cluster == <<pods, served, broken>>

PCs == {"off", "elect", "application", "deployer", "manifestwork", "metrics", "start", "run"}
Listeners == {"application", "deployer", "manifestwork"}

Spend(bound) == /\ left[bound] > 0
                /\ left' = [left EXCEPT ![bound] = @ - 1]

Goto(p, next) == pc' = [pc EXCEPT ![p] = next]
-----------------------------------------------------------------------------
Init ==
    /\ pods = [p \in Pods |-> "new"]
    /\ lock = None
    /\ served = InitServed
    /\ broken = {}
    /\ pc = [p \in Pods |-> "off"]
    /\ explorer = [p \in Pods |-> Unset]
    /\ on = [p \in Pods |-> {}]
    /\ left = [ops |-> MaxOps, faults |-> MaxFaults, forced |-> MaxForced]

(* Faulty variant: the controllers are added before the election.           *)
BootUnelected(p) ==
    /\ pods[p] = "running"
    /\ pc[p] = "off"
    /\ Goto(p, "application")
    /\ UNCHANGED <<cluster, lock, explorer, on, left>>

Boot(p) ==
    /\ pods[p] = "running"
    /\ pc[p] = "off"
    /\ Goto(p, "elect")
    /\ UNCHANGED <<cluster, lock, explorer, on, left>>

(* Faulty variant: a restarted container does not know its own lock.        *)
BecomeAnew(p) ==
    /\ pc[p] = "elect"
    /\ lock = None
    /\ lock' = p
    /\ Goto(p, "application")
    /\ UNCHANGED <<cluster, explorer, on, left>>

(* leader.Become waits with a context of its own: a process that was told   *)
(* to stop goes on waiting, and may still become the leader.                *)
Become(p) ==
    /\ pc[p] = "elect"
    /\ lock \in {None, p}
    /\ lock' = p
    /\ Goto(p, "application")
    /\ UNCHANGED <<cluster, explorer, on, left>>
-----------------------------------------------------------------------------
(* InitExplorer.  map holds the keys of GVKGVRMap, from the resources       *)
(* whose kinds were served with all verbs when it was filled.               *)
Discovered ==
    LET full == {r \in served : r.full}
    IN  [from |-> full, map |-> {MapKey(r.gv, r.kind) : r \in {s \in full : s.gv \notin broken}}]

Found(p, r) == LookupKey(r.gv, r.kind) \in explorer[p].map

(* Faulty variants: the error of the discovery does not matter; the         *)
(* explorer is filled anew on every call.                                   *)
InitExplorerContinuing(p) ==
    explorer' = IF explorer[p] # Unset THEN explorer ELSE [explorer EXCEPT ![p] = Discovered]

InitExplorerAgain(p) == broken = {} /\ explorer' = [explorer EXCEPT ![p] = Discovered]

InitExplorer(p) ==
    IF explorer[p] # Unset THEN UNCHANGED explorer
    ELSE broken = {} /\ explorer' = [explorer EXCEPT ![p] = Discovered]

(* The process is gone, and its listeners with it.                          *)
Exit(p) ==
    /\ Goto(p, "off")
    /\ explorer' = [explorer EXCEPT ![p] = Unset]
    /\ on' = [on EXCEPT ![p] = {}]

(* One group/version that does not answer makes the discovery an error.     *)
InitExplorerFails(p) ==
    /\ pc[p] \in {"application", "manifestwork"}
    /\ explorer[p] = Unset
    /\ broken # {}
    /\ Exit(p)
    /\ UNCHANGED <<cluster, lock, left>>

(* Without the kind Application there is no informer, and no error either.  *)
AddApplication(p) ==
    /\ pc[p] = "application"
    /\ InitExplorer(p)
    /\ on' = IF MapKey(AppResource.gv, AppResource.kind) \in explorer'[p].map
             THEN [on EXCEPT ![p] = @ \cup {"application"}] ELSE on
    /\ Goto(p, "deployer")
    /\ UNCHANGED <<cluster, lock, left>>

AddDeployer(p) ==
    /\ pc[p] = "deployer"
    /\ Goto(p, "manifestwork")
    /\ UNCHANGED <<cluster, lock, explorer, on, left>>

AddManifestWork(p) ==
    /\ pc[p] = "manifestwork"
    /\ InitExplorer(p)
    /\ on' = [on EXCEPT ![p] = @ \cup {"manifestwork"}]
    /\ Goto(p, "metrics")
    /\ UNCHANGED <<cluster, lock, left>>

(* Whatever comes of the metrics Service and ServiceMonitor is only logged. *)
AddMetrics(p) ==
    /\ pc[p] = "metrics"
    /\ Goto(p, "start")
    /\ UNCHANGED <<cluster, lock, explorer, on, left>>

StartManager(p) ==
    /\ pc[p] = "start"
    /\ on' = [on EXCEPT ![p] = @ \cup {"deployer"}]
    /\ Goto(p, "run")
    /\ UNCHANGED <<cluster, lock, explorer, left>>

(* Any other error of the start-up, of the manager, or a crash.             *)
Fail(p) ==
    /\ pc[p] # "off"
    /\ Spend("faults")
    /\ Exit(p)
    /\ UNCHANGED <<cluster, lock>>
-----------------------------------------------------------------------------
(* The cluster: pods, the garbage collector, API groups.                    *)

(* SIGTERM only closes the channel that mgr.Start waits for: a running      *)
(* manager returns, and any other process is killed after the grace period. *)
Terminate(p) ==
    /\ pods[p] # "running"
    /\ pc[p] # "off"
    /\ Exit(p)
    /\ UNCHANGED <<cluster, lock, left>>

ChangePod(p, from, to) ==
    /\ pods[p] \in from
    /\ pods' = [pods EXCEPT ![p] = to]
    /\ UNCHANGED <<lock, served, broken, pc, explorer, on>>

CreatePod(p) == ChangePod(p, {"new"}, "running") /\ UNCHANGED left
DeletePod(p) == ChangePod(p, {"running"}, "terminating") /\ UNCHANGED left
RemovePod(p) == pc[p] = "off" /\ ChangePod(p, {"terminating"}, "gone") /\ UNCHANGED left
ForceDelete(p) == ChangePod(p, {"running", "terminating"}, "gone") /\ Spend("forced")

CollectLock ==
    /\ lock # None
    /\ pods[lock] = "gone"
    /\ lock' = None
    /\ UNCHANGED <<cluster, pc, explorer, on, left>>

ChangeApi ==
    /\ \/ /\ Spend("ops")
          /\ \E r \in Resources \ served : served' = served \cup {r}
          /\ UNCHANGED broken
       \/ /\ Spend("ops")
          /\ \E r \in served : broken' = broken \cup {r.gv}
          /\ UNCHANGED served
       \/ /\ \E gv \in broken : broken' = broken \ {gv}
          /\ UNCHANGED <<served, left>>
    /\ UNCHANGED <<pods, lock, pc, explorer, on>>
-----------------------------------------------------------------------------
(* The steps a process takes by itself.                                     *)
RunManager(p) ==
    \/ Become(p)
    \/ InitExplorerFails(p)
    \/ AddApplication(p)
    \/ AddDeployer(p)
    \/ AddManifestWork(p)
    \/ AddMetrics(p)
    \/ StartManager(p)

Kubelet(p) == Boot(p) \/ Terminate(p) \/ RemovePod(p)

Next ==
    \/ \E p \in Pods : \/ RunManager(p) \/ Kubelet(p) \/ Fail(p)
                       \/ CreatePod(p) \/ DeletePod(p) \/ ForceDelete(p)
    \/ CollectLock
    \/ ChangeApi

Spec == Init /\ [][Next]_vars

(* A process does not stop between two steps, leader.Become tries again and *)
(* again, and the kubelet and the garbage collector get to their work.  No  *)
(* pod has to be created or deleted, and no API group has to recover.       *)
FairSpec ==
    /\ Spec
    /\ \A p \in Pods : WF_vars(RunManager(p)) /\ WF_vars(Kubelet(p))
    /\ WF_vars(CollectLock)
-----------------------------------------------------------------------------
TypeOK ==
    /\ pods \in [Pods -> {"new", "running", "terminating", "gone"}]
    /\ lock \in Pods \cup {None}
    /\ served \subseteq Resources
    /\ broken \subseteq ApiVersions
    /\ pc \in [Pods -> PCs]
    /\ explorer \in [Pods -> Explorers \cup {Unset}]
    /\ on \in [Pods -> SUBSET Listeners]
    /\ left \in [{"ops", "faults", "forced"} -> Nat]

(* Unless a pod is deleted by force, at most one process of the operator    *)
(* acts on the two clusters at a time, through rollouts, restarts and       *)
(* deletions: the informers of RunManager start after leader.Become, and    *)
(* the lock outlives the process.  Every other module assumes this.         *)
OneActs ==
    left.forced = MaxForced =>
        \A p, q \in Pods : (on[p] # {} /\ on[q] # {}) => p = q

(* A listener that runs finds every kind that was served when its process   *)
(* filled the explorer, by the apiVersion of a manifest: a discovery that   *)
(* misses some groups ends the process before a listener takes their works  *)
(* for orphans, and StripVersion and StripGroup agree with the keys of the  *)
(* map.                                                                     *)
KindsAreFound ==
    \A p \in Pods : on[p] # {} =>
        \A r \in explorer[p].from : Conventional(r.gv) => Found(p, r)

(* The map is not written while a listener of its process may read it: the  *)
(* second InitExplorer runs when the Application informer is at work, and   *)
(* must leave it as it is.                                                  *)
ExplorerIsFixed ==
    [][\A p \in Pods : (on[p] # {} /\ on'[p] # {}) => explorer'[p] = explorer[p]]_vars

(* If a pod stays and no API group fails for ever, some process ends up     *)
(* with its manager running, in spite of restarts under its own lock and of *)
(* locks left behind by other pods (leader.Become, RunManager).             *)
StartsUp ==
    \A p \in Pods :
        (<>[](pods[p] = "running") /\ <>[](broken = {}))
            => <>[](\E q \in Pods : pods[q] = "running" /\ pc[q] = "run")
=============================================================================
