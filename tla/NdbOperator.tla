----------------------------- MODULE NdbOperator -----------------------------
(***************************************************************************)
(* The reconciliation loop of the NDB operator (SyncContext.sync in        *)
(* pkg/controllers/sync_context.go) together with the parts of Kubernetes  *)
(* and MySQL Cluster it drives.                                            *)
(*                                                                         *)
(* One reconciliation ("tick") runs as a sequence of steps, `pc`; each     *)
(* step is one action, so the environment (the user editing the           *)
(* NdbCluster, the informer cache catching up, pods restarting, the        *)
(* kubelet refreshing the mounted config map) interleaves between the      *)
(* steps of a tick, as it does between the remote calls of the code.       *)
(* Only one tick runs at a time: the work queue never hands the same key   *)
(* to two workers.                                                         *)
(***************************************************************************)
EXTENDS Integers, FiniteSets, Sequences, NdbConfig

CONSTANTS
    InitialSpec,    \* the spec the NdbCluster resource is created with
    CustomSecret,   \* TRUE iff spec.mysqld.rootPasswordSecretName is set
    MaxGeneration,  \* bound on the resource generation (user updates)
    MaxFailures,    \* bound on transient API / MGM / SQL call failures
    NoConfig,       \* model value: no config map / no config loaded
    MaxCrashes,     \* bound on node processes crashing on their own
    MaxEvictions    \* bound on voluntary evictions of data node pods (drains)

ASSUME InitialSpec \in ClusterSpecs /\ HasValidSpec(InitialSpec)
ASSUME CustomSecret \in BOOLEAN
ASSUME MaxGeneration \in Nat \ {0} /\ MaxFailures \in Nat /\ MaxCrashes \in Nat
ASSUME MaxEvictions \in Nat

(***************************************************************************)
(* Topology, fixed for the life of the cluster (IsValidSpecUpdate forbids  *)
(* changing nodeCount and redundancyLevel).  Node ids follow GetNodeIds in *)
(* the config generator: mgmds first, then the data nodes.                 *)
(***************************************************************************)
R == InitialSpec.redundancy
NumMgmds == GetManagementNodeCount(InitialSpec)
DataNodeIds == NodeIds(InitialSpec).ndbmtd
Mgmds == {NodeIds(InitialSpec).mgmd[i] : i \in 1..NumMgmds}
DataNodes == {DataNodeIds[i] : i \in 1..InitialSpec.nodeCount}
Nodes == Mgmds \cup DataNodes
NumNodeGroups == InitialSpec.nodeCount \div R

\* ClusterStatus.GetNodesGroupedByNodegroup: NDB puts data nodes into node
\* groups of R in node id order; each group is sorted by node id.
NodesGroupedByNodegroup ==
    [g \in 1..NumNodeGroups |-> [k \in 1..R |-> DataNodeIds[(g - 1) * R + k]]]

\* The PodDisruptionBudget ensurePodDisruptionBudget creates for the data
\* nodes (NewPodDisruptionBudget): minAvailable = nodeCount - nodeGroups.
PdbMinAvailable == InitialSpec.nodeCount - NumNodeGroups

\* The config stored in the config map (the ConfigSummary of it): the
\* config generation, the resource generation that produced it and the
\* spec it was generated from (its hash).
Config == [gen: 0..MaxGeneration, rgen: 1..MaxGeneration, spec: ClusterSpecs]

\* Node process states.  "absent": the pod was never created; "stopping":
\* StopNodes was accepted, the process is shutting down; "down": the
\* process exited and the pod is not ready until it restarts.
NodeState == {"absent", "started", "stopping", "down"}

Steps == {"idle", "ensure", "pods", "health", "scaledown", "mgmd", "data",
          "sqlrec", "persist", "status"}

VARIABLES
    \* the NdbCluster object in the API server
    generation,   \* ObjectMeta.Generation
    specs,        \* specs[g]: the spec of generation g (specs[generation] is live)
    processed,    \* Status.ProcessedGeneration
    cache,        \* the informer cache's copy: [generation, processed]
    \* Kubernetes objects owned by the NdbCluster
    resourcesExist, \* services, PDB, config map, mgmd and data node StatefulSets
    cm,           \* the config map's config
    cmVolume,     \* the config map contents as mounted in the pods
    cmSpecs,      \* history: every spec ever written to the config map
    sts,          \* the MySQL Server StatefulSet
    ownedSecret,  \* the operator-generated root password secret exists
    \* MySQL Cluster
    node,         \* node[n] = [st: NodeState, cfg: the config it runs]
    crashes,      \* node crashes so far
    evictions,    \* data node pods evicted so far
    \* the running tick
    pc,           \* its current step
    idx,          \* loop index of the mgmd (node id) / data node (replica) loop
    obj,          \* sc.ndb: the NdbCluster the tick works on
    rc,           \* sc.resourceContext: the config map read at the tick start
    pending,      \* hasPendingConfigChanges
    failures      \* transient failures so far

vars == <<generation, specs, processed, cache, resourcesExist, cm, cmVolume,
          cmSpecs, sts, ownedSecret, node, crashes, evictions, pc, idx, obj, rc, pending,
          failures>>
apiVars == <<generation, specs, processed, cache>>
k8sVars == <<resourcesExist, cm, cmVolume, cmSpecs, sts, ownedSecret>>
tickVars == <<pc, idx, obj, rc, pending, failures>>

LiveObject == [generation |-> generation, processed |-> processed]

-----------------------------------------------------------------------------
TypeOK ==
    /\ generation \in 1..MaxGeneration
    /\ specs \in [1..generation -> ClusterSpecs]
    /\ processed \in 0..generation
    /\ cache \in [generation: 1..generation, processed: 0..generation]
    /\ resourcesExist \in BOOLEAN
    /\ cm \in Config \cup {NoConfig}
    /\ cmVolume \in Config \cup {NoConfig}
    /\ cmSpecs \subseteq ClusterSpecs
    /\ sts \in [exists: BOOLEAN, replicas: SqlChoices \cup {0},
                pods: SqlChoices \cup {0},
                rgen: 0..MaxGeneration]
    /\ ownedSecret \in BOOLEAN
    /\ node \in [Nodes -> [st: NodeState, cfg: Config \cup {NoConfig}]]
    /\ crashes \in 0..MaxCrashes
    /\ evictions \in 0..MaxEvictions
    /\ pc \in Steps
    /\ idx \in Nat
    /\ obj \in [generation: 1..MaxGeneration, processed: 0..MaxGeneration,
                spec: ClusterSpecs]
    /\ rc \in Config \cup {NoConfig}
    /\ pending \in BOOLEAN
    /\ failures \in 0..MaxFailures

Init ==
    /\ generation = 1
    /\ specs = <<InitialSpec>>
    /\ processed = 0
    /\ cache = [generation |-> 1, processed |-> 0]
    /\ resourcesExist = FALSE
    /\ cm = NoConfig
    /\ cmVolume = NoConfig
    /\ cmSpecs = {}
    /\ sts = [exists |-> FALSE, replicas |-> 0, pods |-> 0, rgen |-> 0]
    /\ ownedSecret = FALSE
    /\ node = [n \in Nodes |-> [st |-> "absent", cfg |-> NoConfig]]
    /\ crashes = 0
    /\ evictions = 0
    /\ pc = "idle"
    /\ idx = 0
    /\ obj = [generation |-> 1, processed |-> 0, spec |-> InitialSpec]
    /\ rc = NoConfig
    /\ pending = FALSE
    /\ failures = 0

\* A node whose MGM session answers: connected to the cluster.
Connected(n) == node[n].st \in {"started", "stopping"}
\* The pod's Ready condition: the process runs.  A pod never created is
\* not in the pod list at all.
PodListedUnready(n) == node[n].st = "down"

\* End the tick: finish, requeue and error all return the worker to the
\* queue; the key is handed out again (requeue, backoff or the 30s resync).
EndTick == pc' = "idle" /\ idx' = 0

-----------------------------------------------------------------------------
(***************************************************************************)
(* Mutations: each operator below is a step of the tick with one plausible *)
(* coding error.  Substituting it for the step it is named after must make *)
(* the property that guards against that error fail.                       *)
(***************************************************************************)

\* the mgmd loop goes on to the next mgmd instead of requeueing after a stop
MutMgmdNoRequeue ==
    /\ pc = "mgmd"
    /\ idx \in Mgmds
    /\ Connected(idx)
    /\ node' = IF node[idx].cfg.gen # rc.gen
                 THEN [node EXCEPT ![idx].st = "stopping"] ELSE node
    /\ IF idx = NumMgmds THEN pc' = "data" /\ idx' = 1
                         ELSE pc' = pc /\ idx' = idx + 1
    /\ UNCHANGED <<crashes, evictions, apiVars, k8sVars, obj, rc, pending, failures>>

\* the data node loop goes on to the next replica index after a stop
MutDataNoRequeue ==
    /\ pc = "data"
    /\ idx \in 1..R
    /\ Connected(1)
    /\ LET candidates == {NodesGroupedByNodegroup[g][idx] : g \in 1..NumNodeGroups}
       IN /\ \A c \in candidates : Connected(c)
          /\ node' = [n \in Nodes |-> IF n \in candidates /\ node[n].cfg.gen # rc.gen
                                     THEN [node[n] EXCEPT !.st = "stopping"]
                                     ELSE node[n]]
    /\ IF idx = R THEN pc' = "sqlrec" /\ idx' = 0 ELSE pc' = pc /\ idx' = idx + 1
    /\ UNCHANGED <<crashes, evictions, apiVars, k8sVars, obj, rc, pending, failures>>

\* the scale-down pass hands over to the data node rollout, skipping the mgmds
MutScaleDownSkipsMgmd ==
    /\ pc = "scaledown"
    /\ \/ ~sts.exists
       \/ sts.pods = sts.replicas /\ sts.pods <= rc.spec.sql
    /\ pc' = "data" /\ idx' = 1
    /\ UNCHANGED <<crashes, evictions, apiVars, k8sVars, node, obj, rc, pending, failures>>

\* the scale-down pass compares the desired replicas (Spec.Replicas), not the
\* pods that exist (Status.Replicas), and does not wait for the rollout
MutScaleDownChecksSpecReplicas ==
    /\ pc = "scaledown"
    /\ \/ ~sts.exists
       \/ sts.replicas <= rc.spec.sql
    /\ pc' = "mgmd" /\ idx' = 1
    /\ UNCHANGED <<crashes, evictions, apiVars, k8sVars, node, obj, rc, pending, failures>>

\* GetConfigVersion of the config generator: generation 1 for a config made
\* without an old config summary, the old generation plus one otherwise.
GetConfigVersion(old) == IF old = NoConfig THEN 1 ELSE old.gen + 1

\* the patched config map keeps the old config generation
MutPersistSameGeneration ==
    /\ pc = "persist"
    /\ pending' = (obj.spec # rc.spec)
    /\ IF pending'
         THEN /\ cm' = [gen |-> rc.gen, rgen |-> obj.generation, spec |-> obj.spec]
              /\ cmSpecs' = cmSpecs \cup {obj.spec}
         ELSE UNCHANGED <<cm, cmSpecs>>
    /\ pc' = "status"
    /\ UNCHANGED <<crashes, evictions, apiVars, resourcesExist, cmVolume, sts, ownedSecret, node,
                   idx, obj, rc, failures>>

\* the config hash check is dropped: every tick patches the config map
MutPersistAlways ==
    /\ pc = "persist"
    /\ pending' = TRUE
    /\ cm' = [gen |-> rc.gen + 1, rgen |-> obj.generation, spec |-> obj.spec]
    /\ cmSpecs' = cmSpecs \cup {obj.spec}
    /\ pc' = "status"
    /\ UNCHANGED <<crashes, evictions, apiVars, resourcesExist, cmVolume, sts, ownedSecret, node,
                   idx, obj, rc, failures>>

-----------------------------------------------------------------------------
(***************************************************************************)
(* The steps of a tick.                                                  *)
(***************************************************************************)

\* syncHandler: take the NdbCluster from the informer cache and start sync.
TickStart ==
    /\ pc = "idle"
    /\ pc' = "ensure"
    /\ obj' = [generation |-> cache.generation, processed |-> cache.processed,
               spec |-> specs[cache.generation]]
    /\ UNCHANGED <<crashes, evictions, apiVars, k8sVars, node, idx, rc, pending, failures>>

\* ensureAllResources, first run: create the services, the PDB, the config
\* map (config generation 1 from sc.ndb) and the StatefulSets; requeue.
EnsureAllResourcesCreate ==
    /\ pc = "ensure"
    /\ ~resourcesExist
    /\ resourcesExist' = TRUE
    /\ cm' = [gen |-> GetConfigVersion(NoConfig), rgen |-> obj.generation,
              spec |-> obj.spec]
    /\ cmSpecs' = cmSpecs \cup {obj.spec}
    /\ rc' = cm'
    /\ EndTick
    /\ UNCHANGED <<crashes, evictions, apiVars, cmVolume, sts, ownedSecret, node, obj, pending,
                   failures>>

\* ensureAllResources when everything exists: read the config map into the
\* resource context and continue.
EnsureAllResourcesExist ==
    /\ pc = "ensure"
    /\ resourcesExist
    /\ rc' = cm
    /\ pc' = "pods"
    /\ UNCHANGED <<crashes, evictions, apiVars, k8sVars, node, idx, obj, pending, failures>>

\* checkPodsReadiness: continue only if every listed pod is Ready.
CheckPodsReadiness ==
    /\ pc = "pods"
    /\ IF \E n \in Nodes : PodListedUnready(n)
         THEN EndTick
         ELSE pc' = "health" /\ idx' = idx
    /\ UNCHANGED <<crashes, evictions, apiVars, k8sVars, node, obj, rc, pending, failures>>

\* retrieveClusterStatus + IsHealthy: connect to mgmd 1 (an error if it does
\* not answer), continue only if every node is connected.
RetrieveClusterStatus ==
    /\ pc = "health"
    /\ IF Connected(1) /\ \A n \in Nodes : Connected(n)
         THEN pc' = "scaledown" /\ idx' = idx
         ELSE EndTick
    /\ UNCHANGED <<crashes, evictions, apiVars, k8sVars, node, obj, rc, pending, failures>>

\* HandleScaleDown, nothing to do: no StatefulSet, or no more pods than the
\* config map asks for.
HandleScaleDownContinue ==
    /\ pc = "scaledown"
    /\ \/ ~sts.exists
       \/ sts.pods = sts.replicas /\ sts.pods <= rc.spec.sql
    /\ pc' = "mgmd" /\ idx' = 1
    /\ UNCHANGED <<crashes, evictions, apiVars, k8sVars, node, obj, rc, pending, failures>>

\* HandleScaleDown while a previous StatefulSet update is rolling out: finish.
HandleScaleDownWait ==
    /\ pc = "scaledown"
    /\ sts.exists
    /\ sts.pods # sts.replicas
    /\ EndTick
    /\ UNCHANGED <<crashes, evictions, apiVars, k8sVars, node, obj, rc, pending, failures>>

\* HandleScaleDown to zero servers: delete the root user, delete the root
\* password secret if the operator owns it, delete the StatefulSet (its
\* pods are garbage collected afterwards); finish.
HandleScaleDownDelete ==
    /\ pc = "scaledown"
    /\ sts.exists /\ sts.pods = sts.replicas /\ sts.pods > rc.spec.sql
    /\ rc.spec.sql = 0
    /\ ownedSecret' = FALSE
    /\ sts' = [sts EXCEPT !.exists = FALSE, !.replicas = 0, !.rgen = 0]
    /\ EndTick
    /\ UNCHANGED <<crashes, evictions, apiVars, resourcesExist, cm, cmVolume, cmSpecs, node, obj,
                   rc, pending, failures>>

\* The same, with the StatefulSet delete failing after the secret is gone.
HandleScaleDownDeleteFails ==
    /\ pc = "scaledown"
    /\ sts.exists /\ sts.pods = sts.replicas /\ sts.pods > rc.spec.sql
    /\ rc.spec.sql = 0
    /\ failures < MaxFailures
    /\ ownedSecret' = FALSE
    /\ failures' = failures + 1
    /\ EndTick
    /\ UNCHANGED <<crashes, evictions, apiVars, resourcesExist, cm, cmVolume, cmSpecs, sts, node,
                   obj, rc, pending>>

\* HandleScaleDown to fewer servers: patch the replicas; finish.
HandleScaleDownPatch ==
    /\ pc = "scaledown"
    /\ sts.exists /\ sts.pods = sts.replicas /\ sts.pods > rc.spec.sql
    /\ rc.spec.sql > 0
    /\ sts' = [sts EXCEPT !.replicas = rc.spec.sql]
    /\ EndTick
    /\ UNCHANGED <<crashes, evictions, apiVars, resourcesExist, cm, cmVolume, cmSpecs, ownedSecret,
                   node, obj, rc, pending, failures>>

\* ensureManagementServerConfigVersion, one iteration for mgmd `idx`:
\* connect to it, read its config generation; go on to the next mgmd if it
\* is the wanted one, otherwise stop it and requeue.
EnsureManagementServerConfigVersion ==
    /\ pc = "mgmd"
    /\ idx \in Mgmds
    /\ \/ ~Connected(idx) /\ EndTick /\ UNCHANGED node
       \/ /\ Connected(idx)
          /\ node[idx].cfg.gen = rc.gen
          /\ IF idx = NumMgmds THEN pc' = "data" /\ idx' = 1
                               ELSE pc' = pc /\ idx' = idx + 1
          /\ UNCHANGED node
       \/ /\ Connected(idx)
          /\ node[idx].cfg.gen # rc.gen
          /\ node' = [node EXCEPT ![idx].st = "stopping"]
          /\ EndTick
    /\ UNCHANGED <<crashes, evictions, apiVars, k8sVars, obj, rc, pending, failures>>

\* ensureDataNodeConfigVersion, iteration `idx`: the idx'th node of every
\* node group are the candidates; stop those with an old config generation
\* and requeue, or go on to the next index.  Every call goes through the
\* session with mgmd 1 and fails if it or a candidate does not answer.
EnsureDataNodeConfigVersion ==
    /\ pc = "data"
    /\ idx \in 1..R
    /\ LET candidates == {NodesGroupedByNodegroup[g][idx] : g \in 1..NumNodeGroups}
           old == {c \in candidates : node[c].cfg.gen # rc.gen}
       IN \/ /\ ~(Connected(1) /\ \A c \in candidates : Connected(c))
             /\ EndTick /\ UNCHANGED node
          \/ /\ Connected(1) /\ \A c \in candidates : Connected(c)
             /\ old = {}
             /\ IF idx = R THEN pc' = "sqlrec" /\ idx' = 0
                           ELSE pc' = pc /\ idx' = idx + 1
             /\ UNCHANGED node
          \/ /\ Connected(1) /\ \A c \in candidates : Connected(c)
             /\ old # {}
             /\ node' = [n \in Nodes |-> IF n \in old
                                          THEN [node[n] EXCEPT !.st = "stopping"]
                                          ELSE node[n]]
             /\ EndTick
    /\ UNCHANGED <<crashes, evictions, apiVars, k8sVars, obj, rc, pending, failures>>

\* ReconcileStatefulSet with no StatefulSet: nothing to do without MySQL
\* Servers; otherwise ensure the root password secret and create the
\* StatefulSet from the config summary, then finish.
ReconcileStatefulSetCreate ==
    /\ pc = "sqlrec"
    /\ ~sts.exists
    /\ \/ rc.spec.sql = 0 /\ pc' = "persist" /\ idx' = idx
          /\ UNCHANGED <<crashes, evictions, sts, ownedSecret>>
       \/ /\ rc.spec.sql > 0
          /\ ownedSecret' = (~CustomSecret \/ ownedSecret)
          /\ sts' = [sts EXCEPT !.exists = TRUE, !.replicas = rc.spec.sql,
                                !.rgen = rc.rgen]
          /\ EndTick
    /\ UNCHANGED <<crashes, evictions, apiVars, resourcesExist, cm, cmVolume, cmSpecs, node, obj,
                   rc, pending, failures>>

\* ReconcileStatefulSet with a StatefulSet: continue if it carries the
\* config summary's generation, otherwise patch it to the summary; finish.
ReconcileStatefulSetPatch ==
    /\ pc = "sqlrec"
    /\ sts.exists
    /\ IF sts.rgen = rc.rgen
         THEN pc' = "persist" /\ idx' = idx /\ UNCHANGED sts
         ELSE sts' = [sts EXCEPT !.replicas = rc.spec.sql, !.rgen = rc.rgen]
              /\ EndTick
    /\ UNCHANGED <<crashes, evictions, apiVars, resourcesExist, cm, cmVolume, cmSpecs, ownedSecret,
                   node, obj, rc, pending, failures>>

\* The config hash check of sync: if the spec differs from the config map's,
\* patch the config map with a config of the next generation.
PersistConfig ==
    /\ pc = "persist"
    /\ pending' = (obj.spec # rc.spec)
    /\ IF pending'
         THEN /\ cm' = [gen |-> GetConfigVersion(rc), rgen |-> obj.generation,
                        spec |-> obj.spec]
              /\ cmSpecs' = cmSpecs \cup {obj.spec}
         ELSE UNCHANGED <<cm, cmSpecs>>
    /\ pc' = "status"
    /\ UNCHANGED <<crashes, evictions, apiVars, resourcesExist, cmVolume, sts, ownedSecret, node,
                   idx, obj, rc, failures>>

\* updateNdbClusterStatus: the ProcessedGeneration it computes from sc.ndb,
\* or -1 when it returns without writing the status.
NewProcessedGeneration ==
    IF pending
      THEN IF obj.processed + 1 = obj.generation THEN -1 ELSE obj.generation - 1
      ELSE IF obj.processed = obj.generation THEN -1 ELSE obj.generation

\* updateNdbClusterStatus and the end of sync.  UpdateStatus succeeds when
\* sc.ndb is the live object (same resourceVersion); on a conflict the
\* retry re-reads the object and writes it back unmodified.
UpdateNdbClusterStatus ==
    /\ pc = "status"
    /\ LET newGen == NewProcessedGeneration
           fresh  == obj.generation = generation /\ obj.processed = processed
       IN processed' = IF newGen # -1 /\ fresh THEN newGen ELSE processed
    /\ EndTick
    /\ UNCHANGED <<crashes, evictions, generation, specs, cache, k8sVars, node, obj, rc, pending,
                   failures>>

\* Any remote call of the current step fails transiently: the step has no
\* effect and the tick ends with errorWhileProcessing.
TickFails ==
    /\ pc # "idle"
    /\ failures < MaxFailures
    /\ failures' = failures + 1
    /\ EndTick
    /\ UNCHANGED <<crashes, evictions, apiVars, k8sVars, node, obj, rc, pending>>

-----------------------------------------------------------------------------
(***************************************************************************)
(* The environment.                                                        *)
(***************************************************************************)

\* The user submits a new spec; the validating webhook admits it only if
\* IsValidSpecUpdate holds.  The API server bumps the generation.
UserUpdatesSpec ==
    /\ generation < MaxGeneration
    /\ \E s \in ClusterSpecs :
         /\ s # specs[generation]
         /\ IsValidSpecUpdate(specs[generation], s)
         /\ specs' = Append(specs, s)
    /\ generation' = generation + 1
    /\ UNCHANGED <<crashes, evictions, processed, cache, k8sVars, node, tickVars>>

\* The informer cache catches up with the API server.
CacheSync ==
    /\ cache # LiveObject
    /\ cache' = LiveObject
    /\ UNCHANGED <<crashes, evictions, generation, specs, processed, k8sVars, node, tickVars>>

\* The kubelet refreshes the config map mounted in the pods.
ConfigVolumeSync ==
    /\ cmVolume # cm
    /\ cmVolume' = cm
    /\ UNCHANGED <<crashes, evictions, apiVars, resourcesExist, cm, cmSpecs, sts, ownedSecret,
                   node, tickVars>>

\* A stopping node's process exits.
NodeStopped(n) ==
    /\ node[n].st = "stopping"
    /\ node' = [node EXCEPT ![n].st = "down"]
    /\ UNCHANGED <<crashes, evictions, apiVars, k8sVars, tickVars>>

\* A running node process crashes on its own; its pod restarts it like a
\* stopped one.
NodeCrashes(n) ==
    /\ crashes < MaxCrashes
    /\ node[n].st = "started"
    /\ node' = [node EXCEPT ![n].st = "down"]
    /\ crashes' = crashes + 1
    /\ UNCHANGED <<evictions, apiVars, k8sVars, tickVars>>

\* A node drain evicts a data node pod.  The eviction API admits it only
\* while the PDB allows a disruption: after it, at least minAvailable data
\* node pods are still Ready.  The StatefulSet recreates the pod, which
\* starts like a stopped node.
PodEvicted(n) ==
    /\ evictions < MaxEvictions
    /\ resourcesExist
    /\ n \in DataNodes
    /\ node[n].st \in {"started", "stopping"}
    /\ Cardinality({d \in DataNodes : node[d].st \in {"started", "stopping"}}) - 1
         >= PdbMinAvailable
    /\ node' = [node EXCEPT ![n].st = "down"]
    /\ evictions' = evictions + 1
    /\ UNCHANGED <<crashes, apiVars, k8sVars, tickVars>>

\* The StatefulSet controller (re)starts a node: a management server loads
\* the mounted config.ini, a data node fetches its config from a running
\* management server.
NodeStarts(n) ==
    /\ resourcesExist
    /\ node[n].st \in {"absent", "down"}
    /\ \/ n \in Mgmds /\ cmVolume # NoConfig
          /\ node' = [node EXCEPT ![n] = [st |-> "started", cfg |-> cmVolume]]
       \/ n \in DataNodes
          /\ \E m \in Mgmds :
               /\ node[m].st = "started"
               /\ node' = [node EXCEPT ![n] = [st |-> "started", cfg |-> node[m].cfg]]
    /\ UNCHANGED <<crashes, evictions, apiVars, k8sVars, tickVars>>

\* The StatefulSet controller adds or removes one MySQL Server pod; the pods
\* of a deleted StatefulSet are garbage collected one by one.
SqlPodChanges ==
    /\ LET target == IF sts.exists THEN sts.replicas ELSE 0
       IN /\ sts.pods # target
          /\ sts' = [sts EXCEPT !.pods = IF sts.pods < target THEN @ + 1 ELSE @ - 1]
    /\ UNCHANGED <<crashes, evictions, apiVars, resourcesExist, cm, cmVolume, cmSpecs, ownedSecret,
                   node, tickVars>>

-----------------------------------------------------------------------------
OperatorStep ==
    \/ TickStart
    \/ EnsureAllResourcesCreate
    \/ EnsureAllResourcesExist
    \/ CheckPodsReadiness
    \/ RetrieveClusterStatus
    \/ HandleScaleDownContinue
    \/ HandleScaleDownWait
    \/ HandleScaleDownDelete
    \/ HandleScaleDownPatch
    \/ EnsureManagementServerConfigVersion
    \/ EnsureDataNodeConfigVersion
    \/ ReconcileStatefulSetCreate
    \/ ReconcileStatefulSetPatch
    \/ PersistConfig
    \/ UpdateNdbClusterStatus

Environment ==
    \/ UserUpdatesSpec
    \/ CacheSync
    \/ ConfigVolumeSync
    \/ \E n \in Nodes : NodeStopped(n) \/ NodeStarts(n) \/ NodeCrashes(n)
                       \/ PodEvicted(n)
    \/ SqlPodChanges

Next ==
    \/ OperatorStep
    \/ TickFails
    \/ HandleScaleDownDeleteFails
    \/ Environment

\* The work queue always hands the key out again (requeue, backoff, or the
\* informer's 30s resync), and Kubernetes keeps restarting pods and syncing
\* caches and volumes.  Failures and user updates get no fairness.
Fairness ==
    /\ WF_vars(OperatorStep)
    /\ WF_vars(CacheSync)
    /\ WF_vars(ConfigVolumeSync)
    /\ WF_vars(SqlPodChanges)
    /\ \A n \in Nodes : WF_vars(NodeStopped(n)) /\ SF_vars(NodeStarts(n))

Spec == Init /\ [][Next]_vars
FairSpec == Spec /\ Fairness

-----------------------------------------------------------------------------
(***************************************************************************)
(* Properties.                                                             *)
(***************************************************************************)

\* Data node rollout (ensureDataNodeConfigVersion): at no time are two data
\* nodes of the same node group stopped or restarting, so every node group
\* keeps a live replica while config generations roll through the cluster.
OneNodePerNodeGroupDown ==
    \A g \in 1..NumNodeGroups :
        Cardinality({k \in 1..R :
            node[NodesGroupedByNodegroup[g][k]].st \in {"stopping", "down"}}) <= 1

\* Management server rollout (ensureManagementServerConfigVersion): at most
\* one management server is stopped or restarting at any time.
OneMgmdDown ==
    Cardinality({m \in Mgmds : node[m].st \in {"stopping", "down"}}) <= 1

\* Phase order of sync: a data node is only ever stopped once every
\* management server runs the config map's current config, so the
\* restarted data node fetches the new config.
DataStopAfterMgmdRollout ==
    [][\A d \in DataNodes :
         (node[d].st # "stopping" /\ node'[d].st = "stopping")
           => \A m \in Mgmds : node[m].st = "started" /\ node[m].cfg = cm]_vars

\* The nodes that must stay up while n is stopped: the other replicas of
\* its node group for a data node, the other management servers for an
\* mgmd.
Peers(n) ==
    IF n \in Mgmds THEN Mgmds \ {n}
    ELSE {p \in DataNodes : \E g \in 1..NumNodeGroups, k, j \in 1..R :
              NodesGroupedByNodegroup[g][k] = n /\ NodesGroupedByNodegroup[g][j] = p
              /\ p # n}

\* StopNodes in both rollout loops: the operator only ever stops a node
\* while all of its peers run.  The health check of sync is the only
\* check of the peers; the loops themselves look at the candidates alone.
OperatorStopsOnlyWithPeersRunning ==
    [][\A n \in Nodes :
         (node[n].st # "stopping" /\ node'[n].st = "stopping")
           => \A p \in Peers(n) : node[p].st = "started"]_vars

\* The data node PodDisruptionBudget of ensurePodDisruptionBudget backs up
\* the rollout (one node per node group down): once the cluster is up, the
\* eviction API only ever evicts a data node pod while every other replica
\* of its node group runs.
EvictionKeepsNodeGroupReplica ==
    [][evictions' > evictions =>
         \A n \in DataNodes :
           (node[n].st # "down" /\ node'[n].st = "down")
             => \A p \in Peers(n) : node[p].st \in {"absent", "started"}]_vars

\* SQL scale down before API sections shrink (HandleScaleDown runs before
\* the mgmd rollout): no running management server has fewer [mysqld]
\* sections in its config than there are MySQL Server pods.
SqlPodsWithinApiSections ==
    \A m \in Mgmds :
        node[m].st = "started" => sts.pods <= node[m].cfg.spec.sql

\* HandleScaleDown to zero servers: the operator-generated root password
\* secret is only deleted together with the MySQL Server StatefulSet, so no
\* StatefulSet is left whose pods would start without their secret.
SqlStatefulSetHasSecret ==
    sts.exists /\ ~CustomSecret => ownedSecret

\* updateNdbClusterStatus: the spec of the generation reported as processed
\* was applied, i.e. at least written to the config map and rolled out.
ProcessedGenerationWasApplied ==
    processed = 0 \/ specs[processed] \in cmSpecs

\* The refinement mapping onto the abstract rollout: the published config
\* is the config map's, a node runs the generation of the config it
\* loaded, and it is up while its process runs and was not asked to stop.
GenOf(c) == IF c = NoConfig THEN 0 ELSE c.gen
Rollout == INSTANCE ConfigRollout WITH
    target  <- GenOf(cm),
    running <- [n \in Nodes |-> GenOf(node[n].cfg)],
    up      <- [n \in Nodes |-> node[n].st = "started"]

\* The operator's whole reconciliation, seen only through the config map
\* and the node processes, is a rollout of the abstract specification:
\* PatchConfigMap only once every node runs the config map's generation,
\* StopNodes only on nodes with an old config whose peers all run, data
\* nodes only behind the management servers.
RolloutRefined == Rollout!Spec

\* The whole system is in sync with the last spec: config map, every node,
\* the MySQL Servers and the status.
InSync ==
    /\ cm # NoConfig
    /\ cm.spec = specs[generation]
    /\ \A n \in Nodes : node[n].st = "started" /\ node[n].cfg = cm
    /\ sts.pods = cm.spec.sql
    /\ sts.exists = (cm.spec.sql > 0)
    /\ processed = generation

\* Once the user stops editing, the reconciliation loop brings the cluster
\* to the last spec and reports it processed, and it stays so.
EventuallyInSync == <>[]InSync
=============================================================================
