# TLA+ models of the MySQL NDB Operator reconciliation core

This directory holds TLA+ models of the reconciliation core of the NDB
operator (`src/`), and the TLC configurations that check them. Each module is
translated from the Go source. `PROJECT.json` maps every modelled definition to
the source lines it stands for, and lists the runs, mutants, findings and
hazards.

## 1. Inventory

### Components

| Component | Source | State it keeps | Operations |
|---|---|---|---|
| Reconciliation loop | `pkg/controllers/sync_context.go` (`sync`, `ensureAllResources`, `checkPodsReadiness`, `retrieveClusterStatus`) | Per tick: `SyncContext` (the NdbCluster copy `sc.ndb`, the `resourceContext` read from the config map, the cluster status). Across ticks: only the Kubernetes objects, above all the config map. | ensure resources, wait for pods, check cluster health, run the three rollout phases, reconcile MySQL Servers, persist the config when the spec hash differs, update the status |
| Rollout coordinator | `sync_context.go` (`ensureManagementServerConfigVersion`, `ensureDataNodeConfigVersion`, `connectToManagementServer`) | none of its own. It reads each node's running config generation over the MGM protocol. | stop one outdated mgmd and requeue; stop the i-th node of every node group when outdated and requeue |
| MySQL Server StatefulSet controller | `src/unnamed/part_003` (`HandleScaleDown`, `ReconcileStatefulSet`, `reconcileRootUser`) | the MySQL StatefulSet (replicas, annotations `last-applied-config-generation`, `root-host`, `root-user-generation`), the root password secret | scale down (or delete the StatefulSet, root user and owned secret) before the rollout; create/patch the StatefulSet after it; create/rename the root user |
| Status writer | `sync_context.go` (`updateNdbClusterStatus`) | `Status.ProcessedGeneration` of the NdbCluster | compute the processed generation, `UpdateStatus` with conflict retry, events |
| Status projector (later version) | `src/unnamed/part_001` (v1), `part_002` (v1alpha1) (`calculateNdbClusterStatus`, `statusEqual`) | none. It computes ready counts, `ProcessedGeneration` and the `UpToDate` condition from the tick's outcome. | calculate status, compare statuses |
| Config generator | `src/unnamed/part_000` (`GetConfigString`, `GetMySQLConfigString`) | none. It reads the previous config summary. | node-id assignment, config generation numbering (`prev+1`), hostname synthesis, template rendering |
| Spec validation | `pkg/apis/ndbcontroller/v1alpha1/validation.go` | none | `HasValidSpec`, `IsValidSpecUpdate` (run by the webhook on every edit) |
| StatefulSet builders | `pkg/resources/statefulset.go` | none | construct pod templates and containers |
| MySQL client | `pkg/mysqlclient/connect.go` | a connection pool | open and ping a connection to mysqld pod 0 |
| Process entry | `src/unnamed/part_004` (`main`) | none | build clients and informers (30s resync), run the controller with 2 workers |
| MGM client, Kubernetes, MySQL Cluster | not in `src/` | node processes, pods, API objects | the environment that the operator drives |

### How the parts interact

The work queue hands one NdbCluster key to one worker at a time. That worker
runs `sync` from start to end. The next tick comes from a requeue, from error
backoff, from a watched object changing, or from the informer's 30s resync.
Within a tick the steps run in order. Every step makes remote calls: to the
API server, to a management server over MGM, or to mysqld over SQL. Between
these calls the world moves on. The user edits the spec. The informer cache
catches up. Stopped nodes exit and are restarted by their StatefulSets. The
kubelet refreshes the config map mounted into the pods. The config map is
the only state that carries over from tick to tick. The tick reads it at the
start (`resourceContext`) and rewrites it only at the end, and only when every
node already runs it. A restarted management server loads `config.ini` from
the mounted config map. A restarted data node fetches its config from a
running management server.

### What is hard

* **Interleaving of the tick with the cluster.** The operator stops nodes and
  returns (`requeue(5s)`). The node goes down and restarts on its own. The
  next tick sees whatever state the node has reached. A node that is still
  stopping still answers on MGM and reports its old config.
* **Rollout order.** The order must be: SQL scale-down, then mgmds one at a
  time, then data nodes one per node group.
* **Stale views.** `sc.ndb` comes from the informer cache and may lag the API
  server. The mounted config map may lag the config map object.
* **Several spec edits during one rollout.** The status must still report the
  right processed generation.
* **Partial failure.** A multi-call step can fail halfway, for example when the
  secret is deleted but the StatefulSet delete then fails.
* **Eventual convergence.** Retries, requeues, failures and cache lag must not
  stop the cluster from reaching the last spec.

### What makes each component correct

* Rollout coordinator: at most one node per node group down; at most one mgmd
  down; data nodes are stopped only after every mgmd runs the target config.
* MySQL controller: never more MySQL Server pods than `[mysqld]` sections in
  the running management config; the owned secret lives as long as the
  StatefulSet.
* Status writer and projector: `ProcessedGeneration` names a generation that
  was applied.
* Loop as a whole: once edits stop, config map, nodes, MySQL Servers and
  status all reach the last spec.
* Config generator: every role gets the consecutive node ids of the design
  (mgmds and data nodes from 1, MySQL Servers and free API slots from the API
  start id); the generation strictly increases.
* Validation: node count and redundancy never change; redundancy-1 clusters are
  never updated.

## 2. Modules

| Module | Models |
|---|---|
| `NdbClusterSpec.tla` | The abstract NdbCluster spec record and the admission rules `HasValidSpec` and `IsValidSpecUpdate`. Free-form tuning is one model value `cfg`, because the core only compares it through the config hash. |
| `NdbConfig.tla` | Node-id assignment of the config generator (`GetConfigString`/`GetNodeIds`, `part_000`). `RenderNodeIds` is a RECURSIVE operator over the template's sections in order. It threads the two id counters (`ndbdMgmdStartNodeId`, `apiStartNodeId`) through the calls. |
| `NdbOperator.tla` | `sync` and its steps, the MySQL StatefulSet controller's two passes, and `updateNdbClusterStatus`. It also models the environment: user edits, informer cache, config map volume, node processes (including crashes), MySQL pods. Its node ids are those `NdbConfig` assigns to the initial spec, so the two components compose. |
| `ConfigRollout.tla` | The abstract specification of a rolling config change: publish the next config only when every node runs the current one; stop an outdated node only while all its peers run; stop data nodes only behind fully rolled mgmds; a restarted node loads a config it can get. No Kubernetes, no ticks. |
| `StatusProjector.tla` | The later version's `calculateNdbClusterStatus` and `statusEqual` (v1 `part_001`, v1alpha1 `part_002`), selected by the constant `ApiVersion`, inside a tick of read-from-cache, sync, status write. |
| `MC_NdbOperator.tla` | The model-checking instances: 2 node groups × 2 replicas (data nodes 3–6) and 2 node groups × 3 replicas (data nodes 3–8), 2 mgmds, up to 2 MySQL Servers, two tuning values. |
| `MC_NdbConfig.tla` | Enumerates every valid spec up to `MaxNumberOfNodes` and holds the design's assignment (`ReferenceNodeIds`, spec §4.A) as the reference. |

### Correspondence of `NdbOperator` to the code

* `pc` is the step of `sync` the tick is in. `idx` is the loop variable of the
  mgmd loop (`nodeID`) or of the data-node loop (`i`).
* `obj` is `sc.ndb` and `rc` is `sc.resourceContext`.
* `cm` is the config map's `ConfigSummary`: config generation, resource
  generation and spec (standing for its hash). The config generation is
  `GetConfigVersion` of the config generator (`part_000` 116–124): 1 when the
  config map is created without an old summary, the old generation plus one
  when `PersistConfig` patches it.
* `node[n]` is a node's process state and the config it loaded. Node ids come
  from `NdbConfig`: mgmds 1–2, data nodes 3–6.
* `sts` is the MySQL StatefulSet: whether it exists, `Spec.Replicas`,
  `Status.Replicas` (the pods) and the `last-applied-config-generation`
  annotation.
* `processed` and `cache` are the live `Status.ProcessedGeneration` and the
  informer's copy of the object.
* **Two source versions.** `sync_context.go:665` and `:697` call
  `HandleScaleDown` and `ReconcileDeployment` of a MySQL *Deployment*
  controller whose code is not in `src/`. The model puts the StatefulSet
  controller of `part_003` in their place (`HandleScaleDown`,
  `ReconcileStatefulSet`). Its comments (`part_003:50-54`, `127-128`) place
  its two passes at exactly these two points of `sync`. Its fields
  (`mysqldSfset`, `configSummary`) belong to a later `SyncContext` than the
  one in `sync_context.go`. The MySQL results (runs `rollout_safety`,
  `sql_sections_delete`, `secret_order`) are therefore about the
  `part_003` controller placed in this `sync`.
* Each early return of a step (`finish`, `requeue`, `error`) is an action that
  ends the tick with `EndTick`. Each `continue` moves `pc` on.
* Transient failures of remote calls are `TickFails`, with a budget of
  `MaxFailures`. The one failure with a visible partial effect, the
  StatefulSet delete failing after the secret was deleted, is
  `HandleScaleDownDeleteFails`.
* **Fault model.** A started node process may crash at any moment
  (`NodeCrashes`, at most `MaxCrashes` times). Its StatefulSet restarts it
  like a stopped node: an mgmd from the mounted config map, a data node from a
  running mgmd.
* A node drain may evict a data node pod (`PodEvicted`, at most
  `MaxEvictions` times). The eviction API admits it only while the data node
  PodDisruptionBudget allows a disruption: at least `PdbMinAvailable =
  nodeCount − nodeGroups` Ready data node pods remain after it. The PDB is
  created by `ensurePodDisruptionBudget`; its `minAvailable` comes from
  `NewPodDisruptionBudget`, which is not in `src/`, and is taken from the
  design (§4.C). A node whose process is stopping still has a Ready pod.
* `UpdateStatus` succeeds only when `sc.ndb` is the live object, meaning the
  same resourceVersion. Otherwise the conflict retry writes the re-read object
  back unchanged. The new `ProcessedGeneration` is lost, and the tick still
  counts as a success.
* Abstractions:
  * The creation of services, PDB, config map and the two node StatefulSets is
    one step. Each ensure is idempotent, so a partial creation followed by an
    error only repeats work.
  * The data-node replica patch in `sync` (lines 685–693) cannot fire, because
    the node count never changes. It is left out.
  * MySQL pods are always Ready.
  * A node that is stopping still answers MGM calls and reports its old
    config generation.

### Refinement

`NdbOperator` defines `Rollout == INSTANCE ConfigRollout WITH` the mapping:
* `target` is the config generation of the config map object (`cm`);
* `running[n]` is the generation of the config node `n` loaded;
* `up[n]` is `node[n].st = "started"`.

`RolloutRefined == Rollout!Spec` is checked as a PROPERTY. Every operator
step, Kubernetes step and node step is then a `Publish`, a `Stop`, a `Start`
or a stutter of the abstract spec. `Stop` takes a set, because one tick's
data-node loop stops the i-th node of every node group together.

### Correspondence of `StatusProjector` to the code

* `obj` is the NdbCluster the tick read from the informer `cache`;
  `generation` and `status` are the live object's.
* `status` is reduced to `ProcessedGeneration` and the `UpToDate` condition
  (status, reason, the generation its message names). The Ready:x/y strings
  and the secret name are not modelled.
* The caller (`updateNdbClusterStatus` of the later version) is not in `src/`.
  It is taken from the design (§4.G): skip the write when `statusEqual`
  holds, otherwise `UpdateStatus`, and on a conflict re-read and retry with
  the same computed status.
* `FairSpec` adds fairness. Ticks, the end of a started sync, the status
  write and the cache sync are weakly fair. A successful sync is strongly
  fair: the cluster is assumed not to be broken forever, the same assumption
  behind `EventuallyInSync`. User edits and failing pods get no fairness.

## 3. Runs

| Run | cfg | Expect | Checks | Bounds |
|---|---|---|---|---|
| rollout_safety | `MC_Rollout.cfg` | pass | `TypeOK`, `OneNodePerNodeGroupDown`, `OneMgmdDown`, `DataStopAfterMgmdRollout`, `SqlPodsWithinApiSections` | 2 groups × 3 replicas, 3 generations, SQL 1–2, 1 failure; 325,076 states, ~20 s |
| convergence | `MC_Convergence.cfg` | pass | `EventuallyInSync` under `FairSpec` | 2 generations, SQL 0–2, 1 failure; ~27k states |
| convergence_crash | `MC_ConvergenceCrash.cfg` | pass | `EventuallyInSync` under `FairSpec` with a crash and an eviction | 2 generations, SQL 1–2, 1 crash, 1 eviction; 141,440 states, ~70 s |
| rollout_refinement | `MC_Refinement.cfg` | pass | `RolloutRefined` | 3 generations, no failures; 311,440 states, ~1m45s |
| sql_sections_delete | `MC_SqlSectionsDelete.cfg` | violation | `SqlPodsWithinApiSections` when the SQL count may drop to 0 | 3 generations |
| processed_generation | `MC_ProcessedGeneration.cfg` | violation | `ProcessedGenerationWasApplied` | 3 generations |
| secret_order | `MC_SecretOrder.cfg` | violation | `SqlStatefulSetHasSecret` | 2 generations, 1 failure |
| crash_stop | `MC_CrashStop.cfg` | violation | `OperatorStopsOnlyWithPeersRunning` | 2 generations, 1 crash |
| pdb_eviction | `MC_PdbEviction.cfg` | violation | `EvictionKeepsNodeGroupReplica` | 2 generations, 1 eviction |
| node_ids | `MC_NodeIds.cfg` (`MC_NdbConfig`) | pass | `NodeIdsMatchReference` | every valid spec with up to 144 data nodes, redundancy 1–4, 0–2 MySQL Servers, 2 free API slots; 875 states |
| status_v1 | `MC_StatusV1.cfg` (`StatusProjector`) | pass | `ProcessedGenerationWasApplied` and, under `FairSpec`, `ReportsLiveGenerationInfinitelyOften` for v1 | 3 generations; 17,694 states |
| status_v1alpha1 | `MC_StatusV1alpha1.cfg` (`StatusProjector`) | violation | the same, for v1alpha1 | 3 generations |

Unless stated otherwise, a run uses 2 node groups × 2 replicas, and the
failure, crash and eviction budgets are 0.

**Why the bounds are enough.**
* Two node groups of two replicas is the smallest topology in which "one per
  node group" differs both from "one in total" and from "all". The safety
  run uses three replicas, so the data node loop has three indices and a
  group has two peers up while one is stopped.
* Two mgmds is what every cluster with redundancy above 1 has.
* Three generations let two edits arrive before the first one is persisted,
  and let an edit arrive during a rollout (scenario 6 of the spec).
* SQL counts 0–2 cover scale-up, scale-down by patch, and deletion.
* A single failure budget reaches every error path, including the partial
  delete. A single crash or eviction reaches every step of a tick and every
  node; one eviction next to the operator's own stop is enough to take a
  node group down.
* The node-id run covers every valid spec, so the largest data node counts
  (where ids run into the API range) are included.

**What the runs show.**
* The rollout keeps NDB availability: at most one node per group and one mgmd
  down. It restarts data nodes only behind fully rolled mgmds. This holds
  even with stale caches, a stale config volume, nodes that are still
  stopping and concurrent spec edits. Without crashes the whole loop refines
  `ConfigRollout`.
* The loop always converges once edits stop, also when a node crashes or a
  data node pod is evicted during the rollout.
* Scale-down by patch releases API sections first. Scale-down by deletion does
  not.
* The data node PDB does not protect node groups during a rollout.
* The config generator assigns exactly the design's node ids.
* The v1 status projector never reports an unapplied generation; v1alpha1
  does.
* The v1 status keeps returning to "UpToDate, live generation processed",
  whatever stale cache reads and failing ticks came between. A stale
  `ProcessedGeneration` written by a failed tick is therefore repaired by a
  later successful one.

**Fairness (`FairSpec`).**
* The operator steps are weakly fair. The key is always handed out again, by
  requeue, by backoff, or by the 30s resync in `main`.
* The cache sync, the volume sync, the StatefulSet pod changes and node exits
  are weakly fair. Node starts are strongly fair, because a data node can only
  start while some mgmd runs, and mgmds come and go during a rollout.
  Kubernetes guarantees all of this.
* User edits, failures, crashes and evictions get no fairness. All four are
  bounded.

### Findings

1. **`processedGeneration` skips ahead** (`sync_context.go:761`).
   * `updateNdbClusterStatus` sets `ProcessedGeneration = Generation - 1`
     whenever a change is pending. Its comment says "all the config changes
     except the one received in this loop has been handled".
   * When two edits arrive before the operator persists the first, generation
     `N-1` was never written to the config map. Yet the status reports it
     processed.
2. **Deleting the MySQL StatefulSet does not wait for its pods**
   (`part_003:110-115`).
   * The comment at `sync_context.go:663-664` promises that MySQL Servers are
     shut down before the API sections shrink. The delete path returns at
     once, so the mgmd rollout starts while MySQL pods still run.
3. **The root password secret is deleted before the StatefulSet**
   (`part_003:99-112`). If the StatefulSet delete then fails, the StatefulSet
   is left without its secret until a later tick retries the delete.
4. **Peers are checked only at the health check** (`sync_context.go:428`,
   `:327`; health check at `:643`). The rollout loops look at the candidate
   nodes only. If an mgmd crashes after the health check, the mgmd loop stops
   the other one. Whether `ndb_mgmd` refuses such a stop is NDB behaviour
   outside this code.
5. **v1alpha1 reports `Generation-1`** (`part_002:85`). The later v1alpha1
   projector has the same flaw as finding 1 whenever a sync does not succeed;
   v1 (`part_001:89`) keeps the object's `ProcessedGeneration`.

6. **The PodDisruptionBudget does not keep a replica per node group**
   (`sync_context.go:260`). The design reads `minAvailable = nodeCount −
   nodeGroups` as "at most one per group may be down" and says the PDB
   backs up the data node rollout. The budget counts Ready pods over all
   groups. While `ensureDataNodeConfigVersion` has node 3 (group 1) and
   node 5 (group 2) stopping, their pods are still Ready, so a drain may
   evict node 4 and take node group 1 down. The same eviction is still
   admitted once node 3 is down: 3 Ready pods minus 1 still meets
   minAvailable 2.

Hazards that no run checks (listed with a note in `PROJECT.json`; these are
readings of the code, not results of TLC):
* A management server that crashes after `PatchConfigMap` with fewer
  `[mysqld]` sections (`sync_context.go:714`) and before the next tick's
  scale-down would load the reduced sections while the MySQL pods still run.
  `SqlPodsWithinApiSections` is checked with crashes off (`rollout_safety`).
* With the design's API start id 129 (the constant is not in `src/`),
  `HasValidSpec` admits 1 mgmd, 128 data nodes and 2 free API slots. Data
  node 129 would then share its NodeId with the first `[api]` section. The
  design's reference ranges overlap in the same way, so `node_ids` cannot
  tell them apart.
* v1's `ProcessedGeneration` can move backwards when a failed tick read a
  stale cached object and the design's conflict retry applies.
  `ReportsLiveGenerationInfinitelyOften` checks only that a later success
  repairs it.

## 4. Not modelled, and the plan

Not modelled:
* `main`: wiring only. It supplies the 2 workers and the 30s resync used
  above.
* The text of the config template and hostname synthesis: formatting, with
  no property about it.
* `my.cnf` and its version (`GetMySQLConfigString`, `part_000` 168–198). The
  code bumps `MySQLServerConfigVersion` on every regeneration, together with
  the config generation. The design (§8, scenario "Change myCnf only") says the config
  generation stays unchanged. Which of them is regenerated for a
  `myCnf`-only edit is decided by the config hash and `PatchConfigMap`, and
  neither is in `src/`. So the disagreement cannot be checked from the code.
* `reconcileRootUser` (`part_003`) changes the root host only on a spec
  change that `IsValidSpecUpdate` rejects (`validation.go:127-134`). It is
  also not called by `sync` in this source version.
* `statefulset.go` builds the StatefulSets of an older API (`v1alpha1.Ndb`
  with `Mgmd`/`Ndbd` sections) whose pods run only the agent container; the
  mgmd and ndbmtd containers are commented out, and `sync` never calls it.
* `connect.go` (`mysqlclient.Connect`) is only used by the root user
  functions, whose SQL is not in `src/`.
* The pagination of `checkPodsReadiness` (`Limit: 256`): a list continued
  with its `continue` token is served from the snapshot of the first page,
  so the pages form one consistent view; an expired token is an error,
  which is `TickFails`.
* The caller of `statusEqual`, which indexes `Conditions[0]` of a status that
  may have none: the caller is not in `src/`.

What remains, and why it is not modelled:
* **Crash-aware refinement.** `RolloutRefined` is checked without faults. An
  abstract crash or eviction would have to let a node go down while a peer
  of its node group is down. The abstract `Stop` would then no longer
  promise what `OneNodePerNodeGroupDown` says, and runs `crash_stop` and
  `pdb_eviction` already show that the code does not keep that promise under
  faults.
* **Root user reconciliation** (`reconcileRootUser`). It is not called from
  `sync` in this source version, and its SQL is not in `src/`.

With these exceptions, every operation in `src/` that changes state and is
reachable from `sync` is an action of a module.
