--------------------------- MODULE StatusProjector ---------------------------
(***************************************************************************)
(* The status projection of the later operator version                    *)
(* (calculateNdbClusterStatus and statusEqual, for the v1 and the          *)
(* v1alpha1 API), together with the status write at the end of every       *)
(* tick that calls them.                                                   *)
(*                                                                         *)
(* A tick reads the NdbCluster from the informer cache, runs sync (which   *)
(* succeeds or not), computes the new status from the object it read and   *)
(* writes it unless statusEqual says it did not change.  A write that      *)
(* conflicts is retried on the re-read object with the same computed       *)
(* status, so the computed status always lands.                            *)
(***************************************************************************)
EXTENDS Naturals

CONSTANTS
    ApiVersion,     \* "v1" (part_001) or "v1alpha1" (part_002)
    MaxGeneration   \* bound on the resource generation

ASSUME ApiVersion \in {"v1", "v1alpha1"} /\ MaxGeneration \in Nat \ {0}

\* The UpToDate condition: status, reason and the generation its message
\* names (0 when it names none).  "None" stands for a status never written.
Reasons == {"None", "SyncSuccess", "ISR", "SpecUpdateInProgress", "Error"}
Conditions == [status: BOOLEAN, reason: Reasons, msgGen: 0..MaxGeneration]
Statuses == [processed: 0..MaxGeneration, cond: Conditions]

VARIABLES
    generation,   \* ObjectMeta.Generation of the live object
    status,       \* Status of the live object
    cache,        \* the informer's copy: [generation, status]
    applied,      \* history: generations a sync succeeded for
    podsFailing,  \* some pod owned by the NdbCluster is failing
    pc,           \* "idle", "sync" (sync running), "status" (writing status)
    obj,          \* sc.ndb, read from the cache at the tick start
    syncSuccess   \* sc.syncSuccess

vars == <<generation, status, cache, applied, podsFailing, pc, obj, syncSuccess>>

TypeOK ==
    /\ generation \in 1..MaxGeneration
    /\ status \in Statuses
    /\ cache \in [generation: 1..MaxGeneration, status: Statuses]
    /\ applied \subseteq 1..MaxGeneration
    /\ podsFailing \in BOOLEAN
    /\ pc \in {"idle", "sync", "status"}
    /\ obj \in [generation: 1..MaxGeneration, status: Statuses]
    /\ syncSuccess \in BOOLEAN

NoStatus == [processed |-> 0, cond |-> [status |-> FALSE, reason |-> "None", msgGen |-> 0]]

Init ==
    /\ generation = 1
    /\ status = NoStatus
    /\ cache = [generation |-> 1, status |-> NoStatus]
    /\ applied = {}
    /\ podsFailing = FALSE
    /\ pc = "idle"
    /\ obj = cache
    /\ syncSuccess = FALSE

-----------------------------------------------------------------------------
\* Mutation of OngoingProcessedGeneration: v1 reports the object's
\* generation as processed while the sync is still going on.
MutOngoingReportsGeneration(nc) ==
    IF ApiVersion = "v1" THEN nc.generation ELSE nc.generation - 1

\* The ProcessedGeneration of a sync that did not succeed: v1 keeps the
\* object's, v1alpha1 takes the generation before the object's.
OngoingProcessedGeneration(nc) ==
    IF ApiVersion = "v1" THEN nc.status.processed ELSE nc.generation - 1

\* Mutation of CalculateNdbClusterStatus: the success branch copies the
\* processed generation from the object's status, as the ongoing one does.
MutSuccessKeepsProcessed(nc, success) ==
    IF success
    THEN [processed |-> nc.status.processed,
          cond |-> [status |-> TRUE, reason |-> "SyncSuccess", msgGen |-> nc.generation]]
    ELSE [processed |-> OngoingProcessedGeneration(nc),
          cond |-> CASE ApiVersion = "v1" /\ podsFailing ->
                          [status |-> FALSE, reason |-> "Error", msgGen |-> 0]
                     [] nc.generation = 1 ->
                          [status |-> FALSE, reason |-> "ISR", msgGen |-> 0]
                     [] OTHER ->
                          [status |-> FALSE, reason |-> "SpecUpdateInProgress",
                           msgGen |-> nc.generation]]

\* calculateNdbClusterStatus: processedGeneration and the UpToDate
\* condition (the Ready:x/y strings and the generated secret name are not
\* modelled: no property here tells them apart).
CalculateNdbClusterStatus(nc, success) ==
    IF success
    THEN [processed |-> nc.generation,
          cond |-> [status |-> TRUE, reason |-> "SyncSuccess", msgGen |-> nc.generation]]
    ELSE [processed |-> OngoingProcessedGeneration(nc),
          cond |-> CASE ApiVersion = "v1" /\ podsFailing ->
                          [status |-> FALSE, reason |-> "Error", msgGen |-> 0]
                     [] nc.generation = 1 ->
                          [status |-> FALSE, reason |-> "ISR", msgGen |-> 0]
                     [] OTHER ->
                          [status |-> FALSE, reason |-> "SpecUpdateInProgress",
                           msgGen |-> nc.generation]]

\* statusEqual: v1 compares the condition's status, reason and message;
\* v1alpha1 only its status.
StatusEqual(old, new) ==
    /\ old.processed = new.processed
    /\ old.cond.status = new.cond.status
    /\ ApiVersion = "v1" => old.cond.reason = new.cond.reason
                            /\ old.cond.msgGen = new.cond.msgGen

-----------------------------------------------------------------------------
\* The tick takes the NdbCluster from the informer cache.
TickStart ==
    /\ pc = "idle"
    /\ obj' = cache
    /\ pc' = "sync"
    /\ UNCHANGED <<generation, status, cache, applied, podsFailing, syncSuccess>>

\* sync ends, successfully (ok) or not: that depends on the cluster, which
\* this module leaves open.
SyncEnds(ok) ==
    /\ pc = "sync"
    /\ syncSuccess' = ok
    /\ applied' = IF ok THEN applied \cup {obj.generation} ELSE applied
    /\ pc' = "status"
    /\ UNCHANGED <<generation, status, cache, podsFailing, obj>>

\* The status write: compute the status, skip the write if it equals the
\* object's, otherwise UpdateStatus (with the conflict retry).
UpdateNdbClusterStatus ==
    /\ pc = "status"
    /\ LET new == CalculateNdbClusterStatus(obj, syncSuccess)
       IN status' = IF StatusEqual(obj.status, new) THEN status ELSE new
    /\ pc' = "idle"
    /\ UNCHANGED <<generation, cache, applied, podsFailing, obj, syncSuccess>>

\* The user edits the spec; the API server bumps the generation.
UserUpdatesSpec ==
    /\ generation < MaxGeneration
    /\ generation' = generation + 1
    /\ UNCHANGED <<status, cache, applied, podsFailing, pc, obj, syncSuccess>>

\* The informer cache catches up with the API server.
CacheSync ==
    /\ cache # [generation |-> generation, status |-> status]
    /\ cache' = [generation |-> generation, status |-> status]
    /\ UNCHANGED <<generation, status, applied, podsFailing, pc, obj, syncSuccess>>

\* A pod starts or stops failing (CrashLoopBackOff, ImagePullBackOff, ...).
PodsChange ==
    /\ podsFailing' = ~podsFailing
    /\ UNCHANGED <<generation, status, cache, applied, pc, obj, syncSuccess>>

Next ==
    \/ TickStart \/ \E ok \in BOOLEAN : SyncEnds(ok) \/ UpdateNdbClusterStatus
    \/ UserUpdatesSpec \/ CacheSync \/ PodsChange

Spec == Init /\ [][Next]_vars

\* The controller's workers keep ticking (the requeue and the watch events
\* re-run the reconcile), a started sync returns and its status is written,
\* and the informer keeps up with the API server: weakly fair.  A sync that
\* can succeed does so again and again: strongly fair, the cluster is not
\* assumed broken forever.  User edits and failing pods are not fair.
Fairness ==
    /\ WF_vars(TickStart)
    /\ WF_vars(\E ok \in BOOLEAN : SyncEnds(ok))
    /\ SF_vars(SyncEnds(TRUE))
    /\ WF_vars(UpdateNdbClusterStatus)
    /\ WF_vars(CacheSync)

FairSpec == Spec /\ Fairness

-----------------------------------------------------------------------------
\* calculateNdbClusterStatus: the generation reported as processed is one
\* a sync succeeded for, whatever ticks failed, whatever the cache lagged.
ProcessedGenerationWasApplied ==
    status.processed = 0 \/ status.processed \in applied

\* calculateNdbClusterStatus and the status write: however the ticks read a
\* stale cache and however many of them fail, the status keeps coming back
\* to reporting the live generation as processed and UpToDate.
ReportsLiveGenerationInfinitelyOften ==
    []<>(status.processed = generation /\ status.cond.status)
=============================================================================
