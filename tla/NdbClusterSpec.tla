--------------------------- MODULE NdbClusterSpec ---------------------------
(***************************************************************************)
(* The NdbCluster resource spec as the reconciliation core sees it, and    *)
(* the admission rules of validation.go (HasValidSpec, IsValidSpecUpdate). *)
(* A spec is a record; free-form tuning (dataNodeConfig, myCnf, ...) is    *)
(* abstracted to one model value `cfg`, since the core only compares it    *)
(* through the config hash.                                                *)
(***************************************************************************)
EXTENDS Naturals

CONSTANTS
    MaxNumberOfNodes,   \* constants.MaxNumberOfNodes
    FreeAPISlots,       \* spec.freeAPISlots (never changed in the model)
    NodeCountChoices,   \* data node counts a user may write into a spec
    RedundancyChoices,  \* redundancy levels a user may write into a spec
    SqlChoices,         \* MySQL server counts a user may write into a spec
    CfgValues           \* abstract values of the config-relevant tuning

ClusterSpecs == [nodeCount: NodeCountChoices, redundancy: RedundancyChoices,
         sql: SqlChoices, cfg: CfgValues]

\* GetManagementNodeCount: one mgmd when the cluster has no replication,
\* two otherwise.
GetManagementNodeCount(s) == IF s.redundancy = 1 THEN 1 ELSE 2

\* HasValidSpec: the data node count is a multiple of the redundancy and
\* the total node count fits in the NDB maximum.  (The DNS-name check of
\* the root password secret and the myCnf parse are not modelled: neither
\* field is part of the abstract spec.)
HasValidSpec(s) ==
    /\ s.nodeCount % s.redundancy = 0
    /\ GetManagementNodeCount(s) + s.nodeCount + s.sql + FreeAPISlots
         <= MaxNumberOfNodes

\* IsValidSpecUpdate: no update at all to a cluster with redundancy 1, no
\* change of the node count or the redundancy, and the new spec is valid.
IsValidSpecUpdate(old, new) ==
    /\ old.redundancy # 1
    /\ old.nodeCount = new.nodeCount
    /\ old.redundancy = new.redundancy
    /\ HasValidSpec(new)
=============================================================================
