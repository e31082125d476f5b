---------------------------- MODULE MC_NdbConfig ----------------------------
(***************************************************************************)
(* Checks the node id assignment of the config generator over every valid *)
(* spec of a bounded range: the generator is called on one valid spec      *)
(* after another, as the reconciliation loop calls it for each new         *)
(* generation, and its node ids are compared with the assignment the       *)
(* design (section 4.A) prescribes.                                        *)
(***************************************************************************)
EXTENDS Naturals, Sequences, FiniteSets, NdbConfig

MC_NodeCountChoices == 1..144
MC_RedundancyChoices == 1..4
MC_SqlChoices == 0..2
MC_CfgValues == {"c1"}

ValidSpecs == {s \in ClusterSpecs : HasValidSpec(s)}

VARIABLES ndb, ids
vars == <<ndb, ids>>

Init == /\ ndb \in ValidSpecs
        /\ ids = NodeIds(ndb)

\* A new spec is rendered into a config.
GenerateConfig ==
    \E s \in ValidSpecs : ndb' = s /\ ids' = NodeIds(s)

Spec == Init /\ [][GenerateConfig]_vars

\* The assignment of the design: management nodes 1..M, data nodes
\* M+1..M+N, MySQL Servers from the API start offset on, free API slots
\* right after them.
Interval(first, count) == [i \in 1..count |-> first + i - 1]
ReferenceNodeIds(s) ==
    LET M == GetManagementNodeCount(s)
        A == NdbNodeTypeAPIStartNodeId
    IN [mgmd   |-> Interval(1, M),
        ndbmtd |-> Interval(M + 1, s.nodeCount),
        mysqld |-> Interval(A, s.sql),
        api    |-> Interval(A + s.sql, FreeAPISlots)]

\* GetConfigString renders, for every valid spec, exactly the node ids of
\* the design: the template's section order and the two shared counters
\* of GetNodeIds give each role its own consecutive range.
NodeIdsMatchReference ==
    \A r \in Roles : ids[r] = ReferenceNodeIds(ndb)[r]
=============================================================================
