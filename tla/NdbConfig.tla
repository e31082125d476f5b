------------------------------ MODULE NdbConfig ------------------------------
(***************************************************************************)
(* Node id assignment of the config generator (GetConfigString in         *)
(* ndbconfig).  The config.ini template calls GetNodeIds once per role, in *)
(* the order of its sections: [ndb_mgmd], [ndbd], [mysqld], [api].         *)
(* Management and data nodes draw their ids from one counter starting at  *)
(* 1 (ndbdMgmdStartNodeId); MySQL Servers and free API slots draw from a   *)
(* second counter starting at the API start node id (apiStartNodeId).     *)
(* Each call hands out consecutive ids and advances its counter.           *)
(***************************************************************************)
EXTENDS Naturals, Sequences, NdbClusterSpec

LOCAL INSTANCE SequencesExt

CONSTANT NdbNodeTypeAPIStartNodeId  \* constants.NdbNodeTypeAPIStartNodeId

ASSUME NdbNodeTypeAPIStartNodeId \in Nat \ {0}

\* The roles of the template, in the order their sections are rendered.
TemplateRoles == <<"mgmd", "ndbmtd", "mysqld", "api">>
Roles == ToSet(TemplateRoles)

\* getNumOfSectionsRequiredForMySQLServers / getNumOfFreeAPISections: one
\* [mysqld] section per MySQL Server, one [api] section per free slot.
NumOfSectionsRequiredForMySQLServers(s) == s.sql
NumOfFreeAPISections(s) == FreeAPISlots

\* The switch of GetNodeIds: how many ids a role gets ...
NumberOfNodes(s, role) ==
    CASE role = "mgmd"   -> GetManagementNodeCount(s)
      [] role = "ndbmtd" -> s.nodeCount
      [] role = "mysqld" -> NumOfSectionsRequiredForMySQLServers(s)
      [] role = "api"    -> NumOfFreeAPISections(s)

\* Mutation of UsesApiCounter: the free API slots fall through to the
\* management/data node counter.
MutApiSlotsOnDataCounter(role) == role = "mysqld"

\* ... and whether it draws them from apiStartNodeId (otherwise from
\* ndbdMgmdStartNodeId).
UsesApiCounter(role) == role \in {"mysqld", "api"}

\* The loop of GetNodeIds: `count` consecutive ids starting at `start`.
IdsFrom(start, count) == [i \in 1..count |-> start + i - 1]

\* Template execution: GetNodeIds for each remaining role in turn, threading
\* the two counters through the calls.  Returns the id lists in role order.
RECURSIVE RenderNodeIds(_, _, _, _)
RenderNodeIds(s, roles, ndbdMgmdStartNodeId, apiStartNodeId) ==
    IF roles = <<>> THEN <<>>
    ELSE LET role == Head(roles)
             n    == NumberOfNodes(s, role)
             api  == UsesApiCounter(role)
             ids  == IdsFrom(IF api THEN apiStartNodeId ELSE ndbdMgmdStartNodeId, n)
         IN <<ids>> \o RenderNodeIds(s, Tail(roles),
                          IF api THEN ndbdMgmdStartNodeId ELSE ndbdMgmdStartNodeId + n,
                          IF api THEN apiStartNodeId + n ELSE apiStartNodeId)

\* GetConfigString's node ids: role |-> the NodeId values of its sections.
NodeIds(s) ==
    LET r == RenderNodeIds(s, TemplateRoles, 1, NdbNodeTypeAPIStartNodeId)
    IN [role \in Roles |-> r[CHOOSE i \in 1..Len(TemplateRoles) : TemplateRoles[i] = role]]
=============================================================================
