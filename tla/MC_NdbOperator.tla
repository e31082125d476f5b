--------------------------- MODULE MC_NdbOperator ---------------------------
(***************************************************************************)
(* Model-checking instance of NdbOperator: two node groups of two data     *)
(* nodes (redundancy 2, hence two management servers), up to two MySQL     *)
(* Servers, two values of the config-relevant tuning, and a third          *)
(* generation so that two spec updates can race the rollout.              *)
(***************************************************************************)
EXTENDS NdbOperator

MC_NodeCountChoices == {4, 6}
MC_RedundancyChoices == {2}
MC_CfgValues == {"c1", "c2"}

\* the cluster starts with two MySQL Servers and tuning c1
MC_InitialSpec == [nodeCount |-> 4, redundancy |-> 2, sql |-> 2, cfg |-> "c1"]

\* A larger topology: two node groups of three replicas (data nodes 3-8),
\* for a data node loop with three indices.
MC_NodeCountChoicesR3 == {6}
MC_RedundancyChoicesR3 == {3}
MC_InitialSpecR3 == [nodeCount |-> 6, redundancy |-> 3, sql |-> 2, cfg |-> "c1"]

\* SQL counts a user may choose when scaling to zero is allowed, and when
\* the MySQL Servers are only ever scaled between one and two.
MC_SqlWithZero == {0, 1, 2}
MC_SqlNoZero == {1, 2}
=============================================================================
