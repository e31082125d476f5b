---------------------------- MODULE ConfigRollout ----------------------------
(***************************************************************************)
(* What the operator promises about rolling a config through MySQL         *)
(* Cluster, with no Kubernetes and no ticks in sight.  A config of the     *)
(* next generation is published only once every node runs the current     *)
(* one.  A node running an old config is stopped only while every peer of  *)
(* it runs: the other management servers for a management server, the    *)
(* other replicas of its node group for a data node.  Data nodes are       *)
(* stopped only once every management server runs the published config.   *)
(* A restarted management server loads some published config; a          *)
(* restarted data node takes the config of a running management server.    *)
(***************************************************************************)
EXTENDS Naturals

CONSTANTS
    Mgmds,      \* management server node ids
    DataNodes,  \* data node ids
    Peers(_)    \* Peers(n): the nodes that must run while n is stopped

Nodes == Mgmds \cup DataNodes

VARIABLES
    target,     \* generation of the published config (0: none yet)
    running,    \* running[n]: generation of the config node n loaded (0: none)
    up          \* up[n]: node n runs and has not been asked to stop

vars == <<target, running, up>>

Init ==
    /\ target = 0
    /\ running = [n \in Nodes |-> 0]
    /\ up = [n \in Nodes |-> FALSE]

\* The next config is published when the current one is everywhere.
Publish ==
    /\ \A n \in Nodes : running[n] = target
    /\ target' = target + 1
    /\ UNCHANGED <<running, up>>

\* A set of nodes with an old config is asked to stop together.
Stop(S) ==
    /\ \A n \in S :
         /\ up[n]
         /\ running[n] # target
         /\ \A p \in Peers(n) : up[p] /\ p \notin S
         /\ n \in DataNodes => \A m \in Mgmds : up[m] /\ running[m] = target
    /\ up' = [n \in Nodes |-> up[n] /\ n \notin S]
    /\ UNCHANGED <<target, running>>

\* A node that is not running starts with a config it can get.
Start(n) ==
    /\ ~up[n]
    /\ \/ n \in Mgmds /\ \E g \in 1..target : running' = [running EXCEPT ![n] = g]
       \/ n \in DataNodes /\ \E m \in Mgmds :
             up[m] /\ running' = [running EXCEPT ![n] = running[m]]
    /\ up' = [up EXCEPT ![n] = TRUE]
    /\ UNCHANGED target

Next ==
    \/ Publish
    \/ \E S \in SUBSET Nodes : S # {} /\ Stop(S)
    \/ \E n \in Nodes : Start(n)

Spec == Init /\ [][Next]_vars
=============================================================================
