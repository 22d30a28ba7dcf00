------------------------------ MODULE MCTopology ------------------------------
(* Instances of TopologyController: three workers, of which 1 has two       *)
(* tokens, so that it joins and leaves with two tasks.                      *)
EXTENDS TopologyController

MCTokens == [a \in {1, 2, 3} |-> IF a = 1 THEN {0, 2} ELSE IF a = 2 THEN {1} ELSE {3}]

\* One token each: a change is one task.
MCOneToken == [a \in {1, 2, 3} |-> {a - 1}]

\* The workers of A form the cluster.
Cluster(A) ==
  [version |-> 1, hasInit |-> TRUE, batch |-> NoBatch,
   members |-> [a \in A |-> [id |-> 1, state |-> "ACTIVE"]]]

Running(A) == [a \in A |-> [lifecycle |-> "READY", ts |-> 1]]

\* Workers 1 and 2 form the cluster, 3 is about to join; one controller of its own.
Etcd ==
  [mode |-> "EXTERNAL_ETCD", controllers |-> {1}, fresh |-> {"READY"},
   windows |-> FALSE, summaries |-> FALSE,
   topology |-> Cluster({1, 2}), membership |-> Running({1, 2, 3}),
   maxChanges |-> 2, maxAlarms |-> 1]

\* A controller on each of the two workers; a third one may come.
Peers == [Etcd EXCEPT !.controllers = {1, 2}, !.membership = Running({1, 2}),
                      !.maxChanges = 1, !.maxAlarms = 0]

\* The controller of the coordinator, with failure summaries.
Coordinator ==
  [Etcd EXCEPT !.mode = "EXTERNAL", !.summaries = TRUE, !.maxChanges = 1, !.maxAlarms = 1]

\* No cluster yet, and collection windows.
Bootstrap ==
  [Etcd EXCEPT !.fresh = {"READY", "RESTARTING", "RECOVERING"}, !.windows = TRUE,
               !.topology = NoTopology, !.membership = Running({}),
               !.maxChanges = 3, !.maxAlarms = 0]

MCSafety == {Etcd, Peers, Coordinator, Bootstrap}

LeavingCluster == [Coordinator EXCEPT !.summaries = FALSE, !.maxChanges = 2, !.maxAlarms = 0]

MCLiveness == {LeavingCluster, Peers}
===============================================================================
