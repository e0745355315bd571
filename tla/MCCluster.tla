----------------------------- MODULE MCCluster ------------------------------
(* The manager, its service and its transport, for model checking.           *)
EXTENDS ClusterManager
Init == NewClusterManager
Spec == Init /\ [][ClusterNext]_clusterVars /\ ClusterFairness
=============================================================================
