-------------------------- MODULE MCClusterPromoter --------------------------
(* Small instances of ClusterPromoter for TLC; the .cfg files choose the     *)
(* timings, the topology and the disturbances.                               *)
EXTENDS ClusterPromoter, TLC

\* Both nodes run the same programs under the same constants.
NodeSymmetry == Permutations(Nodes)

\* When the lease was given up is read by no guard, and by none of the properties
\* of the run that takes this view.
WithoutHistory ==
    <<leaseVars, vrrp, age, holddown, localHold, clusterHold, forceFile, request,
      hostVars, tickVars>>
==============================================================================
