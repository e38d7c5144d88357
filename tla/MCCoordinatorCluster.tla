------------------------ MODULE MCCoordinatorCluster ------------------------
(* Constants of the CoordinatorCluster run.                                *)
EXTENDS CoordinatorCluster, TLC

MCNodes == {1, 2}
MCCommands ==
  UNION {{CmdRegisterNode(n, "a", 1), CmdMarkUnhealthy(n)} : n \in MCNodes}
    \cup {CmdUpdateHeartbeat(1, 2)}
MCSymmetry == Permutations(Coordinators)
=============================================================================
