CONSTANTS
  Nodes <- MCNodes
  TotalShards = 5
  Addrs = {"a"}
  Times <- MCTimes
SPECIFICATION Spec
INVARIANTS
  TypeOK
  OwnersAreHealthy
  EveryShardServed
  OwnedListsMatch
  Balanced
  PlacementFollowsMembership
PROPERTY
  StableOwnership
