CONSTANTS
  LocBits = 2
  Broadcast <- MCBroadcast
  Node <- RingNode
  Name = {"e1", "e2", "e3"}
  Mac <- MCMac
  Labs <- MCLabs
  Topologies <- MCTopologies
  MIN_R8_PACKET_BUDGET = 2
  SERIALIZED_R8_MAX = 5
  HOP_MAX = 7
SPECIFICATION FairSpec
CHECK_DEADLOCK FALSE
INVARIANTS ReadyIsolated FewLateSends Accounted LookupSingleValued
PROPERTIES RevocationStops Quiet
