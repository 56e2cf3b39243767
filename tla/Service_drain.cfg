SPECIFICATION FairSpec
CONSTANTS
  Conns = {c1, c2, c3}
  Tenants = {"acme", "globex"}
  Hash <- TenantHashes
  InstanceId = 1
  FleetSize = 4
  InstancesPerTenant = 2
  Topology <- TopologyFile
  Hashes = {5, 6}
  DrawsOf <- SeededDraws
CHECK_DEADLOCK FALSE
INVARIANTS
  DrainedIsFinal
  RedirectsToOwners
PROPERTIES
  Answered
