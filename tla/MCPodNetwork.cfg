SPECIFICATION FairSpec
CONSTANTS
  Nil = Nil
  Host = Host
  Destroyed = Destroyed
  s1 = s1
  s2 = s2
  s3 = s3
  rdma1 = rdma1
  rdma2 = rdma2
  Sandboxes = {s1, s2, s3}
  Tasks <- MCTasks
  SandboxOf <- MCSandboxOf
  Earlier <- MCEarlier
  HostDevice <- MCHostDevice
  ConfigurationOf <- MCConfigurationOf
  HostDevices <- MCHostDevices
  RdmaDevices = {rdma1, rdma2}
  NetdevOf <- MCNetdevOf
  RandomNames <- MCRandomNames
  Expressions = {}
  Capacity = 65536
  ByteBits = 3
  AddressBytes = 2
  NoSubnet = NoSubnet
CHECK_DEADLOCK FALSE
INVARIANTS TypeOK ConfiguredIsThere SplitIsReported IInv PreparedAddressesUsable
PROPERTIES NothingStays
