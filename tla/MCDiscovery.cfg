SPECIFICATION FairSpec
CONSTANTS
  Absent = Absent
  net1 = net1
  net2 = net2
  eth0 = eth0
  up = up
  rdma = rdma
  Names = {eth0}
  Specs = {up, rdma}
  Networks = {net1, net2}
  Exposes <- MCExposes
  ChannelSize = 1
  MaxChanges = 2
  MaxEdits = 1
INVARIANTS TypeOK StoreFollowsSnapshot NoLostWakeup IInv
PROPERTIES PresentAdvertised ImplementsPool
