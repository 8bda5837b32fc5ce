SPECIFICATION Spec
CONSTANTS
  Nil = Nil
  a = a
  b = b
  c = c
  d = d
  eth = eth
  wifi = wifi
  rdma = rdma
  isEth = isEth
  faulty = faulty
  long = long
  text = text
  claim1 = claim1
  claim2 = claim2
  claim3 = claim3
  Networks <- MCNetworks
  NetworkSpecs <- MCSpecs
  Devices <- MCDevices
  Claims = {claim1, claim2, claim3}
  Expressions = {rdma, isEth, faulty, long, text}
  TooLong = {long}
  NoCEL = {text}
  CIDRs = {"10.0.0.0/24"}
  LabelNames = {"zone", "metadata.name"}
  LabelValues = {"node1", "7"}
  NodeNames = {"node1", "7"}
  Eval <- MCEval
  MatchingNode <- MCMatchingNode
  Samples <- MCSamples
  SampleDevices <- MCSampleDevices
  Capacity = 2
  MaxRevision = 1
SYMMETRY Symmetric
INVARIANTS IInv TypeOK ResolvedAsAllocated Exclusive VirtualInterfacesBounded WritesValidUpToUncheckedRules WritesExposeSelected
