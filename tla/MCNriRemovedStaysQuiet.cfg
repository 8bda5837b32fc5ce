SPECIFICATION Spec
CONSTANTS
  None = None
  pod1 = pod1
  sb1 = sb1
  sb2 = sb2
  claim1 = claim1
  claim2 = claim2
  Pods = {pod1}
  Sandboxes = {sb1, sb2}
  PodOf <- MCPodOf
  ClaimPool <- OneDevice
  ClaimUIDs = {claim1, claim2}
  DeviceStatuses <- MCDeviceStatuses
  DriverName = "devicenetwork"
  Configurators = {"Macvlan", "HostDevice"}
INVARIANTS RemovedStaysQuiet
