SPECIFICATION Spec
CONSTANTS
  None = None
  pod1 = pod1
  sb1 = sb1
  sb2 = sb2
  claim1 = claim1
  Pods = {pod1}
  Sandboxes = {sb1, sb2}
  PodOf <- MCPodOf
  ClaimUIDs = {claim1}
  ClaimsOf <- MCClaimsOf
  Results <- MCResults
  Foreign <- MCForeign
  DeviceStatuses <- MCDeviceStatuses
  DriverName = "devicenetwork"
  Configurators = {"Macvlan", "HostDevice"}
  MaxCalls = 2
  MaxCrashes = 1
INVARIANTS TypeOK PluginInvariant ClaimsHandled
PROPERTIES ClaimsReachSandbox ImplementsHandover
