SPECIFICATION Spec
CONSTANTS
  None = None
  pod1 = pod1
  pod2 = pod2
  claim1 = claim1
  claim2 = claim2
  Pods = {pod1, pod2}
  ClaimUIDs = {claim1, claim2}
  ClaimsOf <- MCClaimsOf
  Results <- MCResults
  Foreign <- MCForeign
  DeviceStatuses <- MCDeviceStatuses
  DriverName = "devicenetwork"
  Configurators = {"Macvlan", "HostDevice"}
  MaxCalls = 3
  MaxCrashes = 1
INVARIANTS ReservationStillThere
