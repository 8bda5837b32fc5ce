----------------------------- MODULE DeviceTypes -----------------------------
(***************************************************************************)
(* The DeviceNetwork API and what the configurators make of it without     *)
(* touching the host: apis/v1alpha1/types.go and helpers.go, and the       *)
(* IsSupported, ExposedDevice and Allocate methods of pkg/configurators.   *)
(*                                                                         *)
(* An optional field that is not set is Nil.  A CEL expression is a value  *)
(* of Expressions; what it says of an interface is Advertising's Eval.     *)
(***************************************************************************)
EXTENDS Naturals, Sequences, SequencesExt

CONSTANTS
    Nil,
    Expressions,
    Capacity         \* of a host device's counter: 65536 in the code

DeviceType == {"HostDevice", "Macvlan"}

ASSUME NilAssumption == Nil \notin DeviceType

MacvlanMode == {"private", "vepa", "bridge", "passthru", "source"}

Selector == [cel : Expressions \cup {Nil}]

(* The lists of a DeviceNetwork that the code reads, ipam that of its      *)
(* NetworkInterfaceConfiguration.  What is in them is whatever a user      *)
(* writes.                                                                 *)
IsList(list) == Len(list) \in Nat /\ list = [i \in 1..Len(list) |-> list[i]]

IsNodeSelector(nodeSelector) ==
    /\ IsList(nodeSelector.nodeSelectorTerms)
    /\ \A term \in ToSet(nodeSelector.nodeSelectorTerms) :
          /\ IsList(term.matchExpressions) /\ IsList(term.matchFields)
          /\ \A r \in ToSet(term.matchExpressions) \cup ToSet(term.matchFields) :
                IsList(r.values)

IsDeviceNetworkSpec(spec) ==
    /\ IsList(spec.deviceSelectors) /\ IsList(spec.deviceConfigurations) /\ IsList(spec.ipam)
    /\ \A s \in ToSet(spec.deviceSelectors) :
          /\ IsList(s.selectors) /\ ToSet(s.selectors) \subseteq Selector
          /\ s.nodeSelector # Nil => IsNodeSelector(s.nodeSelector)
    /\ \A c \in ToSet(spec.deviceConfigurations) : IsList(c.deviceSelectors)

GetDeviceType(configuration) ==
    IF configuration.deviceType = Nil THEN "HostDevice" ELSE configuration.deviceType

(* The macvlan configuration with its default mode.                        *)
GetMacvlan(configuration) ==
    IF configuration.macvlan # Nil /\ configuration.macvlan.mode # Nil
    THEN configuration.macvlan ELSE [mode |-> "bridge"]

-----------------------------------------------------------------------------
(* The host device configurator                                            *)

HostDeviceIsSupported(device, configuration) ==
    /\ GetDeviceType(configuration) = "HostDevice"
    /\ device.linkLayerType # "loopback"
    /\ device.deviceType \notin {"bridge", "bond", "team", "tuntap"}
    /\ device.parentIndex = 0
    /\ device.masterIndex = 0

(* A configurator whose devices take one share of the counter.             *)
HostDeviceShared(device) ==
    [multiple |-> FALSE, counterSet |-> device.interfaceName, consumes |-> 1,
     maxVirtualInterfaces |-> Nil]

HostDeviceExposed(device) ==
    [multiple |-> FALSE, counterSet |-> device.interfaceName, consumes |-> Capacity,
     maxVirtualInterfaces |-> Nil]

-----------------------------------------------------------------------------
(* The macvlan configurator                                                *)

(* A configurator that looks at the mode only.                             *)
MacvlanOnAnything(device, configuration) ==
    /\ GetDeviceType(configuration) = "Macvlan"
    /\ GetMacvlan(configuration).mode \in MacvlanMode

MacvlanIsSupported(device, configuration) ==
    /\ GetDeviceType(configuration) = "Macvlan"
    /\ GetMacvlan(configuration).mode \in MacvlanMode
    /\ device.linkLayerType = "ether"
    /\ device.masterIndex = 0

(* A device whose allocations take nothing from the shared counter.        *)
MacvlanUncounted(device) ==
    [multiple |-> TRUE, counterSet |-> device.interfaceName, consumes |-> 0,
     maxVirtualInterfaces |-> Capacity - 1]

(* 65535 in the code, and one unit less than the counter.                  *)
MaxVirtualDevices == Capacity - 1

MacvlanExposed(device) ==
    [multiple |-> TRUE, counterSet |-> device.interfaceName, consumes |-> 1,
     maxVirtualInterfaces |-> MaxVirtualDevices]

-----------------------------------------------------------------------------
(* deviceConfigurators: the configurator of each device type.              *)
IsSupported(device, configuration) ==
    \/ HostDeviceIsSupported(device, configuration)
    \/ MacvlanIsSupported(device, configuration)

ExposedDevice(type, device) ==
    IF type = "HostDevice" THEN HostDeviceExposed(device) ELSE MacvlanExposed(device)
=============================================================================
