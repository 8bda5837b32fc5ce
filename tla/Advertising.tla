----------------------------- MODULE Advertising -----------------------------
(***************************************************************************)
(* Which devices a node advertises for its DeviceNetworks: getResources    *)
(* of pkg/controllers/devicenetwork/reconciler.go, with List and the CEL   *)
(* filter of pkg/host.                                                     *)
(*                                                                         *)
(* A host device is a record of the fields of DeviceSpec that are read.    *)
(* Names are sequences of atoms without a dash; joining names with dashes  *)
(* is then their concatenation, and two triples of names that the code     *)
(* joins to one string are joined to one sequence here.                    *)
(***************************************************************************)
EXTENDS DeviceTypes

CONSTANTS
    Eval(_, _),      \* what a CEL expression says of a device: "true", "false" or "error"
    MatchingNode     \* the node selectors that match the agent's node

(* pkg/host: List narrows the devices by one selector after the other.     *)
EvalDevices(expression, devices) == {d \in devices : Eval(expression, d) = "true"}

Fails(expression, devices) == \E d \in devices : Eval(expression, d) = "error"

(* An expression that fails for some device is logged and skipped.         *)
Narrow(devices, selector) ==
    IF selector.cel = Nil \/ Fails(selector.cel, devices)
    THEN devices ELSE EvalDevices(selector.cel, devices)

(* The first selector decides alone.                                       *)
ListFirst(devices, selectors) ==
    IF selectors = <<>> THEN devices ELSE Narrow(devices, Head(selectors))

List(devices, selectors) == FoldLeft(Narrow, devices, selectors)

-----------------------------------------------------------------------------
(* pkg/controllers/devicenetwork/reconciler.go                             *)

AppliesToNode(deviceSelector) ==
    deviceSelector.nodeSelector = Nil \/ deviceSelector.nodeSelector \in MatchingNode

(* Any node selector is taken to match.                                    *)
DeviceForSelectorAnywhere(deviceSelectors, name, devices) ==
    LET named == {i \in DOMAIN deviceSelectors : deviceSelectors[i].name = name}
    IN  IF named = {} THEN {} ELSE List(devices, deviceSelectors[Max(named)].selectors)

(* The map of that name: the last selector that applies has written it.    *)
DeviceForSelector(deviceSelectors, name, devices) ==
    LET named == {i \in DOMAIN deviceSelectors :
                    deviceSelectors[i].name = name /\ AppliesToNode(deviceSelectors[i])}
    IN  IF named = {} THEN {} ELSE List(devices, deviceSelectors[Max(named)].selectors)

DeviceForDeviceConfiguration(spec, configuration, devices) ==
    UNION {DeviceForSelector(spec.deviceSelectors, selector, devices) :
              selector \in ToSet(configuration.deviceSelectors)}

DeviceName(network, configuration, device) == network \o configuration \o device

(* A device of the pool: its name, its attributes and what it consumes.    *)
ResourceDevice(network, configuration, device) ==
    LET type == GetDeviceType(configuration)
    IN  [name |-> DeviceName(network, configuration.name, device.interfaceName),
         deviceType |-> type,
         podNetwork |-> network,
         deviceConfiguration |-> configuration.name,
         hostDeviceName |-> device.interfaceName,
         exposed |-> ExposedDevice(type, device)]

(* The devices of one configuration.  Two configurations of one network    *)
(* may yield equal devices; DuplicateNames tells.                          *)
ResourceDevices(network, spec, configuration, devices) ==
    {ResourceDevice(network, configuration, device) :
        device \in {d \in DeviceForDeviceConfiguration(spec, configuration, devices) :
                       IsSupported(d, configuration)}}

(* specs: the DeviceNetworks listed, by name.                              *)
GetResources(specs, devices) ==
    UNION {UNION {ResourceDevices(network, specs[network], configuration, devices) :
                     configuration \in ToSet(specs[network].deviceConfigurations)} :
              network \in DOMAIN specs}

(* Two devices of the pool have one name: the API server takes no such     *)
(* ResourceSlice.                                                          *)
DuplicateNames(specs, devices) ==
    \E n1, n2 \in DOMAIN specs :
       \E i \in DOMAIN specs[n1].deviceConfigurations,
          j \in DOMAIN specs[n2].deviceConfigurations :
          /\ <<n1, i>> # <<n2, j>>
          /\ LET At(n, k) == ResourceDevices(n, specs[n], specs[n].deviceConfigurations[k], devices)
             IN  \E d1 \in At(n1, i), d2 \in At(n2, j) : d1.name = d2.name
=============================================================================
