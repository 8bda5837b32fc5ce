------------------------------ MODULE Allocation ------------------------------
(***************************************************************************)
(* From the advertised devices to the device a claim is prepared with: the *)
(* reconciler publishes (Advertising.tla), the scheduler allocates, and    *)
(* the driver asks the resolver for the device of the allocation           *)
(* (pkg/resolver/resolver.go).                                             *)
(*                                                                         *)
(* The resolver joins three caches of different age: the agent's copy of   *)
(* the ResourceSlices, the lister of DeviceNetworks and the host device    *)
(* cache.  A DeviceNetwork may be edited, deleted and created again at any *)
(* time: nothing enforces docs/proposal.md:592-594.                        *)
(*                                                                         *)
(* Granularity.  A reconcile and a resolution are one step each: what may  *)
(* change between their reads is in Discovery.tla.  An event brings a      *)
(* lister up to date with the object's last state.                         *)
(***************************************************************************)
EXTENDS Advertising, FiniteSets

CONSTANTS
    Networks,        \* names of DeviceNetworks, sequences of atoms
    NetworkSpecs,    \* the specs users write
    Devices,         \* what the host device cache may hold of an interface
    Claims,          \* claims of one device of this driver
    MaxRevision      \* bound on the edits of one network and of the host's devices

Interfaces == {d.interfaceName : d \in Devices}

(* What is advertised for a spec, at most, and for all of them.            *)
DevicesOf(network, spec) ==
    {ResourceDevice(network, configuration, device) :
        configuration \in {c \in ToSet(spec.deviceConfigurations) : GetDeviceType(c) \in DeviceType},
        device \in Devices}

AdvertisedDevices == UNION {DevicesOf(n, s) : n \in Networks, s \in NetworkSpecs}

Allocation == [device : AdvertisedDevices, revision : 0..MaxRevision, counted : BOOLEAN]

Preparation == [deviceType : DeviceType, hostDeviceName : Interfaces, genuine : BOOLEAN]

ASSUME AllocationAssumption ==
    /\ Nil \notin NetworkSpecs \cup Allocation \cup Preparation
    /\ \A spec \in NetworkSpecs : IsDeviceNetworkSpec(spec)
    /\ IsFiniteSet(Claims)
    /\ Capacity \in Nat \ {0}
    /\ MaxRevision \in Nat

VARIABLES
    networks,        \* the API server's DeviceNetworks, with their revision
    lister,          \* those the agent's lister shows
    hostDevices,     \* the host device cache
    deviceChanges,   \* how much of MaxRevision the devices have used up
    slices,          \* the devices of the node's ResourceSlices
    basis,           \* history: the revision each network was published at
    sliceCache,      \* the ResourceSlices the resolver's indexer holds
    allocated,       \* the device the scheduler has allocated to a claim
    prepared         \* the device the driver has prepared a claim with

vars == <<networks, lister, hostDevices, deviceChanges, slices, basis, sliceCache,
          allocated, prepared>>

Object == [spec : NetworkSpecs \cup {Nil}, revision : 0..MaxRevision]

TypeOK ==
    /\ networks \in [Networks -> Object]
    /\ lister \in [Networks -> Object]
    /\ \A n \in Networks : lister[n].revision <= networks[n].revision
    /\ hostDevices \subseteq Devices
    /\ \A d1, d2 \in hostDevices : d1.interfaceName = d2.interfaceName => d1 = d2
    /\ deviceChanges \in 0..MaxRevision
    /\ slices \subseteq AdvertisedDevices /\ sliceCache \subseteq AdvertisedDevices
    /\ basis \in [Networks -> 0..MaxRevision]
    /\ allocated \in [Claims -> Allocation \cup {Nil}]
    /\ prepared \in [Claims -> Preparation \cup {Nil}]
    /\ \A c \in Claims : prepared[c] # Nil => allocated[c] # Nil

Init ==
    /\ networks \in [Networks -> {[spec |-> s, revision |-> 0] : s \in NetworkSpecs \cup {Nil}}]
    /\ lister = networks
    /\ hostDevices \in {ds \in SUBSET Devices :
                      \A d1, d2 \in ds : d1.interfaceName = d2.interfaceName => d1 = d2}
    /\ deviceChanges = 0
    /\ slices = {} /\ sliceCache = {}
    /\ basis = [n \in Networks |-> 0]
    /\ allocated = [c \in Claims |-> Nil]
    /\ prepared = [c \in Claims |-> Nil]

-----------------------------------------------------------------------------
(* Users, informers and the host                                           *)

(* A network is created, changed or deleted.                               *)
EditNetwork(n) ==
    /\ networks[n].revision < MaxRevision
    /\ \E spec \in (NetworkSpecs \cup {Nil}) \ {networks[n].spec} :
          networks' = [networks EXCEPT ![n] = [spec |-> spec, revision |-> @.revision + 1]]
    /\ UNCHANGED <<lister, hostDevices, deviceChanges, slices, basis, sliceCache, allocated, prepared>>

NetworkEvent(n) ==
    /\ lister[n] # networks[n]
    /\ lister' = [lister EXCEPT ![n] = networks[n]]
    /\ UNCHANGED <<networks, hostDevices, deviceChanges, slices, basis, sliceCache, allocated, prepared>>

(* A cache that keeps what it knew of an interface next to what it sees.   *)
DeviceChangesKept(interface) ==
    /\ deviceChanges < MaxRevision
    /\ \E seen \in {d \in Devices : d.interfaceName = interface} :
          hostDevices' = hostDevices \cup {seen}
    /\ hostDevices' # hostDevices
    /\ deviceChanges' = deviceChanges + 1
    /\ UNCHANGED <<networks, lister, slices, basis, sliceCache, allocated, prepared>>

(* The cache sees an interface appear, change or vanish.                   *)
DeviceChanges(interface) ==
    /\ deviceChanges < MaxRevision
    /\ \E seen \in {{}} \cup {{d} : d \in {e \in Devices : e.interfaceName = interface}} :
          hostDevices' = {d \in hostDevices : d.interfaceName # interface} \cup seen
    /\ hostDevices' # hostDevices
    /\ deviceChanges' = deviceChanges + 1
    /\ UNCHANGED <<networks, lister, slices, basis, sliceCache, allocated, prepared>>

(* A publication that leaves what was there before.                        *)
PublishAdded ==
    LET listed == {n \in Networks : lister[n].spec # Nil}
        resources == GetResources([n \in listed |-> lister[n].spec], hostDevices)
    IN  /\ slices' = slices \cup resources
        /\ basis' = [n \in Networks |-> lister[n].revision]
        /\ UNCHANGED <<networks, lister, hostDevices, deviceChanges, sliceCache, allocated, prepared>>

(* Reconcile: the node's devices are published, and an allocated device    *)
(* that is not among them counts no longer.  Slices with two devices of    *)
(* one name are refused and the old ones stay.                             *)
Publish ==
    LET listed == {n \in Networks : lister[n].spec # Nil}
        specs == [n \in listed |-> lister[n].spec]
        refused == DuplicateNames(specs, hostDevices)
    IN  /\ slices' = IF refused THEN slices ELSE GetResources(specs, hostDevices)
        /\ basis' = IF refused THEN basis ELSE [n \in Networks |-> lister[n].revision]
        /\ allocated' = [c \in Claims |->
                            IF allocated[c] = Nil THEN Nil
                            ELSE [allocated[c] EXCEPT !.counted =
                                     @ /\ allocated[c].device \in slices']]
        /\ UNCHANGED <<networks, lister, hostDevices, deviceChanges, sliceCache, prepared>>

SliceEvent ==
    /\ sliceCache # slices
    /\ sliceCache' = slices
    /\ UNCHANGED <<networks, lister, hostDevices, deviceChanges, slices, basis, allocated, prepared>>

-----------------------------------------------------------------------------
(* The scheduler                                                           *)

Held == {c \in Claims : allocated[c] # Nil}

HoldersOf(name) == {c \in Held : allocated[c].device.name = name}

(* What the allocations of a name take from a counter: as the slices say   *)
(* now, nothing once the device is gone from them.                         *)
Consumed(counterSet) ==
    LET Takes(c) == LET now == {d \in slices : /\ d.name = allocated[c].device.name
                                               /\ d.exposed.counterSet = counterSet}
                    IN  IF now = {} THEN 0 ELSE (CHOOSE d \in now : TRUE).exposed.consumes
    IN  SumFunction([c \in Held |-> Takes(c)])

Fits(device) ==
    /\ Consumed(device.exposed.counterSet) + device.exposed.consumes <= Capacity
    /\ IF device.exposed.multiple
       THEN Cardinality(HoldersOf(device.name)) < device.exposed.maxVirtualInterfaces
       ELSE HoldersOf(device.name) = {}

(* counted is history: the device has been in the slices ever since.       *)
Allocate(c) ==
    /\ allocated[c] = Nil
    /\ \E device \in slices :
          /\ Fits(device)
          /\ allocated' = [allocated EXCEPT ![c] =
                [device |-> device, revision |-> basis[device.podNetwork], counted |-> TRUE]]
    /\ UNCHANGED <<networks, lister, hostDevices, deviceChanges, slices, basis, sliceCache, prepared>>

(* The pod is gone and the claim with it.                                  *)
Free(c) ==
    /\ allocated[c] # Nil
    /\ allocated' = [allocated EXCEPT ![c] = Nil]
    /\ prepared' = [prepared EXCEPT ![c] = Nil]
    /\ UNCHANGED <<networks, lister, hostDevices, deviceChanges, slices, basis, sliceCache>>

-----------------------------------------------------------------------------
(* The driver and the resolver                                             *)

(* The devices the deviceIDIndex yields for the name of an allocation.     *)
Indexed(name) == {d \in sliceCache : d.name = name}

(* The configuration of that name, the first one if there are several.     *)
ConfigurationOf(spec, name) ==
    LET named == {i \in DOMAIN spec.deviceConfigurations :
                    spec.deviceConfigurations[i].name = name}
    IN  IF named = {} THEN Nil ELSE spec.deviceConfigurations[Min(named)]

(* A resolver that trusts the advertised type.                             *)
GetDeviceAdvertised(name) ==
    {[deviceType |-> d.deviceType, hostDeviceName |-> d.hostDeviceName] :
        d \in {x \in Indexed(name) : lister[x.podNetwork].spec # Nil}}

(* The resolved device: the configuration that the lister has for the      *)
(* indexed device's attributes, and its host device.  None if the network, *)
(* the configuration or the host device is not found.                      *)
GetDevice(name) ==
    {[deviceType |-> GetDeviceType(ConfigurationOf(lister[d.podNetwork].spec,
                                                   d.deviceConfiguration)),
      hostDeviceName |-> d.hostDeviceName] :
        d \in {x \in Indexed(name) :
                 /\ \E h \in hostDevices : h.interfaceName = x.hostDeviceName
                 /\ lister[x.podNetwork].spec # Nil
                 /\ ConfigurationOf(lister[x.podNetwork].spec, x.deviceConfiguration) # Nil}}

(* The resolver's device with a configurator for its type.  genuine is     *)
(* history: the network is as it was when the device was published.        *)
Prepare(c) ==
    /\ allocated[c] # Nil
    /\ prepared[c] = Nil
    /\ \E resolved \in GetDevice(allocated[c].device.name) :
          /\ resolved.deviceType \in DeviceType
          /\ prepared' = [prepared EXCEPT ![c] =
                [deviceType |-> resolved.deviceType,
                 hostDeviceName |-> resolved.hostDeviceName,
                 genuine |-> networks[allocated[c].device.podNetwork].revision
                                = allocated[c].revision]]
    /\ UNCHANGED <<networks, lister, hostDevices, deviceChanges, slices, basis, sliceCache, allocated>>

Next ==
    \/ \E n \in Networks : EditNetwork(n) \/ NetworkEvent(n)
    \/ \E interface \in Interfaces : DeviceChanges(interface)
    \/ Publish
    \/ SliceEvent
    \/ \E c \in Claims : Allocate(c) \/ Free(c) \/ Prepare(c)

Spec == Init /\ [][Next]_vars

-----------------------------------------------------------------------------
(* Where a spec yields devices of a name: network, index of the            *)
(* configuration and interface.                                            *)
Places(spec, name) ==
    {p \in Networks \X (DOMAIN spec.deviceConfigurations) \X Interfaces :
        DeviceName(p[1], spec.deviceConfigurations[p[2]].name, p[3]) = name}

(* Names of networks, configurations and interfaces that are joined to one *)
(* device name, or two configurations of one name in a network, which      *)
(* validation would refuse if it were called.                              *)
AmbiguousNames ==
    {name \in {d.name : d \in AdvertisedDevices} :
        \E s, t \in NetworkSpecs : \E p \in Places(s, name), q \in Places(t, name) :
           \/ <<p[1], s.deviceConfigurations[p[2]].name, p[3]>>
              # <<q[1], t.deviceConfigurations[q[2]].name, q[3]>>
           \/ s = t /\ p # q}

Ambiguous(name) == name \in AmbiguousNames

(* As long as its network is not edited, a claim is prepared as the device *)
(* that was advertised and allocated: of that type and on that interface,  *)
(* however old the three caches of the resolver are                        *)
(* (resolver.go:132-198).  Not so for names that the dashes make           *)
(* ambiguous (the todo of reconciler.go:202).                              *)
ResolvedAsAllocated ==
    \A c \in Claims :
        prepared[c] # Nil /\ prepared[c].genuine /\ ~Ambiguous(allocated[c].device.name) =>
            /\ prepared[c].deviceType = allocated[c].device.deviceType
            /\ prepared[c].hostDeviceName = allocated[c].device.hostDeviceName

(* A claim whose device is still advertised and whose network was not      *)
(* edited before the preparation.                                          *)
Undisturbed(c) ==
    /\ prepared[c] # Nil /\ prepared[c].genuine /\ allocated[c].counted
    /\ ~Ambiguous(allocated[c].device.name)

(* "A HostDevice allocation takes full ownership of the interface,         *)
(* preventing any Macvlan allocation on the same device, while Macvlan     *)
(* allocations coexist" (docs/proposal.md:438), whichever networks and     *)
(* configurations expose the interface.                                    *)
Exclusive ==
    \A c1, c2 \in {c \in Claims : Undisturbed(c)} :
        c1 # c2 /\ prepared[c1].hostDeviceName = prepared[c2].hostDeviceName =>
            prepared[c1].deviceType = "Macvlan" /\ prepared[c2].deviceType = "Macvlan"

(* Macvlans of one advertised device, and with them the macvlans on an     *)
(* interface that one device exposes, are no more than MaxVirtualDevices,  *)
(* "the maximum number of macvlan devices that can be created on a single  *)
(* parent device" (attributes.go:69-72).  That is less than the constant   *)
(* and docs/demo.md:72-75 promise: if several networks or configurations   *)
(* expose an interface, only the counter they share bounds them together,  *)
(* and it admits one macvlan more.                                         *)
VirtualInterfacesBounded ==
    LET macvlans == {c \in Claims : Undisturbed(c) /\ prepared[c].deviceType = "Macvlan"}
        Siblings(c) == {o \in macvlans : allocated[o].device = allocated[c].device}
        Neighbours(c) == {o \in macvlans : prepared[o].hostDeviceName = prepared[c].hostDeviceName}
    IN  \A c \in macvlans :
           /\ Cardinality(Siblings(c)) <= MaxVirtualDevices
           /\ Cardinality(Neighbours(c)) <=
                 IF Neighbours(c) \subseteq Siblings(c)
                 THEN MaxVirtualDevices ELSE MaxVirtualDevices + 1

-----------------------------------------------------------------------------
(* What the properties above rest on.                                      *)

(* A lister that shows a network's last revision shows the network.        *)
ListerFollows ==
    \A n \in Networks : lister[n].revision = networks[n].revision => lister[n] = networks[n]

(* A device published of a revision of its network: the lister shows that  *)
(* revision or a later one, and as long as it shows that one, its spec     *)
(* still has the configuration of the device.                              *)
FromRevision(device, revision, shown) ==
    /\ revision <= shown.revision
    /\ revision = shown.revision =>
          shown.spec # Nil /\ device \in DevicesOf(device.podNetwork, shown.spec)

RevisionsRemembered ==
    /\ \A d \in slices : FromRevision(d, basis[d.podNetwork], lister[d.podNetwork])
    /\ \A c \in Held : FromRevision(allocated[c].device, allocated[c].revision,
                                    lister[allocated[c].device.podNetwork])

(* Whoever counts is seen by the scheduler: its device is in the slices,   *)
(* under a name that is no other's.                                        *)
CountedIsSeen ==
    /\ \A c \in Held : allocated[c].counted => allocated[c].device \in slices
    /\ \A d1, d2 \in slices : d1.name = d2.name /\ ~Ambiguous(d1.name) => d1 = d2

(* The claims that hold a share of an interface the scheduler knows of.    *)
Sharing(interface) ==
    {c \in Held : /\ allocated[c].counted /\ ~Ambiguous(allocated[c].device.name)
                  /\ allocated[c].device.hostDeviceName = interface}

(* A host device is held alone, and macvlans are as many as the counter    *)
(* and their device admit.                                                 *)
SharesFit ==
    /\ \A interface \in Interfaces : Cardinality(Sharing(interface)) <= Capacity
    /\ \A interface \in Interfaces : \A c1, c2 \in Sharing(interface) :
          c1 # c2 => allocated[c1].device.deviceType = "Macvlan"
    /\ \A c \in Held : allocated[c].device.deviceType = "Macvlan" =>
          Cardinality({o \in Held : allocated[o].device = allocated[c].device}) <= MaxVirtualDevices

IInv ==
    /\ TypeOK /\ ListerFollows /\ RevisionsRemembered /\ ResolvedAsAllocated
    /\ CountedIsSeen /\ SharesFit
=============================================================================
