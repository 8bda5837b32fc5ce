-------------------------- MODULE AllocationProofs ---------------------------
(***************************************************************************)
(* Theorems about Allocation.tla, for any networks, specs, interfaces,     *)
(* claims, capacity and number of edits.                                   *)
(*                                                                         *)
(* Three things together are inductive: the lister shows a revision of a   *)
(* network whole or an earlier one (ListerFollows), whoever has recorded a *)
(* revision finds the device in it (RevisionsRemembered), and the          *)
(* scheduler counts a holder as long as it sees its device (CountedIsSeen, *)
(* SharesFit).                                                             *)
(***************************************************************************)
EXTENDS WrittenNetworks, SelectionProofs

-----------------------------------------------------------------------------
(* The configuration at a position of a spec.                              *)
Configuration(spec, k) == spec.deviceConfigurations[k]

(* A configuration of a spec is at one of its positions.                   *)
LEMMA SpecPlaces ==
    ASSUME NEW spec \in NetworkSpecs
    PROVE  /\ DOMAIN spec.deviceConfigurations \subseteq Nat
           /\ ToSet(spec.deviceConfigurations) =
                 {Configuration(spec, k) : k \in DOMAIN spec.deviceConfigurations}
<1>1. IsList(spec.deviceConfigurations)
  BY AllocationAssumption DEF IsDeviceNetworkSpec
<1> QED
  BY <1>1, EmptyList DEF ToSet, Configuration

(* What is advertised comes from a place of the spec.                      *)
LEMMA DeviceFields ==
    ASSUME NEW n \in Networks, NEW spec \in NetworkSpecs, NEW d \in DevicesOf(n, spec)
    PROVE  \E k \in DOMAIN spec.deviceConfigurations : \E host \in Devices :
              LET c == Configuration(spec, k)
              IN  /\ d = ResourceDevice(n, c, host)
                  /\ c.name = d.deviceConfiguration
                  /\ GetDeviceType(c) = d.deviceType
                  /\ host.interfaceName = d.hostDeviceName
                  /\ <<n, k, d.hostDeviceName>> \in Places(spec, d.name)
<1>1. PICK c \in ToSet(spec.deviceConfigurations), host \in Devices : d = ResourceDevice(n, c, host)
  BY DEF DevicesOf
<1>2. PICK k \in DOMAIN spec.deviceConfigurations : c = Configuration(spec, k)
  BY SpecPlaces
<1>3. /\ d.name = DeviceName(n, c.name, host.interfaceName)
      /\ c.name = d.deviceConfiguration
      /\ GetDeviceType(c) = d.deviceType
      /\ host.interfaceName = d.hostDeviceName
  BY <1>1 DEF ResourceDevice
<1>4. <<n, k, d.hostDeviceName>> \in Places(spec, d.name)
  BY <1>2, <1>3 DEF Places, Interfaces, Configuration
<1> QED
  BY <1>1, <1>2, <1>3, <1>4

(* The type and what is exposed of an advertised device.                   *)
LEMMA DeviceTyped ==
    ASSUME NEW n \in Networks, NEW spec \in NetworkSpecs, NEW d \in DevicesOf(n, spec)
    PROVE  /\ d.podNetwork = n
           /\ d.deviceType \in DeviceType
           /\ d.hostDeviceName \in Interfaces
           /\ d.exposed.counterSet = d.hostDeviceName
           /\ d.deviceType = "HostDevice" => d.exposed.consumes = Capacity
           /\ d.deviceType = "Macvlan" => /\ d.exposed.consumes = 1 /\ d.exposed.multiple
                                          /\ d.exposed.maxVirtualInterfaces = MaxVirtualDevices
           /\ d \in AdvertisedDevices
<1>1. PICK c \in ToSet(spec.deviceConfigurations), host \in Devices :
         d = ResourceDevice(n, c, host) /\ GetDeviceType(c) \in DeviceType
  BY DEF DevicesOf
<1>2. d.podNetwork = n /\ d.hostDeviceName = host.interfaceName /\ d.deviceType = GetDeviceType(c)
      /\ d.exposed = ExposedDevice(GetDeviceType(c), host)
  BY <1>1 DEF ResourceDevice
<1> QED
  BY <1>1, <1>2 DEF Interfaces, AdvertisedDevices, ExposedDevice, HostDeviceExposed, MacvlanExposed, DeviceType

(* A name that is not ambiguous names one device of a spec.                *)
LEMMA NameTellsDevice ==
    ASSUME NEW n \in Networks, NEW s \in NetworkSpecs, NEW d \in DevicesOf(n, s),
           NEW m \in Networks, NEW t \in NetworkSpecs, NEW e \in DevicesOf(m, t),
           d.name = e.name, ~Ambiguous(d.name)
    PROVE  /\ n = m /\ d.hostDeviceName = e.hostDeviceName
           /\ d.deviceConfiguration = e.deviceConfiguration
           /\ s = t => d = e
<1>1. PICK k \in DOMAIN s.deviceConfigurations, host \in Devices :
         /\ d = ResourceDevice(n, Configuration(s, k), host)
         /\ Configuration(s, k).name = d.deviceConfiguration
         /\ host.interfaceName = d.hostDeviceName
         /\ <<n, k, d.hostDeviceName>> \in Places(s, d.name)
  BY DeviceFields
<1>2. PICK j \in DOMAIN t.deviceConfigurations, other \in Devices :
         /\ e = ResourceDevice(m, Configuration(t, j), other)
         /\ Configuration(t, j).name = e.deviceConfiguration
         /\ other.interfaceName = e.hostDeviceName
         /\ <<m, j, e.hostDeviceName>> \in Places(t, e.name)
  BY DeviceFields
<1>3. \A p \in Places(s, d.name), q \in Places(t, d.name) :
         /\ <<p[1], s.deviceConfigurations[p[2]].name, p[3]>>
               = <<q[1], t.deviceConfigurations[q[2]].name, q[3]>>
         /\ s = t => p = q
  BY DEF Ambiguous, AmbiguousNames, AdvertisedDevices
<1>4. /\ <<n, Configuration(s, k).name, d.hostDeviceName>>
            = <<m, Configuration(t, j).name, e.hostDeviceName>>
      /\ s = t => <<n, k, d.hostDeviceName>> = <<m, j, e.hostDeviceName>>
  BY <1>1, <1>2, <1>3 DEF Configuration
<1>5. n = m /\ d.hostDeviceName = e.hostDeviceName /\ d.deviceConfiguration = e.deviceConfiguration
  BY <1>1, <1>2, <1>4
<1>6. ASSUME s = t PROVE d = e
  <2>1. k = j /\ host.interfaceName = other.interfaceName
    BY <1>1, <1>2, <1>4, <1>6
  <2> QED
    BY <1>1, <1>2, <1>5, <1>6, <2>1
       DEF ResourceDevice, ExposedDevice, HostDeviceExposed, MacvlanExposed
<1> QED
  BY <1>5, <1>6

(* What a reconcile publishes of the networks it lists.                    *)
LEMMA PublishedFromSpecs ==
    ASSUME NEW specs, DOMAIN specs \subseteq Networks,
           \A n \in DOMAIN specs : specs[n] \in NetworkSpecs,
           NEW devices \in SUBSET Devices, NEW d \in GetResources(specs, devices)
    PROVE  /\ d.podNetwork \in DOMAIN specs
           /\ d \in DevicesOf(d.podNetwork, specs[d.podNetwork])
<1>0. PICK n \in DOMAIN specs : \E c \in ToSet(specs[n].deviceConfigurations) :
         d \in ResourceDevices(n, specs[n], c, devices)
  BY DEF GetResources
<1>1. PICK c \in ToSet(specs[n].deviceConfigurations) : d \in ResourceDevices(n, specs[n], c, devices)
  BY <1>0
<1>2. PICK host \in DeviceForDeviceConfiguration(specs[n], c, devices) :
         IsSupported(host, c) /\ d = ResourceDevice(n, c, host)
  BY <1>1 DEF ResourceDevices
<1>3. host \in Devices
  <2>1. PICK selector \in ToSet(c.deviceSelectors) :
           host \in DeviceForSelector(specs[n].deviceSelectors, selector, devices)
    BY <1>2 DEF DeviceForDeviceConfiguration
  <2>2. IsDeviceNetworkSpec(specs[n])
    BY AllocationAssumption
  <2> QED
    BY <2>1, <2>2, SelectedAreListed
<1>4. GetDeviceType(c) \in DeviceType
  BY <1>2 DEF IsSupported, HostDeviceIsSupported, MacvlanIsSupported, DeviceType
<1>5. d \in DevicesOf(n, specs[n]) /\ d.podNetwork = n
  BY <1>2, <1>3, <1>4 DEF DevicesOf, ResourceDevice
<1> QED
  BY <1>1, <1>5

-----------------------------------------------------------------------------
(* The published devices are of the specs the lister shows.                *)
LEMMA PublishFromLister ==
    ASSUME TypeOK, Publish, NEW d \in slices', slices' # slices \/ basis' # basis
    PROVE  LET n == d.podNetwork
           IN  /\ n \in Networks /\ lister[n].spec # Nil /\ lister[n].spec \in NetworkSpecs
               /\ d \in DevicesOf(n, lister[n].spec)
               /\ basis'[n] = lister[n].revision
               /\ d \in AdvertisedDevices
<1> DEFINE listed == {n \in Networks : lister[n].spec # Nil}
           specs == [n \in listed |-> lister[n].spec]
<1>1. slices' = GetResources(specs, hostDevices) /\ basis' = [n \in Networks |-> lister[n].revision]
  BY DEF Publish
<1>2. \A n \in listed : n \in Networks /\ specs[n] = lister[n].spec /\ specs[n] \in NetworkSpecs
  BY DEF TypeOK, Object
<1>3. DOMAIN specs = listed /\ hostDevices \in SUBSET Devices /\ listed \subseteq Networks
  BY DEF TypeOK
<1> HIDE DEF specs, listed
<1>4. d.podNetwork \in listed /\ d \in DevicesOf(d.podNetwork, specs[d.podNetwork])
  BY <1>1, <1>2, <1>3, PublishedFromSpecs
<1>5. d \in AdvertisedDevices
  BY <1>2, <1>4, DeviceTyped
<1> QED
  BY <1>1, <1>2, <1>4, <1>5 DEF listed

(* The type invariant holds at first.                                      *)
LEMMA TypeInit == Init => TypeOK
BY AllocationAssumption DEF Init, TypeOK, Object

(* Every step preserves it.                                                *)
LEMMA TypePreserved == TypeOK /\ [Next]_vars => TypeOK'
<1> SUFFICES ASSUME TypeOK, [Next]_vars
             PROVE  TypeOK'
  OBVIOUS
<1>1. ASSUME NEW n \in Networks, EditNetwork(n)
      PROVE  TypeOK'
  BY <1>1, AllocationAssumption DEF EditNetwork, TypeOK, Object
<1>2. ASSUME NEW n \in Networks, NetworkEvent(n)
      PROVE  TypeOK'
  BY <1>2, AllocationAssumption DEF NetworkEvent, TypeOK, Object
<1>3. ASSUME NEW i \in Interfaces, DeviceChanges(i)
      PROVE  TypeOK'
  BY <1>3, AllocationAssumption DEF DeviceChanges, TypeOK
<1>4. ASSUME Publish
      PROVE  TypeOK'
  <2>1. slices' \subseteq AdvertisedDevices
    BY <1>4, PublishFromLister DEF TypeOK
  <2>2. basis' \in [Networks -> 0..MaxRevision]
    BY <1>4 DEF Publish, TypeOK, Object
  <2>3. /\ allocated' \in [Claims -> Allocation \cup {Nil}]
        /\ \A c \in Claims : allocated[c] # Nil => allocated'[c] # Nil
    BY <1>4, AllocationAssumption DEF Publish, TypeOK, Allocation
  <2> QED
    BY <1>4, <2>1, <2>2, <2>3 DEF Publish, TypeOK
<1>5. ASSUME SliceEvent
      PROVE  TypeOK'
  BY <1>5 DEF SliceEvent, TypeOK
<1>6. ASSUME NEW c \in Claims, Allocate(c)
      PROVE  TypeOK'
  <2>1. PICK d \in slices : allocated' = [allocated EXCEPT ![c] =
            [device |-> d, revision |-> basis[d.podNetwork], counted |-> TRUE]]
    BY <1>6 DEF Allocate
  <2>2. d \in AdvertisedDevices /\ d.podNetwork \in Networks
    BY DeviceTyped DEF TypeOK, AdvertisedDevices
  <2>3. [device |-> d, revision |-> basis[d.podNetwork], counted |-> TRUE] \in Allocation
    BY <2>2 DEF Allocation, TypeOK
  <2>4. prepared[c] = Nil
    BY <1>6 DEF Allocate, TypeOK
  <2> QED
    BY <1>6, <2>1, <2>3, <2>4 DEF Allocate, TypeOK
<1>7. ASSUME NEW c \in Claims, Free(c)
      PROVE  TypeOK'
  BY <1>7 DEF Free, TypeOK
<1>8. ASSUME NEW c \in Claims, Prepare(c)
      PROVE  TypeOK'
  <2>1. PICK resolved \in GetDevice(allocated[c].device.name) :
           /\ resolved.deviceType \in DeviceType
           /\ prepared' = [prepared EXCEPT ![c] =
                [deviceType |-> resolved.deviceType,
                 hostDeviceName |-> resolved.hostDeviceName,
                 genuine |-> networks[allocated[c].device.podNetwork].revision
                                = allocated[c].revision]]
    BY <1>8 DEF Prepare
  <2>2. resolved.hostDeviceName \in Interfaces
    <3>1. PICK d \in sliceCache : resolved.hostDeviceName = d.hostDeviceName
      BY DEF GetDevice, Indexed
    <3> QED
      BY <3>1, DeviceTyped DEF TypeOK, AdvertisedDevices
  <2>3. prepared'[c] \in Preparation
    BY <2>1, <2>2 DEF Preparation, TypeOK
  <2> QED
    BY <1>8, <2>1, <2>3 DEF Prepare, TypeOK
<1>9. CASE UNCHANGED vars
  BY <1>9 DEF vars, TypeOK
<1> QED
  BY <1>1, <1>2, <1>3, <1>4, <1>5, <1>6, <1>7, <1>8, <1>9 DEF Next

(* Every variable keeps its type.                                          *)
THEOREM TypeCorrect == Spec => []TypeOK
BY TypeInit, TypePreserved, PTL DEF Spec

-----------------------------------------------------------------------------
(* Revisions                                                               *)

(* What a claim holds has its type.                                        *)
LEMMA HeldTyped ==
    ASSUME TypeOK, NEW c \in Held
    PROVE  /\ c \in Claims /\ allocated[c] \in Allocation
           /\ allocated[c].device \in AdvertisedDevices
           /\ allocated[c].revision \in 0..MaxRevision /\ allocated[c].counted \in BOOLEAN
           /\ allocated[c].device.podNetwork \in Networks
BY DeviceTyped DEF TypeOK, Held, Allocation, AdvertisedDevices

(* What is in the slices or their cache has its type.                      *)
LEMMA SliceTyped ==
    ASSUME TypeOK, NEW d \in slices \cup sliceCache
    PROVE  d \in AdvertisedDevices /\ d.podNetwork \in Networks
BY DeviceTyped DEF TypeOK, AdvertisedDevices

(* A revision shows one object.                                            *)
LEMMA FollowsPreserved ==
    ASSUME TypeOK, ListerFollows, [Next]_vars
    PROVE  ListerFollows'
<1>1. ASSUME NEW n \in Networks, EditNetwork(n)
      PROVE  ListerFollows'
  BY <1>1 DEF EditNetwork, TypeOK, Object, ListerFollows
<1>2. ASSUME NEW n \in Networks, NetworkEvent(n)
      PROVE  ListerFollows'
  BY <1>2 DEF NetworkEvent, TypeOK, ListerFollows
<1>3. CASE UNCHANGED <<networks, lister>>
  BY <1>3 DEF ListerFollows
<1> QED
  BY <1>1, <1>2, <1>3
     DEF Next, vars, DeviceChanges, Publish, SliceEvent, Allocate, Free, Prepare

(* The revisions a lister shows only grow, and its objects change with     *)
(* them.                                                                   *)
LEMMA ListerAdvances ==
    ASSUME TypeOK, ListerFollows, [Next]_vars, NEW n \in Networks
    PROVE  lister'[n] = lister[n] \/ lister[n].revision < lister'[n].revision
<1>1. ASSUME NEW m \in Networks, NetworkEvent(m)
      PROVE  lister'[n] = lister[n] \/ lister[n].revision < lister'[n].revision
  <2>1. CASE n = m
    <3>1. lister'[n] = networks[n] /\ lister[n] # networks[n]
      BY <1>1, <2>1 DEF NetworkEvent, TypeOK
    <3>2. lister[n].revision <= networks[n].revision /\ lister[n].revision # networks[n].revision
      BY <3>1 DEF TypeOK, ListerFollows
    <3>3. lister[n].revision \in Nat /\ networks[n].revision \in Nat
      BY AllocationAssumption DEF TypeOK, Object
    <3> QED
      BY <3>1, <3>2, <3>3
  <2>2. CASE n # m
    BY <1>1, <2>2 DEF NetworkEvent, TypeOK
  <2> QED
    BY <2>1, <2>2
<1>2. CASE UNCHANGED lister
  BY <1>2
<1> QED
  BY <1>1, <1>2
     DEF Next, vars, EditNetwork, DeviceChanges, Publish, SliceEvent, Allocate, Free, Prepare

(* What was published of a revision is still in a lister that shows it.    *)
LEMMA RevisionStays ==
    ASSUME TypeOK, TypeOK', ListerFollows, [Next]_vars,
           NEW d, d.podNetwork \in Networks, NEW r \in Nat,
           FromRevision(d, r, lister[d.podNetwork])
    PROVE  FromRevision(d, r, lister'[d.podNetwork])
<1> DEFINE n == d.podNetwork
<1>1. lister[n].revision \in Nat /\ lister'[n].revision \in Nat
  BY AllocationAssumption DEF TypeOK, Object
<1>2. lister'[n] = lister[n] \/ lister[n].revision < lister'[n].revision
  BY ListerAdvances
<1> QED
  BY <1>1, <1>2 DEF FromRevision

(* Publishing and allocating record the revision that the lister shows,    *)
(* or showed.                                                              *)
LEMMA RevisionsPreserved ==
    ASSUME TypeOK, TypeOK', ListerFollows, RevisionsRemembered, [Next]_vars
    PROVE  RevisionsRemembered'
<1>1. ASSUME NEW d \in slices'
      PROVE  FromRevision(d, basis'[d.podNetwork], lister'[d.podNetwork])
  <2>1. CASE Publish /\ (slices' # slices \/ basis' # basis)
    <3>1. lister' = lister
      BY <2>1 DEF Publish
    <3>2. LET n == d.podNetwork
          IN  /\ lister[n].spec # Nil /\ d \in DevicesOf(n, lister[n].spec)
              /\ basis'[n] = lister[n].revision /\ n \in Networks
      BY <2>1, PublishFromLister
    <3>3. lister[d.podNetwork].revision \in Nat
      BY <3>2, AllocationAssumption DEF TypeOK, Object
    <3> QED
      BY <3>1, <3>2, <3>3 DEF FromRevision
  <2>2. CASE slices' = slices /\ basis' = basis
    <3>1. d.podNetwork \in Networks
      BY <2>2, SliceTyped
    <3>2. basis[d.podNetwork] \in Nat
      BY <3>1, AllocationAssumption DEF TypeOK
    <3> QED
      BY <2>2, <3>1, <3>2, RevisionStays DEF RevisionsRemembered
  <2> QED
    BY <2>1, <2>2
       DEF Next, vars, EditNetwork, NetworkEvent, DeviceChanges, SliceEvent, Allocate, Free, Prepare
<1>2. ASSUME NEW c \in Held'
      PROVE  FromRevision(allocated'[c].device, allocated'[c].revision,
                          lister'[allocated'[c].device.podNetwork])
  <2>1. ASSUME c \in Held, allocated'[c].device = allocated[c].device,
               allocated'[c].revision = allocated[c].revision
        PROVE  FromRevision(allocated'[c].device, allocated'[c].revision,
                            lister'[allocated'[c].device.podNetwork])
    <3>1. /\ allocated[c].device.podNetwork \in Networks /\ allocated[c].revision \in Nat
      BY <2>1, HeldTyped, AllocationAssumption
    <3> QED
      BY <2>1, <3>1, RevisionStays DEF RevisionsRemembered
  <2>2. CASE Publish
    <3>1. c \in Held /\ allocated'[c] = [allocated[c] EXCEPT !.counted =
                                            @ /\ allocated[c].device \in slices']
      BY <2>2 DEF Publish, Held
    <3>2. allocated[c] \in Allocation
      BY <3>1, HeldTyped
    <3>3. allocated'[c].device = allocated[c].device /\ allocated'[c].revision = allocated[c].revision
      BY <3>1, <3>2 DEF Allocation
    <3> QED
      BY <2>1, <3>1, <3>3
  <2>3. ASSUME NEW o \in Claims, Allocate(o)
        PROVE  FromRevision(allocated'[c].device, allocated'[c].revision,
                            lister'[allocated'[c].device.podNetwork])
    <3>1. CASE c = o
      <4>1. PICK d \in slices : allocated'[c] =
               [device |-> d, revision |-> basis[d.podNetwork], counted |-> TRUE]
        BY <2>3, <3>1 DEF Allocate, TypeOK
      <4>2. lister' = lister
        BY <2>3 DEF Allocate
      <4> QED
        BY <4>1, <4>2 DEF RevisionsRemembered
    <3>2. CASE c # o
      <4>1. c \in Held /\ allocated'[c] = allocated[c]
        BY <2>3, <3>2 DEF Allocate, Held, TypeOK
      <4> QED
        BY <2>1, <4>1
    <3> QED
      BY <3>1, <3>2
  <2>4. ASSUME NEW o \in Claims, Free(o)
        PROVE  FromRevision(allocated'[c].device, allocated'[c].revision,
                            lister'[allocated'[c].device.podNetwork])
    <3>1. c \in Held /\ allocated'[c] = allocated[c]
      BY <2>4 DEF Free, Held, TypeOK
    <3> QED
      BY <2>1, <3>1
  <2>5. CASE allocated' = allocated
    <3>1. c \in Held
      BY <2>5 DEF Held
    <3> QED
      BY <2>1, <2>5, <3>1
  <2> QED
    BY <2>2, <2>3, <2>4, <2>5
       DEF Next, vars, EditNetwork, NetworkEvent, DeviceChanges, SliceEvent, Prepare
<1> QED
  BY <1>1, <1>2 DEF RevisionsRemembered

-----------------------------------------------------------------------------
(* Preparations                                                            *)

(* An unambiguous name of a configuration finds that configuration.        *)
LEMMA ConfigurationFound ==
    ASSUME NEW n \in Networks, NEW s \in NetworkSpecs, NEW d \in DevicesOf(n, s),
           ~Ambiguous(d.name)
    PROVE  GetDeviceType(ConfigurationOf(s, d.deviceConfiguration)) = d.deviceType
<1>1. PICK k \in DOMAIN s.deviceConfigurations :
         /\ Configuration(s, k).name = d.deviceConfiguration
         /\ GetDeviceType(Configuration(s, k)) = d.deviceType
         /\ <<n, k, d.hostDeviceName>> \in Places(s, d.name)
  BY DeviceFields
<1> DEFINE named == {i \in DOMAIN s.deviceConfigurations :
                       s.deviceConfigurations[i].name = d.deviceConfiguration}
<1>2. ASSUME NEW i \in named PROVE i = k
  <2>1. <<n, i, d.hostDeviceName>> \in Places(s, d.name)
    BY <1>1, <1>2 DEF Places, Configuration
  <2>2. <<n, i, d.hostDeviceName>> = <<n, k, d.hostDeviceName>>
    BY <1>1, <2>1 DEF Ambiguous, AmbiguousNames, AdvertisedDevices
  <2> QED
    BY <2>2
<1>3. named = {k}
  BY <1>1, <1>2 DEF Configuration
<1>4. Min({k}) = k
  <2>1. k \in Nat
    BY SpecPlaces
  <2> QED
    BY <2>1 DEF Min
<1> QED
  BY <1>1, <1>3, <1>4 DEF ConfigurationOf, Configuration

(* What a device whose revision the lister still shows is resolved to.     *)
LEMMA ResolvedFound ==
    ASSUME TypeOK, NEW d, d.podNetwork \in Networks, ~Ambiguous(d.name),
           lister[d.podNetwork].spec # Nil,
           d \in DevicesOf(d.podNetwork, lister[d.podNetwork].spec),
           NEW resolved \in GetDevice(d.name)
    PROVE  resolved.deviceType = d.deviceType /\ resolved.hostDeviceName = d.hostDeviceName
<1> DEFINE n == d.podNetwork
           s == lister[n].spec
<1>1. s \in NetworkSpecs
  BY DEF TypeOK, Object
<1>2. PICK e \in sliceCache :
         /\ e.name = d.name
         /\ resolved = [deviceType |-> GetDeviceType(ConfigurationOf(lister[e.podNetwork].spec,
                                                                    e.deviceConfiguration)),
                        hostDeviceName |-> e.hostDeviceName]
  BY DEF GetDevice, Indexed
<1>3. PICK m \in Networks, t \in NetworkSpecs : e \in DevicesOf(m, t)
  BY DEF TypeOK, AdvertisedDevices
<1>4. e.podNetwork = m
  BY <1>3, DeviceTyped
<1>5. /\ n = m /\ d.hostDeviceName = e.hostDeviceName
      /\ d.deviceConfiguration = e.deviceConfiguration
  BY <1>1, <1>2, <1>3, NameTellsDevice
<1> QED
  BY <1>1, <1>2, <1>4, <1>5, ConfigurationFound

(* A preparation that is genuine resolves the device it was allocated:     *)
(* the revision of the allocation is between the lister's and the          *)
(* network's, which are then the same.                                     *)
LEMMA ResolvedPreserved ==
    ASSUME TypeOK, ListerFollows, RevisionsRemembered, ResolvedAsAllocated, [Next]_vars
    PROVE  ResolvedAsAllocated'
<1> SUFFICES ASSUME NEW c \in Claims,
                    prepared'[c] # Nil, prepared'[c].genuine,
                    ~Ambiguous(allocated'[c].device.name)
             PROVE  /\ prepared'[c].deviceType = allocated'[c].device.deviceType
                    /\ prepared'[c].hostDeviceName = allocated'[c].device.hostDeviceName
  BY DEF ResolvedAsAllocated
<1>1. ASSUME prepared'[c] = prepared[c], allocated'[c].device = allocated[c].device
      PROVE  /\ prepared'[c].deviceType = allocated'[c].device.deviceType
             /\ prepared'[c].hostDeviceName = allocated'[c].device.hostDeviceName
  BY <1>1 DEF ResolvedAsAllocated
<1>2. CASE Publish
  <2>1. prepared'[c] = prepared[c]
    BY <1>2 DEF Publish
  <2>2. c \in Held
    BY <2>1 DEF TypeOK, Held
  <2>3. allocated[c] \in Allocation
    BY <2>2, HeldTyped
  <2>4. allocated'[c].device = allocated[c].device
    BY <1>2, <2>2, <2>3 DEF Publish, Held, Allocation
  <2> QED
    BY <1>1, <2>1, <2>4
<1>3. ASSUME NEW o \in Claims, Allocate(o)
      PROVE  prepared'[c] = prepared[c] /\ allocated'[c].device = allocated[c].device
  <2>1. prepared'[c] = prepared[c] /\ allocated[o] = Nil
    BY <1>3 DEF Allocate
  <2>2. o # c
    BY <2>1 DEF TypeOK
  <2> QED
    BY <1>3, <2>1, <2>2 DEF Allocate, TypeOK
<1>4. ASSUME NEW o \in Claims, Free(o)
      PROVE  prepared'[c] = prepared[c] /\ allocated'[c].device = allocated[c].device
  BY <1>4 DEF Free, TypeOK
<1>5. ASSUME NEW o \in Claims, Prepare(o)
      PROVE  /\ prepared'[c].deviceType = allocated'[c].device.deviceType
             /\ prepared'[c].hostDeviceName = allocated'[c].device.hostDeviceName
  <2>1. CASE c = o
    <3> DEFINE d == allocated[c].device
               n == d.podNetwork
    <3>1. c \in Held /\ allocated' = allocated
      BY <1>5, <2>1 DEF Prepare, Held
    <3>2. PICK resolved \in GetDevice(d.name) :
             prepared'[c] = [deviceType |-> resolved.deviceType,
                             hostDeviceName |-> resolved.hostDeviceName,
                             genuine |-> networks[n].revision = allocated[c].revision]
      BY <1>5, <2>1 DEF Prepare, TypeOK
    <3>3. networks[n].revision = allocated[c].revision
      <4>1. PICK same \in BOOLEAN : same <=> networks[n].revision = allocated[c].revision
        BY Zenon
      <4>2. (networks[n].revision = allocated[c].revision) = same
        BY <4>1, Zenon
      <4>3. prepared'[c] = [deviceType |-> resolved.deviceType,
                            hostDeviceName |-> resolved.hostDeviceName, genuine |-> same]
        BY <3>2, <4>2, Zenon
      <4>4. prepared'[c].genuine = same
        BY <4>3
      <4> QED
        BY <4>1, <4>4, Zenon
    <3>4. n \in Networks
      BY <3>1, HeldTyped
    <3>5. FromRevision(d, allocated[c].revision, lister[n])
      BY <3>1 DEF RevisionsRemembered
    <3>6. allocated[c].revision = lister[n].revision
      <4>1. lister[n].revision <= networks[n].revision
        BY <3>4 DEF TypeOK
      <4>2. allocated[c].revision <= lister[n].revision
        BY <3>5 DEF FromRevision
      <4>3. lister[n].revision \in Nat /\ networks[n].revision \in Nat
        BY <3>4, AllocationAssumption DEF TypeOK, Object
      <4> QED
        BY <3>3, <4>1, <4>2, <4>3
    <3>7. lister[n].spec # Nil /\ d \in DevicesOf(n, lister[n].spec)
      BY <3>5, <3>6 DEF FromRevision
    <3>8. resolved.deviceType = d.deviceType /\ resolved.hostDeviceName = d.hostDeviceName
      BY <3>1, <3>2, <3>4, <3>7, ResolvedFound
    <3> QED
      BY <3>1, <3>2, <3>8
  <2>2. CASE c # o
    BY <1>1, <1>5, <2>2 DEF Prepare, TypeOK
  <2> QED
    BY <2>1, <2>2
<1>6. CASE UNCHANGED <<allocated, prepared>>
  BY <1>1, <1>6
<1> QED
  BY <1>1, <1>2, <1>3, <1>4, <1>5, <1>6
     DEF Next, vars, EditNetwork, NetworkEvent, DeviceChanges, SliceEvent

-----------------------------------------------------------------------------
(* Shares                                                                  *)

(* What a step does to the claims that hold a device.                      *)
KeepsHolders ==
    /\ Held' \subseteq Held
    /\ \A c \in Held' : /\ allocated'[c].device = allocated[c].device
                        /\ allocated'[c].counted => allocated[c].counted

(* Only Allocate adds a holder.                                            *)
LEMMA HoldersKept ==
    ASSUME TypeOK, [Next]_vars
    PROVE  KeepsHolders \/ \E c \in Claims : Allocate(c)
<1>1. CASE Publish
  <2>1. Held' = Held
    <3>1. \A c \in Claims : allocated'[c] # Nil <=> allocated[c] # Nil
      <4>1. ASSUME NEW c \in Claims, allocated[c] # Nil
            PROVE  allocated'[c] # Nil
        <5>1. c \in Held /\ allocated[c] \in Allocation
          BY <4>1, HeldTyped DEF Held
        <5>2. allocated'[c] \in Allocation
          BY <1>1, <5>1 DEF Publish, Held, Allocation
        <5> QED
          BY <5>2, AllocationAssumption
      <4>2. ASSUME NEW c \in Claims, allocated[c] = Nil
            PROVE  allocated'[c] = Nil
        BY <1>1, <4>2 DEF Publish
      <4> QED
        BY <4>1, <4>2
    <3> QED
      BY <3>1 DEF Held
  <2>2. ASSUME NEW c \in Held
        PROVE  /\ allocated'[c].device = allocated[c].device
               /\ allocated'[c].counted => allocated[c].counted
    <3>1. allocated[c] \in Allocation
      BY HeldTyped
    <3> QED
      BY <1>1, <3>1 DEF Publish, Held, Allocation
  <2> QED
    BY <2>1, <2>2 DEF KeepsHolders
<1>2. ASSUME NEW o \in Claims, Free(o)
      PROVE  KeepsHolders
  BY <1>2 DEF Free, Held, KeepsHolders, TypeOK
<1>3. CASE allocated' = allocated
  BY <1>3 DEF Held, KeepsHolders
<1> QED
  BY <1>1, <1>2, <1>3
     DEF Next, vars, EditNetwork, NetworkEvent, DeviceChanges, SliceEvent, Prepare

(* Who counts stays in the slices, or counts no longer.                    *)
LEMMA CountedPreserved ==
    ASSUME TypeOK, CountedIsSeen, [Next]_vars
    PROVE  CountedIsSeen'
<1>1. CASE Publish
  <2>1. ASSUME NEW c \in Held', allocated'[c].counted
        PROVE  allocated'[c].device \in slices'
    <3>1. c \in Held /\ allocated[c] \in Allocation
      BY <1>1, HeldTyped DEF Publish, Held
    <3> QED
      BY <1>1, <2>1, <3>1 DEF Publish, Held, Allocation
  <2>2. ASSUME NEW d \in slices', NEW e \in slices', d.name = e.name, ~Ambiguous(d.name)
        PROVE  d = e
    <3>1. CASE slices' = slices
      BY <2>2, <3>1 DEF CountedIsSeen
    <3>2. CASE slices' # slices
      <4>1. /\ d.podNetwork \in Networks /\ lister[d.podNetwork].spec \in NetworkSpecs
            /\ d \in DevicesOf(d.podNetwork, lister[d.podNetwork].spec)
        BY <1>1, <3>2, PublishFromLister
      <4>2. /\ e.podNetwork \in Networks /\ lister[e.podNetwork].spec \in NetworkSpecs
            /\ e \in DevicesOf(e.podNetwork, lister[e.podNetwork].spec)
        BY <1>1, <3>2, PublishFromLister
      <4>3. d.podNetwork = e.podNetwork
        BY <2>2, <4>1, <4>2, NameTellsDevice
      <4> QED
        BY <2>2, <4>1, <4>2, <4>3, NameTellsDevice
    <3> QED
      BY <3>1, <3>2
  <2> QED
    BY <2>1, <2>2 DEF CountedIsSeen
<1>2. ASSUME NEW o \in Claims, Allocate(o)
      PROVE  CountedIsSeen'
  <2>1. slices' = slices
    BY <1>2 DEF Allocate
  <2>2. PICK d \in slices : allocated' = [allocated EXCEPT ![o] =
            [device |-> d, revision |-> basis[d.podNetwork], counted |-> TRUE]]
    BY <1>2 DEF Allocate
  <2>3. ASSUME NEW c \in Held', allocated'[c].counted
        PROVE  allocated'[c].device \in slices'
    BY <2>1, <2>2, <2>3 DEF CountedIsSeen, Held, TypeOK
  <2> QED
    BY <2>1, <2>3 DEF CountedIsSeen
<1>3. CASE KeepsHolders /\ slices' = slices
  BY <1>3 DEF KeepsHolders, CountedIsSeen
<1> QED
  BY <1>1, <1>2, <1>3, HoldersKept
     DEF Next, vars, EditNetwork, NetworkEvent, DeviceChanges, SliceEvent, Free, Prepare

(* The claims that hold a device.                                          *)
SameDevice(d) == {o \in Held : allocated[o].device = d}

(* Holders are finitely many, like the claims.                             *)
LEMMA HeldFinite ==
    ASSUME NEW S \in SUBSET Held
    PROVE  IsFiniteSet(S) /\ Cardinality(S) \in Nat
BY AllocationAssumption, FS_Subset, FS_CardinalityType DEF Held

(* A smaller set does not exceed the bound,                                *)
LEMMA FewerHolders ==
    ASSUME NEW S, NEW T, IsFiniteSet(T), S \subseteq T, NEW k \in Nat, Cardinality(T) <= k
    PROVE  Cardinality(S) <= k
<1>1. Cardinality(S) <= Cardinality(T) /\ Cardinality(S) \in Nat /\ Cardinality(T) \in Nat
  BY FS_Subset, FS_CardinalityType
<1> QED
  BY <1>1

(* nor does one more than a set below it.                                  *)
LEMMA OneMoreHolder ==
    ASSUME NEW S, NEW T, IsFiniteSet(T), NEW x, S \subseteq T \cup {x},
           NEW k \in Nat, Cardinality(T) < k
    PROVE  Cardinality(S) <= k
<1>1. Cardinality(T) \in Nat /\ IsFiniteSet(T \cup {x}) /\ Cardinality(T \cup {x}) \in Nat
  BY FS_AddElement, FS_CardinalityType
<1>2. Cardinality(T \cup {x}) <= Cardinality(T) + 1
  BY <1>1, FS_AddElement
<1>3. Cardinality(T \cup {x}) <= k
  BY <1>1, <1>2
<1> QED
  BY <1>1, <1>3, FewerHolders

(* A share of an interface that the scheduler sees is taken from the       *)
(* interface's counter, and the shares are no more than what is taken.     *)
LEMMA SharesAreConsumed ==
    ASSUME TypeOK, CountedIsSeen, NEW i \in Interfaces
    PROVE  /\ Consumed(i) \in Nat
           /\ Cardinality(Sharing(i)) <= Consumed(i)
           /\ \A o \in Sharing(i) : /\ allocated[o].device.deviceType \in DeviceType
                                    /\ allocated[o].device.deviceType = "HostDevice" =>
                                          Capacity <= Consumed(i)
<1> DEFINE now(c) == {d \in slices : d.name = allocated[c].device.name /\ d.exposed.counterSet = i}
           takes(c) == IF now(c) = {} THEN 0 ELSE (CHOOSE d \in now(c) : TRUE).exposed.consumes
           f == [c \in Held |-> takes(c)]
<1>1. Consumed(i) = SumFunction(f)
  BY DEF Consumed
<1>2. ASSUME NEW d \in slices
      PROVE  /\ d.exposed.counterSet = d.hostDeviceName
             /\ d.deviceType \in DeviceType
             /\ d.exposed.consumes \in Nat \ {0}
             /\ d.deviceType = "HostDevice" => d.exposed.consumes = Capacity
  BY DeviceTyped, AllocationAssumption DEF TypeOK, AdvertisedDevices, DeviceType
<1>3. \A c \in Held : takes(c) \in Nat
  BY <1>2
<1>4. ASSUME NEW o \in Sharing(i)
      PROVE  /\ o \in Held
             /\ takes(o) = allocated[o].device.exposed.consumes
             /\ allocated[o].device \in slices
  <2>1. /\ o \in Held /\ allocated[o].device \in slices /\ ~Ambiguous(allocated[o].device.name)
        /\ allocated[o].device.hostDeviceName = i
    BY DEF Sharing, CountedIsSeen
  <2>2. now(o) = {allocated[o].device}
    BY <1>2, <2>1 DEF CountedIsSeen
  <2> QED
    BY <2>1, <2>2
<1>5. IsFiniteSet(Held) /\ f \in [Held -> Nat] /\ \A c \in Held : f[c] = takes(c)
  BY <1>3, HeldFinite
<1> HIDE DEF f, takes
<1>6. /\ Consumed(i) \in Nat
      /\ \A c \in Held : f[c] <= Consumed(i)
      /\ \A T \in SUBSET Held : (\A c \in T : f[c] >= 1) => Cardinality(T) <= Consumed(i)
  BY <1>1, <1>5, SumAtLeast
<1>7. Sharing(i) \in SUBSET Held
  BY DEF Sharing
<1>8. \A o \in Sharing(i) : f[o] >= 1
  BY <1>2, <1>4, <1>5
<1>9. \A o \in Sharing(i) : allocated[o].device.deviceType = "HostDevice" => f[o] = Capacity
  BY <1>2, <1>4, <1>5
<1> QED
  BY <1>2, <1>4, <1>6, <1>7, <1>8, <1>9

(* The scheduler's checks of the counter and of the number of devices      *)
(* keep the shares of an interface within their bounds.                    *)
LEMMA SharesPreserved ==
    ASSUME TypeOK, CountedIsSeen, SharesFit, [Next]_vars
    PROVE  SharesFit'
<1> USE AllocationAssumption DEF MaxVirtualDevices
<1>1. CASE KeepsHolders
  <2>1. ASSUME NEW i \in Interfaces
        PROVE  Sharing(i)' \subseteq Sharing(i)
    BY <1>1 DEF KeepsHolders, Sharing
  <2>2. ASSUME NEW i \in Interfaces
        PROVE  Cardinality(Sharing(i)') <= Capacity
    <3>1. IsFiniteSet(Sharing(i)) /\ Cardinality(Sharing(i)) <= Capacity
      BY HeldFinite DEF Sharing, SharesFit
    <3> QED
      BY <2>1, <3>1, FewerHolders
  <2>3. ASSUME NEW i \in Interfaces, NEW c1 \in Sharing(i)', NEW c2 \in Sharing(i)', c1 # c2
        PROVE  allocated'[c1].device.deviceType = "Macvlan"
    <3>1. c1 \in Sharing(i) /\ c2 \in Sharing(i) /\ c1 \in Held'
      BY <2>1 DEF Sharing
    <3> QED
      BY <1>1, <2>3, <3>1 DEF KeepsHolders, SharesFit
  <2>4. ASSUME NEW c \in Held', allocated'[c].device.deviceType = "Macvlan"
        PROVE  Cardinality({o \in Held' : allocated'[o].device = allocated'[c].device})
                  <= MaxVirtualDevices
    <3> DEFINE d == allocated[c].device
    <3>1. c \in Held /\ allocated'[c].device = d /\ d.deviceType = "Macvlan"
      BY <1>1, <2>4 DEF KeepsHolders
    <3>2. {o \in Held' : allocated'[o].device = d} \subseteq SameDevice(d)
      BY <1>1 DEF KeepsHolders, SameDevice
    <3>3. IsFiniteSet(SameDevice(d)) /\ Cardinality(SameDevice(d)) <= MaxVirtualDevices
      BY <3>1, HeldFinite DEF SameDevice, SharesFit
    <3>4. MaxVirtualDevices \in Nat
      OBVIOUS
    <3> QED
      BY <3>1, <3>2, <3>3, <3>4, FewerHolders
  <2> QED
    BY <2>2, <2>3, <2>4 DEF SharesFit, Sharing
<1>2. ASSUME NEW x \in Claims, Allocate(x)
      PROVE  SharesFit'
  <2>1. PICK e \in slices : Fits(e) /\ allocated' = [allocated EXCEPT ![x] =
            [device |-> e, revision |-> basis[e.podNetwork], counted |-> TRUE]]
    BY <1>2 DEF Allocate
  <2>2. /\ Held' \subseteq Held \cup {x}
        /\ \A o \in Held' : o # x => allocated'[o] = allocated[o]
        /\ allocated'[x].device = e
    BY <1>2, <2>1 DEF Held, TypeOK
  <2>3. /\ e.hostDeviceName \in Interfaces /\ e.exposed.counterSet = e.hostDeviceName
        /\ e.deviceType \in DeviceType
        /\ e.deviceType = "HostDevice" => e.exposed.consumes = Capacity
        /\ e.deviceType = "Macvlan" => /\ e.exposed.consumes = 1 /\ e.exposed.multiple
                                       /\ e.exposed.maxVirtualInterfaces = MaxVirtualDevices
    BY DeviceTyped DEF TypeOK, AdvertisedDevices
  <2> DEFINE i == e.hostDeviceName
  <2>4. /\ Consumed(i) + e.exposed.consumes <= Capacity
        /\ Consumed(i) \in Nat
        /\ IsFiniteSet(Sharing(i)) /\ Cardinality(Sharing(i)) \in Nat
        /\ Cardinality(Sharing(i)) <= Consumed(i)
    BY <2>1, <2>3, SharesAreConsumed, HeldFinite DEF Fits, Sharing
  <2>5. e.exposed.consumes \in Nat \ {0}
    BY <2>3 DEF DeviceType
  <2>6. ASSUME NEW j \in Interfaces
        PROVE  /\ Sharing(j)' \subseteq Sharing(j) \cup {x}
               /\ x \in Sharing(j)' => j = i
    BY <2>2 DEF Sharing
  <2>7. ASSUME NEW j \in Interfaces
        PROVE  Cardinality(Sharing(j)') <= Capacity
    <3>1. CASE j = i
      <4>1. Cardinality(Sharing(i)) < Capacity
        BY <2>4, <2>5
      <4>2. Sharing(i)' \subseteq Sharing(i) \cup {x}
        BY <2>3, <2>6
      <4> QED
        BY <2>4, <3>1, <4>1, <4>2, OneMoreHolder
    <3>2. CASE j # i
      <4>1. Sharing(j)' \subseteq Sharing(j)
        BY <2>6, <3>2
      <4>2. IsFiniteSet(Sharing(j)) /\ Cardinality(Sharing(j)) <= Capacity
        BY HeldFinite DEF Sharing, SharesFit
      <4> QED
        BY <4>1, <4>2, FewerHolders
    <3> QED
      BY <3>1, <3>2
  <2>8. ASSUME NEW j \in Interfaces, NEW c1 \in Sharing(j)', NEW c2 \in Sharing(j)', c1 # c2
        PROVE  allocated'[c1].device.deviceType = "Macvlan"
    <3>1. CASE c1 # x /\ c2 # x
      <4>1. c1 \in Sharing(j) /\ c2 \in Sharing(j) /\ c1 \in Held'
        BY <2>6, <3>1 DEF Sharing
      <4> QED
        BY <2>2, <2>8, <3>1, <4>1 DEF SharesFit
    <3>2. CASE c1 = x /\ c2 # x
      <4>1. j = i /\ c2 \in Sharing(i)
        BY <2>6, <3>2
      <4>2. Cardinality(Sharing(i)) # 0
        BY <2>4, <4>1, FS_EmptySet
      <4>3. e.deviceType # "HostDevice"
        BY <2>3, <2>4, <4>2
      <4> QED
        BY <2>2, <2>3, <3>2, <4>3 DEF DeviceType
    <3>3. CASE c1 # x /\ c2 = x
      <4>1. j = i /\ c1 \in Sharing(i) /\ c1 \in Held'
        BY <2>6, <3>3 DEF Sharing
      <4>2. allocated[c1].device.deviceType \in DeviceType
        BY <2>3, <4>1, SharesAreConsumed
      <4>3. allocated[c1].device.deviceType # "HostDevice"
        <5>1. ~ (Capacity <= Consumed(i))
          BY <2>4, <2>5
        <5> QED
          BY <2>3, <4>1, <5>1, SharesAreConsumed
      <4> QED
        BY <2>2, <3>3, <4>1, <4>2, <4>3 DEF DeviceType
    <3> QED
      BY <2>8, <3>1, <3>2, <3>3
  <2>9. ASSUME NEW c \in Held', allocated'[c].device.deviceType = "Macvlan"
        PROVE  Cardinality({o \in Held' : allocated'[o].device = allocated'[c].device})
                  <= MaxVirtualDevices
    <3> DEFINE d == allocated'[c].device
               after == {o \in Held' : allocated'[o].device = d}
    <3>0. MaxVirtualDevices \in Nat
      OBVIOUS
    <3>1. CASE d = e
      <4>1. Cardinality(HoldersOf(e.name)) < MaxVirtualDevices
        BY <2>1, <2>3, <2>9, <3>1 DEF Fits
      <4>2. IsFiniteSet(HoldersOf(e.name))
        BY HeldFinite DEF HoldersOf
      <4>3. after \subseteq HoldersOf(e.name) \cup {x}
        BY <2>2, <3>1 DEF HoldersOf
      <4> QED
        BY <3>0, <4>1, <4>2, <4>3, OneMoreHolder
    <3>2. CASE d # e
      <4>1. c # x /\ c \in Held /\ allocated[c].device = d
        BY <2>2, <3>2
      <4>2. after \subseteq SameDevice(d)
        BY <2>2, <3>2 DEF SameDevice
      <4>3. IsFiniteSet(SameDevice(d)) /\ Cardinality(SameDevice(d)) <= MaxVirtualDevices
        BY <2>9, <4>1, HeldFinite DEF SameDevice, SharesFit
      <4> QED
        BY <3>0, <4>2, <4>3, FewerHolders
    <3> QED
      BY <3>1, <3>2
  <2> QED
    BY <2>7, <2>8, <2>9 DEF SharesFit, Sharing
<1> QED
  BY <1>1, <1>2, HoldersKept

-----------------------------------------------------------------------------
(* The properties                                                          *)

(* The invariant holds at first.                                           *)
LEMMA InvariantInit == Init => IInv
<1> SUFFICES ASSUME Init PROVE IInv
  OBVIOUS
<1>1. TypeOK
  BY TypeInit
<1>2. Held = {} /\ slices = {} /\ lister = networks /\ \A c \in Claims : prepared[c] = Nil
  BY DEF Init, Held
<1>3. ListerFollows /\ RevisionsRemembered /\ ResolvedAsAllocated /\ CountedIsSeen
  BY <1>2 DEF ListerFollows, RevisionsRemembered, ResolvedAsAllocated, CountedIsSeen
<1>4. SharesFit
  <2>1. \A i \in Interfaces : Sharing(i) = {}
    BY <1>2 DEF Sharing
  <2>2. Cardinality({}) = 0
    BY FS_EmptySet
  <2> QED
    BY <1>2, <2>1, <2>2, AllocationAssumption DEF SharesFit
<1> QED
  BY <1>1, <1>3, <1>4 DEF IInv

(* Every step preserves it.                                                *)
LEMMA InvariantPreserved == IInv /\ [Next]_vars => IInv'
<1> SUFFICES ASSUME IInv, [Next]_vars PROVE IInv'
  OBVIOUS
<1>1. TypeOK'
  BY TypePreserved DEF IInv
<1>2. ListerFollows' /\ RevisionsRemembered'
  BY <1>1, FollowsPreserved, RevisionsPreserved DEF IInv
<1>3. ResolvedAsAllocated'
  BY ResolvedPreserved DEF IInv
<1>4. CountedIsSeen' /\ SharesFit'
  BY CountedPreserved, SharesPreserved DEF IInv
<1> QED
  BY <1>1, <1>2, <1>3, <1>4 DEF IInv

(* The invariant that the properties of the module follow from: what the   *)
(* caches and the scheduler know fits together, whatever is edited,        *)
(* published, allocated and freed.                                         *)
THEOREM Inductive == Spec => []IInv
BY InvariantInit, InvariantPreserved, PTL DEF Spec

(* As long as its network is not edited, a claim is prepared as the device *)
(* that was advertised and allocated (resolver.go:132-198), for all        *)
(* networks, interfaces, claims and edits.                                 *)
THEOREM PreparedAsAllocated == Spec => []ResolvedAsAllocated
<1>1. IInv => ResolvedAsAllocated
  BY DEF IInv
<1> QED
  BY <1>1, Inductive, PTL

(* An undisturbed claim holds a share of the interface it is prepared on.  *)
LEMMA UndisturbedShares ==
    ASSUME IInv, NEW c \in Claims, Undisturbed(c)
    PROVE  /\ c \in Held
           /\ prepared[c].deviceType = allocated[c].device.deviceType
           /\ prepared[c].hostDeviceName \in Interfaces
           /\ c \in Sharing(prepared[c].hostDeviceName)
<1>1. c \in Held
  BY DEF Undisturbed, IInv, TypeOK, Held
<1>2. /\ prepared[c].deviceType = allocated[c].device.deviceType
      /\ prepared[c].hostDeviceName = allocated[c].device.hostDeviceName
  BY DEF Undisturbed, IInv, ResolvedAsAllocated
<1>3. allocated[c].device.hostDeviceName \in Interfaces
  <2>1. allocated[c].device \in AdvertisedDevices
    BY <1>1, HeldTyped DEF IInv
  <2> QED
    BY <2>1, DeviceTyped DEF AdvertisedDevices
<1> QED
  BY <1>1, <1>2, <1>3 DEF Undisturbed, Sharing

(* A host device is prepared for one claim only, and for none while a      *)
(* macvlan is on it (docs/proposal.md:438), for all networks, interfaces   *)
(* and claims.                                                             *)
THEOREM HostDevicesExclusive == Spec => []Exclusive
<1>1. ASSUME IInv PROVE Exclusive
  <2> SUFFICES ASSUME NEW c1 \in Claims, NEW c2 \in Claims, Undisturbed(c1), Undisturbed(c2),
                      c1 # c2, prepared[c1].hostDeviceName = prepared[c2].hostDeviceName
               PROVE  prepared[c1].deviceType = "Macvlan" /\ prepared[c2].deviceType = "Macvlan"
    BY DEF Exclusive
  <2> DEFINE i == prepared[c1].hostDeviceName
  <2>1. i \in Interfaces /\ c1 \in Sharing(i) /\ c2 \in Sharing(i)
    BY <1>1, UndisturbedShares
  <2>2. allocated[c1].device.deviceType = "Macvlan" /\ allocated[c2].device.deviceType = "Macvlan"
    BY <1>1, <2>1 DEF IInv, SharesFit
  <2> QED
    BY <1>1, <2>2, UndisturbedShares
<1> QED
  BY <1>1, Inductive, PTL

(* Of one device there are no more macvlans than MaxVirtualDevices, and so *)
(* on an interface that one device exposes (attributes.go:69-72); on an    *)
(* interface that several expose there is room for one more than that      *)
(* comment and docs/demo.md:72-75 promise, and no more.  For every         *)
(* capacity and any number of claims.                                      *)
THEOREM MacvlansBounded == Spec => []VirtualInterfacesBounded
<1>1. ASSUME IInv PROVE VirtualInterfacesBounded
  <2> DEFINE macvlans == {c \in Claims : Undisturbed(c) /\ prepared[c].deviceType = "Macvlan"}
             Siblings(c) == {o \in macvlans : allocated[o].device = allocated[c].device}
             Neighbours(c) == {o \in macvlans :
                                 prepared[o].hostDeviceName = prepared[c].hostDeviceName}
  <2>1. SUFFICES ASSUME NEW c \in macvlans
                 PROVE  /\ Cardinality(Siblings(c)) <= MaxVirtualDevices
                        /\ Cardinality(Neighbours(c)) <=
                              IF Neighbours(c) \subseteq Siblings(c)
                              THEN MaxVirtualDevices ELSE MaxVirtualDevices + 1
    BY DEF VirtualInterfacesBounded
  <2> DEFINE i == prepared[c].hostDeviceName
             d == allocated[c].device
             siblings == Siblings(c)
             neighbours == Neighbours(c)
  <2>2. c \in Held /\ i \in Interfaces /\ d.deviceType = "Macvlan"
    BY <1>1, UndisturbedShares
  <2>3. neighbours \subseteq Sharing(i)
    BY <1>1, UndisturbedShares
  <2>4. siblings \subseteq SameDevice(d)
    BY <1>1, UndisturbedShares DEF SameDevice
  <2>5. /\ IsFiniteSet(Sharing(i)) /\ Cardinality(Sharing(i)) <= Capacity
        /\ IsFiniteSet(SameDevice(d)) /\ Cardinality(SameDevice(d)) <= MaxVirtualDevices
    BY <1>1, <2>2, HeldFinite DEF IInv, SharesFit, Sharing, SameDevice
  <2>6. Capacity \in Nat /\ MaxVirtualDevices \in Nat /\ MaxVirtualDevices + 1 = Capacity
    BY AllocationAssumption DEF MaxVirtualDevices
  <2> HIDE DEF macvlans, i, d, siblings, neighbours, MaxVirtualDevices
  <2>7. Cardinality(neighbours) <= Capacity
    BY <2>3, <2>5, <2>6, FewerHolders
  <2>8. IsFiniteSet(siblings) /\ Cardinality(siblings) <= MaxVirtualDevices
    BY <2>4, <2>5, <2>6, FewerHolders, FS_Subset
  <2>9. ASSUME neighbours \subseteq siblings
        PROVE  Cardinality(neighbours) <= MaxVirtualDevices
    BY <2>6, <2>8, <2>9, FewerHolders
  <2> QED
    BY <2>6, <2>7, <2>8, <2>9 DEF siblings, neighbours
<1> QED
  BY <1>1, Inductive, PTL

(* Validation accepts what is documented and otherwise only objects that   *)
(* break a rule without a check, of any size (validation.go:26-170).       *)
THEOREM WrittenAreValidated == Spec => []WritesValidUpToUncheckedRules
<1>1. WritesValidUpToUncheckedRules
  BY SamplesValidUpToUncheckedRules DEF WritesValidUpToUncheckedRules
<1> QED
  BY <1>1, PTL

(* What is advertised is what the configurations select, for objects and   *)
(* hosts of any size (reconciler.go:104-199).                              *)
THEOREM WrittenExposeSelected == Spec => []WritesExposeSelected
<1>1. WritesExposeSelected
  BY SamplesExposeSelected DEF WritesExposeSelected
<1> QED
  BY <1>1, PTL
=============================================================================
