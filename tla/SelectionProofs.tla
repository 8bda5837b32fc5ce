--------------------------- MODULE SelectionProofs ---------------------------
(***************************************************************************)
(* Theorems about the modules without state: which devices a node          *)
(* advertises for a DeviceNetwork (Advertising.tla) and how the objects    *)
(* that validation accepts (DeviceNetworkValidation.tla) differ from those *)
(* types.go documents (DocumentedNetworks.tla), for objects of any size.   *)
(***************************************************************************)
EXTENDS DocumentedNetworks, FoldLemmas

-----------------------------------------------------------------------------
(* Advertised devices                                                      *)

(* The devices that the selectors at some positions leave of a list.       *)
NarrowsTo(g, devices, selectors) ==
    /\ g \in [SUBSET DOMAIN selectors -> SUBSET devices]
    /\ List(devices, selectors) = g[DOMAIN selectors]
    /\ \A s \in SUBSET DOMAIN selectors :
          g[s] = IF s = {} THEN devices ELSE Narrow(g[s \ {Max(s)}], selectors[Max(s)])

(* The fold of List takes the selectors one by one from the last           *)
(* (cache.go:209-241).                                                     *)
LEMMA ListUnfolds ==
    ASSUME NEW devices, NEW selectors, IsList(selectors)
    PROVE  \E g : NarrowsTo(g, devices, selectors)
<1> DEFINE S == DOMAIN selectors
           V == SUBSET devices
           chosen == [s \in SUBSET S |-> Max(s)]
           step == [p \in S \X V |-> Narrow(p[2], selectors[p[1]])]
           Unfolds(g) == g = [s \in SUBSET S |->
                                 IF s = {} THEN devices
                                 ELSE Narrow(g[s \ {Max(s)}], selectors[Max(s)])]
<1>1. IsFiniteSet(S) /\ S = 1..Len(selectors) /\ Len(selectors) \in Nat
  BY FS_Interval DEF IsList
<1>2. \A s \in SUBSET S : s # {} => chosen[s] \in s
  BY <1>1, GreatestPosition
<1>3. \A x \in S, v \in V : step[<<x, v>>] \in V
  BY DEF Narrow, EvalDevices
<1>4. PICK g : Solves(g, S, chosen, V, devices, step)
  <2>1. devices \in V
    OBVIOUS
  <2> HIDE DEF S, V, chosen, step
  <2>2. IsRecursion(S, chosen, V, devices, step)
    BY <1>1, <1>2, <1>3, <2>1 DEF IsRecursion
  <2> QED
    BY <2>2, RecursionExists
<1> USE DEF Solves
<1>5. Unfolds(g)
  <2>1. ASSUME NEW s \in SUBSET S, s # {}
        PROVE  step[<<chosen[s], g[s \ {chosen[s]}]>>]
                  = Narrow(g[s \ {Max(s)}], selectors[Max(s)])
    <3>1. Max(s) \in S /\ g[s \ {Max(s)}] \in V /\ chosen[s] = Max(s)
      BY <1>2, <1>4, <2>1
    <3> HIDE DEF chosen, S, V
    <3> QED
      BY <3>1
  <2> HIDE DEF step, chosen, S, V
  <2>2. g = [s \in SUBSET S |-> g[s]]
    BY <1>4
  <2> QED
    BY <1>4, <2>1, <2>2
<1> DEFINE h == CHOOSE f : Unfolds(f)
<1>6. List(devices, selectors) = h[S]
  BY Zenon DEF List, FoldLeft, MapThenFoldSet
<1>7. Unfolds(h)
  <2> HIDE DEF Unfolds
  <2> QED
    BY <1>5
<1> HIDE DEF h
<1>8. \A s \in SUBSET S : h[s] \in V
  <2> DEFINE Bad == {s \in SUBSET S : h[s] \notin V}
  <2>1. SUFFICES ASSUME Bad # {} PROVE FALSE
    OBVIOUS
  <2>2. PICK s \in Bad : \A w \in Bad : w \subseteq s => w = s
    <3>1. Bad \subseteq SUBSET S
      OBVIOUS
    <3> HIDE DEF Bad
    <3> QED
      BY <1>1, <2>1, <3>1, SmallestSubset
  <2>3. s # {} => h[s \ {Max(s)}] \in V
    <3>1. s # {} => Max(s) \in s
      BY <1>2
    <3>2. s # {} => s \ {Max(s)} \in SUBSET S /\ s \ {Max(s)} \notin Bad
      <4>1. s \in SUBSET S
        OBVIOUS
      <4> HIDE DEF Bad
      <4> QED
        BY <2>2, <3>1, <4>1
    <3> QED
      BY <3>2
  <2>4. h[s] = IF s = {} THEN devices ELSE Narrow(h[s \ {Max(s)}], selectors[Max(s)])
    BY <1>7
  <2> QED
    BY <2>2, <2>3, <2>4 DEF Narrow, EvalDevices
<1>9. h \in [SUBSET S -> V]
  BY <1>7, <1>8
<1>10. NarrowsTo(h, devices, selectors)
  BY <1>6, <1>7, <1>9 DEF NarrowsTo
<1> QED
  BY <1>10

(* Listing yields host devices.                                            *)
LEMMA ListInDevices ==
    ASSUME NEW devices, NEW selectors, IsList(selectors)
    PROVE  List(devices, selectors) \subseteq devices
<1>1. PICK g : NarrowsTo(g, devices, selectors)
  BY ListUnfolds
<1> QED
  BY <1>1 DEF NarrowsTo

(* So does looking a selector up by its name.                              *)
LEMMA SelectedAreListed ==
    ASSUME NEW spec, IsDeviceNetworkSpec(spec), NEW name, NEW devices
    PROVE  DeviceForSelector(spec.deviceSelectors, name, devices) \subseteq devices
<1> DEFINE list == spec.deviceSelectors
           named == {i \in DOMAIN list : list[i].name = name /\ AppliesToNode(list[i])}
<1>1. DeviceForSelector(list, name, devices) =
         IF named = {} THEN {} ELSE List(devices, list[Max(named)].selectors)
  BY DEF DeviceForSelector
<1>2. ASSUME named # {} PROVE List(devices, list[Max(named)].selectors) \subseteq devices
  <2>1. DOMAIN list = 1..Len(list) /\ Len(list) \in Nat
    BY DEF IsDeviceNetworkSpec, IsList
  <2>2. Max(named) \in named
    BY <1>2, <2>1, GreatestPosition
  <2>3. list[Max(named)] \in ToSet(list)
    BY <2>2 DEF ToSet
  <2>4. IsList(list[Max(named)].selectors)
    BY <2>3 DEF IsDeviceNetworkSpec
  <2> QED
    BY <2>4, ListInDevices
<1> QED
  BY <1>1, <1>2

(* If no expression fails, narrowing one by one leaves the devices that    *)
(* satisfy all expressions.                                                *)
LEMMA ListSelects ==
    ASSUME NEW devices, NEW selectors, IsList(selectors),
           \A x \in ToSet(selectors) : x.cel = Nil \/ ~Fails(x.cel, devices)
    PROVE  List(devices, selectors) =
              {d \in devices : \A x \in ToSet(selectors) : x.cel = Nil \/ Eval(x.cel, d) = "true"}
<1> DEFINE S == DOMAIN selectors
           Selected(d, i) == selectors[i].cel = Nil \/ Eval(selectors[i].cel, d) = "true"
<1>1. S = 1..Len(selectors) /\ Len(selectors) \in Nat /\ IsFiniteSet(S)
  BY FS_Interval DEF IsList
<1>2. PICK g : NarrowsTo(g, devices, selectors)
  BY ListUnfolds
<1> USE DEF NarrowsTo
<1> DEFINE Bad == {s \in SUBSET S : g[s] # {d \in devices : \A i \in s : Selected(d, i)}}
<1>3. Bad = {}
  <2>1. SUFFICES ASSUME Bad # {} PROVE FALSE
    OBVIOUS
  <2>2. PICK s \in Bad : \A w \in Bad : w \subseteq s => w = s
    <3>1. Bad \subseteq SUBSET S
      OBVIOUS
    <3> HIDE DEF Bad
    <3> QED
      BY <1>1, <2>1, <3>1, SmallestSubset
  <2>3. s \in SUBSET S /\ g[s] # {d \in devices : \A i \in s : Selected(d, i)}
    OBVIOUS
  <2>4. s # {}
    BY <1>2, <2>3
  <2> DEFINE m == Max(s)
             rest == s \ {m}
  <2>5. m \in s
    BY <1>1, <2>3, <2>4, GreatestPosition
  <2>6. rest \in SUBSET S /\ rest \notin Bad
    <3> HIDE DEF Bad, S, m
    <3> QED
      BY <2>2, <2>3, <2>5
  <2>7. g[rest] = {d \in devices : \A i \in rest : Selected(d, i)}
    BY <2>6
  <2>8. g[s] = Narrow(g[rest], selectors[m])
    BY <1>2, <2>3, <2>4
  <2>9. selectors[m] \in ToSet(selectors)
    BY <2>3, <2>5 DEF ToSet
  <2>10. Narrow(g[rest], selectors[m]) = {d \in g[rest] : Selected(d, m)}
    <3>1. g[rest] \subseteq devices
      BY <2>7
    <3>2. selectors[m].cel = Nil \/ ~Fails(selectors[m].cel, g[rest])
      BY <2>9, <3>1 DEF Fails
    <3> QED
      BY <3>2 DEF Narrow, EvalDevices
  <2> HIDE DEF Bad, S, m, Selected
  <2>11. g[s] = {d \in devices : \A i \in s : Selected(d, i)}
    BY <2>5, <2>7, <2>8, <2>10
  <2> QED
    BY <2>3, <2>11
<1>4. g[S] = {d \in devices : \A i \in S : Selected(d, i)}
  BY <1>3
<1> QED
  BY <1>2, <1>4 DEF ToSet

(* The device passes every expression of the selector.                     *)
Satisfies(s, d) == \A x \in ToSet(s.selectors) : x.cel = Nil \/ Eval(x.cel, d) = "true"

(* No expression of the spec fails for a host's device (cache.go:231).     *)
NeverFails(spec, devices) ==
    \A s \in ToSet(spec.deviceSelectors) : \A x \in ToSet(s.selectors) :
        x.cel = Nil \/ ~Fails(x.cel, devices)

(* With distinct names, a name finds its one selector, if it applies to    *)
(* the node, and lists what that selects.                                  *)
LEMMA SelectorSelects ==
    ASSUME NEW spec, IsDeviceNetworkSpec(spec), Distinct(spec.deviceSelectors),
           NEW devices, NeverFails(spec, devices), NEW name
    PROVE  DeviceForSelector(spec.deviceSelectors, name, devices) =
              {d \in devices : \E s \in ToSet(spec.deviceSelectors) :
                  s.name = name /\ AppliesToNode(s) /\ Satisfies(s, d)}
<1> DEFINE list == spec.deviceSelectors
           named == {i \in DOMAIN list : list[i].name = name /\ AppliesToNode(list[i])}
<1>1. DOMAIN list = 1..Len(list) /\ Len(list) \in Nat
  BY DEF IsDeviceNetworkSpec, IsList
<1>2. DeviceForSelector(list, name, devices) =
         IF named = {} THEN {} ELSE List(devices, list[Max(named)].selectors)
  BY DEF DeviceForSelector
<1>3. CASE named = {}
  <2>1. \A s \in ToSet(list) : ~ (s.name = name /\ AppliesToNode(s))
    BY <1>3 DEF ToSet
  <2> QED
    BY <1>2, <1>3, <2>1
<1>4. CASE named # {}
  <2> DEFINE k == Max(named)
             s == list[k]
  <2>1. k \in named
    BY <1>1, <1>4, GreatestPosition
  <2>2. s \in ToSet(list) /\ s.name = name /\ AppliesToNode(s)
    BY <2>1 DEF ToSet
  <2>3. \A t \in ToSet(list) : t.name = name => t = s
    BY <2>1 DEF ToSet, Distinct
  <2> HIDE DEF k, named
  <2>4. IsList(s.selectors) /\ \A x \in ToSet(s.selectors) : x.cel = Nil \/ ~Fails(x.cel, devices)
    BY <2>2 DEF IsDeviceNetworkSpec, NeverFails
  <2>5. List(devices, s.selectors) = {d \in devices : Satisfies(s, d)}
    <3> HIDE DEF s
    <3> QED
      BY <2>4, ListSelects DEF Satisfies
  <2>6. DeviceForSelector(list, name, devices) = {d \in devices : Satisfies(s, d)}
    BY <1>2, <1>4, <2>5 DEF k
  <2> HIDE DEF s
  <2> QED
    BY <2>2, <2>3, <2>6
<1> QED
  BY <1>3, <1>4

(* The devices of a configuration are the union over the selectors it      *)
(* names.                                                                  *)
LEMMA ConfigurationSelects ==
    ASSUME NEW spec, IsDeviceNetworkSpec(spec), Distinct(spec.deviceSelectors),
           NEW devices, NeverFails(spec, devices), NEW c
    PROVE  DeviceForDeviceConfiguration(spec, c, devices) = {d \in devices : Selects(spec, c, d)}
<1>1. \A name : DeviceForSelector(spec.deviceSelectors, name, devices) =
         {d \in devices : \E s \in ToSet(spec.deviceSelectors) :
             s.name = name /\ AppliesToNode(s) /\ Satisfies(s, d)}
  BY SelectorSelects
<1>2. \A d : d \in DeviceForDeviceConfiguration(spec, c, devices) <=>
             \E name \in ToSet(c.deviceSelectors) :
                d \in DeviceForSelector(spec.deviceSelectors, name, devices)
  BY DEF DeviceForDeviceConfiguration
<1>3. \A d : Selects(spec, c, d) <=>
             \E s \in ToSet(spec.deviceSelectors) :
                s.name \in ToSet(c.deviceSelectors) /\ AppliesToNode(s) /\ Satisfies(s, d)
  BY DEF Selects, AppliesToNode, Satisfies
<1> QED
  BY <1>1, <1>2, <1>3

(* Of a spec with distinct selector names, a node advertises the           *)
(* supported devices that a configuration selects and no others, for any   *)
(* spec, host and network (reconciler.go:104-199).                         *)
THEOREM AdvertisesSelected ==
    ASSUME NEW spec, IsDeviceNetworkSpec(spec), Distinct(spec.deviceSelectors),
           NEW devices, NeverFails(spec, devices), NEW network
    PROVE  {<<r.deviceConfiguration, r.hostDeviceName>> :
               r \in GetResources([n \in {network} |-> spec], devices)}
           = UNION {{<<c.name, d.interfaceName>> :
                        d \in {e \in devices : IsSupported(e, c) /\ Selects(spec, c, e)}} :
                    c \in ToSet(spec.deviceConfigurations)}
<1> DEFINE Exposed(c) == {e \in devices : IsSupported(e, c) /\ Selects(spec, c, e)}
           resources == GetResources([n \in {network} |-> spec], devices)
<1>1. \A r : r \in resources <=> \E c \in ToSet(spec.deviceConfigurations) :
                                    r \in ResourceDevices(network, spec, c, devices)
  BY DEF GetResources
<1>2. \A c : ResourceDevices(network, spec, c, devices) =
                {ResourceDevice(network, c, d) : d \in Exposed(c)}
  <2>1. \A c : DeviceForDeviceConfiguration(spec, c, devices) = {d \in devices : Selects(spec, c, d)}
    BY ConfigurationSelects
  <2> QED
    BY <2>1 DEF ResourceDevices
<1>3. \A c, d : /\ ResourceDevice(network, c, d).deviceConfiguration = c.name
                /\ ResourceDevice(network, c, d).hostDeviceName = d.interfaceName
  BY DEF ResourceDevice
<1> HIDE DEF resources, Exposed
<1>4. \A p : p \in {<<r.deviceConfiguration, r.hostDeviceName>> : r \in resources} <=>
             \E c \in ToSet(spec.deviceConfigurations) : \E d \in Exposed(c) :
                p = <<c.name, d.interfaceName>>
  BY <1>1, <1>2, <1>3
<1>5. \A p : p \in UNION {{<<c.name, d.interfaceName>> : d \in Exposed(c)} :
                             c \in ToSet(spec.deviceConfigurations)} <=>
             \E c \in ToSet(spec.deviceConfigurations) : \E d \in Exposed(c) :
                p = <<c.name, d.interfaceName>>
  OBVIOUS
<1>6. {<<r.deviceConfiguration, r.hostDeviceName>> : r \in resources}
      = UNION {{<<c.name, d.interfaceName>> : d \in Exposed(c)} :
                  c \in ToSet(spec.deviceConfigurations)}
  <2> DEFINE A == {<<r.deviceConfiguration, r.hostDeviceName>> : r \in resources}
             B == UNION {{<<c.name, d.interfaceName>> : d \in Exposed(c)} :
                            c \in ToSet(spec.deviceConfigurations)}
  <2>1. \A p : p \in A <=> p \in B
    BY <1>4, <1>5
  <2> HIDE DEF A, B
  <2>2. A = B
    BY <2>1
  <2> QED
    BY <2>2 DEF A, B
<1> QED
  BY <1>6 DEF Exposed, resources

(* In particular for the samples that the run compares.                    *)
THEOREM SamplesExposeSelected == ExposesSelected
<1> SUFFICES ASSUME NEW spec \in Samples, Distinct(spec.deviceSelectors),
                    NEW devices \in SUBSET SampleDevices, NeverFails(spec, devices)
             PROVE  {<<r.deviceConfiguration, r.hostDeviceName>> :
                        r \in GetResources([n \in {<<>>} |-> spec], devices)}
                    = UNION {{<<c.name, d.interfaceName>> :
                                 d \in {e \in devices : IsSupported(e, c) /\ Selects(spec, c, e)}} :
                             c \in ToSet(spec.deviceConfigurations)}
  BY DEF ExposesSelected, NeverFails
<1> QED
  BY SamplesAssumption, AdvertisesSelected

(* Only the device itself decides whether a name selects it, unless an     *)
(* expression fails: two selectors may have the same name here.            *)
LEMMA SelectorOneByOne ==
    ASSUME NEW spec, IsDeviceNetworkSpec(spec),
           NEW devices, NeverFails(spec, devices), NEW name
    PROVE  DeviceForSelector(spec.deviceSelectors, name, devices) =
              {d \in devices : d \in DeviceForSelector(spec.deviceSelectors, name, {d})}
<1> DEFINE list == spec.deviceSelectors
           named == {i \in DOMAIN list : list[i].name = name /\ AppliesToNode(list[i])}
<1>1. DOMAIN list = 1..Len(list) /\ Len(list) \in Nat
  BY DEF IsDeviceNetworkSpec, IsList
<1>2. \A ds : DeviceForSelector(list, name, ds) =
                 IF named = {} THEN {} ELSE List(ds, list[Max(named)].selectors)
  BY DEF DeviceForSelector
<1>3. CASE named = {}
  BY <1>2, <1>3
<1>4. CASE named # {}
  <2> DEFINE k == Max(named)
             s == list[k]
  <2>1. k \in named
    BY <1>1, <1>4, GreatestPosition
  <2>2. s \in ToSet(list)
    BY <2>1 DEF ToSet
  <2> HIDE DEF k, named
  <2>3. IsList(s.selectors) /\ \A x \in ToSet(s.selectors) : x.cel = Nil \/ ~Fails(x.cel, devices)
    BY <2>2 DEF IsDeviceNetworkSpec, NeverFails
  <2>4. \A ds : DeviceForSelector(list, name, ds) = List(ds, s.selectors)
    BY <1>2, <1>4 DEF k
  <2> HIDE DEF s
  <2>5. List(devices, s.selectors) = {d \in devices : Satisfies(s, d)}
    BY <2>3, ListSelects DEF Satisfies
  <2>6. ASSUME NEW d \in devices
        PROVE  d \in List({d}, s.selectors) <=> Satisfies(s, d)
    <3>1. \A x \in ToSet(s.selectors) : x.cel = Nil \/ ~Fails(x.cel, {d})
      BY <2>3 DEF Fails
    <3>2. List({d}, s.selectors) = {e \in {d} : Satisfies(s, e)}
      BY <2>3, <3>1, ListSelects DEF Satisfies
    <3> QED
      BY <3>2
  <2> QED
    BY <2>4, <2>5, <2>6
<1> QED
  BY <1>3, <1>4

(* The same for the devices of a configuration.                            *)
LEMMA ConfigurationOneByOne ==
    ASSUME NEW spec, IsDeviceNetworkSpec(spec),
           NEW devices, NeverFails(spec, devices), NEW c
    PROVE  DeviceForDeviceConfiguration(spec, c, devices) =
              {d \in devices : d \in DeviceForDeviceConfiguration(spec, c, {d})}
<1>1. \A name : DeviceForSelector(spec.deviceSelectors, name, devices) =
         {d \in devices : d \in DeviceForSelector(spec.deviceSelectors, name, {d})}
  BY SelectorOneByOne
<1>2. \A ds, d : d \in DeviceForDeviceConfiguration(spec, c, ds) <=>
             \E name \in ToSet(c.deviceSelectors) :
                d \in DeviceForSelector(spec.deviceSelectors, name, ds)
  BY DEF DeviceForDeviceConfiguration
<1> QED
  BY <1>1, <1>2

(* What a node advertises is the union of what it would advertise for each *)
(* network alone on a host with one device alone, if no expression fails   *)
(* on the host: no network and no device changes what is advertised of     *)
(* another.  Discovery.tla takes the advertised devices for a relation of  *)
(* networks and devices, Exposes, for this reason (reconciler.go:104-199,  *)
(* cache.go:209-241).                                                      *)
THEOREM AdvertisesOneByOne ==
    ASSUME NEW specs, NEW devices,
           \A n \in DOMAIN specs : IsDeviceNetworkSpec(specs[n]) /\ NeverFails(specs[n], devices)
    PROVE  GetResources(specs, devices) =
              UNION {UNION {GetResources([m \in {n} |-> specs[n]], {d}) : d \in devices} :
                        n \in DOMAIN specs}
<1>1. \A n, ds, r : r \in GetResources([m \in {n} |-> specs[n]], ds) <=>
                       \E c \in ToSet(specs[n].deviceConfigurations) :
                          r \in ResourceDevices(n, specs[n], c, ds)
  BY DEF GetResources
<1>2. \A r : r \in GetResources(specs, devices) <=>
                \E n \in DOMAIN specs : \E c \in ToSet(specs[n].deviceConfigurations) :
                   r \in ResourceDevices(n, specs[n], c, devices)
  BY DEF GetResources
<1>3. \A n, c, ds, r : r \in ResourceDevices(n, specs[n], c, ds) <=>
         \E d \in DeviceForDeviceConfiguration(specs[n], c, ds) :
            IsSupported(d, c) /\ r = ResourceDevice(n, c, d)
  BY DEF ResourceDevices
<1>4. \A n \in DOMAIN specs : \A c : DeviceForDeviceConfiguration(specs[n], c, devices) =
         {d \in devices : d \in DeviceForDeviceConfiguration(specs[n], c, {d})}
  BY ConfigurationOneByOne
<1>5. \A spec, c, d : IsDeviceNetworkSpec(spec) =>
         DeviceForDeviceConfiguration(spec, c, {d}) \subseteq {d}
  BY SelectedAreListed DEF DeviceForDeviceConfiguration
<1>6. \A n \in DOMAIN specs : \A c, r :
         r \in ResourceDevices(n, specs[n], c, devices) <=>
            \E d \in devices : r \in ResourceDevices(n, specs[n], c, {d})
  <2> SUFFICES ASSUME NEW n \in DOMAIN specs, NEW c, NEW r
               PROVE  r \in ResourceDevices(n, specs[n], c, devices) <=>
                         \E d \in devices : r \in ResourceDevices(n, specs[n], c, {d})
    OBVIOUS
  <2> DEFINE selected(ds) == DeviceForDeviceConfiguration(specs[n], c, ds)
             exposed(ds) == ResourceDevices(n, specs[n], c, ds)
             Yields(d) == IsSupported(d, c) /\ r = ResourceDevice(n, c, d)
  <2>1. \A ds : r \in exposed(ds) <=> \E d \in selected(ds) : Yields(d)
    BY <1>3
  <2>2. \A d : selected({d}) \subseteq {d}
    BY <1>5
  <2>3. selected(devices) = {d \in devices : d \in selected({d})}
    BY <1>4
  <2> HIDE DEF selected, exposed, Yields
  <2>4. \A d : r \in exposed({d}) <=> d \in selected({d}) /\ Yields(d)
    <3> TAKE d
    <3>1. r \in exposed({d}) <=> \E e \in selected({d}) : Yields(e)
      BY <2>1
    <3>2. \A e \in selected({d}) : e = d
      BY <2>2
    <3> QED
      BY <3>1, <3>2
  <2>5. r \in exposed(devices) <=> \E d \in devices : r \in exposed({d})
    BY <2>1, <2>3, <2>4
  <2> QED
    BY <2>5 DEF exposed
<1>7. \A r : r \in GetResources(specs, devices) <=>
         \E n \in DOMAIN specs : \E d \in devices :
            r \in GetResources([m \in {n} |-> specs[n]], {d})
  BY <1>1, <1>2, <1>6
<1> DEFINE all == GetResources(specs, devices)
           single(n, d) == GetResources([m \in {n} |-> specs[n]], {d})
<1>8. \A r : r \in all <=> \E n \in DOMAIN specs : \E d \in devices : r \in single(n, d)
  BY <1>7
<1> HIDE DEF all, single
<1>9. all = UNION {UNION {single(n, d) : d \in devices} : n \in DOMAIN specs}
  BY <1>8
<1> QED
  BY <1>9 DEF all, single

-----------------------------------------------------------------------------
(* Validation                                                              *)

(* A check reports nothing exactly if its condition is false.              *)
LEMMA ErrorEmpty ==
    ASSUME NEW condition, NEW kind, NEW field
    PROVE  Error(condition, kind, field) = {} <=> ~ condition
BY DEF Error

(* What it is to be a list, and an empty one.                              *)
LEMMA EmptyList ==
    ASSUME NEW list, IsList(list)
    PROVE  /\ DOMAIN list = 1..Len(list) /\ Len(list) \in Nat
           /\ list = <<>> <=> Len(list) = 0
           /\ list = <<>> <=> ToSet(list) = {}
BY DEF IsList, ToSet

(* validateSlice accepts a list of valid items that is not too long.       *)
LEMMA SliceValid ==
    ASSUME NEW list, IsList(list), NEW max \in Nat, NEW validateItem, NEW field
    PROVE  ValidateSlice(list, max, validateItem, field) = {} <=>
              Len(list) <= max /\ \A item \in ToSet(list) : validateItem[item] = {}
<1>1. UNION {validateItem[item] : item \in ToSet(list)} = {} <=>
         \A item \in ToSet(list) : validateItem[item] = {}
  OBVIOUS
<1>2. Len(list) \in Nat
  BY EmptyList
<1>3. CASE Len(list) > max
  <2>1. ValidateSlice(list, max, validateItem, field) # {}
    BY <1>3 DEF ValidateSlice
  <2> QED
    BY <1>2, <1>3, <2>1
<1>4. CASE ~ (Len(list) > max)
  <2>1. ValidateSlice(list, max, validateItem, field) =
           UNION {validateItem[item] : item \in ToSet(list)}
    BY <1>4 DEF ValidateSlice, ValidateItems
  <2> QED
    BY <1>1, <1>2, <1>4, <2>1
<1> QED
  BY <1>3, <1>4

(* validateSet also wants the keys distinct.                               *)
LEMMA SetValid ==
    ASSUME NEW list, IsList(list), NEW max \in Nat, NEW validateItem, NEW itemKey, NEW field
    PROVE  ValidateSet(list, max, validateItem, itemKey, field) = {} <=>
              /\ Len(list) <= max /\ \A item \in ToSet(list) : validateItem[item] = {}
              /\ \A i, j \in DOMAIN list : itemKey[list[i]] = itemKey[list[j]] => i = j
<1> DEFINE duplicate == \E i, j \in DOMAIN list : i < j /\ itemKey[list[i]] = itemKey[list[j]]
<1>1. duplicate <=> ~ \A i, j \in DOMAIN list : itemKey[list[i]] = itemKey[list[j]] => i = j
  <2>1. \A i, j \in DOMAIN list : i \in Nat /\ j \in Nat
    BY EmptyList
  <2>2. \A i, j \in DOMAIN list : i # j => i < j \/ j < i
    BY <2>1
  <2> QED
    BY <2>1, <2>2
<1> HIDE DEF duplicate
<1>2. ValidateSet(list, max, validateItem, itemKey, field) =
         ValidateSlice(list, max, validateItem, field) \cup
         Error(Len(list) <= max /\ duplicate, "Duplicate", field)
  BY DEF ValidateSet, duplicate
<1>3. Error(Len(list) <= max /\ duplicate, "Duplicate", field) = {} <=>
         ~ (Len(list) <= max /\ duplicate)
  BY ErrorEmpty
<1>4. ValidateSlice(list, max, validateItem, field) = {} <=>
         Len(list) <= max /\ \A item \in ToSet(list) : validateItem[item] = {}
  BY SliceValid
<1>5. ValidateSet(list, max, validateItem, itemKey, field) = {} <=>
         /\ Len(list) <= max /\ \A item \in ToSet(list) : validateItem[item] = {}
         /\ ~ duplicate
  BY <1>2, <1>3, <1>4
<1> QED
  BY <1>1, <1>5

(* A label requirement is accepted exactly if it is documented.            *)
LEMMA RequirementValid ==
    ASSUME NEW r, IsList(r.values)
    PROVE  ValidateNodeSelectorRequirement(r) = {} <=> DocumentedRequirement(r)
<1> DEFINE op == r.operator
           n == Len(r.values)
<1>1. n \in Nat /\ (r.values = <<>> <=> n = 0)
  BY EmptyList
<1>2. ValidateNodeSelectorRequirement(r) = {} <=>
         /\ ~ (op \in {"In", "NotIn"} /\ n = 0)
         /\ ~ (op \in {"Exists", "DoesNotExist"} /\ n > 0)
         /\ ~ (op \in {"Gt", "Lt"} /\ n # 1)
         /\ op \in {"In", "NotIn", "Exists", "DoesNotExist", "Gt", "Lt"}
         /\ r.key \in LabelNames
         /\ ToSet(r.values) \subseteq LabelValues
  <2> DEFINE In == Error(op \in {"In", "NotIn"} /\ n = 0, "Required", "values")
             Exists == Error(op \in {"Exists", "DoesNotExist"} /\ n > 0, "Forbidden", "values")
             Gt == Error(op \in {"Gt", "Lt"} /\ n # 1, "Required", "values")
             Op == Error(op \notin {"In", "NotIn", "Exists", "DoesNotExist", "Gt", "Lt"},
                         "Invalid", "operator")
             Key == Error(r.key \notin LabelNames, "Invalid", "key")
             Values == Error(~ (ToSet(r.values) \subseteq LabelValues), "Invalid", "values")
  <2>1. ValidateNodeSelectorRequirement(r) = In \cup Exists \cup Gt \cup Op \cup Key \cup Values
    BY DEF ValidateNodeSelectorRequirement
  <2>2. /\ In = {} <=> ~ (op \in {"In", "NotIn"} /\ n = 0)
        /\ Exists = {} <=> ~ (op \in {"Exists", "DoesNotExist"} /\ n > 0)
        /\ Gt = {} <=> ~ (op \in {"Gt", "Lt"} /\ n # 1)
        /\ Op = {} <=> op \in {"In", "NotIn", "Exists", "DoesNotExist", "Gt", "Lt"}
        /\ Key = {} <=> r.key \in LabelNames
        /\ Values = {} <=> ToSet(r.values) \subseteq LabelValues
    BY DEF Error
  <2> HIDE DEF In, Exists, Gt, Op, Key, Values
  <2>3. In \cup Exists \cup Gt \cup Op \cup Key \cup Values = {} <=>
           In = {} /\ Exists = {} /\ Gt = {} /\ Op = {} /\ Key = {} /\ Values = {}
    OBVIOUS
  <2> QED
    BY <2>1, <2>2, <2>3
<1>3. DocumentedRequirement(r) <=>
         /\ r.key \in LabelNames
         /\ ToSet(r.values) \subseteq LabelValues
         /\ \/ op \in {"In", "NotIn"} /\ n # 0
            \/ op \in {"Exists", "DoesNotExist"} /\ n = 0
            \/ op \in {"Gt", "Lt"} /\ n = 1
  BY <1>1 DEF DocumentedRequirement
<1> HIDE DEF op, n
<1> QED
  BY <1>1, <1>2, <1>3

(* A field requirement likewise.                                           *)
LEMMA FieldValid ==
    ASSUME NEW r, IsList(r.values)
    PROVE  ValidateNodeFieldSelectorRequirement(r) = {} <=> DocumentedField(r)
<1>1. (\E node \in NodeNames : r.values = <<node>>) <=>
         Len(r.values) = 1 /\ ToSet(r.values) \subseteq NodeNames
  <2>1. ASSUME NEW node \in NodeNames, r.values = <<node>>
        PROVE  Len(r.values) = 1 /\ ToSet(r.values) \subseteq NodeNames
    BY <2>1 DEF ToSet
  <2>2. ASSUME Len(r.values) = 1, ToSet(r.values) \subseteq NodeNames
        PROVE  r.values[1] \in NodeNames /\ r.values = <<r.values[1]>>
    <3>1. r.values = [i \in 1..1 |-> r.values[i]]
      BY <2>2 DEF IsList
    <3>2. [i \in 1..1 |-> r.values[i]] = <<r.values[1]>>
      OBVIOUS
    <3>3. 1 \in DOMAIN r.values
      BY <3>1
    <3> QED
      BY <2>2, <3>1, <3>2, <3>3 DEF ToSet
  <2> QED
    BY <2>1, <2>2
<1> QED
  BY <1>1 DEF ValidateNodeFieldSelectorRequirement, DocumentedField, Error

(* A node selector likewise.                                               *)
LEMMA NodeSelectorValid ==
    ASSUME NEW n, IsNodeSelector(n)
    PROVE  ValidateNodeSelector(n) = {} <=> DocumentedNodeSelector(n)
<1>1. ASSUME NEW term \in ToSet(n.nodeSelectorTerms)
      PROVE  ValidateNodeSelectorTerm(term) = {} <=>
                /\ \A r \in ToSet(term.matchExpressions) : DocumentedRequirement(r)
                /\ \A r \in ToSet(term.matchFields) : DocumentedField(r)
  <2>1. \A r \in ToSet(term.matchExpressions) : 
           ValidateNodeSelectorRequirement(r) = {} <=> DocumentedRequirement(r)
    BY RequirementValid DEF IsNodeSelector
  <2>2. \A r \in ToSet(term.matchFields) :
           ValidateNodeFieldSelectorRequirement(r) = {} <=> DocumentedField(r)
    BY FieldValid DEF IsNodeSelector
  <2>3. ValidateNodeSelectorTerm(term) = {} <=>
           /\ \A r \in ToSet(term.matchExpressions) : ValidateNodeSelectorRequirement(r) = {}
           /\ \A r \in ToSet(term.matchFields) : ValidateNodeFieldSelectorRequirement(r) = {}
    <3> DEFINE A == {ValidateNodeSelectorRequirement(r) : r \in ToSet(term.matchExpressions)}
               B == {ValidateNodeFieldSelectorRequirement(r) : r \in ToSet(term.matchFields)}
    <3>1. ValidateNodeSelectorTerm(term) = {} <=> \A errors \in A \cup B : errors = {}
      BY DEF ValidateNodeSelectorTerm
    <3> QED
      BY <3>1
  <2> QED
    BY <2>1, <2>2, <2>3
<1>2. ValidateNodeSelector(n) = {} <=>
         /\ n.nodeSelectorTerms # <<>>
         /\ \A term \in ToSet(n.nodeSelectorTerms) : ValidateNodeSelectorTerm(term) = {}
  BY DEF ValidateNodeSelector
<1> QED
  BY <1>1, <1>2 DEF DocumentedNodeSelector

(* What is left of a documented selector and a documented configuration    *)
(* without the rules that no check stands behind.                          *)
CheckedSelector(spec, s) ==
    /\ \E c \in ToSet(spec.deviceConfigurations) : s.name \in ToSet(c.deviceSelectors)
    /\ Len(s.selectors) <= 1
    /\ \A x \in ToSet(s.selectors) : x.cel \notin {Nil} \cup TooLong
    /\ s.nodeSelector # Nil => DocumentedNodeSelector(s.nodeSelector)

CheckedConfiguration(spec, c) ==
    /\ c.deviceSelectors # <<>>
    /\ IsInjective(c.deviceSelectors)
    /\ ToSet(c.deviceSelectors) \subseteq {s.name : s \in ToSet(spec.deviceSelectors)}
    /\ c.deviceType \in DeviceType \cup {Nil}
    /\ c.macvlan # Nil => c.deviceType = "Macvlan"
    /\ c.hostDevice # Nil => c.deviceType \in {"HostDevice", Nil}

(* A device selector is accepted exactly if it keeps the rules that are    *)
(* checked (validation.go:66-84).                                          *)
LEMMA DeviceSelectorValid ==
    ASSUME NEW spec, IsDeviceNetworkSpec(spec), NEW s \in ToSet(spec.deviceSelectors)
    PROVE  ValidateDeviceSelector(s, ListUsedSelectorNames(spec.deviceConfigurations)) = {}
              <=> CheckedSelector(spec, s)
<1> DEFINE used == ListUsedSelectorNames(spec.deviceConfigurations)
           validSelector == [x \in ToSet(s.selectors) |-> ValidateSelector(x)]
           nodeErrors == IF s.nodeSelector = Nil THEN {} ELSE ValidateNodeSelector(s.nodeSelector)
<1>1. s.name \in used <=> \E c \in ToSet(spec.deviceConfigurations) : s.name \in ToSet(c.deviceSelectors)
  BY DEF ListUsedSelectorNames
<1>2. \A x \in ToSet(s.selectors) : validSelector[x] = {} <=> x.cel \notin {Nil} \cup TooLong
  BY DEF ValidateSelector, ValidateCELSelector, Error
<1>3. nodeErrors = {} <=> (s.nodeSelector # Nil => DocumentedNodeSelector(s.nodeSelector))
  BY NodeSelectorValid DEF IsDeviceNetworkSpec
<1> HIDE DEF validSelector, nodeErrors
<1>4. ValidateSlice(s.selectors, 1, validSelector, "selectors") = {} <=>
         Len(s.selectors) <= 1 /\ \A x \in ToSet(s.selectors) : validSelector[x] = {}
  BY SliceValid DEF IsDeviceNetworkSpec
<1>5. ValidateDeviceSelector(s, used) =
         Error(s.name \notin used, "Forbidden", "deviceSelectors") \cup
         ValidateSlice(s.selectors, 1, validSelector, "selectors") \cup nodeErrors
  BY DEF ValidateDeviceSelector, SelectorPerDeviceSelectorMaxSize, validSelector, nodeErrors
<1> HIDE DEF used
<1> QED
  BY <1>1, <1>2, <1>3, <1>4, <1>5, ErrorEmpty DEF CheckedSelector, used

(* Distinct references to named items are no more than the items: a        *)
(* configuration with known references cannot have too many of them.       *)
LEMMA AtMostAsManyNames ==
    ASSUME NEW refs, IsList(refs), IsInjective(refs),
           NEW named, IsList(named), ToSet(refs) \subseteq {s.name : s \in ToSet(named)}
    PROVE  Len(refs) <= Len(named)
<1> DEFINE m == Len(refs)
           n == Len(named)
           f == [i \in 1..m |-> CHOOSE j \in 1..n : named[j].name = refs[i]]
<1>1. m \in Nat /\ n \in Nat /\ DOMAIN refs = 1..m /\ DOMAIN named = 1..n
  BY EmptyList
<1>2. \A i \in 1..m : \E j \in 1..n : named[j].name = refs[i]
  BY <1>1 DEF ToSet
<1>3. \A i \in 1..m : f[i] \in 1..n /\ named[f[i]].name = refs[i]
  BY <1>2
<1>4. f \in Injection(1..m, 1..n)
  <2>1. f \in [1..m -> 1..n]
    BY <1>3
  <2>2. \A i, j \in 1..m : f[i] = f[j] => i = j
    BY <1>1, <1>3 DEF IsInjective
  <2> HIDE DEF f
  <2> QED
    BY <2>1, <2>2 DEF Injection, IsInjective
<1>5. ExistsInjection(1..m, 1..n)
  BY <1>4 DEF ExistsInjection
<1> QED
  BY <1>1, <1>5, Fun_NatInjLeq

(* A device configuration likewise, in a spec that does not have too many  *)
(* selectors.                                                              *)
LEMMA DeviceConfigurationValid ==
    ASSUME NEW spec, IsDeviceNetworkSpec(spec), Len(spec.deviceSelectors) <= 4,
           NEW c \in ToSet(spec.deviceConfigurations)
    PROVE  ValidateDeviceConfiguration(c, ListSelectorNames(spec.deviceSelectors)) = {}
              <=> CheckedConfiguration(spec, c)
<1> DEFINE refs == c.deviceSelectors
           selectors == ListSelectorNames(spec.deviceSelectors)
           type == GetDeviceType(c)
           known == [n \in ToSet(refs) |-> Error(n \notin selectors, "NotFound", "deviceSelectors")]
           itself == [n \in ToSet(refs) |-> n]
           Empty == Error(refs = <<>>, "Required", "deviceSelectors")
           Refs == ValidateSet(refs, 4, known, itself, "deviceSelectors")
           Mac == Error(type = "HostDevice" /\ c.macvlan # Nil, "Forbidden", "macvlan")
           Host == Error(type = "Macvlan" /\ c.hostDevice # Nil, "Forbidden", "hostDevice")
           Type == Error(type \notin DeviceType, "Invalid", "deviceType")
<1>1. ValidateDeviceConfiguration(c, selectors) = Empty \cup Refs \cup Mac \cup Host \cup Type
  BY DEF ValidateDeviceConfiguration, SelectorPerDeviceConfigurationMaxSize, DeviceSelectorMaxSize
<1>2. IsList(refs) /\ IsList(spec.deviceSelectors)
  BY DEF IsDeviceNetworkSpec
<1>3. Refs = {} <=> Len(refs) <= 4 /\ ToSet(refs) \subseteq selectors /\ IsInjective(refs)
  <2>1. \A n \in ToSet(refs) : known[n] = {} <=> n \in selectors
    BY DEF Error
  <2>2. \A i \in DOMAIN refs : itself[refs[i]] = refs[i]
    BY DEF ToSet
  <2> HIDE DEF known, itself, selectors
  <2>3. Refs = {} <=> /\ Len(refs) <= 4 /\ \A n \in ToSet(refs) : known[n] = {}
                      /\ \A i, j \in DOMAIN refs : itself[refs[i]] = itself[refs[j]] => i = j
    BY <1>2, SetValid
  <2> QED
    BY <2>1, <2>2, <2>3 DEF IsInjective
<1>4. selectors = {s.name : s \in ToSet(spec.deviceSelectors)}
  BY DEF ListSelectorNames
<1>5. ToSet(refs) \subseteq selectors /\ IsInjective(refs) => Len(refs) <= 4
  <2>1. Len(refs) \in Nat /\ Len(spec.deviceSelectors) \in Nat
    BY <1>2, EmptyList
  <2> QED
    BY <1>2, <1>4, <2>1, AtMostAsManyNames
<1>6. /\ Empty = {} <=> refs # <<>>
      /\ Mac = {} <=> ~ (type = "HostDevice" /\ c.macvlan # Nil)
      /\ Host = {} <=> ~ (type = "Macvlan" /\ c.hostDevice # Nil)
      /\ Type = {} <=> type \in DeviceType
  BY DEF Error
<1>7. /\ type \in DeviceType <=> c.deviceType \in DeviceType \cup {Nil}
      /\ type = "Macvlan" <=> c.deviceType = "Macvlan"
      /\ type = "HostDevice" <=> c.deviceType \in {"HostDevice", Nil}
  BY NilAssumption DEF GetDeviceType, DeviceType
<1> HIDE DEF Empty, Refs, Mac, Host, Type
<1>8. Empty \cup Refs \cup Mac \cup Host \cup Type = {} <=>
         Empty = {} /\ Refs = {} /\ Mac = {} /\ Host = {} /\ Type = {}
  OBVIOUS
<1> HIDE DEF selectors, type, refs
<1>9. CheckedConfiguration(spec, c) <=>
         /\ refs # <<>> /\ IsInjective(refs) /\ ToSet(refs) \subseteq selectors
         /\ c.deviceType \in DeviceType \cup {Nil}
         /\ c.macvlan # Nil => c.deviceType = "Macvlan"
         /\ c.hostDevice # Nil => c.deviceType \in {"HostDevice", Nil}
  BY <1>4 DEF CheckedConfiguration, refs
<1>10. ValidateDeviceConfiguration(c, selectors) = {} <=> CheckedConfiguration(spec, c)
  BY <1>1, <1>3, <1>5, <1>6, <1>7, <1>8, <1>9 DEF DeviceType
<1> QED
  BY <1>10 DEF selectors

(* The keys that validateSet compares are the names.                       *)
LEMMA NamesDistinct ==
    ASSUME NEW list, IsList(list)
    PROVE  LET names == [item \in ToSet(list) |-> item.name]
           IN  (\A i, j \in DOMAIN list : names[list[i]] = names[list[j]] => i = j)
                  <=> Distinct(list)
<1>1. \A i \in DOMAIN list : [item \in ToSet(list) |-> item.name][list[i]] = list[i].name
  BY DEF ToSet
<1> QED
  BY <1>1 DEF Distinct

(* An object is accepted exactly if it keeps the rules that are checked.   *)
LEMMA ValidatesChecked ==
    ASSUME NEW spec, IsDeviceNetworkSpec(spec)
    PROVE  ValidateDeviceNetwork(spec) = {} <=>
              /\ Len(spec.deviceSelectors) \in 1..4 /\ Distinct(spec.deviceSelectors)
              /\ Len(spec.deviceConfigurations) \in 1..4 /\ Distinct(spec.deviceConfigurations)
              /\ \A s \in ToSet(spec.deviceSelectors) : CheckedSelector(spec, s)
              /\ \A c \in ToSet(spec.deviceConfigurations) : CheckedConfiguration(spec, c)
<1> DEFINE ds == spec.deviceSelectors
           cs == spec.deviceConfigurations
           selectors == ListSelectorNames(ds)
           used == ListUsedSelectorNames(cs)
           validSelector == [s \in ToSet(ds) |-> ValidateDeviceSelector(s, used)]
           validConfiguration == [c \in ToSet(cs) |-> ValidateDeviceConfiguration(c, selectors)]
           Names(list) == [item \in ToSet(list) |-> item.name]
           NoDs == Error(ds = <<>>, "Forbidden", "deviceSelectors")
           Ds == ValidateSet(ds, 4, validSelector, Names(ds), "deviceSelectors")
           NoCs == Error(cs = <<>>, "Forbidden", "deviceConfigurations")
           Cs == ValidateSet(cs, 4, validConfiguration, Names(cs), "deviceConfigurations")
<1>1. ValidateDeviceNetwork(spec) = NoDs \cup Ds \cup NoCs \cup Cs
  BY DEF ValidateDeviceNetwork, DeviceSelectorMaxSize, DeviceConfigurationMaxSize
<1>2. IsList(ds) /\ IsList(cs)
  BY DEF IsDeviceNetworkSpec
<1>3. /\ \A s \in ToSet(ds) : validSelector[s] = ValidateDeviceSelector(s, used)
      /\ \A c \in ToSet(cs) : validConfiguration[c] = ValidateDeviceConfiguration(c, selectors)
  OBVIOUS
<1>4. /\ \A s \in ToSet(ds) : ValidateDeviceSelector(s, used) = {} <=> CheckedSelector(spec, s)
      /\ Len(ds) <= 4 => \A c \in ToSet(cs) :
            ValidateDeviceConfiguration(c, selectors) = {} <=> CheckedConfiguration(spec, c)
  BY DeviceSelectorValid, DeviceConfigurationValid
<1>5. /\ (\A i, j \in DOMAIN ds : Names(ds)[ds[i]] = Names(ds)[ds[j]] => i = j) <=> Distinct(ds)
      /\ (\A i, j \in DOMAIN cs : Names(cs)[cs[i]] = Names(cs)[cs[j]] => i = j) <=> Distinct(cs)
  BY <1>2, NamesDistinct
<1>6. /\ NoDs = {} <=> ds # <<>>
      /\ NoCs = {} <=> cs # <<>>
  BY DEF Error
<1>7. /\ Len(ds) \in Nat /\ (ds = <<>> <=> Len(ds) = 0)
      /\ Len(cs) \in Nat /\ (cs = <<>> <=> Len(cs) = 0)
  BY <1>2, EmptyList
<1> HIDE DEF validSelector, validConfiguration, Names
<1>8. /\ Ds = {} <=> /\ Len(ds) <= 4 /\ \A s \in ToSet(ds) : validSelector[s] = {}
                     /\ \A i, j \in DOMAIN ds : Names(ds)[ds[i]] = Names(ds)[ds[j]] => i = j
      /\ Cs = {} <=> /\ Len(cs) <= 4 /\ \A c \in ToSet(cs) : validConfiguration[c] = {}
                     /\ \A i, j \in DOMAIN cs : Names(cs)[cs[i]] = Names(cs)[cs[j]] => i = j
  <2>1. Ds = {} <=> /\ Len(ds) <= 4 /\ \A s \in ToSet(ds) : validSelector[s] = {}
                    /\ \A i, j \in DOMAIN ds : Names(ds)[ds[i]] = Names(ds)[ds[j]] => i = j
    BY <1>2, SetValid
  <2>2. Cs = {} <=> /\ Len(cs) <= 4 /\ \A c \in ToSet(cs) : validConfiguration[c] = {}
                    /\ \A i, j \in DOMAIN cs : Names(cs)[cs[i]] = Names(cs)[cs[j]] => i = j
    BY <1>2, SetValid
  <2> QED
    BY <2>1, <2>2
<1> HIDE DEF NoDs, Ds, NoCs, Cs
<1>9. NoDs \cup Ds \cup NoCs \cup Cs = {} <=> NoDs = {} /\ Ds = {} /\ NoCs = {} /\ Cs = {}
  OBVIOUS
<1> HIDE DEF ds, cs, used, selectors
<1>10. /\ Len(ds) \in 1..4 <=> ds # <<>> /\ Len(ds) <= 4
       /\ Len(cs) \in 1..4 <=> cs # <<>> /\ Len(cs) <= 4
  <2>1. \A n \in Nat : n \in 1..4 <=> n # 0 /\ n <= 4
    OBVIOUS
  <2> QED
    BY <1>7, <2>1
<1>11. ValidateDeviceNetwork(spec) = {} <=>
          /\ Len(ds) \in 1..4 /\ Distinct(ds)
          /\ Len(cs) \in 1..4 /\ Distinct(cs)
          /\ \A s \in ToSet(ds) : CheckedSelector(spec, s)
          /\ \A c \in ToSet(cs) : CheckedConfiguration(spec, c)
  BY <1>1, <1>3, <1>4, <1>5, <1>6, <1>8, <1>9, <1>10
<1> QED
  BY <1>11 DEF ds, cs

(* Everything types.go documents is accepted, and nothing else but objects *)
(* that break one of the rules without a check, for any lists, names,      *)
(* expressions and node selectors (validation.go:26-170).                  *)
THEOREM ValidatesUpToUncheckedRules ==
    ASSUME NEW spec, IsDeviceNetworkSpec(spec)
    PROVE  Documented(spec) <=> ValidateDeviceNetwork(spec) = {} /\ KeepsUncheckedRules(spec)
<1>1. ASSUME NEW s \in ToSet(spec.deviceSelectors)
      PROVE  DocumentedSelector(spec, s) <=>
                /\ CheckedSelector(spec, s)
                /\ s.name # "" /\ \A x \in ToSet(s.selectors) : x.cel \notin NoCEL
  BY DEF DocumentedSelector, CheckedSelector
<1>2. ASSUME NEW c \in ToSet(spec.deviceConfigurations)
      PROVE  DocumentedConfiguration(spec, c) <=>
                /\ CheckedConfiguration(spec, c)
                /\ c.name # <<>> /\ (c.macvlan # Nil => c.macvlan.mode \in MacvlanMode \cup {Nil})
  BY DEF DocumentedConfiguration, CheckedConfiguration
<1> QED
  BY <1>1, <1>2, ValidatesChecked DEF Documented, KeepsUncheckedRules

(* In particular the samples that the run compares.                        *)
THEOREM SamplesValidUpToUncheckedRules == ValidUpToUncheckedRules
BY SamplesAssumption, ValidatesUpToUncheckedRules DEF ValidUpToUncheckedRules
=============================================================================
