# Formal models of DeviceNetwork

TLA+ models of the DeviceNetwork node agent, TLC runs that check them on small
instances, and TLAPS proofs of the properties that matter most. Everything is
translated from the code of this repository; line numbers in the modules'
comments are of the files named there. `PROJECT.json` maps each definition to
the lines it stands for.

## 1. The system

The node agent is one Go process per node (`cmd/cmd/run.go`). It discovers the
host's network interfaces, advertises those that a `DeviceNetwork` object
selects as DRA devices, prepares the `ResourceClaim`s the scheduler allocated
to a pod, and configures the claimed devices in the pod's network namespace
when the container runtime creates the pod's sandbox.

```
 kernel links                 DeviceNetworks             ResourceClaims
      | poll                        | informer                  | kubelet: prepare
      v                             v                           v
 host device cache --events--> controller --publish--> ResourceSlice     DRA driver
 (pkg/host)                    (pkg/controllers)            | resolver -->  (pkg/driver)
                                                            (pkg/resolver)   | Add
                                                                             v
 container runtime --NRI: RunPodSandbox, StartContainer, Remove--> NRI plugin <-Get- store
                                                                   (pkg/nri)      (pkg/store)
                                                                      | Configure
                                                                      v
                                                                configurators --> pod netns
```

| component | state | operations | what is hard | what makes it correct |
|---|---|---|---|---|
| claim store, `pkg/store/memory.go` | map pod UID → claims, a mutex | `Add`, `Get` (`Delete` is never called) | repeated `Add`s of one claim; lost at a restart; never shrinks | a claim once per pod, the claim the status shows |
| NRI plugin, `pkg/nri` | map pod UID → process under `p.mu`; per process a context, a done channel, a loop over claims and devices | `RunPodSandbox`, `StartContainer`, `RemovePodSandbox`, the goroutine `run` | handlers and goroutines interleave; a removal waits for a goroutine with the lock held; a process replaced or forgotten | containers start after configuration; no goroutine works in a removed sandbox's namespace; handlers return; no claim is skipped |
| DRA driver, `pkg/driver/driver.go` | none of its own but the call in progress | `PrepareResourceClaims`, `nodePrepareResource`, `allocateDevice`, `UnprepareResourceClaims`, `PublishResources` | errors per claim, lost answers, repeated calls, reservations that change between two reads | what the kubelet takes as prepared is stored under the right pod and as published; every call ends |
| the process, `cmd/cmd/run.go` | all of the above in memory | start in a fixed order, die, restart | a kubelet that prepares before the plugin is registered; claims forgotten by a restart | a sandbox the plugin sees is handed all claims of its prepared pod |
| host device cache, `pkg/host/cache.go` | snapshot, work queue, the store of a synthetic informer, a broadcaster | poll, `syncDevice`, `List`, `Get` | two writers of one store without a lock; events before the watch; events dropped; links that vanish | the store converges to the links |
| controller and reconciler, `pkg/controllers/devicenetwork` | a work queue of one key | `onEvent`, `Reconcile`, publish | events during a reconcile; failed publications; listings that are not atomic | no change is missed; what is advertised converges to links and networks |
| resolver, `pkg/resolver` | an index of ResourceSlices | `GetDevice` | joins three caches of different age by names | finds the device that was allocated, or fails; a host device and a macvlan never share an interface |
| configurators, `pkg/configurators` | none; the kernel's links and namespaces | `IsSupported`, `ExposedDevice`, `Allocate`, `Configure` (`Release` is never called) | random names and addresses that collide; RDMA devices moved before the link | a device is where its claim says, whole or not at all |
| API types and validation, `apis/v1alpha1`, `pkg/validation` | none | defaults, getters, validation (called by tests only) | references between lists by name, limits, defaults that are left out | refuses no documented object, and accepts no other that breaks a rule it is to check |
| generated client code, command line | – | – | – | not of interest here |

Interaction is by calls (kubelet → driver, runtime → plugin, plugin →
configurators), by shared memory (the claim store between driver and plugin,
the device store between worker, informer, controller and resolver), by
callbacks (informer handlers → work queues) and through the API server
(ResourceSlices, claim statuses, DeviceNetworks).

## 2. Modules

| module | models | composed with |
|---|---|---|
| `PodResourceStore` | the claim store: operators on its value | used by `Driver` and `NriPlugin` |
| `NriPlugin` | the NRI plugin and its goroutines | implements `SandboxGate` |
| `SandboxGate` | what the plugin promises, without locks, channels and cursors | |
| `Driver` | the DRA driver, the kubelet and the parts of the cluster it meets | |
| `NodeAgent` | the process: driver and plugin over one store, crash, restart, start-up order | `INSTANCE`s of `Driver` and `NriPlugin`, implements `ClaimHandover` |
| `ClaimHandover` | what the agent promises of a pod's claims, from the kubelet to the pod's namespace, without calls, reservations, errors, locks and cursors | |
| `DeviceCache` | the host device cache | |
| `DeviceNetworkController` | controller and reconciler | |
| `Discovery` | from links to advertised devices | `INSTANCE`s of the two above, implements `AdvertisedPool` |
| `AdvertisedPool` | what the agent promises of the devices it advertises, without polls, channels, work queues and listings | |
| `DeviceTypes` | device types, their defaults, what each configurator supports and exposes: operators | extended by the modules below |
| `Advertising` | the lists behind the ResourceSlices: selectors, configurations, names, counters: operators | extends `DeviceTypes` |
| `DeviceNetworkValidation` | the validation functions: operators | extends `DeviceTypes` |
| `DocumentedNetworks` | the reference: what the API documents as valid and as selected | extends the two above |
| `Allocation` | reconciler, scheduler, resolver and preparation over caches of different age | extends `Advertising` |
| `WrittenNetworks` | what validation and the reconciler make of an object that a user writes | extends `Allocation` and `DocumentedNetworks` |
| `PodNetwork` | `Configure` on interfaces, RDMA devices, macvlans and namespaces, with the kernel | extends `DeviceTypes` |
| `RandomIPAM` | the random addresses of a claim: operators | used by `PreparedAddresses` |
| `PreparedAddresses` | what a claim is prepared with: devices and addresses | extends `PodNetwork` and `RandomIPAM` |
| `NriPluginProofs`, `DriverProofs`, `NodeAgentProofs`, `DiscoveryProofs`, `AllocationProofs`, `PodNetworkProofs` | theorems | extend the module they are about |
| `SelectionProofs` | theorems about `Advertising` and `DeviceNetworkValidation` | extends `DocumentedNetworks`, used by `AllocationProofs` |
| `FoldLemmas` | lemmas about folds, sums and powers of two | used by the proofs about allocations, selection and addresses |
| `MCNriPlugin`, `MCDriver`, `MCNodeAgent`, `MCDiscovery`, `MCAllocation`, `MCPodNetwork` | small instances for TLC | extend the module they check |

Definitions whose comment calls them mutated, or that describe a wrong variant
of the code (`PublishAdded`, `FinishRemovalNoWait`, `AddAlways`, `LeaveStore`, `ResyncNever`
...), are part of no specification. Each is a plausible bug; putting it in
place of the definition below it makes the run named in `PROJECT.json` fail,
which shows that the property would notice.

### NriPlugin

State. `processes` is `p.configurationProcesses`; `mu` is who holds `p.mu`
across steps. A `configurationProcess` is identified with the sandbox it was
made for: `claims`, `done`, `cancel` are its fields, `run`, `claimAt`,
`deviceAt` the place of its goroutine, `configured` and `failed` what it has
done and logged. `phase` and `answer` are what the runtime knows; `victim` and
`waits` are `RemovePodSandbox`'s local process and whether its `terminate()`
read a channel.

Actions. `RunPodSandbox` is two steps, since the store is read outside the
lock; `StartContainer` is one, under the lock; `RemovePodSandbox` is
`RemovePodSandbox` (take the lock, read `cancel` and `done`) and
`FinishRemoval` (the channel is closed; delete the entry, release the lock).
The goroutine is `BeginRun`, then one step per device (`SkipForeignDevice`,
`RejectDevice`, `Configure` with its two outcomes) and per claim, `CloseDone`
and `ExitRun`, which is the deferred `terminate()` on itself. `isDone`
answers yes for a process that has published no channel yet: that is what the
code does (`process.go:76`), and `SandboxGate` says so with its `pending`
tasks.

Sandboxes of one pod may follow each other, and a dead one may be removed while
its successor runs; containers are retried; other pods' handlers meet at the
lock.

### Driver

The kubelet's state of a pod, the API server's view of claims (`deviceStatus`,
`reservedFor`) and the handler's progress (`todo`, `stage`, `resultAt`,
`statusUpdates`, `updated`). The helper library fetches the claims once per
call; `fetched` is what it saw. Each device's allocation, the apply, and the
write to the store are steps, each with its errors; an apply may be served
and its answer lost (`ApplyAnswerLost`). `Panic` is the index out of range of
`driver.go:232`, which ends the process. Scheduler, API server and claim
controller (`Reserve`, `DeletePod`, `Unreserve`) are external: they reserve
claims for pods, delete pods, and drop reservations of deleted pods.

An allocated device status is a record of driver, type and name; which name an
allocation chooses is nondeterministic, like the random names of
`macvlan.go`. The server-side apply of the driver's field manager replaces the
driver's own entries and keeps those of other drivers (`Foreign`).

### NodeAgent

The driver registers first; the plugin registers when informer caches have
synced; until then, and while the process is down, the runtime goes on without
hooks. A crash wipes store, map and goroutines (`PluginDies`).

Its abstract specification is `ClaimHandover`: claims are stored for pods; a pod is
prepared when all of its claims are stored; a sandbox run for a prepared pod
is handed what is stored for it at that moment; its work is finished when each
of the claims handed over has been dealt with; a restart forgets all of this. The
mapping takes from the agent the pods the kubelet takes as prepared
(`HandoverPrepared`), the UIDs in the store (`HandoverStored`), and of each sandbox
the plugin was called for (`AtWork`) whether its goroutine has closed the done
channel (`HandoverWork`), the claims of its process (`HandoverHanded`) and those
that its cursor has passed (`HandoverSettled`). A sandbox that runs while the plugin
is not registered is none of the handover's.

### DeviceCache, DeviceNetworkController, Discovery

`LinkChanges` is the kernel; `PollDevices` the ticker; `SyncUnchanged`,
`SyncChanged`, `WriteStore` and the `Announce...` actions are `syncDevice`;
`StartWatch` and `Deliver` are client-go's informer (external), which writes the
same store again and calls handlers. `fate` remembers whether a name's
last event was sent, had no watcher, or was dropped.

`NetworkEvent` and `Resync` are the DeviceNetwork informer; `Reconcile`,
`ListDevices` (one per network, since each is a separate read of the cache),
`Publish` and `PublishFails` the worker. The work queue holds a single key, so
it is the Boolean `dirty`. Which network exposes which device in which state
is the constant relation `Exposes` here; `Advertising` defines it from the
code, and `AdvertisesOneByOne` (section 4) shows that it is such a relation.

The abstract specification of the two is `AdvertisedPool`: what the agent has of an
interface may change (`Change`), which it then owes to be told of; being told
(`Hear`), or a change of networks (`ListNetwork`), makes a new pool due; only when
one is due is a pool advertised (`Advertise`), and one that leaves none due agrees with
networks and interfaces, but for those owed. The mapping takes the lister, the cache's
store and what is published as they are; an interface is owed while the worker is
at it, an event of it is in the channel, or its last event had no watcher or was
dropped (`Untold`); a pool is due from the event that queues the key to the publication
that leaves the queue empty (`dirty \/ stage = "listing"`).

### DeviceTypes, Advertising

Operators for what the code computes without changing anything. An interface is
a record of the attributes the configurators and selectors read; a configuration
and a network are records with the fields of `types.go`; `Nil` is a field left
out. `GetDeviceType` and `GetMacvlan` put the defaults in, `IsSupported` and
`ExposedDevice` dispatch to the two configurators, whose exposed device is what
it takes of its interface's counter, whether it admits several allocations, and
how many. `List` narrows the interfaces expression by expression and passes
over a failing one, `DeviceForSelector` is the map by selector name whose later
entries replace earlier ones, `DeviceForDeviceConfiguration` the union of the
selectors a configuration names, `DeviceName` the join with dashes:
names are sequences of atoms, so two joins can be equal. What a CEL expression
says of an interface is the constant `Eval` (`"true"`, `"false"` or `"error"`).

### DeviceNetworkValidation, DocumentedNetworks

The validators return the errors they find. The generic ones of
`pkg/validation/helpers.go` take the validator of an item and its key as
functions. `DocumentedNetworks` is written without the code's loops and sets:
from all the rules in the comments of `types.go`, and from what a reader
expects a selector to select. Kinds of label values, node names, CIDRs and the
length and soundness of an expression are sets of atoms. The documentation has
more rules than the code checks; `KeepsUncheckedRules` names those that no line of the
validation looks at, and `ValidUpToUncheckedRules` says that nothing else
tells the accepted objects from the documented ones.

### Allocation

State: the DeviceNetworks, the lister's copy, the host device cache, the
published devices, the resolver's copy of them, and per claim its allocated and
its prepared device. `Publish` is `Reconcile`; `GetDevice` the resolver's
join; `Prepare` `allocateDevice` with it. Users (`EditNetwork`), informers,
scheduler (`Allocate`: shared counters, multiple allocations) and API server
(`Free`, unique device names in `Publish`) are external. A reconcile and a resolution
are one step each here, as their inner interleavings are `Discovery`'s.
`basis`, `counted` and `genuine` are history the properties need:
the edit a network was published at, whether an allocated device
has stayed advertised, and whether its network was unchanged at the preparation.

### PodNetwork

State: the namespace of each sandbox, the namespace of each host interface and
RDMA device, the macvlans that exist, and for each task (a device of a claim of
a sandbox) the place of its `Configure`: `idle`, `opened` (the handle of the
namespace is held), `resolved` (its RDMA devices are listed), `done`,
`failed`. Each netlink call that changes something is a step, with its error:
`GetNamespace`, `ResolveRdma`, `MoveRdma`, `MoveLink`, `AddMacvlan` and
their `...Fails`. The tasks of a sandbox run one after the other, those of
different sandboxes at once. The kernel is external: when a namespace is
unmounted and no handle is open, it gives back one device after the other
(`ReturnLink`, `ReturnRdma`, `DestroyMacvlan`) and ends. `away` remembers
that an interface or RDMA device was still elsewhere when Configure listed it.

### RandomIPAM

Addresses are sequences of bytes, with `ByteBits` bits a byte and
`AddressBytes` bytes. `GenerateRandomIP` is the set of addresses the function
may return, and empty where it returns an error; an empty set elsewhere would be
a loop that cannot end. `AppendIP` is one pass through the loop over the entries
of a configuration, and `AllocateIPs` the loop.

## 3. Runs

| run | checks | bounds | states |
|---|---|---|---|
| `nri` | `TypeOK`, `TerminatedStaysQuiet`, `NoClaimSkipped`, `IInv`, `HandlersReturn`, `ContainerEventuallyStarts`, `ImplementsGate` | one pod, two sandboxes one after the other, two claims of three devices (one foreign, one unusable) | 0.1 M |
| `driver` | `TypeOK`, `StoreNoDuplicates`, `PreparedIsStored`, `StoredIsPublished`, `IInv`, `CallAnswered` | two pods, a private and a shared claim, 3 calls, 1 restart | 0.66 M |
| `agent` | `TypeOK`, `PluginInvariant`, `ClaimsHandled`, `ClaimsReachSandbox`, `ImplementsHandover` | one pod and claim, two sandboxes, 2 calls, 1 restart | 0.65 M |
| `discovery` | `TypeOK`, `StoreFollowsSnapshot`, `NoLostWakeup`, `IInv`, `PresentAdvertised`, `ImplementsPool` | one interface with two states, two networks, 2 link changes, 1 network edit, a channel of 1 | 0.4 M |
| `allocation` | `TypeOK`, `ResolvedAsAllocated`, `Exclusive`, `VirtualInterfacesBounded`, `IInv`, `WritesValidUpToUncheckedRules`, `WritesExposeSelected` | two networks of three specs, one interface, three claims, a counter of 2, one edit of each network and one change of the interface; 7,800 objects | 0.58 M |
| `pod_network` | `TypeOK`, `ConfiguredIsThere`, `SplitIsReported`, `IInv`, `PreparedAddressesUsable`, `NothingStays` | three sandboxes, five tasks, two interfaces, two RDMA devices; addresses of two bytes of three bits | 0.15 M |
| six `violation` runs | one promise of a comment, doc or test each | as above | |

Why these bounds are enough to be interesting:

* Two sandboxes of one pod are needed for a removal that meets the process of
  a newer sandbox, and for a map entry that is replaced; a third would repeat the
  relation of the first two. The two differ in nothing else, so `OrderedSpec` lets the
  first come first, where a symmetry set would be unsound for liveness. Another pod
  could only contend for the lock, which the second sandbox does too; that no number of pods,
  sandboxes and claims breaks the safety properties is proved (section 4).
* Claims: a foreign device and an unusable one, then a second claim with a
  configurable one, so that each early return has something left to skip.
* Three prepare calls: one that fails, its repetition, and one of the other
  pod in between. One restart separates any two steps.
* A channel of one event is full after one undelivered event, like the
  1000 of the code after a thousand; two link changes suffice for an older event
  in flight to meet a newer write. Several interfaces interact only through the
  channel and the worker; with two of them and one network the invariants
  were also checked (3.4 M states), without liveness.
* Three claims on one interface are one more than its counter admits and than one
  configuration admits; the names of the two networks and of the
  configurations are chosen so that joins with dashes coincide; the specs
  let a configuration change its type under its name. Each network may be
  edited once, so every lister can lag. `Capacity` stands for the 65536 units
  of the counter, and `MaxVirtualDevices` is one less. Both bounds of
  `VirtualInterfacesBounded` are met: one device may have one macvlan here, and two
  devices together two.
* The sample objects are all combinations of small selector and configuration
  lists, at, below and above each limit, and objects that differ from a valid
  one in one respect, each of the unchecked rules among them: 163 are documented as
  valid and 289 are accepted. The two comparisons do not depend on the state and are
  evaluated in the initial states before anything exists (`Fresh`).
* Sandboxes 1 and 2 of `pod_network` want the same interface with RDMA devices
  one after the other; two macvlans draw one random name, so that the second is
  refused while the first is there, on an interface that another sandbox takes; the virtual parentless interface is the one that ends
  with its namespace. Every mask from no bits to all bits of two bytes is tried.
* `MaxRevision`, `MaxCalls`, `MaxCrashes`, `MaxChanges`, `MaxEdits` are the only bounds on counters and
  stop the environment, never the program.

`allocation` uses the symmetry of the claims; runs with liveness use none. `pod_network` does not check for deadlock:
each sandbox is run and stopped once, and then there is nothing left to do.

### Fairness

* Plugin: goroutines run (`WF` of `Goroutine`): Configure is a bounded number
  of netlink calls. `FinishRemoval` is weakly fair: once the channel is closed
  nobody can take the lock from the waiting handler. `RegisterProcess` and
  `StartContainer` are strongly fair: Go's mutexes do not starve a waiter, and
  the kubelet retries containers. No fairness for the runtime's other calls.
* Driver: weak fairness of its own steps: requests to the API server are
  answered or time out with an error.
* Discovery: the ticker ticks, worker and informers run; `Sync` of a name is
  strongly fair because the work queue is first in first out; publication is
  strongly fair: it may fail any number of times but not for ever.
* Pod network: the goroutine of each sandbox runs and netlink calls return (weak
  fairness); the kernel ends namespaces that nobody refers to (weak fairness of
  `Kernel`). No fairness for the runtime: a sandbox may run for ever.

### What the violation runs show

Each is a disagreement between the code and a comment, document or test;
details are under `findings` in `PROJECT.json`.

* `nri_start_needs_configured`: a container starts although no device of its
  sandbox is configured: `isDone` says yes before the first step of the goroutine
  (`process.go:76`), and also after one that failed and only logged it.
* `nri_removed_stays_quiet`: a removal before the goroutine's first step
  waits for nothing; the goroutine then works in a removed sandbox.
* `driver_reservation`: `ReservedFor[0]` of a newer object than the one whose
  length was checked.
* `driver_store_follows_status`: a repeated preparation replaces the status
  and not the stored claim.
* `discovery_removed`: an interface that is gone stays advertised, as only
  existing interfaces are polled (`cache.go:356`).

* `pod_network_returned`: a device is said to be supported only if it is returned to the
  host (`hostdevice.go:50-51`, `docs/proposal.md:588`). `IsSupported` admits every virtual
  interface without parent and master but four kinds, `Release` does nothing,
  and the kernel destroys such an interface, like the dummy interface that `docs/demo.md` has
  advertised as a host device, with the pod's namespace. Physical interfaces do
  come back, by the kernel alone.

Read in the code and not stated as runs:

* The cancelled context is ignored by the claim loop and the configurators, so
  a removal waits, with `p.mu` held, for all remaining devices. The map is keyed
  by pod: the removal of a dead sandbox ends the process of its successor, and a
  replaced process is waited for by nobody.
* Stored claims are never deleted, and a restart forgets them (`memory.go:35`);
  the plugin is registered after the driver (`run.go:179`), so a sandbox that runs
  in between is served by nobody. `ClaimsReachSandbox` excludes both.
* A dropped event leaves the device store wrong until the link changes again
  (`StoreFollowsSnapshot` and `PresentAdvertised` exclude such names).
* `types.go:128-129` says that each selector must be satisfied; a failing
  expression is passed over (`cache.go:231`), and the list is not narrowed by it
  at all. `WritesExposeSelected` excludes expressions that fail for a device of
  the host.
* Validation is called by tests only, so the limits and the uniqueness of
  names are not enforced on objects that reach the reconciler. Nor is a network
  kept from being edited or deleted while in use (`docs/proposal.md:592-594`).
  That is why `ResolvedAsAllocated` and `Exclusive` only speak of networks
  unchanged since (`genuine`), of devices still advertised (`counted`), and of
  unambiguous names (`Ambiguous`: the todo of `reconciler.go:202`).
* Validation looks at neither of these rules of `types.go`: a selector and a
  configuration must have a name (`124`, `199`; an empty one is accepted); an
  expression must be CEL within a cost limit (`160-182`; a TODO at `validation.go:107`);
  a macvlan's mode is one of five (`252-276`); an IPAM provider is one of two, `random`
  goes with `Random` only and holds a CIDR (`294-320`). Of an object that breaks them, a bad
  mode is not advertised (`macvlan.go`), a bad expression narrows nothing, a bad CIDR
  fails the preparation of each claim, and the others pass unnoticed.
  `ValidUpToUncheckedRules` is stated up to exactly these. (That a selector must be
  referenced, `types.go:118`, is checked: `validation.go:70-72`.)
* The documented maximum of macvlans on one parent device, 65535
  (`attributes.go:69-72`, `docs/demo.md:72-75`), does not hold if two configurations or networks
  expose the interface. Each of their devices admits 65535 allocations, and together they
  are only bounded by the counter they share, of 65536 units: one macvlan too many.
  `VirtualInterfacesBounded` states the documented bound where it holds, per device and so per
  interface that one device exposes, and the exceeded one elsewhere.
* The interface comes back to the host without its original state
  (`docs/proposal.md:588`): nothing in the code
  restores what the kernel takes from it in a move, its addresses and that it was up.
* RDMA devices come back after their interface or before it, so the next pod's
  Configure may find the interface alone and succeed (`away` in
  `ConfiguredIsThere`).
* Addresses of a claim are published in its status, but `Configure` neither
  assigns them nor sets an interface up (`types.go:103-106`).

## 4. Proofs

`tlapm` checks every theorem to its leaves, for any sets of pods, sandboxes,
claims, networks, interfaces and devices and any bounds. Every invariant and
every action property of the passing runs is proved, and so are the three refinements
(of `SandboxGate` all but its fairness). What the proofs assume of
the constants is named where the constants are declared, and TLC evaluates it
in a run:

* `PluginAssumption`, `DriverAssumption`, `NodeAgentAssumption`,
  `DiscoveryAssumption`, `PodNetworkAssumption`: types; `None`, `Absent`,
  `Host` and `Destroyed` differ from every element.
* `NilAssumption`: a device type that is left out is none of the types.
* `AllocationAssumption`: every spec a user writes has the shape of a
  `DeviceNetworkSpec` (`IsDeviceNetworkSpec`: lists are lists); `Nil` is none of the
  values it stands beside; there are finitely many claims, as in the API server;
  a counter has at least one unit.
* `SamplesAssumption`: the samples have that shape too.
* `RandomIPAMAssumption`: bytes have bits, addresses have bytes, and a CIDR that does
  not parse is no subnet.

`NriPluginProofs`
* `TypeCorrect`: `TypeOK` is inductive on its own.
* `Inductive`: `Spec => []IInv`. `TerminatedStaysQuiet` is not inductive: that
  the victim has stopped when the lock is released needs the done channel to
  tell where the goroutine is (`DoneTellsRun`), the lock to be the removal's
  and its victim to stay in the map (`LockedByRemoval`), map entries to be
  started processes (`EntriesAreSpawned`) and a read channel to be that of a
  started process (`RemovalWaited`). These four are preserved together (lemma
  `ControlPreserved`). `NoClaimSkipped` needs that nothing unsettled lies behind
  the cursors (`CursorsLeaveNothing`), preserved separately, sandbox by sandbox.
* `TerminationWaits` and `EveryClaimHandled` draw the two safety properties
  from it.
* `GateImplemented`: `Spec => Gate!SafeSpec`. Initial states map to initial
  states and each step to a step of the gate or a stutter, under `IInv`.
  The mapping hides a lock: a removal that found no channel untracks the pod in
  the gate when it takes the lock, and in the code when it releases it.

`DriverProofs`
* `TypeCorrect`; `NoDuplicates`, from lemmas about `Add` (it holds what is
  added, keeps what was there, keeps UIDs unique).
* `Inductive` and `PreparedStored`: the kubelet trusts a call only if no claim
  failed, so during a call of a live pod each of its claims is still to come,
  failed, or stored (`ClaimsAccountedFor`); for the store to be where the plugin
  looks, the first reservation of a claim must stay the caller while the pod
  lives (`CallerStaysFirst`), also in the object the API server answered
  with (`StoringForCaller`).
* `PublishedStored`: `StoredIsPublished`, from `PublishedInv`: whatever is stored,
  or on its way to the store, has been applied, so a first apply finds nothing
  stored of its claim, and a later one is out of the property.

`NodeAgentProofs`
* Every step of the process is a step of the driver or a stutter
  (`StepsOfTheDriver`), so the driver's invariant is taken over from
  `DriverProofs`, instantiated; so is the plugin's from `NriPluginProofs` for its
  own steps, and shown for the two kinds of steps it does not have on its own:
  the death of the process (`DeathOfPlugin`) and the runtime without the plugin
  (`WithoutPlugin`). `TypeCorrect` and `PluginSurvives` follow. The `Same...`
  lemmas say that an operator is the same under both instances' names.
* `ClaimsArrive`: `Spec => ClaimsReachSandbox`, an action property: the step that
  runs a sandbox reads the store, which `PreparedIsStored` says is complete.
* `HandoverImplemented`: `Spec => Handover!Spec`, all of the abstract specification,
  which has no fairness. A call the kubelet trusts is a `Prepare` because
  `ClaimsAccountedFor` leaves each claim of the pod nothing but to be stored
  (`AnswerHandsOver`); a cursor that moves on is a `Settle` of one claim
  (`PassingSettles`); a goroutine that closes its channel is a `Finish` because
  it does so only behind its last claim (`CloseFinishes`), which needs `DoneTellsRun`
  and the types of the cursors; a crash is the `Restart` (`CrashForgets`).
* `HandoverSettlesAll`: the abstract specification alone implies `AllClaimsSettled`,
  by `HandoverInv`. `PreparedIsHandled`: `Spec => []ClaimsHandled` takes it back to
  the code through the mapping, and adds from `CursorsLeaveNothing` that a claim the
  cursor has passed is configured or has its error logged.

`DiscoveryProofs`
* `StoreConverges`: `StoreFollowsSnapshot` needs that before the informer watches
  nothing is in flight and the worker has written what it announces to nobody
  (`UnwatchedIsWritten`); the proof follows the newest event of each name
  through the channel.
* `PoolImplemented`: `Spec => Pool!Spec`, all of it, as there is no fairness in it. Of the
  cache's steps only a delivery ends an owing, and only of its own interface
  (`DeliverTells`, on the channel's other events); taking up a changed link begins one
  (`SyncOwes`), and announcing it in whatever way does not end it (`AnnounceOwes`). A
  publication that leaves nothing due agrees with the state by `GatheredIsCurrent`, and
  holds only what networks expose by `OnlyExposed`. `PoolStaysCurrent` is what the abstract
  pool promises from its own steps: none due, then right about all it was told.
* `WakeupsKept`: `NoLostWakeup` needs that what a reconcile has gathered is
  current unless the next one is queued (`GatheredIsCurrent`); a name is told of
  again only in a step that wakes the controller (`CacheTold`, `EntryStays`).

`PodNetworkProofs`
* `TypeCorrect` is inductive on its own. `Inductive`: `Spec => []IInv`.
  `ConfiguredIsThere` needs that while RDMA devices are being moved each of
  them is still listed or already in the sandbox (`ResolvedIsHeld`); `SplitIsReported` that
  no task has begun, and nothing lies, in a namespace not yet run
  (`StartedIsSupported`).
* `ConfiguredStays` and `MovedAloneIsReported` draw the two safety properties
  from it. Neither speaks of RDMA devices that stayed on the host because
  Configure did not find them there (`away`): that split goes unreported. That tasks of one sandbox run in order, or that two pods
  never hold one interface, is not needed for either.
* `RandomUsable`: the values of `GenerateRandomIP` are all of the subnet's but the
  first and the last, for bytes of any width and addresses of any length. The
  value of an address is followed byte by byte (`Upto`): adding host bits adds
  their value (`ValueAdds`), host bits stay below the subnet's last address and
  reach it or zero only if every byte does (`HostBitsUpto`), and every number
  between is the value of some host bits (`HostBitsReach`, division by the number
  of values of a byte). A mask that ends in a byte leaves a power of two in it
  (`MaskFacts`). `AddressesUsable` is this fact in every state.

`FoldLemmas`
* The folds of the community modules choose a recursive function; `RecursionExists`
  shows that there is one, so that what is chosen satisfies its equations.
  Induction over finite sets and over numbers is by a smallest counterexample
  (`SmallestSubset`, `LeastNumber`), since the provers cannot instantiate
  an induction theorem that takes an operator.
* `SumAtLeast`: a sum is no less than each of its summands, nor than the number of
  summands above zero. `PowerDoubles` and `PowerOfSum`: the provers know nothing of
  `2^n`; it is the number of subsets of `1..n`, counted with and without `n`.

`SelectionProofs`
* `ValidatesUpToUncheckedRules`: every spec is `Documented` exactly if the validators find
  no error in it and it keeps the unchecked rules; so all that is documented is
  accepted, and whatever else is breaks a rule that `KeepsUncheckedRules` names. One
  lemma per validator (`CheckedSelector` and `CheckedConfiguration` are the documented
  rules without those): `SetValid` says where
  the code's search for duplicates finds one, `AtMostAsManyNames` that distinct references
  to known names are no more than the names, so that no separate limit can be exceeded.
* `AdvertisesSelected`: for every spec with distinct selector names and every host
  on which no expression fails, the devices that `getResources` lists for the
  node are the supported ones that a configuration selects. `ListSelects`
  unfolds the fold of `List` selector by selector, `SelectorSelects` and
  `ConfigurationSelects` follow the two maps of the reconciler.
* `AdvertisesOneByOne`: on such a host, for any specs, what is advertised is the union
  of what each network alone exposes of each device alone: nothing a network or a
  device adds changes what is advertised of another. `Discovery` takes what is
  advertised for a relation of networks and devices (`Exposes`) for this reason. It is false
  once an expression fails, as then one device decides for all
  (`cache.go:231`), and it does not need distinct selector names.
* The runs' comparisons on samples, and with them `WrittenAreValidated` and
  `WrittenExposeSelected` of `AllocationProofs`, are instances of these two.

`AllocationProofs`
* `TypeCorrect`; `Inductive`: `Spec => []IInv`. `ResolvedAsAllocated` is not inductive:
  the resolver reads the device's configuration from a lister that may have moved
  on since the device was published. `RevisionsRemembered` says that the lister never
  goes back behind the revision of a published or allocated device, and that while it
  shows that revision, the spec still has the device's configuration;
  `ListerFollows`, that a lister at a network's last revision shows the network.
* `SharesFit` bounds what is allocated, where `Exclusive` and
  `VirtualInterfacesBounded` speak of what is prepared. It is preserved by an
  allocation because `Consumed` is a sum over the claims that hold a device of the
  slices: a host device takes a whole counter and a macvlan one unit
  (`SumAtLeast`), which needs that whoever counts is seen by the scheduler under a
  name that no other device has (`CountedIsSeen`: a publication that kept the old
  devices beside the new ones would break it, `PublishAdded`).
* `PreparedAsAllocated`, `HostDevicesExclusive` and `MacvlansBounded` draw the three
  safety properties from it, the last with the bound that the shared counter leaves where
  several devices expose an interface. None needs injective names: `Ambiguous` names are excluded
  from the property and not by an assumption.

Only model-checked: the liveness properties `HandlersReturn`,
`ContainerEventuallyStarts`, `CallAnswered`, `PresentAdvertised` and `NothingStays`, and
the liveness part of `ImplementsGate`: fairness and `ENABLED` are out of the
prover's reach.

## 5. Not modelled, and the plan

Not modelled: the translation of a netlink link to a `DeviceSpec`
(`host/cache.go`, `attributes.go`), which is data throughout; the options of
`run()` and the order in which its other goroutines start; `Delete` of the
store, which no code calls; the shape of claim statuses; collisions of random
addresses between claims, which the program does not exclude. Logging, generated
code (client, informers, listers, deepcopy) and the command line stay out:
they hold no logic of this program.

Next theorems: the invariants of `DriverProofs` for several drivers that apply to
one claim, and `ResolvedAsAllocated` with a reconcile that lists network by network, as
`Discovery` has it.
