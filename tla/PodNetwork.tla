------------------------------ MODULE PodNetwork ------------------------------
(***************************************************************************)
(* What the configurators do to the host's interfaces and the pods'        *)
(* network namespaces: Configure of pkg/configurators/hostdevice.go and    *)
(* macvlan.go, with pkg/host/rdma.go, and the kernel they rely on to undo  *)
(* it, since Release does nothing.                                         *)
(*                                                                         *)
(* A task is one device of a claim that process.go has its configurator    *)
(* configure; the tasks of a sandbox run one after the other, whatever     *)
(* became of those before.  A sandbox may be stopped, and removed, while   *)
(* its tasks run (NriPlugin.tla).                                          *)
(*                                                                         *)
(* Granularity.  Every netlink call that changes something is a step, and  *)
(* so is reading sysfs.  LinkByName and LinkSetNsFd are one: a link that   *)
(* leaves in between fails the one like the other.  The order in which     *)
(* RDMA devices are moved is left open.                                    *)
(***************************************************************************)
EXTENDS DeviceTypes, FiniteSets

CONSTANTS
    Sandboxes,       \* pod sandboxes, each with a network namespace
    Tasks,
    SandboxOf,       \* [Tasks -> Sandboxes]
    Earlier,         \* the tasks of the sandbox that come before a task
    HostDevice,      \* the host device of a task, as stored in the claim
    ConfigurationOf, \* its device configuration, as stored in the claim
    HostDevices,     \* the host's network interfaces
    RdmaDevices,
    NetdevOf,        \* the interface whose PCI device backs an RDMA device
    RandomNames,     \* what randomName may return for a task
    Host, Destroyed  \* the host's network namespace; no namespace at all

ASSUME PodNetworkAssumption ==
    /\ SandboxOf \in [Tasks -> Sandboxes]
    /\ Earlier \in [Tasks -> SUBSET Tasks]
    /\ HostDevice \in [Tasks -> HostDevices]
    /\ NetdevOf \in [RdmaDevices -> HostDevices]
    /\ Host \notin Sandboxes /\ Destroyed \notin Sandboxes \cup {Host}

VARIABLES
    namespace,       \* of a sandbox: none, alive, unmounted or gone
    linkAt,          \* the namespace an interface is in
    rdmaAt,          \* the namespace an RDMA device is in
    macvlans,        \* the macvlans there are: their task and their name
    interfaceName,   \* the name that Allocate has chosen for a task
    pc,              \* where Configure is for a task
    rdmaDevices,     \* the RDMA devices Configure has found and not moved
    away             \* history: a device was not on the host when it looked

vars == <<namespace, linkAt, rdmaAt, macvlans, interfaceName, pc, rdmaDevices, away>>

DeviceTypeOf(t) == GetDeviceType(ConfigurationOf[t])

RdmaOf(i) == {r \in RdmaDevices : NetdevOf[r] = i}

TypeOK ==
    /\ namespace \in [Sandboxes -> {"none", "alive", "unmounted", "gone"}]
    /\ linkAt \in [HostDevices -> Sandboxes \cup {Host, Destroyed}]
    /\ rdmaAt \in [RdmaDevices -> Sandboxes \cup {Host}]
    /\ macvlans \subseteq Tasks
    /\ pc \in [Tasks -> {"idle", "opened", "resolved", "done", "failed"}]
    /\ rdmaDevices \in [Tasks -> SUBSET RdmaDevices]
    /\ \A t \in Tasks : rdmaDevices[t] \subseteq RdmaOf(HostDevice[t])
    /\ away \in [Tasks -> BOOLEAN]

(* Allocate of the two configurators: the interface's own name, and a      *)
(* random name for a new interface that nobody compares with others.       *)
AllocatedNames(t) ==
    IF DeviceTypeOf(t) = "HostDevice"
    THEN {HostDevice[t].interfaceName} ELSE RandomNames[t]

(* The claims have been prepared.                                          *)
Init ==
    /\ namespace = [s \in Sandboxes |-> "none"]
    /\ linkAt = [i \in HostDevices |-> Host]
    /\ rdmaAt = [r \in RdmaDevices |-> Host]
    /\ macvlans = {}
    /\ interfaceName \in {f \in [Tasks -> UNION {AllocatedNames(t) : t \in Tasks}] :
                            \A t \in Tasks : f[t] \in AllocatedNames(t)}
    /\ pc = [t \in Tasks |-> "idle"]
    /\ rdmaDevices = [t \in Tasks |-> {}]
    /\ away = [t \in Tasks |-> FALSE]

-----------------------------------------------------------------------------
(* Scheduler and container runtime                                         *)

(* The tasks of the two sandboxes may not share an interface at a time     *)
(* (Allocation.tla: Exclusive).                                            *)
Conflict(s1, s2) ==
    \E t1, t2 \in Tasks :
       /\ SandboxOf[t1] = s1 /\ SandboxOf[t2] = s2
       /\ HostDevice[t1] = HostDevice[t2]
       /\ "HostDevice" \in {DeviceTypeOf(t1), DeviceTypeOf(t2)}

(* A pod whose claims hold advertised devices gets its sandbox, after the  *)
(* sandboxes that held them before have been stopped.                      *)
RunPodSandbox(s) ==
    /\ namespace[s] = "none"
    /\ \A t \in Tasks : SandboxOf[t] = s => IsSupported(HostDevice[t], ConfigurationOf[t])
    /\ \A other \in Sandboxes \ {s} : namespace[other] = "alive" => ~Conflict(s, other)
    /\ namespace' = [namespace EXCEPT ![s] = "alive"]
    /\ UNCHANGED <<linkAt, rdmaAt, macvlans, interfaceName, pc, rdmaDevices, away>>

(* Its processes end and the file of its namespace is unmounted.           *)
StopPodSandbox(s) ==
    /\ namespace[s] = "alive"
    /\ namespace' = [namespace EXCEPT ![s] = "unmounted"]
    /\ UNCHANGED <<linkAt, rdmaAt, macvlans, interfaceName, pc, rdmaDevices, away>>

-----------------------------------------------------------------------------
(* Configure                                                               *)

Ended(t) == pc[t] \in {"done", "failed"}

(* The goroutine of the sandbox is at this task.                           *)
Turn(t) ==
    /\ namespace[SandboxOf[t]] # "none"
    /\ \A e \in Earlier[t] : Ended(e)

Goto(t, label) == pc' = [pc EXCEPT ![t] = label]

(* Every return closes the handle of the namespace (hostdevice.go:220-224, *)
(* macvlan.go:209-213).                                                    *)
Fail(t) ==
    /\ Goto(t, "failed")
    /\ UNCHANGED <<namespace, linkAt, rdmaAt, macvlans, interfaceName, rdmaDevices, away>>

(* netns.GetFromPath: the handle keeps the namespace.                      *)
GetNamespace(t) ==
    /\ pc[t] = "idle" /\ Turn(t)
    /\ Goto(t, IF namespace[SandboxOf[t]] = "alive" THEN "opened" ELSE "failed")
    /\ UNCHANGED <<namespace, linkAt, rdmaAt, macvlans, interfaceName, rdmaDevices, away>>

(* Discovery that lists the RDMA devices of the whole host.                *)
AllRDMADevices(i) == {r \in RdmaDevices : rdmaAt[r] = Host}

(* sysfs lists the RDMA devices of an interface that are on the host like  *)
(* it, and no error if there are none.                                     *)
RDMADevicesForNetdev(i) ==
    IF linkAt[i] = Host THEN {r \in RdmaOf(i) : rdmaAt[r] = Host} ELSE {}

ResolveRdma(t) ==
    LET i == HostDevice[t]
    IN  /\ pc[t] = "opened" /\ DeviceTypeOf(t) = "HostDevice"
        /\ rdmaDevices' = [rdmaDevices EXCEPT ![t] = RDMADevicesForNetdev(i)]
        /\ away' = [away EXCEPT ![t] = RDMADevicesForNetdev(i) # RdmaOf(i)]
        /\ Goto(t, "resolved")
        /\ UNCHANGED <<namespace, linkAt, rdmaAt, macvlans, interfaceName>>

(* The directory is there and cannot be read.                              *)
ResolveRdmaFails(t) ==
    /\ pc[t] = "opened" /\ DeviceTypeOf(t) = "HostDevice"
    /\ Fail(t)

MoveRdma(t) ==
    /\ pc[t] = "resolved"
    /\ \E r \in rdmaDevices[t] :
          /\ rdmaAt[r] = Host
          /\ rdmaAt' = [rdmaAt EXCEPT ![r] = SandboxOf[t]]
          /\ rdmaDevices' = [rdmaDevices EXCEPT ![t] = @ \ {r}]
    /\ UNCHANGED <<namespace, linkAt, macvlans, interfaceName, pc, away>>

(* The RDMA devices moved so far stay where they are.                      *)
MoveRdmaFails(t) ==
    /\ pc[t] = "resolved" /\ rdmaDevices[t] # {}
    /\ Fail(t)

(* The link goes first, and the RDMA devices no more.                      *)
MoveLinkFirst(t) ==
    /\ pc[t] = "resolved"
    /\ linkAt[HostDevice[t]] = Host
    /\ linkAt' = [linkAt EXCEPT ![HostDevice[t]] = SandboxOf[t]]
    /\ Goto(t, "done")
    /\ UNCHANGED <<namespace, rdmaAt, macvlans, interfaceName, rdmaDevices, away>>

MoveLink(t) ==
    /\ pc[t] = "resolved" /\ rdmaDevices[t] = {}
    /\ linkAt[HostDevice[t]] = Host
    /\ linkAt' = [linkAt EXCEPT ![HostDevice[t]] = SandboxOf[t]]
    /\ Goto(t, "done")
    /\ UNCHANGED <<namespace, rdmaAt, macvlans, interfaceName, rdmaDevices, away>>

(* An error that is taken for the end of the work.                         *)
MoveLinkIgnored(t) ==
    /\ pc[t] = "resolved" /\ rdmaDevices[t] = {}
    /\ Goto(t, "done")
    /\ UNCHANGED <<namespace, linkAt, rdmaAt, macvlans, interfaceName, rdmaDevices, away>>

(* The link is not found, or the kernel does not move it.                  *)
MoveLinkFails(t) ==
    /\ pc[t] = "resolved" /\ rdmaDevices[t] = {}
    /\ Fail(t)

(* The kernel looks the parent up on the host and takes no name twice.     *)
AddMacvlan(t) ==
    /\ pc[t] = "opened" /\ DeviceTypeOf(t) = "Macvlan"
    /\ GetMacvlan(ConfigurationOf[t]).mode \in MacvlanMode
    /\ linkAt[HostDevice[t]] = Host
    /\ \A m \in macvlans : SandboxOf[m] = SandboxOf[t] => interfaceName[m] # interfaceName[t]
    /\ macvlans' = macvlans \cup {t}
    /\ Goto(t, "done")
    /\ UNCHANGED <<namespace, linkAt, rdmaAt, interfaceName, rdmaDevices, away>>

AddMacvlanFails(t) ==
    /\ pc[t] = "opened" /\ DeviceTypeOf(t) = "Macvlan"
    /\ Fail(t)

Configure(t) ==
    \/ GetNamespace(t)
    \/ ResolveRdma(t) \/ ResolveRdmaFails(t)
    \/ MoveRdma(t) \/ MoveRdmaFails(t)
    \/ MoveLink(t) \/ MoveLinkFails(t)
    \/ AddMacvlan(t) \/ AddMacvlanFails(t)

-----------------------------------------------------------------------------
(* The kernel: a namespace without a file, processes or handles gives back *)
(* what it holds, one by one, and ends.                                    *)

(* An error path that forgets to close the handle.                         *)
HandleLeaked(t) == pc[t] \in {"opened", "resolved", "failed"}

HandleOpen(t) == pc[t] \in {"opened", "resolved"}

CleaningUp(s) ==
    /\ namespace[s] = "unmounted"
    /\ \A t \in Tasks : SandboxOf[t] = s => ~HandleOpen(t)

(* An interface of some link kind ends with its namespace, a physical one  *)
(* goes back to the host.                                                  *)
ReturnLink(i) ==
    /\ linkAt[i] \in Sandboxes /\ CleaningUp(linkAt[i])
    /\ linkAt' = [linkAt EXCEPT ![i] = IF i.deviceType = "device" THEN Host ELSE Destroyed]
    /\ UNCHANGED <<namespace, rdmaAt, macvlans, interfaceName, pc, rdmaDevices, away>>

ReturnRdma(r) ==
    /\ rdmaAt[r] \in Sandboxes /\ CleaningUp(rdmaAt[r])
    /\ rdmaAt' = [rdmaAt EXCEPT ![r] = Host]
    /\ UNCHANGED <<namespace, linkAt, macvlans, interfaceName, pc, rdmaDevices, away>>

DestroyMacvlan(t) ==
    /\ t \in macvlans /\ CleaningUp(SandboxOf[t])
    /\ macvlans' = macvlans \ {t}
    /\ UNCHANGED <<namespace, linkAt, rdmaAt, interfaceName, pc, rdmaDevices, away>>

EndNamespace(s) ==
    /\ CleaningUp(s)
    /\ \A i \in HostDevices : linkAt[i] # s
    /\ \A r \in RdmaDevices : rdmaAt[r] # s
    /\ \A t \in macvlans : SandboxOf[t] # s
    /\ namespace' = [namespace EXCEPT ![s] = "gone"]
    /\ UNCHANGED <<linkAt, rdmaAt, macvlans, interfaceName, pc, rdmaDevices, away>>

Kernel ==
    \/ \E i \in HostDevices : ReturnLink(i)
    \/ \E r \in RdmaDevices : ReturnRdma(r)
    \/ \E t \in Tasks : DestroyMacvlan(t)
    \/ \E s \in Sandboxes : EndNamespace(s)

Next ==
    \/ \E s \in Sandboxes : RunPodSandbox(s) \/ StopPodSandbox(s)
    \/ \E t \in Tasks : Configure(t)
    \/ Kernel

Spec == Init /\ [][Next]_vars

(* Goroutines run and netlink calls return; the kernel ends namespaces     *)
(* that nobody refers to.                                                  *)
Goroutine(s) == \E t \in Tasks : SandboxOf[t] = s /\ Configure(t)

FairSpec == Spec /\ (\A s \in Sandboxes : WF_vars(Goroutine(s))) /\ WF_vars(Kernel)

-----------------------------------------------------------------------------
(* A configured device is in its running sandbox: an interface with all of *)
(* its RDMA devices (hostdevice.go:231-247, rdma.go:27-34), or the macvlan *)
(* under its name (macvlan.go:226-240).  Not so for RDMA devices that were *)
(* not on the host when Configure looked, in a namespace that was not yet  *)
(* cleaned up: it then takes the interface to have fewer, or none, and     *)
(* succeeds.                                                               *)
ConfiguredIsThere ==
    \A t \in Tasks :
        pc[t] = "done" /\ namespace[SandboxOf[t]] = "alive" =>
            IF DeviceTypeOf(t) = "HostDevice"
            THEN /\ linkAt[HostDevice[t]] = SandboxOf[t]
                 /\ ~away[t] => \A r \in RdmaOf(HostDevice[t]) : rdmaAt[r] = SandboxOf[t]
            ELSE t \in macvlans

(* RDMA devices in a running sandbox without their interface: Configure is *)
(* at work there or has returned an error (hostdevice.go:244-262).  It     *)
(* says nothing of the other split, an interface whose RDMA devices        *)
(* Configure has left on the host (`away' above): no error tells of that.  *)
SplitIsReported ==
    \A r \in RdmaDevices :
        LET s == rdmaAt[r]
        IN  s # Host /\ namespace[s] = "alive" /\ linkAt[NetdevOf[r]] # s =>
               \E t \in Tasks :
                  /\ SandboxOf[t] = s /\ HostDevice[t] = NetdevOf[r]
                  /\ pc[t] \in {"resolved", "failed"}

(* The interfaces, RDMA devices and macvlans of a stopped sandbox do not   *)
(* stay in its namespace, even if Configure works in it, or failed in it   *)
(* half way (the comments of Release, hostdevice.go:269-275 and            *)
(* macvlan.go:247-250).                                                    *)
NothingStays ==
    \A s \in Sandboxes :
        namespace[s] = "unmounted" ~>
            /\ \A i \in HostDevices : linkAt[i] # s
            /\ \A r \in RdmaDevices : rdmaAt[r] # s
            /\ \A t \in macvlans : SandboxOf[t] # s

-----------------------------------------------------------------------------
(* What a comment promises and the code does not keep                      *)

(* A device that IsSupported admits comes back from the pod, whose end it  *)
(* survives: "A device is supported only if it can be safely moved into    *)
(* the pod network namespace and returned to the host when the pod is      *)
(* deleted" (hostdevice.go:50-51).  IsSupported takes any virtual          *)
(* interface without a parent, too, but four kinds (95-97), such as the    *)
(* dummy0 of docs/demo.md, and the kernel destroys it with the namespace.  *)
SupportedReturns ==
    \A t \in Tasks :
        DeviceTypeOf(t) = "HostDevice" /\ IsSupported(HostDevice[t], ConfigurationOf[t]) =>
            linkAt[HostDevice[t]] # Destroyed

-----------------------------------------------------------------------------
(* What makes the safety properties inductive                              *)

(* Only host devices are resolved, and what Configure has found is still   *)
(* to be moved or in the sandbox.                                          *)
ResolvedIsHeld ==
    \A t \in Tasks : pc[t] = "resolved" =>
        /\ DeviceTypeOf(t) = "HostDevice"
        /\ ~away[t] /\ namespace[SandboxOf[t]] = "alive" =>
              \A r \in RdmaOf(HostDevice[t]) :
                  r \in rdmaDevices[t] \/ rdmaAt[r] = SandboxOf[t]

(* Tasks begin, and devices are moved, once the sandbox has been run with  *)
(* devices that are supported.                                             *)
StartedIsSupported ==
    /\ \A t \in Tasks : namespace[SandboxOf[t]] # "none" =>
                            IsSupported(HostDevice[t], ConfigurationOf[t])
    /\ \A t \in Tasks : pc[t] # "idle" => namespace[SandboxOf[t]] # "none"
    /\ \A r \in RdmaDevices : rdmaAt[r] # Host => namespace[rdmaAt[r]] # "none"

(* All of it together: every step preserves it, whatever the interfaces,   *)
(* claims and sandboxes are.                                               *)
IInv ==
    /\ TypeOK
    /\ ResolvedIsHeld
    /\ StartedIsSupported
    /\ ConfiguredIsThere
    /\ SplitIsReported
=============================================================================
