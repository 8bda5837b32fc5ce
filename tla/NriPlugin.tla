------------------------------ MODULE NriPlugin ------------------------------
(***************************************************************************)
(* The NRI plugin of the node agent: pkg/nri/plugin.go and process.go.     *)
(*                                                                         *)
(* RunPodSandbox starts a goroutine that configures the devices of the     *)
(* pod's claims in the sandbox's network namespace; StartContainer lets a  *)
(* container start or refuses it, by looking at that goroutine;            *)
(* RemovePodSandbox stops the goroutine and waits for it.                  *)
(*                                                                         *)
(* Granularity.  The critical sections of p.mu are steps, except the one   *)
(* of RemovePodSandbox, which blocks inside and is two steps with the lock *)
(* held between them.  The critical sections of cp.mu never block, so they *)
(* are parts of the steps that contain them.  One configurationProcess is  *)
(* made per RunPodSandbox call, so it is identified with its sandbox, and  *)
(* several sandboxes of one pod may follow each other.  Handlers of        *)
(* different pods may overlap, and so may those of a pod's dead sandboxes  *)
(* and its current one.                                                    *)
(***************************************************************************)
EXTENDS PodResourceStore, FiniteSets

CONSTANTS
    Sandboxes,       \* pod sandboxes the container runtime creates
    PodOf,           \* the pod UID of each sandbox
    DriverName,      \* the driver name the plugin was started with
    Configurators,   \* the device types with an entry in deviceConfigurators
    None,            \* absence of a map entry, or of a lock holder
    ClaimPool        \* the claims the driver may store, and for which pod

ASSUME PluginAssumption ==
    /\ PodOf \in [Sandboxes -> Pods]
    /\ None \notin Sandboxes
    /\ ClaimPool \subseteq Pods \X StoredClaim

VARIABLES
    podResources,    \* the store the driver writes
    processes,       \* p.configurationProcesses: pod UID -> process
    mu,              \* p.mu: the sandbox whose handler holds it across steps
    claims,          \* cp.claims
    run,             \* where the goroutine of cp.run is
    done,            \* cp.done: nil, an open channel, a closed one
    cancel,          \* cp.cancel: unset, set, or taken and called
    claimAt,         \* cursor of the loop over cp.claims
    deviceAt,        \* cursor of the loop over claim.Status.Devices
    configured,      \* <<claim, device>> positions Configure succeeded for
    failed,          \* positions of the claims whose error was logged
    phase,           \* what the runtime knows of the sandbox
    answer,          \* the last answer of StartContainer for the sandbox
    victim,          \* RemovePodSandbox's local variable process
    waits            \* whether its terminate() read a done channel

process == <<claims, run, done, cancel, claimAt, deviceAt, configured, failed>>
removal == <<victim, waits>>
vars == <<podResources, processes, mu, process, phase, answer, removal>>

-----------------------------------------------------------------------------

(* The goroutine is between publishing its done channel and closing it.    *)
Busy == {"looping", "configuring"}

TypeOK ==
    /\ podResources \in Store
    /\ processes \in [Pods -> Sandboxes \cup {None}]
    /\ mu \in Sandboxes \cup {None}
    /\ claims \in [Sandboxes -> Seq(StoredClaim)]
    /\ run \in [Sandboxes -> {"none", "spawned", "closing", "exited"} \cup Busy]
    /\ done \in [Sandboxes -> {"nil", "open", "closed"}]
    /\ cancel \in [Sandboxes -> {"unset", "armed", "fired"}]
    /\ claimAt \in [Sandboxes -> Nat \ {0}]
    /\ deviceAt \in [Sandboxes -> Nat \ {0}]
    /\ configured \in [Sandboxes -> SUBSET (Nat \X Nat)]
    /\ failed \in [Sandboxes -> SUBSET Nat]
    /\ phase \in [Sandboxes -> {"absent", "creating", "rejected", "ready",
                                "stopped", "removing", "removed"}]
    /\ answer \in [Sandboxes -> {"none", "refused", "started"}]
    /\ victim \in [Sandboxes -> Sandboxes \cup {None}]
    /\ waits \in [Sandboxes -> BOOLEAN]

Init ==
    /\ podResources = NewMemory
    /\ processes = [p \in Pods |-> None]
    /\ mu = None
    /\ claims = [s \in Sandboxes |-> <<>>]
    /\ run = [s \in Sandboxes |-> "none"]
    /\ done = [s \in Sandboxes |-> "nil"]
    /\ cancel = [s \in Sandboxes |-> "unset"]
    /\ claimAt = [s \in Sandboxes |-> 1]
    /\ deviceAt = [s \in Sandboxes |-> 1]
    /\ configured = [s \in Sandboxes |-> {}]
    /\ failed = [s \in Sandboxes |-> {}]
    /\ phase = [s \in Sandboxes |-> "absent"]
    /\ answer = [s \in Sandboxes |-> "none"]
    /\ victim = [s \in Sandboxes |-> None]
    /\ waits = [s \in Sandboxes |-> FALSE]

-----------------------------------------------------------------------------
(* RunPodSandbox                                                           *)

(* The runtime runs one live sandbox per pod at a time; it may create the  *)
(* next one while a dead one is still to be removed.                       *)
MayRun(s) ==
    /\ phase[s] = "absent"
    /\ \A t \in Sandboxes :
          PodOf[t] = PodOf[s] => phase[t] \notin {"creating", "ready"}

(* The pod has no claims of this driver: the plugin stays out of the way.  *)
RunWithoutClaims(s) ==
    /\ MayRun(s)
    /\ Get(podResources, PodOf[s]) = <<>>
    /\ phase' = [phase EXCEPT ![s] = "ready"]
    /\ UNCHANGED <<podResources, processes, mu, process, answer, removal>>

(* getNetworkNamespace finds no path: the sandbox is refused.              *)
RunWithoutNamespace(s) ==
    /\ MayRun(s)
    /\ Get(podResources, PodOf[s]) # <<>>
    /\ phase' = [phase EXCEPT ![s] = "rejected"]
    /\ UNCHANGED <<podResources, processes, mu, process, answer, removal>>

(* The claims are read from the store once and kept in a new process ...   *)
RunPodSandbox(s) ==
    /\ MayRun(s)
    /\ Get(podResources, PodOf[s]) # <<>>
    /\ claims' = [claims EXCEPT ![s] = Get(podResources, PodOf[s])]
    /\ phase' = [phase EXCEPT ![s] = "creating"]
    /\ UNCHANGED <<podResources, processes, mu, run, done, cancel, claimAt,
                   deviceAt, configured, failed, answer, removal>>

(* ... which then replaces whatever the map holds for the pod, and whose   *)
(* goroutine is spawned.  The replaced process is not terminated.          *)
RegisterProcess(s) ==
    /\ phase[s] = "creating"
    /\ mu = None
    /\ processes' = [processes EXCEPT ![PodOf[s]] = s]
    /\ run' = [run EXCEPT ![s] = "spawned"]
    /\ phase' = [phase EXCEPT ![s] = "ready"]
    /\ UNCHANGED <<podResources, mu, claims, done, cancel, claimAt, deviceAt,
                   configured, failed, answer, removal>>

-----------------------------------------------------------------------------
(* StartContainer                                                          *)

IsDoneAlways(s) == TRUE

IsDoneNever(s) == done[s] = "nil"

(* isDone: a process that has not published its done channel is done.      *)
IsDone(s) == done[s] \in {"nil", "closed"}

StartUntracked(s) ==
    /\ phase[s] = "ready"
    /\ mu = None
    /\ processes[PodOf[s]] = None
    /\ answer' = [answer EXCEPT ![s] = "started"]
    /\ UNCHANGED <<podResources, processes, mu, process, phase, removal>>

StartRefused(s) ==
    /\ phase[s] = "ready"
    /\ mu = None
    /\ processes[PodOf[s]] # None
    /\ ~IsDone(processes[PodOf[s]])
    /\ answer' = [answer EXCEPT ![s] = "refused"]
    /\ UNCHANGED <<podResources, processes, mu, process, phase, removal>>

StartConfigured(s) ==
    /\ phase[s] = "ready"
    /\ mu = None
    /\ processes[PodOf[s]] # None
    /\ IsDone(processes[PodOf[s]])
    /\ processes' = [processes EXCEPT ![PodOf[s]] = None]
    /\ answer' = [answer EXCEPT ![s] = "started"]
    /\ UNCHANGED <<podResources, mu, process, phase, removal>>

(* Called for each container of the sandbox, and again after a refusal.    *)
StartContainer(s) == StartUntracked(s) \/ StartRefused(s) \/ StartConfigured(s)

-----------------------------------------------------------------------------
(* RemovePodSandbox                                                        *)

(* terminate() takes the cancel function, once, and calls it.              *)
TakeCancel(s) ==
    cancel' = [cancel EXCEPT ![s] = IF @ = "armed" THEN "fired" ELSE @]

RemoveUntracked(s) ==
    /\ phase[s] \in {"stopped", "rejected"}
    /\ mu = None
    /\ processes[PodOf[s]] = None
    /\ phase' = [phase EXCEPT ![s] = "removed"]
    /\ UNCHANGED <<podResources, processes, mu, process, answer, removal>>

(* The process found is the pod's, which need not be the sandbox's own.    *)
RemovePodSandbox(s) ==
    /\ phase[s] \in {"stopped", "rejected"}
    /\ mu = None
    /\ processes[PodOf[s]] # None
    /\ mu' = s
    /\ victim' = [victim EXCEPT ![s] = processes[PodOf[s]]]
    /\ waits' = [waits EXCEPT ![s] = done[processes[PodOf[s]]] # "nil"]
    /\ TakeCancel(processes[PodOf[s]])
    /\ phase' = [phase EXCEPT ![s] = "removing"]
    /\ UNCHANGED <<podResources, processes, claims, run, done, claimAt,
                   deviceAt, configured, failed, answer>>

Untrack(s) ==
    /\ processes' = [processes EXCEPT ![PodOf[s]] = None]
    /\ mu' = None
    /\ phase' = [phase EXCEPT ![s] = "removed"]
    /\ UNCHANGED <<podResources, process, answer, removal>>

(* A removal that does not wait for the goroutine it cancelled.            *)
FinishRemovalNoWait(s) ==
    /\ phase[s] = "removing"
    /\ Untrack(s)

(* terminate() returns once the done channel it read, if any, is closed.   *)
FinishRemoval(s) ==
    /\ phase[s] = "removing"
    /\ waits[s] => done[victim[s]] = "closed"
    /\ Untrack(s)

-----------------------------------------------------------------------------
(* The goroutine of configurationProcess.run                               *)

HasClaim(s) == claimAt[s] <= Len(claims[s])
HasDevice(s) == HasClaim(s) /\ deviceAt[s] <= Len(claims[s][claimAt[s]].devices)
Device(s) == claims[s][claimAt[s]].devices[deviceAt[s]]

NextDevice(s) == deviceAt' = [deviceAt EXCEPT ![s] = @ + 1]

(* Two ways to get the inner cursor wrong.                                 *)
SkipToNextClaimDevice(s) ==
    /\ claimAt' = [claimAt EXCEPT ![s] = @ + 1]
    /\ UNCHANGED deviceAt

SkipToDeviceZero(s) ==
    /\ claimAt' = [claimAt EXCEPT ![s] = @ + 1]
    /\ deviceAt' = [deviceAt EXCEPT ![s] = 0]

SkipToNextClaim(s) ==
    /\ claimAt' = [claimAt EXCEPT ![s] = @ + 1]
    /\ deviceAt' = [deviceAt EXCEPT ![s] = 1]

(* A run that starts its loop before it publishes its done channel.        *)
BeginUnpublished(s) ==
    /\ run[s] = "spawned"
    /\ run' = [run EXCEPT ![s] = "looping"]
    /\ UNCHANGED <<podResources, processes, mu, claims, done, cancel, claimAt,
                   deviceAt, configured, failed, phase, answer, removal>>

(* terminate() of a fresh process does nothing; done and cancel are then   *)
(* published together.                                                     *)
BeginRun(s) ==
    /\ run[s] = "spawned"
    /\ run' = [run EXCEPT ![s] = "looping"]
    /\ done' = [done EXCEPT ![s] = "open"]
    /\ cancel' = [cancel EXCEPT ![s] = "armed"]
    /\ UNCHANGED <<podResources, processes, mu, claims, claimAt, deviceAt,
                   configured, failed, phase, answer, removal>>

SkipForeignDevice(s) ==
    /\ run[s] = "looping"
    /\ HasDevice(s)
    /\ Device(s).driver # DriverName
    /\ NextDevice(s)
    /\ UNCHANGED <<podResources, processes, mu, claims, run, done, cancel,
                   claimAt, configured, failed, phase, answer, removal>>

(* An error return of configureResourceClaim: run logs it and goes on with *)
(* the next claim.                                                         *)
FailClaim(s) ==
    /\ failed' = [failed EXCEPT ![s] = @ \cup {claimAt[s]}]
    /\ SkipToNextClaim(s)

(* The data is nil or does not parse, or no configurator has its type.     *)
RejectDevice(s) ==
    /\ run[s] = "looping"
    /\ HasDevice(s)
    /\ Device(s).driver = DriverName
    /\ Device(s).type \notin Configurators
    /\ FailClaim(s)
    /\ UNCHANGED <<podResources, processes, mu, claims, run, done, cancel,
                   configured, phase, answer, removal>>

Configure(s) ==
    /\ run[s] = "looping"
    /\ HasDevice(s)
    /\ Device(s).driver = DriverName
    /\ Device(s).type \in Configurators
    /\ run' = [run EXCEPT ![s] = "configuring"]
    /\ UNCHANGED <<podResources, processes, mu, claims, done, cancel, claimAt,
                   deviceAt, configured, failed, phase, answer, removal>>

ConfigureSucceeds(s) ==
    /\ run[s] = "configuring"
    /\ configured' = [configured EXCEPT ![s] = @ \cup {<<claimAt[s], deviceAt[s]>>}]
    /\ NextDevice(s)
    /\ run' = [run EXCEPT ![s] = "looping"]
    /\ UNCHANGED <<podResources, processes, mu, claims, done, cancel, claimAt,
                   failed, phase, answer, removal>>

(* A loop that tries the failed device again, for as long as it fails.     *)
ConfigureRetries(s) ==
    /\ run[s] = "configuring"
    /\ run' = [run EXCEPT ![s] = "looping"]
    /\ UNCHANGED <<podResources, processes, mu, claims, done, cancel, claimAt,
                   deviceAt, configured, failed, phase, answer, removal>>

(* An error that is logged inside the loop over the devices, and the claim *)
(* goes on with its next one.                                              *)
ConfigureErrorSwallowed(s) ==
    /\ run[s] = "configuring"
    /\ NextDevice(s)
    /\ run' = [run EXCEPT ![s] = "looping"]
    /\ UNCHANGED <<podResources, processes, mu, claims, done, cancel, claimAt,
                   configured, failed, phase, answer, removal>>

ConfigureFails(s) ==
    /\ run[s] = "configuring"
    /\ FailClaim(s)
    /\ run' = [run EXCEPT ![s] = "looping"]
    /\ UNCHANGED <<podResources, processes, mu, claims, done, cancel,
                   configured, phase, answer, removal>>

NextClaim(s) ==
    /\ run[s] = "looping"
    /\ HasClaim(s)
    /\ ~HasDevice(s)
    /\ SkipToNextClaim(s)
    /\ UNCHANGED <<podResources, processes, mu, claims, run, done, cancel,
                   configured, failed, phase, answer, removal>>

(* The deferred function closes done ...                                   *)
CloseDone(s) ==
    /\ run[s] = "looping"
    /\ ~HasClaim(s)
    /\ done' = [done EXCEPT ![s] = "closed"]
    /\ run' = [run EXCEPT ![s] = "closing"]
    /\ UNCHANGED <<podResources, processes, mu, claims, cancel, claimAt,
                   deviceAt, configured, failed, phase, answer, removal>>

(* ... and then terminates its own process, which releases the context and *)
(* waits for the channel it has just closed.                               *)
ExitRun(s) ==
    /\ run[s] = "closing"
    /\ done[s] = "closed"
    /\ TakeCancel(s)
    /\ run' = [run EXCEPT ![s] = "exited"]
    /\ UNCHANGED <<podResources, processes, mu, claims, done, claimAt, deviceAt,
                   configured, failed, phase, answer, removal>>

Goroutine(s) ==
    \/ BeginRun(s) \/ SkipForeignDevice(s) \/ RejectDevice(s)
    \/ Configure(s) \/ ConfigureSucceeds(s) \/ ConfigureFails(s)
    \/ NextClaim(s) \/ CloseDone(s) \/ ExitRun(s)

-----------------------------------------------------------------------------
(* The plugin's surroundings                                               *)

(* The driver stores a claim it prepared; it may do so at any time.        *)
StoreClaim(p, claim) ==
    /\ ~Holds(podResources[p], claim.uid)
    /\ podResources' = Add(podResources, p, claim)
    /\ UNCHANGED <<processes, mu, process, phase, answer, removal>>

(* The sandbox dies, or the runtime stops it.                              *)
StopPodSandbox(s) ==
    /\ phase[s] = "ready"
    /\ phase' = [phase EXCEPT ![s] = "stopped"]
    /\ UNCHANGED <<podResources, processes, mu, process, answer, removal>>

(* Every sandbox has come and gone: nothing more happens.                  *)
Quiescent ==
    /\ \A s \in Sandboxes : phase[s] = "removed"
    /\ UNCHANGED vars

Handlers(s) ==
    \/ RunWithoutClaims(s) \/ RunWithoutNamespace(s) \/ RunPodSandbox(s)
    \/ RegisterProcess(s) \/ StartContainer(s)
    \/ RemoveUntracked(s) \/ RemovePodSandbox(s) \/ FinishRemoval(s)

Next ==
    \/ \E entry \in ClaimPool : StoreClaim(entry[1], entry[2])
    \/ \E s \in Sandboxes : Handlers(s) \/ StopPodSandbox(s) \/ Goroutine(s)
    \/ Quiescent

Spec == Init /\ [][Next]_vars

(* Goroutines are scheduled and configurators return.  sync.Mutex does not *)
(* starve a waiter, so a handler that is called gets p.mu although others  *)
(* keep taking it.  The kubelet retries a container that did not start.    *)
(* Nothing forces a sandbox to be created, stopped or removed.             *)
Fairness ==
    \A s \in Sandboxes :
        /\ WF_vars(Goroutine(s))
        /\ WF_vars(FinishRemoval(s))
        /\ SF_vars(RegisterProcess(s))
        /\ SF_vars(StartContainer(s))

FairSpec == Spec /\ Fairness

-----------------------------------------------------------------------------
(* Safety                                                                  *)

OwnDevices(s, k) ==
    {j \in DOMAIN claims[s][k].devices : claims[s][k].devices[j].driver = DriverName}

Settled(s, k) ==
    k \in failed[s] \/ \A j \in OwnDevices(s, k) : <<k, j>> \in configured[s]

(* Once the goroutine has closed done, every claim the sandbox was run     *)
(* with has all of this driver's devices configured or an error logged for *)
(* it: an error in one claim (process.go:123-129) or a device of another   *)
(* driver (136-138) never makes run pass over a later claim in silence.    *)
NoClaimSkipped ==
    \A s \in Sandboxes : done[s] = "closed" =>
        \A k \in DOMAIN claims[s] : Settled(s, k)

(* A RemovePodSandbox that found a running process returns only after that *)
(* process has stopped, and it never touches the network namespace again:  *)
(* what "waits for it to finish" (process.go:88) buys the runtime, which   *)
(* then tears the namespace down.                                          *)
TerminatedStaysQuiet ==
    \A s \in Sandboxes :
        phase[s] = "removed" /\ waits[s] => run[victim[s]] \in {"closing", "exited"}

(* The two kinds of handlers that take p.mu in a second step return:       *)
(* RunPodSandbox (plugin.go:115) and RemovePodSandbox, which keeps the     *)
(* lock while it waits for the goroutine (plugin.go:168-176); neither is   *)
(* blocked for ever by the other or by the goroutine's own terminate().    *)
HandlersReturn ==
    \A s \in Sandboxes :
        phase[s] \in {"creating", "removing"} ~> phase[s] \notin {"creating", "removing"}

(* Refusals of StartContainer (plugin.go:142-144) are not final: while the *)
(* sandbox lives, the kubelet's retries end with a started container, also *)
(* when devices could not be configured.                                   *)
ContainerEventuallyStarts ==
    \A s \in Sandboxes :
        phase[s] = "ready" ~> answer[s] = "started" \/ phase[s] # "ready"

(* The plugin implements the gate of SandboxGate.tla.  A removal that read *)
(* no done channel untracked the pod when it read it: p.mu hides that      *)
(* until the map entry is deleted.                                         *)
Abandoned(p) == mu # None /\ PodOf[mu] = p /\ ~waits[mu]

GateTracked == [p \in Pods |-> IF Abandoned(p) THEN None ELSE processes[p]]
GateTask ==
    [s \in Sandboxes |->
        CASE run[s] = "none" -> "absent"
          [] run[s] = "spawned" -> "pending"
          [] run[s] \in Busy -> "working"
          [] OTHER -> "finished"]
GateAdmitted == {s \in Sandboxes : answer[s] = "started"}

Gate == INSTANCE SandboxGate WITH
    tracked <- GateTracked, task <- GateTask, admitted <- GateAdmitted

(* A container is let through, and a pod untracked, only while the tracked *)
(* process of the pod is not at work; tracked work is always finished.     *)
ImplementsGate == Gate!Spec

-----------------------------------------------------------------------------
(* The inductive invariant behind the safety properties                    *)

(* The done channel says where the goroutine is.                           *)
DoneTellsRun ==
    \A s \in Sandboxes :
        /\ done[s] = "nil" <=> run[s] \in {"none", "spawned"}
        /\ done[s] = "open" <=> run[s] \in Busy
        /\ phase[s] \in {"absent", "creating"} => run[s] = "none"

(* An entry of the map is a spawned process of the pod it is filed under.  *)
EntriesAreSpawned ==
    \A p \in Pods : processes[p] # None =>
        PodOf[processes[p]] = p /\ run[processes[p]] # "none"

(* p.mu is held across steps by the removal in progress, if there is one,  *)
(* whose victim stays in the map for as long as it lasts.                  *)
LockedByRemoval ==
    \A s \in Sandboxes :
        /\ mu = s <=> phase[s] = "removing"
        /\ mu = s => victim[s] # None /\ victim[s] = processes[PodOf[s]]

(* A done channel that a removal read is that of a process that has begun, *)
(* and it is closed when the removal is over.                              *)
RemovalWaited ==
    \A s \in Sandboxes : waits[s] =>
        /\ phase[s] \in {"removing", "removed"}
        /\ victim[s] # None
        /\ done[victim[s]] # "nil"
        /\ phase[s] = "removed" => done[victim[s]] = "closed"

(* Behind its cursors the loop has left nothing undone that it has not     *)
(* logged; it is at a device while it configures and past the last claim   *)
(* when it closes done.                                                    *)
BehindCursors(s) ==
    /\ \A k \in DOMAIN claims[s] : k < claimAt[s] => Settled(s, k)
    /\ HasClaim(s) =>
          \A j \in OwnDevices(s, claimAt[s]) :
              j < deviceAt[s] => <<claimAt[s], j>> \in configured[s]

CursorsOK(s) ==
    /\ BehindCursors(s)
    /\ run[s] = "none" => claimAt[s] = 1 /\ deviceAt[s] = 1
    /\ run[s] = "configuring" => HasDevice(s)
    /\ done[s] = "closed" => ~HasClaim(s)

CursorsLeaveNothing == \A s \in Sandboxes : CursorsOK(s)

(* All of it together: every step of the plugin preserves it, whatever     *)
(* the sandboxes, pods and claims are.                                     *)
IInv ==
    /\ TypeOK
    /\ DoneTellsRun
    /\ EntriesAreSpawned
    /\ LockedByRemoval
    /\ RemovalWaited
    /\ CursorsLeaveNothing

-----------------------------------------------------------------------------
(* What comments of the code promise and the code does not keep            *)

Configured(s) ==
    \A k \in DOMAIN claims[s] : \A j \in OwnDevices(s, k) : <<k, j>> \in configured[s]

(* plugin.go:124-126: StartContainer "checks if the device networks are    *)
(* all configured before allowing the container to start"; so the sandbox  *)
(* of a started container has all the devices of this driver that its pod  *)
(* claims.                                                                 *)
StartNeedsConfigured ==
    \A s \in Sandboxes : answer[s] = "started" => Configured(s)

(* process.go:88: terminate "stops the configuration process if it is      *)
(* running and waits for it to finish", so no goroutine configures devices *)
(* in the namespace of a removed sandbox.                                  *)
RemovedStaysQuiet ==
    \A s \in Sandboxes : phase[s] = "removed" => run[s] \notin Busy
=============================================================================
