------------------------------ MODULE NodeAgent ------------------------------
(***************************************************************************)
(* The node agent as one process: the DRA driver (Driver.tla) and the NRI  *)
(* plugin (NriPlugin.tla) share the in-memory store that cmd/cmd/run.go    *)
(* gives to both, and lose everything together when the process dies.      *)
(*                                                                         *)
(* The kubelet runs a sandbox of a pod whose claims are prepared, and      *)
(* unprepares the claims of a deleted pod that has no live sandbox.  The   *)
(* driver registers with the kubelet as soon as the agent starts, and the  *)
(* plugin with the runtime only when the informer caches have synced; the  *)
(* runtime goes on without the plugin's hooks until then.                  *)
(***************************************************************************)
EXTENDS PodResourceStore, FiniteSets, SequencesExt

CONSTANTS ClaimsOf, Results, Foreign, MaxCalls, MaxCrashes,
          Sandboxes, PodOf, DriverName, Configurators, None

ASSUME NodeAgentAssumption ==
    /\ ClaimsOf \in [Pods -> Seq(ClaimUIDs)]
    /\ Foreign \in [ClaimUIDs -> Seq(DeviceStatuses)]
    /\ PodOf \in [Sandboxes -> Pods]
    /\ None \notin Pods \cup Sandboxes
    /\ MaxCalls \in Nat /\ MaxCrashes \in Nat

VARIABLES
    podResources,                                                 \* shared
    deviceStatus, reservedFor, pod, caller, todo, fetched, errors, stage,
    resultAt, statusUpdates, updated, calls, crashes, lost, applies,        \* Driver
    processes, mu, claims, run, done, cancel, claimAt, deviceAt, configured,
    failed, phase, answer, victim, waits,                         \* NriPlugin
    agent                  \* "down", "starting" (the driver only), "hooked"

D == INSTANCE Driver
N == INSTANCE NriPlugin WITH ClaimPool <- {}

driverOnly == <<deviceStatus, reservedFor, pod, caller, todo, fetched, errors,
                stage, resultAt, statusUpdates, updated, calls, crashes, lost, applies>>
pluginOnly == <<processes, mu, claims, run, done, cancel, claimAt, deviceAt,
                configured, failed, phase, answer, victim, waits>>
vars == <<podResources, driverOnly, pluginOnly, agent>>

Init == D!Init /\ N!Init /\ agent = "starting"

-----------------------------------------------------------------------------
(* Steps of the driver and of its surroundings                             *)

DriverAction ==
    /\ agent # "down"
    /\ D!HandlerStep \/ \E p \in Pods : D!PrepareResourceClaims(p)
    /\ UNCHANGED <<pluginOnly, agent>>

NoLiveSandbox(p) ==
    \A s \in Sandboxes : PodOf[s] = p => phase[s] \notin {"creating", "ready"}

UnprepareResourceClaims(p) ==
    /\ agent # "down"
    /\ NoLiveSandbox(p)
    /\ D!UnprepareResourceClaims(p)
    /\ UNCHANGED <<pluginOnly, agent>>

ClusterAction ==
    /\ D!ClusterStep
    /\ UNCHANGED <<pluginOnly, agent>>

(* Steps of the plugin.  A sandbox is run for a prepared pod.              *)
PluginAction ==
    /\ agent = "hooked"
    /\ \E s \in Sandboxes :
          \/ N!Goroutine(s)
          \/ /\ phase[s] = "absent" => pod[PodOf[s]] = "prepared"
             /\ N!Handlers(s)
    /\ UNCHANGED <<driverOnly, agent>>

StopPodSandbox ==
    /\ \E s \in Sandboxes : N!StopPodSandbox(s)
    /\ UNCHANGED <<driverOnly, agent>>

-----------------------------------------------------------------------------
(* Death and restart of the process                                        *)

(* A plugin that comes up again with the map it had.                       *)
OldPlugin == mu' = None /\ UNCHANGED processes

NewPlugin == mu' = None /\ processes' = [p \in Pods |-> None]

(* The goroutines and the map die with the process; the runtime drops the  *)
(* plugin and takes its pending calls for granted.  What a goroutine has   *)
(* configured in a network namespace stays there, outside this state.      *)
PluginDies ==
    /\ NewPlugin
    /\ claims' = [s \in Sandboxes |-> <<>>]
    /\ run' = [s \in Sandboxes |-> "none"]
    /\ done' = [s \in Sandboxes |-> "nil"]
    /\ cancel' = [s \in Sandboxes |-> "unset"]
    /\ claimAt' = [s \in Sandboxes |-> 1]
    /\ deviceAt' = [s \in Sandboxes |-> 1]
    /\ configured' = [s \in Sandboxes |-> {}]
    /\ failed' = [s \in Sandboxes |-> {}]
    /\ phase' = [s \in Sandboxes |->
                    CASE phase[s] = "creating" -> "ready"
                      [] phase[s] = "removing" -> "removed"
                      [] OTHER -> phase[s]]
    /\ victim' = [s \in Sandboxes |-> None]
    /\ waits' = [s \in Sandboxes |-> FALSE]
    /\ UNCHANGED answer

Crash ==
    /\ agent # "down"
    /\ D!Crash \/ D!Panic
    /\ PluginDies
    /\ agent' = "down"

(* run() starts the driver, waits for the informer caches ...              *)
Restart ==
    /\ agent = "down"
    /\ agent' = "starting"
    /\ UNCHANGED <<podResources, driverOnly, pluginOnly>>

(* ... and only then runs the plugin, which is not told of the sandboxes   *)
(* that exist already.                                                     *)
RegisterPlugin ==
    /\ agent = "starting"
    /\ agent' = "hooked"
    /\ UNCHANGED <<podResources, driverOnly, pluginOnly>>

(* The runtime without the plugin: nothing is configured or refused.       *)
RunUnhooked(s) ==
    /\ N!MayRun(s)
    /\ pod[PodOf[s]] = "prepared"
    /\ phase' = [phase EXCEPT ![s] = "ready"]
    /\ UNCHANGED answer

StartUnhooked(s) ==
    /\ phase[s] = "ready"
    /\ answer' = [answer EXCEPT ![s] = "started"]
    /\ UNCHANGED phase

RemoveUnhooked(s) ==
    /\ phase[s] \in {"stopped", "rejected"}
    /\ phase' = [phase EXCEPT ![s] = "removed"]
    /\ UNCHANGED answer

Unhooked ==
    /\ agent # "hooked"
    /\ \E s \in Sandboxes : RunUnhooked(s) \/ StartUnhooked(s) \/ RemoveUnhooked(s)
    /\ UNCHANGED <<podResources, driverOnly, processes, mu, claims, run, done,
                   cancel, claimAt, deviceAt, configured, failed, victim, waits,
                   agent>>

(* The pods are gone and the agent is idle.                                *)
Quiescent ==
    /\ agent = "hooked"
    /\ \A p \in Pods : pod[p] = "unprepared" /\ NoLiveSandbox(p)
    /\ UNCHANGED vars

Next ==
    \/ DriverAction
    \/ \E p \in Pods : UnprepareResourceClaims(p)
    \/ ClusterAction
    \/ PluginAction
    \/ StopPodSandbox
    \/ Crash
    \/ Restart
    \/ RegisterPlugin
    \/ Unhooked
    \/ Quiescent

Spec == Init /\ [][Next]_vars

-----------------------------------------------------------------------------
TypeOK == D!TypeOK /\ N!TypeOK /\ agent \in {"down", "starting", "hooked"}

(* The runtime runs the sandbox, and the agent does not refuse it.         *)
Runs(s) == phase[s] = "absent" /\ phase'[s] \notin {"absent", "rejected"}

ClaimsReach(s) ==
    \A c \in ToSet(ClaimsOf[PodOf[s]]) :
        \E k \in DOMAIN claims'[s] : claims'[s][k].uid = c

(* What the driver is for ("storing ResourceClaims of pods to later call   *)
(* CNI plugins on Pod creation", driver.go:17-19): every sandbox the agent *)
(* sees run is handed all the claims of its pod, unless a restart came     *)
(* between the preparation and the sandbox.                                *)
ClaimsReachSandbox ==
    [][\A s \in Sandboxes :
         agent = "hooked" /\ Runs(s) /\ PodOf[s] \notin lost => ClaimsReach(s)]_vars

(* A restart in the middle of anything leaves the plugin in a state its    *)
(* own invariant allows: no lock, channel or removal outlives the process. *)
PluginInvariant == N!IInv

-----------------------------------------------------------------------------
(* What the driver is there for, at its end: once the goroutine of a       *)
(* sandbox has closed done, every claim that the pod was prepared with is  *)
(* one of those it was run with, and has all of this driver's devices      *)
(* configured or an error logged for it, whatever failed or was repeated   *)
(* in between (driver.go:175-236, process.go:94-156).  Again a restart can *)
(* undo it.                                                                *)
ClaimsHandled ==
    \A s \in Sandboxes : done[s] = "closed" /\ PodOf[s] \notin lost =>
        \A c \in ToSet(ClaimsOf[PodOf[s]]) :
            \E k \in DOMAIN claims[s] : claims[s][k].uid = c /\ N!Settled(s, k)

(* The process implements ClaimHandover.tla.  A claim has been dealt with  *)
(* when the goroutine's cursor is past it, and a sandbox is at work from   *)
(* its RunPodSandbox until done is closed.                                 *)
AtWork(s) == phase[s] = "creating" \/ run[s] # "none"

HandoverPrepared == {p \in Pods : pod[p] = "prepared"}
HandoverStored == [p \in Pods |-> {podResources[p][k].uid : k \in DOMAIN podResources[p]}]
HandoverWork ==
    [s \in Sandboxes |->
        IF done[s] = "closed" THEN "finished" ELSE IF AtWork(s) THEN "begun" ELSE "none"]
HandoverHanded == [s \in Sandboxes |-> {claims[s][k].uid : k \in DOMAIN claims[s]}]
HandoverSettled ==
    [s \in Sandboxes |->
        {claims[s][k].uid : k \in {j \in DOMAIN claims[s] : j < claimAt[s]}}]

ClaimsOfPod == [p \in Pods |-> ToSet(ClaimsOf[p])]

Handover == INSTANCE ClaimHandover WITH
    Claims <- ClaimUIDs, prepared <- HandoverPrepared, stored <- HandoverStored,
    forgotten <- lost, work <- HandoverWork, handed <- HandoverHanded,
    settled <- HandoverSettled

(* Across the two components, the kubelet, the runtime and restarts: no    *)
(* pod counts as prepared before its claims are stored, a sandbox gets     *)
(* what is stored and never less later on, and finishes with all of it.    *)
ImplementsHandover == Handover!Spec

=============================================================================
