--------------------------- MODULE NodeAgentProofs ---------------------------
(***************************************************************************)
(* Theorems about NodeAgent.tla.  Each step of the process is a step of    *)
(* the driver or a stutter, and so it is for the plugin but for the death  *)
(* of the process and for what the runtime does without the plugin; the    *)
(* invariants of the two parts are taken over from their own proofs.       *)
(***************************************************************************)
EXTENDS NodeAgent, TLAPS

DP == INSTANCE DriverProofs
NP == INSTANCE NriPluginProofs WITH ClaimPool <- {}

LEMMA PartAssumptions == DP!DriverAssumption /\ NP!PluginAssumption
BY NodeAgentAssumption DEF DP!DriverAssumption, NP!PluginAssumption

-----------------------------------------------------------------------------
(* The parts as NodeAgent has them are the parts the proofs are about.     *)
LEMMA SameDriverInvariant == D!IInv <=> DP!IInv
BY
    DEF D!IInv, DP!IInv, D!TypeOK, DP!TypeOK, D!CallOfLivePod,
        DP!CallOfLivePod, D!CallerStaysFirst, DP!CallerStaysFirst,
        D!StoringForCaller, DP!StoringForCaller, D!ClaimsAccountedFor,
        DP!ClaimsAccountedFor, D!PreparedIsStored, DP!PreparedIsStored,
        D!Store, DP!Store, D!StoredClaim, DP!StoredClaim, D!NewMemory,
        DP!NewMemory, D!Holds, DP!Holds, D!Add, DP!Add, D!ToSet, DP!ToSet

LEMMA SameDriver == D!Init <=> DP!Init
BY
    DEF D!Init, DP!Init, D!NewMemory, DP!NewMemory, D!NoClaim, DP!NoClaim

LEMMA SameDriverSteps == [D!Next]_(D!vars) <=> [DP!Next]_(DP!vars)
BY
    DEF D!Next, DP!Next, D!PrepareResourceClaims, DP!PrepareResourceClaims,
        D!UnprepareResourceClaims, DP!UnprepareResourceClaims, D!StartOfClaim,
        DP!StartOfClaim, D!AtClaim, DP!AtClaim, D!NextClaim, DP!NextClaim,
        D!FailClaim, DP!FailClaim, D!NotReservedOnce, DP!NotReservedOnce,
        D!AtResult, DP!AtResult, D!SkipForeignResult, DP!SkipForeignResult,
        D!AllocationsOf, DP!AllocationsOf, D!AllocateDevice,
        DP!AllocateDevice, D!AllocationFails, DP!AllocationFails, D!Applying,
        DP!Applying, D!Publish, DP!Publish, D!ApplyStatus, DP!ApplyStatus,
        D!ApplyFails, DP!ApplyFails, D!ApplyAnswerLost, DP!ApplyAnswerLost,
        D!StoreClaim, DP!StoreClaim, D!Respond, DP!Respond, D!HandleClaim,
        DP!HandleClaim, D!Die, DP!Die, D!Crash, DP!Crash, D!Panic, DP!Panic,
        D!Reserve, DP!Reserve, D!RemoveAt, DP!RemoveAt, D!DeletePod,
        DP!DeletePod, D!Unreserve, DP!Unreserve, D!Quiescent, DP!Quiescent,
        D!HandlerStep, DP!HandlerStep, D!DriverStep, DP!DriverStep,
        D!ClusterStep, DP!ClusterStep, D!api, DP!api, D!handler, DP!handler,
        D!ghosts, DP!ghosts, D!vars, DP!vars, D!Store, DP!Store,
        D!StoredClaim, DP!StoredClaim, D!NewMemory, DP!NewMemory, D!Holds,
        DP!Holds, D!Add, DP!Add, D!ToSet, DP!ToSet

LEMMA SamePluginInvariant == N!IInv <=> NP!IInv
BY
    DEF N!IInv, NP!IInv, N!TypeOK, NP!TypeOK, N!Busy, NP!Busy, N!DoneTellsRun,
        NP!DoneTellsRun, N!EntriesAreSpawned, NP!EntriesAreSpawned,
        N!LockedByRemoval, NP!LockedByRemoval, N!RemovalWaited,
        NP!RemovalWaited, N!CursorsLeaveNothing, NP!CursorsLeaveNothing,
        N!CursorsOK, NP!CursorsOK, N!BehindCursors, NP!BehindCursors,
        N!HasClaim, NP!HasClaim, N!HasDevice, NP!HasDevice, N!OwnDevices,
        NP!OwnDevices, N!Settled, NP!Settled, N!Store, NP!Store,
        N!StoredClaim, NP!StoredClaim

LEMMA SamePluginSteps ==
    ASSUME NEW s \in Sandboxes
    PROVE  /\ N!Handlers(s) <=> NP!Handlers(s)
           /\ N!Goroutine(s) <=> NP!Goroutine(s)
           /\ N!StopPodSandbox(s) <=> NP!StopPodSandbox(s)
BY
    DEF N!Handlers, NP!Handlers, N!Goroutine, NP!Goroutine, N!StopPodSandbox,
        NP!StopPodSandbox, N!MayRun, NP!MayRun, N!RunWithoutClaims,
        NP!RunWithoutClaims, N!RunWithoutNamespace, NP!RunWithoutNamespace,
        N!RunPodSandbox, NP!RunPodSandbox, N!RegisterProcess,
        NP!RegisterProcess, N!IsDone, NP!IsDone, N!StartUntracked,
        NP!StartUntracked, N!StartRefused, NP!StartRefused, N!StartConfigured,
        NP!StartConfigured, N!StartContainer, NP!StartContainer, N!TakeCancel,
        NP!TakeCancel, N!RemoveUntracked, NP!RemoveUntracked,
        N!RemovePodSandbox, NP!RemovePodSandbox, N!Untrack, NP!Untrack,
        N!FinishRemoval, NP!FinishRemoval, N!HasClaim, NP!HasClaim,
        N!HasDevice, NP!HasDevice, N!Device, NP!Device, N!NextDevice,
        NP!NextDevice, N!SkipToNextClaim, NP!SkipToNextClaim, N!BeginRun,
        NP!BeginRun, N!SkipForeignDevice, NP!SkipForeignDevice, N!FailClaim,
        NP!FailClaim, N!RejectDevice, NP!RejectDevice, N!Configure,
        NP!Configure, N!ConfigureSucceeds, NP!ConfigureSucceeds,
        N!ConfigureFails, NP!ConfigureFails, N!NextClaim, NP!NextClaim,
        N!CloseDone, NP!CloseDone, N!ExitRun, NP!ExitRun, N!Get, NP!Get,
        N!process, NP!process, N!removal, NP!removal

-----------------------------------------------------------------------------
(* The driver                                                              *)

LEMMA StepsOfTheDriver == [Next]_vars => [D!Next]_(D!vars)
<1> SUFFICES ASSUME [Next]_vars PROVE [D!Next]_(D!vars)
    OBVIOUS
<1>1. ASSUME UNCHANGED <<podResources, driverOnly>>
      PROVE  UNCHANGED D!vars
    BY <1>1 DEF driverOnly, D!vars, D!api, D!handler, D!ghosts
<1>2. CASE DriverAction \/ ClusterAction \/ Crash \/ \E p \in Pods : UnprepareResourceClaims(p)
    BY <1>2 DEF DriverAction, ClusterAction, Crash, UnprepareResourceClaims, D!Next, D!DriverStep
<1>3. CASE PluginAction
    BY <1>1, <1>3 DEF PluginAction, N!Goroutine, N!BeginRun, N!SkipForeignDevice,
       N!RejectDevice, N!Configure, N!ConfigureSucceeds, N!ConfigureFails, N!NextClaim,
       N!CloseDone, N!ExitRun, N!Handlers, N!RunWithoutClaims, N!RunWithoutNamespace,
       N!RunPodSandbox, N!RegisterProcess, N!StartContainer, N!StartUntracked,
       N!StartRefused, N!StartConfigured, N!RemoveUntracked, N!RemovePodSandbox,
       N!FinishRemoval, N!Untrack
<1>4. CASE StopPodSandbox \/ Restart \/ RegisterPlugin \/ Unhooked
    BY <1>1, <1>4 DEF StopPodSandbox, N!StopPodSandbox, Restart, RegisterPlugin, Unhooked
<1>5. CASE UNCHANGED vars
    BY <1>1, <1>5 DEF vars
<1> QED
    BY <1>2, <1>3, <1>4, <1>5 DEF Next, Quiescent

LEMMA DriverPreserved == D!IInv /\ [Next]_vars => D!IInv'
<1>1. DP!IInv /\ [DP!Next]_(DP!vars) => DP!IInv'
    BY PartAssumptions, DP!NextInductive
<1>2. D!IInv' <=> DP!IInv'
    BY SameDriverInvariant, PTL
<1> QED
    BY <1>1, <1>2, SameDriverInvariant, SameDriverSteps, StepsOfTheDriver

-----------------------------------------------------------------------------
(* The plugin                                                              *)

(* Nothing of the plugin changes, and the store keeps its type.            *)
LEMMA PluginFrame ==
    ASSUME N!IInv, UNCHANGED pluginOnly, podResources' \in N!Store
    PROVE  N!IInv'
BY DEF pluginOnly, N!IInv, N!TypeOK, N!DoneTellsRun, N!EntriesAreSpawned,
   N!LockedByRemoval, N!RemovalWaited, N!CursorsLeaveNothing, N!CursorsOK,
   N!BehindCursors, N!HasClaim, N!HasDevice, N!OwnDevices, N!Settled

LEMMA PluginSteps ==
    ASSUME N!IInv, NEW s \in Sandboxes, N!Handlers(s) \/ N!Goroutine(s) \/ N!StopPodSandbox(s)
    PROVE  N!IInv'
<1>1. NP!IInv /\ [NP!Next]_(NP!vars) => NP!IInv'
    BY PartAssumptions, NP!NextInductive
<1>2. NP!Next
    BY SamePluginSteps DEF NP!Next
<1>3. N!IInv' <=> NP!IInv'
    BY SamePluginInvariant, PTL
<1> QED
    BY <1>1, <1>2, <1>3, SamePluginInvariant

(* What the death of the process leaves of the plugin is as it began, but  *)
(* for the sandboxes, of which none is being created or removed.           *)
LEMMA DeathOfPlugin ==
    ASSUME N!IInv, PluginDies, podResources' \in N!Store
    PROVE  N!IInv'
<1>1. /\ mu' = None /\ processes' = [p \in Pods |-> None]
      /\ claims' = [s \in Sandboxes |-> <<>>]
      /\ run' = [s \in Sandboxes |-> "none"] /\ done' = [s \in Sandboxes |-> "nil"]
      /\ claimAt' = [s \in Sandboxes |-> 1] /\ deviceAt' = [s \in Sandboxes |-> 1]
      /\ waits' = [s \in Sandboxes |-> FALSE]
    BY DEF PluginDies, NewPlugin
<1>2. \A s \in Sandboxes : phase'[s] \notin {"creating", "removing"}
    BY DEF PluginDies
<1>3. N!TypeOK'
  <2>1. phase' \in [Sandboxes -> {"absent", "creating", "rejected", "ready",
                                  "stopped", "removing", "removed"}]
      BY DEF N!IInv, N!TypeOK, PluginDies
  <2>2. claims' \in [Sandboxes -> Seq(N!StoredClaim)]
      BY <1>1
  <2> QED
      BY <1>1, <2>1, <2>2 DEF N!IInv, N!TypeOK, N!Busy, PluginDies
<1>4. N!DoneTellsRun'
    BY <1>1 DEF N!DoneTellsRun, N!Busy
<1>5. N!EntriesAreSpawned' /\ N!RemovalWaited'
    BY <1>1 DEF N!EntriesAreSpawned, N!RemovalWaited
<1>6. N!LockedByRemoval'
    BY <1>1, <1>2, NodeAgentAssumption DEF N!LockedByRemoval
<1>7. N!CursorsLeaveNothing'
    BY <1>1 DEF N!CursorsLeaveNothing, N!CursorsOK, N!BehindCursors, N!HasClaim
<1> QED
    BY <1>3, <1>4, <1>5, <1>6, <1>7 DEF N!IInv

(* The runtime without the plugin touches no sandbox that the plugin is    *)
(* at work on.                                                             *)
LEMMA WithoutPlugin ==
    ASSUME N!IInv, Unhooked
    PROVE  N!IInv'
<1>1. PICK s \in Sandboxes : RunUnhooked(s) \/ StartUnhooked(s) \/ RemoveUnhooked(s)
    BY DEF Unhooked
<1>2. UNCHANGED <<podResources, processes, mu, claims, run, done, cancel, claimAt, deviceAt,
                  configured, failed, victim, waits>>
    BY DEF Unhooked
<1>3. N!TypeOK'
  <2>1. /\ phase' \in [Sandboxes -> {"absent", "creating", "rejected", "ready",
                                     "stopped", "removing", "removed"}]
        /\ answer' \in [Sandboxes -> {"none", "refused", "started"}]
      BY <1>1 DEF N!IInv, N!TypeOK, RunUnhooked, StartUnhooked, RemoveUnhooked
  <2> QED
      BY <1>2, <2>1 DEF N!IInv, N!TypeOK
<1>4. \A t \in Sandboxes :
        /\ phase'[t] = phase[t] \/ (phase[t] \in {"absent", "stopped", "rejected"}
                                      /\ phase'[t] \in {"ready", "removed"})
        /\ phase'[t] # "removed" \/ phase[t] # "absent"
    BY <1>1 DEF N!IInv, N!TypeOK, RunUnhooked, StartUnhooked, RemoveUnhooked, N!MayRun
<1>5. N!DoneTellsRun' /\ N!EntriesAreSpawned'
    BY <1>2, <1>4 DEF N!IInv, N!DoneTellsRun, N!EntriesAreSpawned
<1>6. N!LockedByRemoval' /\ N!RemovalWaited'
    BY <1>2, <1>4 DEF N!IInv, N!LockedByRemoval, N!RemovalWaited
<1>7. N!CursorsLeaveNothing'
    BY <1>2 DEF N!IInv, N!CursorsLeaveNothing, N!CursorsOK, N!BehindCursors, N!HasClaim,
       N!HasDevice, N!OwnDevices, N!Settled
<1> QED
    BY <1>3, <1>5, <1>6, <1>7 DEF N!IInv

LEMMA PluginPreserved == D!IInv /\ N!IInv /\ [Next]_vars => N!IInv'
<1> SUFFICES ASSUME D!IInv, N!IInv, [Next]_vars PROVE N!IInv'
    OBVIOUS
<1>1. podResources' \in N!Store
    BY DriverPreserved
       DEF D!IInv, D!TypeOK, D!Store, N!Store, D!StoredClaim, N!StoredClaim
<1>2. CASE UNCHANGED pluginOnly
    BY <1>1, <1>2, PluginFrame
<1>3. CASE PluginAction \/ StopPodSandbox
    BY <1>3, PluginSteps DEF PluginAction, StopPodSandbox
<1>4. CASE Crash
    BY <1>1, <1>4, DeathOfPlugin DEF Crash
<1>5. CASE Unhooked
    BY <1>5, WithoutPlugin
<1> QED
    BY <1>2, <1>3, <1>4, <1>5 DEF Next, DriverAction, UnprepareResourceClaims,
       ClusterAction, Restart, RegisterPlugin, Quiescent, vars

-----------------------------------------------------------------------------
LEMMA InitEstablishes == Init => D!IInv /\ N!IInv
<1>1. DP!Init => DP!IInv
    BY PartAssumptions, DP!InitInductive
<1>2. NP!Init => NP!IInv
    BY PartAssumptions, NP!InitInductive
<1>3. N!Init => NP!Init
    BY DEF N!Init, NP!Init, N!NewMemory, NP!NewMemory
<1> QED
    BY <1>1, <1>2, <1>3, SameDriver, SameDriverInvariant, SamePluginInvariant DEF Init

(* The invariants of both parts hold in the one process.                   *)
LEMMA Inductive == Spec => [](D!IInv /\ N!IInv)
BY InitEstablishes, DriverPreserved, PluginPreserved, PTL DEF Spec

(* Every reachable state of the process is well typed.                     *)
THEOREM TypeCorrect == Spec => []TypeOK
<1> DEFINE AgentOK == agent \in {"down", "starting", "hooked"}
<1>1. Init => AgentOK
    BY DEF Init
<1>2. AgentOK /\ [Next]_vars => AgentOK'
    BY DEF Next, vars, DriverAction, UnprepareResourceClaims, ClusterAction, PluginAction,
       StopPodSandbox, Crash, Restart, RegisterPlugin, Unhooked, Quiescent
<1>3. D!IInv /\ N!IInv /\ AgentOK => TypeOK
    BY DEF TypeOK, D!IInv, N!IInv
<1> HIDE DEF AgentOK
<1> QED
    BY <1>1, <1>2, <1>3, Inductive, PTL DEF Spec

(* Neither the driver at its side nor a restart in the middle of anything  *)
(* takes the plugin out of its invariant.                                  *)
THEOREM PluginSurvives == Spec => []PluginInvariant
BY Inductive, PTL DEF PluginInvariant

(* A prepared pod's claims are in the store, and reach its sandbox.        *)
LEMMA StoreReaches ==
    ASSUME D!IInv, N!IInv, [Next]_vars, NEW s \in Sandboxes,
           agent = "hooked", Runs(s), PodOf[s] \notin lost
    PROVE  ClaimsReach(s)
<1>1. PodOf[s] \in Pods
    BY NodeAgentAssumption
<1>2. phase[s] = "absent" /\ phase'[s] \notin {"absent", "rejected"}
    BY DEF Runs
<1>3. PICK t \in Sandboxes : N!Handlers(t) /\ (phase[t] = "absent" => pod[PodOf[t]] = "prepared")
  <2>1. CASE PluginAction
      BY <1>2, <2>1 DEF PluginAction, N!Goroutine, N!BeginRun, N!SkipForeignDevice,
         N!RejectDevice, N!Configure, N!ConfigureSucceeds, N!ConfigureFails, N!NextClaim,
         N!CloseDone, N!ExitRun
  <2>2. CASE StopPodSandbox
      BY <1>2, <2>2 DEF StopPodSandbox, N!StopPodSandbox, N!IInv, N!TypeOK
  <2>3. CASE Crash
      BY <1>2, <2>3 DEF Crash, PluginDies
  <2> QED
      BY <1>2, <2>1, <2>2, <2>3
      DEF Next, vars, pluginOnly, DriverAction, UnprepareResourceClaims, ClusterAction,
          Restart, RegisterPlugin, Unhooked, Quiescent
<1>4. t = s /\ (N!RunWithoutClaims(s) \/ N!RunPodSandbox(s))
    BY <1>2, <1>3 DEF N!IInv, N!TypeOK, N!Handlers, N!RunWithoutClaims, N!RunWithoutNamespace,
       N!RunPodSandbox, N!RegisterProcess, N!StartContainer, N!StartUntracked,
       N!StartRefused, N!StartConfigured, N!RemoveUntracked, N!RemovePodSandbox,
       N!FinishRemoval, N!Untrack, N!MayRun
<1>5. \A c \in ToSet(ClaimsOf[PodOf[s]]) :
          \E k \in DOMAIN podResources[PodOf[s]] : podResources[PodOf[s]][k].uid = c
    BY <1>1, <1>2, <1>3, <1>4 DEF D!IInv, D!PreparedIsStored, D!Holds, D!ToSet, ToSet
<1>6. CASE N!RunWithoutClaims(s)
    BY <1>5, <1>6 DEF N!RunWithoutClaims, N!Get, ClaimsReach
<1>7. CASE N!RunPodSandbox(s)
  <2>1. claims'[s] = podResources[PodOf[s]]
      BY <1>7 DEF N!RunPodSandbox, N!Get, N!IInv, N!TypeOK
  <2> QED
      BY <1>5, <2>1 DEF ClaimsReach
<1> QED
    BY <1>4, <1>6, <1>7

(* What the driver has stored for a pod arrives in each of its sandboxes   *)
(* that the plugin sees, unless a restart came in between                  *)
(* (driver.go:17-19, plugin.go:91-120): for any number of pods, sandboxes, *)
(* claims, repeated calls and restarts.                                    *)
THEOREM ClaimsArrive == Spec => ClaimsReachSandbox
<1>1. D!IInv /\ N!IInv /\ [Next]_vars =>
         [\A s \in Sandboxes :
            agent = "hooked" /\ Runs(s) /\ PodOf[s] \notin lost => ClaimsReach(s)]_vars
    BY StoreReaches
<1> QED
    BY <1>1, Inductive, PTL DEF Spec, ClaimsReachSandbox

-----------------------------------------------------------------------------
(* The handover: every step of the process is a step of ClaimHandover.tla  *)
(* or a stutter.                                                           *)

LEMMA HandoverInit == Init => Handover!Init
BY DEF Init, D!Init, N!Init, D!NewMemory, Handover!Init, Handover!NothingKnown,
   HandoverPrepared, HandoverStored, HandoverWork, HandoverHanded, HandoverSettled, AtWork

(* Three kinds of steps that leave one side of the handover alone.         *)
LEMMA PluginSideStays ==
    ASSUME UNCHANGED pluginOnly
    PROVE  UNCHANGED <<HandoverWork, HandoverHanded, HandoverSettled>>
BY DEF pluginOnly, HandoverWork, HandoverHanded, HandoverSettled, AtWork

LEMMA DriverSideStays ==
    ASSUME UNCHANGED <<podResources, pod, lost>>
    PROVE  UNCHANGED <<HandoverPrepared, HandoverStored, lost>>
BY DEF HandoverPrepared, HandoverStored

LEMMA WorkStays ==
    ASSUME UNCHANGED <<claims, claimAt>>,
           \A s \in Sandboxes : /\ done'[s] = "closed" <=> done[s] = "closed"
                                /\ (phase'[s] = "creating" \/ run'[s] # "none") <=> AtWork(s)
    PROVE  UNCHANGED <<HandoverWork, HandoverHanded, HandoverSettled>>
<1>1. UNCHANGED <<HandoverHanded, HandoverSettled>>
    BY DEF HandoverHanded, HandoverSettled
<1>2. ASSUME NEW s \in Sandboxes
      PROVE  HandoverWork'[s] = HandoverWork[s]
    BY DEF HandoverWork, AtWork
<1>3. UNCHANGED HandoverWork
    BY <1>2 DEF HandoverWork
<1> QED
    BY <1>1, <1>3

(* A claim that the driver stores.                                         *)
LEMMA StoreHandsOver ==
    ASSUME D!IInv, NEW c \in ClaimUIDs, D!StoreClaim(c), UNCHANGED pluginOnly
    PROVE  [Handover!Next]_(Handover!vars)
<1> DEFINE p == updated.reservedFor[1]
           claim == updated.claim
<1>1. p \in Pods /\ claim \in D!StoredClaim
    BY DEF D!StoreClaim, D!IInv, D!TypeOK
<1>2. claim.uid \in ClaimUIDs
    BY <1>1 DEF D!StoredClaim
<1>3. podResources \in [Pods -> Seq(D!StoredClaim)]
    BY DEF D!IInv, D!TypeOK, D!Store
<1>4. /\ podResources' = D!Add(podResources, p, claim)
      /\ UNCHANGED <<pod, lost>>
    BY DEF D!StoreClaim, D!ghosts
<1> HIDE DEF p, claim
<1>5. UNCHANGED HandoverPrepared
    BY <1>4 DEF HandoverPrepared
<1>6. CASE D!Holds(podResources[p], claim.uid)
  <2>1. UNCHANGED podResources
      BY <1>4, <1>6 DEF D!Add
  <2> QED
      BY <1>4, <2>1, DriverSideStays, PluginSideStays DEF Handover!vars
<1>7. CASE ~D!Holds(podResources[p], claim.uid)
  <2>1. podResources' = [podResources EXCEPT ![p] = Append(@, claim)]
      BY <1>4, <1>7 DEF D!Add
  <2>2. {podResources'[p][k].uid : k \in DOMAIN podResources'[p]}
          = {podResources[p][k].uid : k \in DOMAIN podResources[p]} \cup {claim.uid}
    <3> DEFINE list == podResources[p]
    <3>1. list \in Seq(D!StoredClaim) /\ podResources'[p] = Append(list, claim)
        BY <1>1, <1>3, <2>1
    <3> HIDE DEF list
    <3>2. /\ DOMAIN Append(list, claim) = DOMAIN list \cup {Len(list) + 1}
          /\ \A k \in DOMAIN list : Append(list, claim)[k] = list[k]
          /\ Append(list, claim)[Len(list) + 1] = claim
        BY <1>1, <3>1
    <3> QED
        BY <3>1, <3>2 DEF list
  <2>3. \A q \in Pods \ {p} : podResources'[q] = podResources[q]
      BY <1>3, <2>1
  <2>4. HandoverStored' = [HandoverStored EXCEPT ![p] = @ \cup {claim.uid}]
      BY <1>1, <2>2, <2>3 DEF HandoverStored
  <2>5. Handover!StoreClaim(p, claim.uid)
      BY <1>4, <1>5, <2>4, PluginSideStays DEF Handover!StoreClaim
  <2> QED
      BY <1>1, <1>2, <2>5 DEF Handover!Next
<1> QED
    BY <1>6, <1>7

(* The answer of a call: the pod is prepared with all of its claims.       *)
LEMMA AnswerHandsOver ==
    ASSUME D!IInv, NEW delivered \in BOOLEAN, D!Respond(delivered), UNCHANGED pluginOnly
    PROVE  [Handover!Next]_(Handover!vars)
<1>1. UNCHANGED <<podResources, lost>>
    BY DEF D!Respond, D!ghosts
<1>2. CASE UNCHANGED pod
    BY <1>1, <1>2, DriverSideStays, PluginSideStays DEF Handover!vars
<1>3. CASE ~UNCHANGED pod
  <2>1. /\ errors = {} /\ todo = <<>> /\ pod[caller] = "pending"
        /\ pod' = [pod EXCEPT ![caller] = "prepared"]
      BY <1>3 DEF D!Respond
  <2>2. caller \in Pods /\ caller # None
    <3>1. caller # None
        BY DEF D!Respond, D!IInv, D!TypeOK
    <3> QED
        BY <3>1 DEF D!IInv, D!TypeOK
  <2>3. \A c \in ToSet(ClaimsOf[caller]) : D!Holds(podResources[caller], c)
    <3>1. D!ToSet(todo) = {} /\ D!ToSet(ClaimsOf[caller]) = ToSet(ClaimsOf[caller])
        BY <2>1 DEF D!ToSet, ToSet
    <3> QED
        BY <2>1, <2>2, <3>1 DEF D!IInv, D!ClaimsAccountedFor, D!CallOfLivePod
  <2>4. ClaimsOfPod[caller] \subseteq HandoverStored[caller]
      BY <2>2, <2>3 DEF ClaimsOfPod, HandoverStored, D!Holds
  <2>5. HandoverPrepared' = HandoverPrepared \cup {caller}
      BY <2>1, <2>2 DEF HandoverPrepared, D!IInv, D!TypeOK
  <2>6. UNCHANGED HandoverStored
      BY <1>1 DEF HandoverStored
  <2>7. Handover!Prepare(caller)
      BY <1>1, <2>4, <2>5, <2>6, PluginSideStays DEF Handover!Prepare
  <2> QED
      BY <2>2, <2>7 DEF Handover!Next
<1> QED
    BY <1>2, <1>3

LEMMA DriverHandsOver ==
    ASSUME D!IInv, DriverAction
    PROVE  [Handover!Next]_(Handover!vars)
<1>1. UNCHANGED pluginOnly
    BY DEF DriverAction
<1>2. CASE \E c \in ClaimUIDs : D!StoreClaim(c)
    BY <1>1, <1>2, StoreHandsOver
<1>3. CASE \E delivered \in BOOLEAN : D!Respond(delivered)
    BY <1>1, <1>3, AnswerHandsOver
<1>4. CASE UNCHANGED <<podResources, pod, lost>>
    BY <1>1, <1>4, DriverSideStays, PluginSideStays DEF Handover!vars
<1>5. CASE \E c \in ClaimUIDs : D!HandleClaim(c) /\ ~D!StoreClaim(c)
    BY <1>4, <1>5 DEF D!HandleClaim, D!NotReservedOnce, D!SkipForeignResult,
       D!AllocateDevice, D!AllocationFails, D!ApplyStatus, D!ApplyFails,
       D!ApplyAnswerLost, D!ghosts
<1>6. CASE \E p \in Pods : D!PrepareResourceClaims(p)
    BY <1>4, <1>6 DEF D!PrepareResourceClaims
<1> QED
    BY <1>2, <1>3, <1>5, <1>6 DEF DriverAction, D!HandlerStep

(* Of the cluster's steps, the handover knows the deletion of a pod.       *)
LEMMA ClusterHandsOver ==
    ASSUME D!IInv,
           ClusterAction \/ \E p \in Pods : UnprepareResourceClaims(p)
    PROVE  [Handover!Next]_(Handover!vars)
<1>1. UNCHANGED pluginOnly
    BY DEF ClusterAction, UnprepareResourceClaims
<1>2. UNCHANGED <<podResources, lost>>
    BY DEF ClusterAction, UnprepareResourceClaims, D!ClusterStep, D!DeletePod, D!Reserve,
       D!Unreserve, D!UnprepareResourceClaims, D!ghosts
<1>3. UNCHANGED HandoverStored
    BY <1>2 DEF HandoverStored
<1>4. CASE UNCHANGED HandoverPrepared
    BY <1>1, <1>2, <1>3, <1>4, PluginSideStays DEF Handover!vars
<1>5. CASE \E p \in Pods : UnprepareResourceClaims(p)
  <2>1. UNCHANGED HandoverPrepared
      BY <1>5 DEF HandoverPrepared, UnprepareResourceClaims, D!UnprepareResourceClaims,
         D!IInv, D!TypeOK
  <2> QED
      BY <1>4, <2>1
<1>6. CASE \E p \in Pods : D!DeletePod(p)
  <2>1. PICK p \in Pods : D!DeletePod(p)
      BY <1>6
  <2>2. HandoverPrepared' = HandoverPrepared \ {p}
      BY <2>1 DEF HandoverPrepared, D!DeletePod, D!IInv, D!TypeOK
  <2>3. Handover!DeletePod(p)
      BY <1>1, <1>2, <1>3, <2>2, PluginSideStays DEF Handover!DeletePod
  <2> QED
      BY <2>3 DEF Handover!Next
<1>7. CASE \E p \in Pods, c \in ClaimUIDs : D!Reserve(p, c) \/ D!Unreserve(p, c)
    BY <1>4, <1>7 DEF HandoverPrepared, D!Reserve, D!Unreserve
<1> QED
    BY <1>5, <1>6, <1>7 DEF ClusterAction, D!ClusterStep

(* A restart.                                                              *)
LEMMA CrashForgets ==
    ASSUME N!IInv, Crash
    PROVE  Handover!Restart
<1>1. /\ podResources' = D!NewMemory
      /\ lost' = lost \cup HandoverPrepared
      /\ UNCHANGED pod
    BY DEF Crash, D!Crash, D!Panic, D!Die, HandoverPrepared
<1>2. /\ UNCHANGED HandoverPrepared
      /\ HandoverStored' = [p \in Pods |-> {}]
    BY <1>1 DEF HandoverPrepared, HandoverStored, D!NewMemory
<1>3. /\ claims' = [s \in Sandboxes |-> <<>>]
      /\ run' = [s \in Sandboxes |-> "none"] /\ done' = [s \in Sandboxes |-> "nil"]
      /\ \A s \in Sandboxes : phase'[s] # "creating"
    BY DEF Crash, PluginDies
<1>4. /\ HandoverWork' = [s \in Sandboxes |-> "none"]
      /\ HandoverHanded' = [s \in Sandboxes |-> {}]
      /\ HandoverSettled' = [s \in Sandboxes |-> {}]
    BY <1>3 DEF HandoverWork, AtWork, HandoverHanded, HandoverSettled
<1> QED
    BY <1>1, <1>2, <1>4 DEF Handover!Restart, Handover!NothingKnown

(* A sandbox gets what is stored for its pod.                              *)
LEMMA RunHandsOver ==
    ASSUME N!IInv, NEW s \in Sandboxes, N!RunPodSandbox(s), pod[PodOf[s]] = "prepared",
           UNCHANGED driverOnly
    PROVE  Handover!HandOver(s)
<1>1. /\ phase[s] = "absent" /\ run[s] = "none" /\ done[s] # "closed"
      /\ PodOf[s] \in Pods
    BY NodeAgentAssumption DEF N!RunPodSandbox, N!MayRun, N!IInv, N!DoneTellsRun, N!TypeOK
<1>2. /\ claims' = [claims EXCEPT ![s] = podResources[PodOf[s]]]
      /\ phase' = [phase EXCEPT ![s] = "creating"]
      /\ claimAt[s] = 1
      /\ UNCHANGED <<podResources, run, done, claimAt, pod, lost>>
    BY <1>1 DEF N!RunPodSandbox, N!Get, N!IInv, N!CursorsLeaveNothing, N!CursorsOK, driverOnly
<1>3. /\ claims \in [Sandboxes -> Seq(N!StoredClaim)] /\ DOMAIN phase = Sandboxes
      /\ podResources[PodOf[s]] \in Seq(N!StoredClaim)
    BY <1>1 DEF N!IInv, N!TypeOK, N!Store
<1>4. HandoverWork[s] = "none" /\ HandoverWork' = [HandoverWork EXCEPT ![s] = "begun"]
    BY <1>1, <1>2, <1>3 DEF HandoverWork, AtWork
<1>5. HandoverHanded' = [HandoverHanded EXCEPT ![s] = HandoverStored[PodOf[s]]]
    BY <1>1, <1>2, <1>3 DEF HandoverHanded, HandoverStored
<1>6. UNCHANGED HandoverSettled
  <2>1. HandoverSettled[s] = {} /\ HandoverSettled'[s] = {}
    <3>1. \A k \in DOMAIN claims[s] \cup DOMAIN claims'[s] : ~(k < 1)
        BY <1>2, <1>3
    <3> QED
        BY <1>2, <3>1 DEF HandoverSettled
  <2>2. \A t \in Sandboxes \ {s} : HandoverSettled'[t] = HandoverSettled[t]
      BY <1>2, <1>3 DEF HandoverSettled
  <2> QED
      BY <2>1, <2>2 DEF HandoverSettled
<1>7. PodOf[s] \in HandoverPrepared
    BY <1>1 DEF HandoverPrepared
<1> QED
    BY <1>2, <1>4, <1>5, <1>6, <1>7, DriverSideStays DEF Handover!HandOver

(* The goroutine is done with a claim.                                     *)
LEMMA PassingSettles ==
    ASSUME N!IInv, NEW s \in Sandboxes, N!SkipToNextClaim(s), N!HasClaim(s),
           run[s] \in N!Busy, run'[s] \in N!Busy,
           \A t \in Sandboxes \ {s} : run'[t] = run[t],
           UNCHANGED <<podResources, claims, done, phase, driverOnly>>
    PROVE  \E c \in ClaimUIDs : Handover!Settle(s, c)
<1> DEFINE k == claimAt[s]
           c == claims[s][k].uid
<1>1. /\ claims[s] \in Seq(N!StoredClaim) /\ k \in DOMAIN claims[s]
      /\ claimAt \in [Sandboxes -> Nat \ {0}]
    BY DEF N!IInv, N!TypeOK, N!HasClaim
<1>2. c \in ClaimUIDs /\ c \in HandoverHanded[s]
  <2>1. claims[s][k] \in N!StoredClaim
      BY <1>1
  <2> QED
      BY <1>1, <2>1 DEF N!StoredClaim, HandoverHanded
<1>3. claimAt' = [claimAt EXCEPT ![s] = k + 1]
    BY DEF N!SkipToNextClaim
<1>4. HandoverSettled' = [HandoverSettled EXCEPT ![s] = @ \cup {c}]
  <2>1. {j \in DOMAIN claims[s] : j < k + 1} = {j \in DOMAIN claims[s] : j < k} \cup {k}
      BY <1>1
  <2>2. HandoverSettled'[s] = HandoverSettled[s] \cup {c}
      BY <1>1, <1>3, <2>1 DEF HandoverSettled
  <2>3. \A t \in Sandboxes \ {s} : HandoverSettled'[t] = HandoverSettled[t]
      BY <1>1, <1>3 DEF HandoverSettled
  <2> HIDE DEF c
  <2> QED
      BY <2>2, <2>3 DEF HandoverSettled
<1>5. HandoverWork[s] = "begun"
    BY DEF HandoverWork, AtWork, N!IInv, N!DoneTellsRun, N!Busy
<1>6. UNCHANGED <<HandoverWork, HandoverHanded>>
    BY DEF HandoverWork, AtWork, HandoverHanded, N!Busy
<1>7. UNCHANGED <<HandoverPrepared, HandoverStored, lost>>
    BY DEF driverOnly, HandoverPrepared, HandoverStored
<1> QED
    BY <1>2, <1>4, <1>5, <1>6, <1>7 DEF Handover!Settle

LEMMA CloseFinishes ==
    ASSUME N!IInv, NEW s \in Sandboxes, N!CloseDone(s), UNCHANGED driverOnly
    PROVE  Handover!Finish(s)
<1>1. /\ run[s] = "looping" /\ ~N!HasClaim(s)
      /\ done' = [done EXCEPT ![s] = "closed"]
      /\ run' = [run EXCEPT ![s] = "closing"]
      /\ UNCHANGED <<podResources, claims, claimAt, phase>>
    BY DEF N!CloseDone
<1>2. HandoverWork[s] = "begun" /\ HandoverWork' = [HandoverWork EXCEPT ![s] = "finished"]
  <2>1. done[s] # "closed"
      BY <1>1 DEF N!IInv, N!DoneTellsRun, N!Busy
  <2>2. DOMAIN done = Sandboxes /\ DOMAIN run = Sandboxes
      BY DEF N!IInv, N!TypeOK, N!Busy
  <2> QED
      BY <1>1, <2>1, <2>2 DEF HandoverWork, AtWork
<1>3. HandoverSettled[s] = HandoverHanded[s]
  <2>1. claims[s] \in Seq(N!StoredClaim) /\ claimAt[s] \in Nat
      BY DEF N!IInv, N!TypeOK
  <2>2. \A j \in DOMAIN claims[s] : j < claimAt[s]
      BY <1>1, <2>1 DEF N!HasClaim
  <2> QED
      BY <2>2 DEF HandoverSettled, HandoverHanded
<1>4. UNCHANGED <<HandoverHanded, HandoverSettled>>
    BY <1>1 DEF HandoverHanded, HandoverSettled
<1>5. UNCHANGED <<HandoverPrepared, HandoverStored, lost>>
    BY <1>1 DEF driverOnly, HandoverPrepared, HandoverStored
<1> QED
    BY <1>2, <1>3, <1>4, <1>5 DEF Handover!Finish

LEMMA GoroutineHandsOver ==
    ASSUME N!IInv, NEW s \in Sandboxes, N!Goroutine(s), UNCHANGED driverOnly
    PROVE  [Handover!Next]_(Handover!vars)
<1>1. /\ UNCHANGED <<podResources, claims, phase>>
      /\ \A t \in Sandboxes \ {s} : run'[t] = run[t] /\ done'[t] = done[t]
    BY DEF N!Goroutine, N!BeginRun, N!SkipForeignDevice, N!RejectDevice, N!Configure,
       N!ConfigureSucceeds, N!ConfigureFails, N!NextClaim, N!CloseDone, N!ExitRun,
       N!IInv, N!TypeOK
<1>2. UNCHANGED <<pod, lost>>
    BY DEF driverOnly
<1>3. CASE N!CloseDone(s)
    BY <1>3, CloseFinishes DEF Handover!Next
<1>4. CASE N!RejectDevice(s) \/ N!ConfigureFails(s) \/ N!NextClaim(s)
  <2>1. N!SkipToNextClaim(s) /\ UNCHANGED done
      BY <1>4 DEF N!RejectDevice, N!ConfigureFails, N!NextClaim, N!FailClaim
  <2>2. run[s] \in N!Busy /\ run'[s] \in N!Busy
      BY <1>4 DEF N!RejectDevice, N!ConfigureFails, N!NextClaim, N!IInv, N!TypeOK, N!Busy
  <2>3. N!HasClaim(s)
      BY <1>4 DEF N!RejectDevice, N!ConfigureFails, N!NextClaim, N!HasDevice,
         N!IInv, N!CursorsLeaveNothing, N!CursorsOK
  <2>4. \E c \in ClaimUIDs : Handover!Settle(s, c)
      BY <1>1, <2>1, <2>2, <2>3, PassingSettles
  <2> QED
      BY <2>4 DEF Handover!Next
<1>5. CASE N!BeginRun(s) \/ N!SkipForeignDevice(s) \/ N!Configure(s) \/ N!ConfigureSucceeds(s)
           \/ N!ExitRun(s)
  <2>1. UNCHANGED claimAt
      BY <1>5 DEF N!BeginRun, N!SkipForeignDevice, N!Configure, N!ConfigureSucceeds, N!ExitRun
  <2>2. done'[s] = "closed" <=> done[s] = "closed"
      BY <1>5 DEF N!BeginRun, N!SkipForeignDevice, N!Configure, N!ConfigureSucceeds, N!ExitRun,
         N!IInv, N!TypeOK, N!DoneTellsRun
  <2>3. run[s] # "none" /\ run'[s] # "none"
      BY <1>5 DEF N!BeginRun, N!SkipForeignDevice, N!Configure, N!ConfigureSucceeds, N!ExitRun,
         N!IInv, N!TypeOK
  <2>4. \A t \in Sandboxes : /\ done'[t] = "closed" <=> done[t] = "closed"
                             /\ (phase'[t] = "creating" \/ run'[t] # "none") <=> AtWork(t)
      BY <1>1, <2>2, <2>3 DEF AtWork
  <2> QED
      BY <1>1, <1>2, <2>1, <2>4, WorkStays, DriverSideStays DEF Handover!vars
<1> QED
    BY <1>3, <1>4, <1>5 DEF N!Goroutine

LEMMA HandlersHandOver ==
    ASSUME N!IInv, NEW s \in Sandboxes, N!Handlers(s), UNCHANGED driverOnly,
           phase[s] = "absent" => pod[PodOf[s]] = "prepared"
    PROVE  [Handover!Next]_(Handover!vars)
<1>1. UNCHANGED <<pod, lost>>
    BY DEF driverOnly
<1>2. CASE N!RunPodSandbox(s)
  <2>1. pod[PodOf[s]] = "prepared"
      BY <1>2 DEF N!RunPodSandbox, N!MayRun
  <2> QED
      BY <1>2, <2>1, RunHandsOver DEF Handover!Next
<1>3. CASE N!RegisterProcess(s)
  <2>1. UNCHANGED <<podResources, claims, claimAt, done>>
      BY <1>3 DEF N!RegisterProcess
  <2>2. \A t \in Sandboxes : (phase'[t] = "creating" \/ run'[t] # "none") <=> AtWork(t)
      BY <1>3 DEF N!RegisterProcess, N!IInv, N!TypeOK, AtWork
  <2> QED
      BY <1>1, <2>1, <2>2, WorkStays, DriverSideStays DEF Handover!vars
<1>4. CASE N!Handlers(s) /\ ~N!RunPodSandbox(s) /\ ~N!RegisterProcess(s)
  <2>1. UNCHANGED <<podResources, claims, claimAt, done, run>>
      BY <1>4 DEF N!Handlers, N!RunWithoutClaims, N!RunWithoutNamespace, N!StartContainer,
         N!StartUntracked, N!StartRefused, N!StartConfigured, N!RemoveUntracked,
         N!RemovePodSandbox, N!FinishRemoval, N!Untrack, N!process
  <2>2. \A t \in Sandboxes : phase'[t] = "creating" <=> phase[t] = "creating"
      BY <1>4 DEF N!Handlers, N!RunWithoutClaims, N!RunWithoutNamespace, N!StartContainer,
         N!StartUntracked, N!StartRefused, N!StartConfigured, N!RemoveUntracked,
         N!RemovePodSandbox, N!FinishRemoval, N!Untrack, N!MayRun, N!IInv, N!TypeOK
  <2>3. \A t \in Sandboxes : (phase'[t] = "creating" \/ run'[t] # "none") <=> AtWork(t)
      BY <2>1, <2>2 DEF AtWork
  <2> QED
      BY <1>1, <2>1, <2>3, WorkStays, DriverSideStays DEF Handover!vars
<1> QED
    BY <1>2, <1>3, <1>4

(* Sandboxes that are stopped, or come and go without the plugin, are not  *)
(* its concern.                                                            *)
LEMMA RuntimeHandsNothing ==
    ASSUME N!IInv, StopPodSandbox \/ Unhooked
    PROVE  UNCHANGED Handover!vars
<1>1. UNCHANGED <<podResources, pod, lost, claims, claimAt, done, run>>
    BY DEF StopPodSandbox, Unhooked, N!StopPodSandbox, N!process, driverOnly
<1>2. \A t \in Sandboxes : phase'[t] = "creating" <=> phase[t] = "creating"
    BY DEF StopPodSandbox, Unhooked, N!StopPodSandbox, RunUnhooked, StartUnhooked,
       RemoveUnhooked, N!MayRun, N!IInv, N!TypeOK
<1>3. \A t \in Sandboxes : (phase'[t] = "creating" \/ run'[t] # "none") <=> AtWork(t)
    BY <1>1, <1>2 DEF AtWork
<1> QED
    BY <1>1, <1>3, WorkStays, DriverSideStays DEF Handover!vars

LEMMA StepHandsOver ==
    ASSUME D!IInv, N!IInv, [Next]_vars
    PROVE  [Handover!Next]_(Handover!vars)
<1>1. CASE DriverAction
    BY <1>1, DriverHandsOver
<1>2. CASE ClusterAction \/ \E p \in Pods : UnprepareResourceClaims(p)
    BY <1>2, ClusterHandsOver
<1>3. CASE PluginAction
    BY <1>3, GoroutineHandsOver, HandlersHandOver DEF PluginAction
<1>4. CASE Crash
    BY <1>4, CrashForgets DEF Handover!Next
<1>5. CASE StopPodSandbox \/ Unhooked
    BY <1>5, RuntimeHandsNothing
<1>6. CASE UNCHANGED <<podResources, driverOnly, pluginOnly>>
  <2>1. UNCHANGED pluginOnly /\ UNCHANGED <<podResources, pod, lost>>
      BY <1>6 DEF driverOnly
  <2> QED
      BY <2>1, PluginSideStays, DriverSideStays DEF Handover!vars
<1> QED
    BY <1>1, <1>2, <1>3, <1>4, <1>5, <1>6 DEF Next, Restart, RegisterPlugin, Quiescent, vars

(* From the kubelet's call to the goroutine of a sandbox, with whatever    *)
(* fails, is repeated, deleted or restarted on the way, the process does   *)
(* nothing that the handover of claims does not allow.                     *)
THEOREM HandoverImplemented == Spec => ImplementsHandover
BY Inductive, HandoverInit, StepHandsOver, PTL DEF Spec, ImplementsHandover, Handover!Spec

(* What the handover promises follows from its own steps, whatever carries *)
(* them out.                                                               *)
LEMMA HandoverInvInit == Handover!Init => Handover!HandoverInv
BY DEF Handover!Init, Handover!NothingKnown, Handover!HandoverInv, Handover!TypeOK

LEMMA HandoverInvPreserved ==
    Handover!HandoverInv /\ [Handover!Next]_(Handover!vars) => Handover!HandoverInv'
<1> SUFFICES ASSUME Handover!HandoverInv, [Handover!Next]_(Handover!vars)
             PROVE  Handover!HandoverInv'
    OBVIOUS
<1> USE NodeAgentAssumption DEF Handover!HandoverInv, Handover!TypeOK
<1>1. ASSUME NEW p \in Pods, Handover!Prepare(p) \/ Handover!DeletePod(p)
      PROVE  Handover!HandoverInv'
    BY <1>1 DEF Handover!Prepare, Handover!DeletePod
<1>2. ASSUME NEW p \in Pods, NEW c \in ClaimUIDs, Handover!StoreClaim(p, c)
      PROVE  Handover!HandoverInv'
    BY <1>2 DEF Handover!StoreClaim
<1>3. ASSUME NEW s \in Sandboxes, Handover!HandOver(s)
      PROVE  Handover!HandoverInv'
    BY <1>3 DEF Handover!HandOver
<1>4. ASSUME NEW s \in Sandboxes, NEW c \in ClaimUIDs, Handover!Settle(s, c)
      PROVE  Handover!HandoverInv'
    BY <1>4 DEF Handover!Settle
<1>5. ASSUME NEW s \in Sandboxes, Handover!Finish(s)
      PROVE  Handover!HandoverInv'
    BY <1>5 DEF Handover!Finish
<1>6. CASE Handover!Restart
    BY <1>6 DEF Handover!Restart, Handover!NothingKnown
<1>7. CASE UNCHANGED Handover!vars
    BY <1>7 DEF Handover!vars
<1> QED
    BY <1>1, <1>2, <1>3, <1>4, <1>5, <1>6, <1>7 DEF Handover!Next

LEMMA HandoverKept == Handover!Spec => []Handover!HandoverInv
BY HandoverInvInit, HandoverInvPreserved, PTL DEF Handover!Spec

(* Finished work has dealt with every claim of its pod: a property of the  *)
(* handover alone, which holds of whatever implements it (plugin.go:91-120 *)
(* and driver.go:175-236 together).                                        *)
THEOREM HandoverSettlesAll == Handover!Spec => []Handover!AllClaimsSettled
<1>1. Handover!HandoverInv => Handover!AllClaimsSettled
    BY DEF Handover!HandoverInv, Handover!AllClaimsSettled
<1> QED
    BY <1>1, HandoverKept, PTL

LEMMA FinishedIsHandled ==
    N!IInv /\ Handover!HandoverInv => ClaimsHandled
<1> SUFFICES ASSUME N!IInv, Handover!HandoverInv,
                    NEW s \in Sandboxes, done[s] = "closed", PodOf[s] \notin lost,
                    NEW c \in ToSet(ClaimsOf[PodOf[s]])
             PROVE  \E k \in DOMAIN claims[s] : claims[s][k].uid = c /\ N!Settled(s, k)
    BY DEF ClaimsHandled
<1>1. PodOf[s] \in Pods
    BY NodeAgentAssumption
<1>2. HandoverWork[s] = "finished"
    BY DEF HandoverWork
<1>3. c \in HandoverHanded[s]
    BY <1>1, <1>2 DEF Handover!HandoverInv, ClaimsOfPod
<1>4. PICK k \in DOMAIN claims[s] : claims[s][k].uid = c
    BY <1>3 DEF HandoverHanded
<1>5. claims[s] \in Seq(N!StoredClaim) /\ claimAt[s] \in Nat
    BY DEF N!IInv, N!TypeOK
<1>6. k < claimAt[s]
    BY <1>4, <1>5 DEF N!IInv, N!CursorsLeaveNothing, N!CursorsOK, N!HasClaim
<1>7. N!Settled(s, k)
    BY <1>4, <1>6 DEF N!IInv, N!CursorsLeaveNothing, N!CursorsOK, N!BehindCursors
<1> QED
    BY <1>4, <1>7

(* Every claim that a pod was prepared with is configured in each of its   *)
(* sandboxes whose goroutine has ended, or has an error logged there.      *)
THEOREM PreparedIsHandled == Spec => []ClaimsHandled
BY Inductive, HandoverImplemented, HandoverKept, FinishedIsHandled, PTL DEF ImplementsHandover
=============================================================================
