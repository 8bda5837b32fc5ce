------------------------------- MODULE Driver -------------------------------
(***************************************************************************)
(* The DRA driver of the node agent: pkg/driver/driver.go.                 *)
(*                                                                         *)
(* The kubelet asks the driver to prepare the claims of a pod.  For each   *)
(* claim the driver allocates the network data of the allocated devices,   *)
(* applies them to the claim's status in the API server, and stores the    *)
(* claim the API server answers with for the NRI plugin.  A claim that     *)
(* fails does not stop the others; the kubelet sends all the claims of a   *)
(* pod again until one call succeeds for every one of them.                *)
(*                                                                         *)
(* Granularity.  The kubeletplugin helper lets one call in at a time and   *)
(* fetches the claims before it.  The driver's steps on a claim are the    *)
(* allocation of each device, which reads nothing that another step        *)
(* writes, the request to the API server, and the write to the store: pods *)
(* are deleted, claims are reserved and released, and the process may die, *)
(* between any two.                                                        *)
(***************************************************************************)
EXTENDS PodResourceStore, SequencesExt

CONSTANTS
    ClaimsOf,        \* the claims of each pod, in the order the kubelet sends
    Results,         \* claim.Status.Allocation.Devices.Results of each claim
    Foreign,         \* devices other drivers report in each claim's status
    DriverName,
    Configurators,   \* the device types with an entry in deviceConfigurators
    None,
    MaxCalls,        \* bound on the prepare calls of the kubelet
    MaxCrashes       \* bound on the spontaneous restarts of the agent

ASSUME DriverAssumption ==
    /\ ClaimsOf \in [Pods -> Seq(ClaimUIDs)]
    /\ Foreign \in [ClaimUIDs -> Seq(DeviceStatuses)]
    /\ None \notin Pods
    /\ MaxCalls \in Nat /\ MaxCrashes \in Nat

VARIABLES
    podResources,    \* the store the NRI plugin reads
    deviceStatus,    \* claim.Status.Devices in the API server
    reservedFor,     \* claim.Status.ReservedFor in the API server
    pod,             \* what the kubelet knows of a pod
    caller,          \* the pod whose claims are being prepared
    todo,            \* the claims of the call not dealt with yet
    fetched,         \* ReservedFor of the claims as the helper fetched them
    errors,          \* the claims with an error in the call's result
    stage,           \* where the handler of the head of todo is
    resultAt,        \* cursor of the loop over its allocation results
    statusUpdates,   \* the device statuses allocated for it
    updated,         \* the claim the API server answered with
    calls, crashes,  \* how much of the bounds is used up
    lost,            \* prepared pods whose stored claims a restart forgot
    applies          \* how often the driver's status of a claim was applied

api == <<deviceStatus, reservedFor>>
handler == <<todo, fetched, errors, stage, resultAt, statusUpdates, updated>>
ghosts == <<calls, crashes, lost, applies>>
vars == <<podResources, api, pod, caller, handler, ghosts>>

NoClaim == [reservedFor |-> <<>>, claim |-> None]

TypeOK ==
    /\ podResources \in Store
    /\ deviceStatus \in [ClaimUIDs -> Seq(DeviceStatuses)]
    /\ reservedFor \in [ClaimUIDs -> Seq(Pods)]
    /\ pod \in [Pods -> {"pending", "prepared", "deleted", "unprepared"}]
    /\ caller \in Pods \cup {None}
    /\ todo \in Seq(ClaimUIDs)
    /\ fetched \in [ClaimUIDs -> Seq(Pods)]
    /\ errors \subseteq ClaimUIDs
    /\ stage \in {"idle", "preparing", "storing"}
    /\ stage = "idle" <=> caller = None
    /\ stage = "storing" => todo # <<>>
    /\ resultAt \in Nat \ {0}
    /\ statusUpdates \in Seq(DeviceStatuses)
    /\ stage = "storing" => updated \in [reservedFor : Seq(Pods), claim : StoredClaim]
    /\ calls \in 0..MaxCalls /\ crashes \in 0..MaxCrashes
    /\ lost \subseteq Pods
    /\ applies \in [ClaimUIDs -> Nat]

Init ==
    /\ podResources = NewMemory
    /\ deviceStatus = Foreign
    /\ reservedFor = [c \in ClaimUIDs |-> <<>>]
    /\ pod = [p \in Pods |-> "pending"]
    /\ caller = None
    /\ todo = <<>>
    /\ fetched = [c \in ClaimUIDs |-> <<>>]
    /\ errors = {}
    /\ stage = "idle"
    /\ resultAt = 1
    /\ statusUpdates = <<>>
    /\ updated = NoClaim
    /\ calls = 0 /\ crashes = 0
    /\ lost = {}
    /\ applies = [c \in ClaimUIDs |-> 0]

-----------------------------------------------------------------------------
(* PrepareResourceClaims and nodePrepareResource                           *)

(* A cursor that starts one too low.                                       *)
StartBelowClaim == resultAt' = 0 /\ statusUpdates' = <<>>

StartOfClaim == resultAt' = 1 /\ statusUpdates' = <<>>

(* The kubelet prepares a pod whose claims are reserved for it, and tries  *)
(* again after a failed call, always with all of the pod's claims.         *)
PrepareResourceClaims(p) ==
    /\ pod[p] = "pending"
    /\ caller = None
    /\ calls < MaxCalls
    /\ \A c \in ToSet(ClaimsOf[p]) : p \in ToSet(reservedFor[c])
    /\ caller' = p
    /\ todo' = ClaimsOf[p]
    /\ fetched' = reservedFor
    /\ errors' = {}
    /\ stage' = "preparing"
    /\ StartOfClaim
    /\ calls' = calls + 1
    /\ UNCHANGED <<podResources, api, pod, updated, crashes, lost, applies>>

AtClaim(c) == stage = "preparing" /\ todo # <<>> /\ c = Head(todo)

NextClaim ==
    /\ todo' = Tail(todo)
    /\ stage' = "preparing"
    /\ StartOfClaim

(* An error return: it becomes the claim's result and the loop goes on.    *)
FailClaim(c) ==
    /\ errors' = errors \cup {c}
    /\ NextClaim

(* A claim without an allocation is refused like this too; the kubelet     *)
(* sends none.                                                             *)
NotReservedOnce(c) ==
    /\ AtClaim(c)
    /\ Len(fetched[c]) # 1
    /\ FailClaim(c)
    /\ UNCHANGED <<podResources, api, pod, caller, fetched, updated, ghosts>>

(* The loop over the allocation results.                                   *)
AtResult(c) ==
    AtClaim(c) /\ Len(fetched[c]) = 1 /\ resultAt <= Len(Results[c])

SkipForeignResult(c) ==
    /\ AtResult(c)
    /\ Results[c][resultAt].driver # DriverName
    /\ resultAt' = resultAt + 1
    /\ UNCHANGED <<podResources, api, pod, caller, todo, fetched, errors, stage,
                   statusUpdates, updated, ghosts>>

(* What allocateDevice and the configurators return for a result: a        *)
(* macvlan interface gets a random name, a host device keeps its own.      *)
AllocationsOf(result) ==
    {status \in DeviceStatuses :
        /\ status.driver = DriverName
        /\ status.type = result.type
        /\ status.type = "HostDevice" => status.name = result.device}

AllocateDevice(c) ==
    /\ AtResult(c)
    /\ Results[c][resultAt].driver = DriverName
    /\ Results[c][resultAt].type \in Configurators
    /\ \E status \in AllocationsOf(Results[c][resultAt]) :
          statusUpdates' = Append(statusUpdates, status)
    /\ resultAt' = resultAt + 1
    /\ UNCHANGED <<podResources, api, pod, caller, todo, fetched, errors, stage,
                   updated, ghosts>>

(* The device does not resolve, its data do not marshal, there is no       *)
(* configurator of its type, or its configurator's Allocate fails.         *)
AllocationFails(c) ==
    /\ AtResult(c)
    /\ Results[c][resultAt].driver = DriverName
    /\ FailClaim(c)
    /\ UNCHANGED <<podResources, api, pod, caller, fetched, updated, ghosts>>

Applying(c) ==
    AtClaim(c) /\ Len(fetched[c]) = 1 /\ resultAt > Len(Results[c])

(* Server-side apply with Force: the devices this driver applied before    *)
(* are replaced by the ones it applies now, other drivers' stay.           *)
Publish(c) ==
    /\ deviceStatus' = [deviceStatus EXCEPT ![c] = Foreign[c] \o statusUpdates]
    /\ applies' = [applies EXCEPT ![c] = @ + 1]

(* A driver that keeps what it applied, not what the API server answered.  *)
ApplyKeepsRequest(c) ==
    /\ Applying(c)
    /\ Publish(c)
    /\ updated' = [reservedFor |-> reservedFor[c],
                   claim |-> [uid |-> c, devices |-> statusUpdates]]
    /\ stage' = "storing"
    /\ UNCHANGED <<podResources, reservedFor, pod, caller, todo, fetched,
                   errors, resultAt, statusUpdates, calls, crashes, lost>>

ApplyStatus(c) ==
    /\ Applying(c)
    /\ Publish(c)
    /\ updated' = [reservedFor |-> reservedFor[c],
                   claim |-> [uid |-> c, devices |-> deviceStatus'[c]]]
    /\ stage' = "storing"
    /\ UNCHANGED <<podResources, reservedFor, pod, caller, todo, fetched,
                   errors, resultAt, statusUpdates, calls, crashes, lost>>

(* An apply that is sent again for as long as it fails.                    *)
ApplyRetried(c) ==
    /\ Applying(c)
    /\ resultAt' = 1
    /\ statusUpdates' = <<>>
    /\ UNCHANGED <<podResources, api, pod, caller, todo, fetched, errors, stage,
                   updated, ghosts>>

(* An error of the apply that is logged and not returned.                  *)
ApplyIgnored(c) ==
    /\ Applying(c)
    /\ NextClaim
    /\ UNCHANGED <<podResources, api, pod, caller, fetched, errors, updated,
                   ghosts>>

(* The request fails; nothing of the allocation is rolled back ...         *)
ApplyFails(c) ==
    /\ Applying(c)
    /\ FailClaim(c)
    /\ UNCHANGED <<podResources, api, pod, caller, fetched, updated, ghosts>>

(* ... or it is served and only its answer is lost.                        *)
ApplyAnswerLost(c) ==
    /\ Applying(c)
    /\ Publish(c)
    /\ FailClaim(c)
    /\ UNCHANGED <<podResources, reservedFor, pod, caller, fetched, updated,
                   calls, crashes, lost>>

(* The claim is filed under the first reservation of the updated object.   *)
StoreClaim(c) ==
    /\ stage = "storing" /\ c = Head(todo)
    /\ updated.reservedFor # <<>>
    /\ podResources' = Add(podResources, updated.reservedFor[1], updated.claim)
    /\ NextClaim
    /\ UNCHANGED <<api, pod, caller, fetched, errors, updated, ghosts>>

(* The result reaches the kubelet, which takes the pod as prepared if no   *)
(* claim has an error, or the call has timed out on the kubelet's side.    *)
Respond(delivered) ==
    /\ stage = "preparing"
    /\ todo = <<>>
    /\ pod' = IF delivered /\ errors = {} /\ pod[caller] = "pending"
              THEN [pod EXCEPT ![caller] = "prepared"] ELSE pod
    /\ caller' = None
    /\ stage' = "idle"
    /\ UNCHANGED <<podResources, api, todo, fetched, errors, resultAt,
                   statusUpdates, updated, ghosts>>

HandleClaim(c) ==
    \/ NotReservedOnce(c)
    \/ SkipForeignResult(c) \/ AllocateDevice(c) \/ AllocationFails(c)
    \/ ApplyStatus(c) \/ ApplyFails(c) \/ ApplyAnswerLost(c)
    \/ StoreClaim(c)

-----------------------------------------------------------------------------
(* Restarts                                                                *)

(* The process dies: the store and the call are gone, NewMemory does not   *)
(* restore them, and the kubelet does not prepare a prepared pod again.    *)
Die ==
    /\ podResources' = NewMemory
    /\ lost' = lost \cup {p \in Pods : pod[p] = "prepared"}
    /\ caller' = None /\ todo' = <<>> /\ stage' = "idle"
    /\ UNCHANGED <<api, pod, fetched, errors, resultAt, statusUpdates, updated,
                   calls, applies>>

Crash ==
    /\ crashes < MaxCrashes
    /\ crashes' = crashes + 1
    /\ Die

(* The index into the updated ReservedFor is out of range.                 *)
Panic ==
    /\ stage = "storing"
    /\ updated.reservedFor = <<>>
    /\ UNCHANGED crashes
    /\ Die

-----------------------------------------------------------------------------
(* The driver's surroundings                                               *)

(* The scheduler reserves a pod's claims for it, one by one.               *)
Reserve(p, c) ==
    /\ pod[p] = "pending"
    /\ c \in ToSet(ClaimsOf[p])
    /\ p \notin ToSet(reservedFor[c])
    /\ reservedFor' = [reservedFor EXCEPT ![c] = Append(@, p)]
    /\ UNCHANGED <<podResources, deviceStatus, pod, caller, handler, ghosts>>

DeletePod(p) ==
    /\ pod[p] \in {"pending", "prepared"}
    /\ pod' = [pod EXCEPT ![p] = "deleted"]
    /\ UNCHANGED <<podResources, api, caller, handler, ghosts>>

(* UnprepareResourceClaims does nothing to any state of the driver.        *)
UnprepareResourceClaims(p) ==
    /\ pod[p] = "deleted"
    /\ caller = None
    /\ pod' = [pod EXCEPT ![p] = "unprepared"]
    /\ UNCHANGED <<podResources, api, caller, handler, ghosts>>

(* The claim controller drops the reservation of a pod that is gone.       *)
Unreserve(p, c) ==
    /\ pod[p] \in {"deleted", "unprepared"}
    /\ \E i \in DOMAIN reservedFor[c] :
          /\ reservedFor[c][i] = p
          /\ reservedFor' = [reservedFor EXCEPT ![c] = RemoveAt(@, i)]
    /\ UNCHANGED <<podResources, deviceStatus, pod, caller, handler, ghosts>>

Quiescent ==
    /\ \A p \in Pods : pod[p] = "unprepared"
    /\ UNCHANGED vars

HandlerStep ==
    \/ \E c \in ClaimUIDs : HandleClaim(c)
    \/ \E delivered \in BOOLEAN : Respond(delivered)

DriverStep == HandlerStep \/ Panic

ClusterStep ==
    \/ \E p \in Pods : DeletePod(p)
    \/ \E p \in Pods, c \in ClaimUIDs : Reserve(p, c) \/ Unreserve(p, c)

Next ==
    \/ \E p \in Pods : PrepareResourceClaims(p) \/ UnprepareResourceClaims(p)
    \/ DriverStep
    \/ ClusterStep
    \/ Crash
    \/ Quiescent

Spec == Init /\ [][Next]_vars

(* Requests to the API server are answered, with an error at worst.        *)
FairSpec == Spec /\ WF_vars(DriverStep)

-----------------------------------------------------------------------------
(* The store never holds two copies of a claim for a pod, however often    *)
(* the kubelet repeats a call ("Avoid claims to be stored twice",          *)
(* memory.go:47): the plugin would configure its devices twice.            *)
UniqueClaims(store) ==
    \A p \in Pods : \A i, j \in DOMAIN store[p] :
        store[p][i].uid = store[p][j].uid => i = j

StoreNoDuplicates == UniqueClaims(podResources)

(* The kubelet runs a pod once a call has succeeded for all its claims;    *)
(* then all of them are in the store, under the pod's own UID, although    *)
(* the driver files them under a reservation it read again (driver.go:232) *)
(* and errors are per claim.  Only a restart of the agent can undo it.     *)
PreparedIsStored ==
    \A p \in Pods : pod[p] = "prepared" /\ p \notin lost =>
        \A c \in ToSet(ClaimsOf[p]) : Holds(podResources[p], c)

(* As long as a claim was applied once, the plugin will configure exactly  *)
(* the devices, of all drivers, that the claim's status shows: what is     *)
(* stored is the API server's answer (driver.go:221-232).                  *)
StoredIsPublished ==
    \A p \in Pods : \A k \in DOMAIN podResources[p] :
        LET claim == podResources[p][k]
        IN  applies[claim.uid] = 1 => claim.devices = deviceStatus[claim.uid]

(* Every prepare call ends, with an answer or with the process.            *)
CallAnswered == \A p \in Pods : caller = p ~> caller = None

-----------------------------------------------------------------------------
(* The inductive invariant behind PreparedIsStored                         *)

CallOfLivePod == caller # None /\ pod[caller] = "pending"

(* While the pod of the call is not deleted it stays the first reservation *)
(* of every claim that passed the check of one reservation.                *)
CallerStaysFirst ==
    CallOfLivePod =>
        \A c \in ToSet(todo) : Len(fetched[c]) = 1 =>
            reservedFor[c] # <<>> /\ reservedFor[c][1] = caller

(* So the claim about to be stored goes where the NRI plugin will look.    *)
StoringForCaller ==
    CallOfLivePod /\ stage = "storing" =>
        /\ updated.reservedFor # <<>>
        /\ updated.reservedFor[1] = caller
        /\ updated.claim.uid = Head(todo)

(* Every claim of the call is still to come, failed, or is in the store.   *)
ClaimsAccountedFor ==
    CallOfLivePod =>
        \A c \in ToSet(ClaimsOf[caller]) :
            c \in ToSet(todo) \/ c \in errors \/ Holds(podResources[caller], c)

IInv ==
    /\ TypeOK
    /\ CallerStaysFirst
    /\ StoringForCaller
    /\ ClaimsAccountedFor
    /\ PreparedIsStored

-----------------------------------------------------------------------------
(* What the code or its tests promise and the code does not keep           *)

(* driver.go:184-186 insists on exactly one reservation, but of the object *)
(* the helper fetched: the object it indexes may have none left.           *)
ReservationStillThere == stage = "storing" => updated.reservedFor # <<>>

(* The status the driver applied last is what the user sees: the devices   *)
(* stored for a prepared pod, which its sandbox is configured with, should *)
(* be those.  After a repeated call they are the first ones allocated.     *)
StoreFollowsStatus ==
    \A p \in Pods : pod[p] = "prepared" =>
        \A k \in DOMAIN podResources[p] :
            podResources[p][k].devices = deviceStatus[podResources[p][k].uid]
=============================================================================
