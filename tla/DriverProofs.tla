---------------------------- MODULE DriverProofs ----------------------------
(***************************************************************************)
(* Theorems about Driver.tla and the store it writes, for any pods, claims *)
(* and allocation results, and any number of calls and restarts.           *)
(***************************************************************************)
EXTENDS Driver, TLAPS

-----------------------------------------------------------------------------
(* The store                                                               *)

LEMMA AddTyped ==
    ASSUME NEW store \in Store, NEW p \in Pods, NEW claim \in StoredClaim
    PROVE  Add(store, p, claim) \in Store
BY DEF Add, Store

(* Add stores the claim, or a claim of its UID was there ...               *)
LEMMA AddHolds ==
    ASSUME NEW store \in Store, NEW p \in Pods, NEW claim \in StoredClaim
    PROVE  Holds(Add(store, p, claim)[p], claim.uid)
<1>1. CASE Holds(store[p], claim.uid)
    BY <1>1 DEF Add
<1>2. CASE ~Holds(store[p], claim.uid)
  <2>1. Add(store, p, claim)[p] = Append(store[p], claim) /\ store[p] \in Seq(StoredClaim)
      BY <1>2 DEF Add, Store
  <2>2. Append(store[p], claim)[Len(store[p]) + 1] = claim
      BY <2>1
  <2> QED
      BY <2>1, <2>2 DEF Holds
<1> QED
    BY <1>1, <1>2

(* ... forgets nothing ...                                                 *)
LEMMA AddKeeps ==
    ASSUME NEW store \in Store, NEW p \in Pods, NEW claim \in StoredClaim,
           NEW q \in Pods, NEW c, Holds(store[q], c)
    PROVE  Holds(Add(store, p, claim)[q], c)
<1>1. CASE Add(store, p, claim) = store
    BY <1>1
<1>2. CASE Add(store, p, claim) # store
  <2>1. Add(store, p, claim) = [store EXCEPT ![p] = Append(@, claim)]
      BY <1>2 DEF Add
  <2>2. PICK k \in DOMAIN store[q] : store[q][k].uid = c
      BY DEF Holds
  <2>3. store[q] \in Seq(StoredClaim)
      BY DEF Store
  <2>4. k \in DOMAIN Add(store, p, claim)[q] /\ Add(store, p, claim)[q][k] = store[q][k]
      BY <2>1, <2>2, <2>3 DEF Store
  <2> QED
      BY <2>2, <2>4 DEF Holds
<1> QED
    BY <1>1, <1>2

(* ... and keeps the UIDs of a pod's claims distinct.                      *)
LEMMA AddUnique ==
    ASSUME NEW store \in Store, NEW p \in Pods, NEW claim \in StoredClaim,
           UniqueClaims(store)
    PROVE  UniqueClaims(Add(store, p, claim))
<1>1. CASE Holds(store[p], claim.uid)
    BY <1>1 DEF Add
<1>2. CASE ~Holds(store[p], claim.uid)
  <2>1. Add(store, p, claim) = [store EXCEPT ![p] = Append(@, claim)]
      BY <1>2 DEF Add
  <2>2. store[p] \in Seq(StoredClaim)
      BY DEF Store
  <2>3. ASSUME NEW i \in DOMAIN Append(store[p], claim),
               NEW j \in DOMAIN Append(store[p], claim),
               Append(store[p], claim)[i].uid = Append(store[p], claim)[j].uid
        PROVE  i = j
      BY <1>2, <2>2, <2>3 DEF Holds, UniqueClaims
  <2> QED
      BY <2>1, <2>3 DEF UniqueClaims, Store
<1> QED
    BY <1>1, <1>2

-----------------------------------------------------------------------------
(* Type correctness                                                        *)

LEMMA InitTyped == Init => TypeOK
BY DriverAssumption DEF Init, TypeOK, NewMemory, Store

LEMMA RemoveAtTyped ==
    ASSUME NEW S, NEW seq \in Seq(S), NEW i \in DOMAIN seq
    PROVE  /\ RemoveAt(seq, i) \in Seq(S)
           /\ i # 1 => RemoveAt(seq, i) # <<>> /\ RemoveAt(seq, i)[1] = seq[1]
BY DEF RemoveAt

(* Handling moves on to the next claim, and nothing else is disturbed.     *)
LEMMA MovingOnTyped ==
    ASSUME TypeOK, stage # "idle", todo # <<>>, NextClaim, UNCHANGED caller,
           podResources' \in Store, deviceStatus' \in [ClaimUIDs -> Seq(DeviceStatuses)],
           errors' \subseteq ClaimUIDs, applies' \in [ClaimUIDs -> Nat],
           UNCHANGED <<reservedFor, pod, fetched, calls, crashes, lost>>
    PROVE  TypeOK'
<1>1. todo' \in Seq(ClaimUIDs)
    BY DEF TypeOK, NextClaim
<1> QED
    BY <1>1, SMTT(30) DEF TypeOK, NextClaim, StartOfClaim

LEMMA PublishTyped ==
    ASSUME TypeOK, NEW c \in ClaimUIDs, Publish(c)
    PROVE  /\ deviceStatus' \in [ClaimUIDs -> Seq(DeviceStatuses)]
           /\ applies' \in [ClaimUIDs -> Nat]
<1>1. Foreign[c] \in Seq(DeviceStatuses) /\ statusUpdates \in Seq(DeviceStatuses)
    BY DriverAssumption DEF TypeOK
<1>2. Foreign[c] \o statusUpdates \in Seq(DeviceStatuses)
    BY <1>1
<1>3. /\ deviceStatus \in [ClaimUIDs -> Seq(DeviceStatuses)]
      /\ applies \in [ClaimUIDs -> Nat]
    BY DEF TypeOK
<1> QED
    BY <1>2, <1>3 DEF Publish

LEMMA HandlerTyped ==
    ASSUME TypeOK, NEW c \in ClaimUIDs, HandleClaim(c)
    PROVE  TypeOK'
<1>1. CASE NotReservedOnce(c)
    BY <1>1, MovingOnTyped DEF NotReservedOnce, AtClaim, FailClaim, TypeOK, api, ghosts
<1>2. CASE SkipForeignResult(c)
  <2>1. resultAt' \in Nat \ {0}
      BY <1>2 DEF SkipForeignResult, TypeOK
  <2>2. /\ AtClaim(c)
        /\ UNCHANGED <<podResources, api, pod, caller, todo, fetched, errors, stage,
                       statusUpdates, updated, ghosts>>
      BY <1>2 DEF SkipForeignResult, AtResult
  <2> QED
      BY <2>1, <2>2, SMTT(30) DEF AtClaim, TypeOK, api, ghosts
<1>3. CASE AllocateDevice(c)
  <2>1. statusUpdates' \in Seq(DeviceStatuses)
      BY <1>3 DEF AllocateDevice, AllocationsOf, TypeOK
  <2>2. resultAt' \in Nat \ {0}
      BY <1>3 DEF AllocateDevice, TypeOK
  <2>3. /\ AtClaim(c)
        /\ UNCHANGED <<podResources, api, pod, caller, todo, fetched, errors, stage,
                       updated, ghosts>>
      BY <1>3 DEF AllocateDevice, AtResult
  <2> QED
      BY <2>1, <2>2, <2>3, SMTT(30) DEF AtClaim, TypeOK, api, ghosts
<1>4. CASE AllocationFails(c)
    BY <1>4, MovingOnTyped
       DEF AllocationFails, AtResult, AtClaim, FailClaim, TypeOK, api, ghosts
<1>5. CASE ApplyStatus(c)
  <2>1. /\ deviceStatus' \in [ClaimUIDs -> Seq(DeviceStatuses)]
        /\ applies' \in [ClaimUIDs -> Nat]
      BY <1>5, PublishTyped DEF ApplyStatus
  <2>2. updated' \in [reservedFor : Seq(Pods), claim : StoredClaim]
      BY <1>5, <2>1 DEF ApplyStatus, StoredClaim, TypeOK
  <2> QED
      BY <1>5, <2>1, <2>2 DEF ApplyStatus, Applying, AtClaim, TypeOK
<1>6. CASE ApplyFails(c)
    BY <1>6, MovingOnTyped
       DEF ApplyFails, Applying, AtClaim, FailClaim, TypeOK, api, ghosts
<1>7. CASE ApplyAnswerLost(c)
    BY <1>7, MovingOnTyped, PublishTyped
       DEF ApplyAnswerLost, Applying, AtClaim, FailClaim, TypeOK
<1>8. CASE StoreClaim(c)
  <2>1. updated.reservedFor[1] \in Pods /\ updated.claim \in StoredClaim
      BY <1>8 DEF StoreClaim, TypeOK
  <2>2. podResources' \in Store
      BY <1>8, <2>1, AddTyped DEF StoreClaim, TypeOK
  <2> QED
      BY <1>8, <2>2, MovingOnTyped DEF StoreClaim, TypeOK, api, ghosts
<1> QED
    BY <1>1, <1>2, <1>3, <1>4, <1>5, <1>6, <1>7, <1>8 DEF HandleClaim

LEMMA DeathTyped ==
    ASSUME TypeOK, Crash \/ Panic
    PROVE  TypeOK'
<1>1. Die /\ calls' = calls /\ crashes' \in 0..MaxCrashes
  <2>1. crashes \in 0..MaxCrashes
      BY DEF TypeOK
  <2>2. CASE Crash
      BY <2>1, <2>2, DriverAssumption DEF Crash, Die
  <2>3. CASE Panic
      BY <2>1, <2>3 DEF Panic, Die
  <2> QED
      BY <2>2, <2>3
<1>2. podResources' \in Store /\ lost' \subseteq Pods
    BY <1>1 DEF TypeOK, Die, NewMemory, Store
<1> QED
    BY <1>1, <1>2, DriverAssumption DEF TypeOK, Die, api

LEMMA ClusterTyped ==
    ASSUME TypeOK, ClusterStep
    PROVE  TypeOK'
<1> USE DriverAssumption DEF TypeOK, handler, ghosts
<1>1. ASSUME NEW p \in Pods, DeletePod(p)
      PROVE  TypeOK'
    BY <1>1 DEF DeletePod, api
<1>2. ASSUME NEW p \in Pods, NEW c \in ClaimUIDs, Reserve(p, c)
      PROVE  TypeOK'
  <2>1. reservedFor' \in [ClaimUIDs -> Seq(Pods)]
      BY <1>2 DEF Reserve
  <2>2. UNCHANGED <<podResources, deviceStatus, pod, caller, handler, ghosts>>
      BY <1>2 DEF Reserve
  <2> QED
      BY <2>1, <2>2, Zenon
<1>3. ASSUME NEW p \in Pods, NEW c \in ClaimUIDs, Unreserve(p, c)
      PROVE  TypeOK'
  <2>1. reservedFor' \in [ClaimUIDs -> Seq(Pods)]
      BY <1>3, RemoveAtTyped DEF Unreserve
  <2> QED
      BY <1>3, <2>1 DEF Unreserve
<1> QED
    BY <1>1, <1>2, <1>3 DEF ClusterStep

LEMMA NextTyped == TypeOK /\ [Next]_vars => TypeOK'
<1> SUFFICES ASSUME TypeOK, [Next]_vars PROVE TypeOK'
    OBVIOUS
<1>1. ASSUME NEW p \in Pods, PrepareResourceClaims(p)
      PROVE  TypeOK'
    BY <1>1, DriverAssumption DEF PrepareResourceClaims, StartOfClaim, TypeOK, api
<1>2. ASSUME NEW p \in Pods, UnprepareResourceClaims(p)
      PROVE  TypeOK'
    BY <1>2 DEF UnprepareResourceClaims, TypeOK, api, handler, ghosts
<1>3. CASE \E c \in ClaimUIDs : HandleClaim(c)
    BY <1>3, HandlerTyped
<1>4. ASSUME NEW delivered \in BOOLEAN, Respond(delivered)
      PROVE  TypeOK'
    BY <1>4, DriverAssumption DEF Respond, TypeOK, api, ghosts
<1>5. CASE Crash \/ Panic
    BY <1>5, DeathTyped
<1>6. CASE ClusterStep
    BY <1>6, ClusterTyped
<1>7. CASE UNCHANGED vars
    BY <1>7 DEF vars, api, handler, ghosts, TypeOK
<1> QED
    BY <1>1, <1>2, <1>3, <1>4, <1>5, <1>6, <1>7
       DEF Next, DriverStep, HandlerStep, Quiescent

(* Every reachable state is well typed.                                    *)
THEOREM TypeCorrect == Spec => []TypeOK
BY InitTyped, NextTyped, PTL DEF Spec

-----------------------------------------------------------------------------
(* The store changes by Add and by death only.                             *)
LEMMA StoreSteps ==
    ASSUME TypeOK, [Next]_vars
    PROVE  \/ podResources' = podResources
           \/ podResources' = NewMemory
           \/ \E p \in Pods, claim \in StoredClaim :
                 podResources' = Add(podResources, p, claim)
<1>1. CASE \E c \in ClaimUIDs : StoreClaim(c)
    BY <1>1 DEF StoreClaim, TypeOK
<1>2. CASE Crash \/ Panic
    BY <1>2 DEF Crash, Panic, Die
<1>3. CASE ClusterStep
    BY <1>3 DEF ClusterStep, DeletePod, Reserve, Unreserve
<1> QED
    BY <1>1, <1>2, <1>3
       DEF Next, DriverStep, HandlerStep, HandleClaim, Quiescent, vars,
           PrepareResourceClaims, UnprepareResourceClaims, NotReservedOnce,
           SkipForeignResult, AllocateDevice, AllocationFails, ApplyStatus,
           ApplyFails, ApplyAnswerLost, Respond

(* However often calls are repeated, no pod has two copies of a claim.     *)
THEOREM NoDuplicates == Spec => []StoreNoDuplicates
<1>1. Init => StoreNoDuplicates
    BY DEF Init, StoreNoDuplicates, UniqueClaims, NewMemory
<1>2. TypeOK /\ StoreNoDuplicates /\ [Next]_vars => StoreNoDuplicates'
  <2> SUFFICES ASSUME TypeOK, StoreNoDuplicates, [Next]_vars
               PROVE  StoreNoDuplicates'
      OBVIOUS
  <2>1. UniqueClaims(NewMemory)
      BY DEF UniqueClaims, NewMemory
  <2>2. CASE podResources' = podResources
      BY <2>2 DEF StoreNoDuplicates, UniqueClaims
  <2>3. CASE podResources' = NewMemory
      BY <2>1, <2>3 DEF StoreNoDuplicates, UniqueClaims
  <2>4. ASSUME NEW p \in Pods, NEW claim \in StoredClaim,
               podResources' = Add(podResources, p, claim)
        PROVE  UniqueClaims(podResources')
      BY <2>4, AddUnique DEF StoreNoDuplicates, TypeOK
  <2>5. UniqueClaims(podResources') => StoreNoDuplicates'
      BY DEF StoreNoDuplicates, UniqueClaims
  <2> QED
      BY <2>2, <2>3, <2>4, <2>5, StoreSteps
<1> QED
    BY <1>1, <1>2, TypeCorrect, PTL DEF Spec

-----------------------------------------------------------------------------
(* The inductive invariant: nothing that happens during a call of a pod    *)
(* which still exists loses one of its claims.                             *)

LEMMA InitInductive == Init => IInv
<1>1. Init => TypeOK
    BY InitTyped
<1> QED
    BY <1>1, DriverAssumption
       DEF Init, IInv, CallerStaysFirst, StoringForCaller, ClaimsAccountedFor,
           CallOfLivePod, PreparedIsStored

LEMMA HeadAndTail ==
    ASSUME NEW S, NEW seq \in Seq(S), seq # <<>>
    PROVE  ToSet(seq) = {Head(seq)} \cup ToSet(Tail(seq))
<1>1. ASSUME NEW i \in DOMAIN Tail(seq)
      PROVE  i + 1 \in DOMAIN seq /\ Tail(seq)[i] = seq[i + 1]
    OBVIOUS
<1>2. ASSUME NEW i \in DOMAIN seq, i # 1
      PROVE  i - 1 \in DOMAIN Tail(seq) /\ Tail(seq)[i - 1] = seq[i]
  <2>1. i \in Nat /\ i - 1 \in 1..(Len(seq) - 1)
      BY <1>2
  <2>2. Len(Tail(seq)) = Len(seq) - 1
      OBVIOUS
  <2> QED
      BY <2>1, <2>2
<1>3. Head(seq) = seq[1] /\ 1 \in DOMAIN seq
    OBVIOUS
<1>4. ASSUME NEW e \in ToSet(seq)
      PROVE  e = Head(seq) \/ e \in ToSet(Tail(seq))
  <2>1. PICK i \in DOMAIN seq : e = seq[i]
      BY <1>4 DEF ToSet
  <2>2. CASE i = 1
      BY <1>3, <2>1, <2>2
  <2>3. CASE i # 1
      BY <1>2, <2>1, <2>3 DEF ToSet
  <2> QED
      BY <2>2, <2>3
<1>5. ToSet(Tail(seq)) \subseteq ToSet(seq) /\ Head(seq) \in ToSet(seq)
    BY <1>1, <1>3 DEF ToSet
<1> QED
    BY <1>4, <1>5

(* A step that leaves the call, the store and the reservations alone.      *)
LEMMA FrameInductive ==
    ASSUME IInv, TypeOK',
           UNCHANGED <<podResources, reservedFor, caller, todo, fetched, errors,
                       updated, lost>>,
           stage' = "storing" => stage = "storing",
           \A p \in Pods : pod'[p] \in {"pending", "prepared"} => pod'[p] = pod[p]
    PROVE  IInv'
<1>1. CallOfLivePod' => CallOfLivePod
    BY DEF IInv, TypeOK, CallOfLivePod
<1>2. PreparedIsStored'
    BY DEF IInv, PreparedIsStored
<1> QED
    BY <1>1, <1>2
       DEF IInv, CallerStaysFirst, StoringForCaller, ClaimsAccountedFor

(* An error: the claim is in the result.                                   *)
LEMMA FailInductive ==
    ASSUME IInv, TypeOK', NEW c \in ClaimUIDs, AtClaim(c), FailClaim(c),
           UNCHANGED <<podResources, reservedFor, pod, caller, fetched, lost>>
    PROVE  IInv'
<1>1. ToSet(todo) = {c} \cup ToSet(todo') /\ stage' = "preparing"
    BY HeadAndTail DEF IInv, TypeOK, AtClaim, FailClaim, NextClaim
<1>2. CallOfLivePod' <=> CallOfLivePod
    BY DEF CallOfLivePod
<1>3. CallerStaysFirst'
    BY <1>1, <1>2 DEF IInv, CallerStaysFirst
<1>4. StoringForCaller'
    BY <1>1 DEF StoringForCaller
<1>5. ClaimsAccountedFor'
    BY <1>1, <1>2 DEF IInv, ClaimsAccountedFor, FailClaim
<1>6. PreparedIsStored'
    BY DEF IInv, PreparedIsStored
<1> QED
    BY <1>3, <1>4, <1>5, <1>6 DEF IInv

LEMMA HandleClaimInductive ==
    ASSUME IInv, TypeOK', NEW c \in ClaimUIDs, HandleClaim(c)
    PROVE  IInv'
<1>1. CASE NotReservedOnce(c) \/ AllocationFails(c) \/ ApplyFails(c) \/ ApplyAnswerLost(c)
    BY <1>1, FailInductive
       DEF NotReservedOnce, AllocationFails, AtResult, ApplyFails,
           ApplyAnswerLost, Applying, api, ghosts
<1>2. CASE SkipForeignResult(c) \/ AllocateDevice(c)
    BY <1>2, FrameInductive DEF SkipForeignResult, AllocateDevice, api, ghosts
<1>3. CASE ApplyStatus(c)
  <2>1. /\ AtClaim(c) /\ Len(fetched[c]) = 1 /\ stage' = "storing"
        /\ updated' = [reservedFor |-> reservedFor[c],
                       claim |-> [uid |-> c, devices |-> deviceStatus'[c]]]
        /\ UNCHANGED <<podResources, reservedFor, pod, caller, todo, fetched,
                       errors, lost>>
      BY <1>3 DEF ApplyStatus, Applying
  <2>2. c = Head(todo) /\ c \in ToSet(todo)
    <3>1. todo # <<>> /\ c = Head(todo)
        BY <2>1 DEF AtClaim
    <3>2. todo \in Seq(ClaimUIDs)
        BY DEF IInv, TypeOK
    <3> QED
        BY <3>1, <3>2, HeadAndTail
  <2>3. CallOfLivePod' <=> CallOfLivePod
      BY <2>1 DEF CallOfLivePod
  <2>4. StoringForCaller'
      BY <2>1, <2>2, <2>3 DEF IInv, CallerStaysFirst, StoringForCaller
  <2> QED
      BY <2>1, <2>3, <2>4
         DEF IInv, CallerStaysFirst, ClaimsAccountedFor, PreparedIsStored
<1>4. CASE StoreClaim(c)
  <2>1. /\ stage = "storing" /\ c = Head(todo) /\ updated.reservedFor # <<>>
        /\ podResources' = Add(podResources, updated.reservedFor[1], updated.claim)
        /\ todo' = Tail(todo) /\ stage' = "preparing"
        /\ UNCHANGED <<reservedFor, pod, caller, fetched, errors, lost>>
      BY <1>4 DEF StoreClaim, NextClaim, api, ghosts
  <2>2. podResources \in Store /\ updated.reservedFor[1] \in Pods /\ updated.claim \in StoredClaim
      BY <2>1 DEF IInv, TypeOK
  <2>3. ToSet(todo) = {c} \cup ToSet(todo')
      BY <2>1, HeadAndTail DEF IInv, TypeOK
  <2>4. CallOfLivePod' <=> CallOfLivePod
      BY <2>1 DEF CallOfLivePod
  <2>5. \A p \in Pods : \A d : Holds(podResources[p], d) => Holds(podResources'[p], d)
      BY <2>1, <2>2, AddKeeps
  <2>6. CallerStaysFirst'
      BY <2>1, <2>3, <2>4 DEF IInv, CallerStaysFirst
  <2>7. StoringForCaller'
      BY <2>1 DEF StoringForCaller
  <2>8. CallOfLivePod => Holds(podResources'[caller], c)
      BY <2>1, <2>2, AddHolds DEF IInv, StoringForCaller
  <2>9. ClaimsAccountedFor'
    <3>1. CallOfLivePod => caller \in Pods
        BY DEF IInv, TypeOK, CallOfLivePod
    <3> QED
        BY <2>1, <2>3, <2>4, <2>5, <2>8, <3>1 DEF IInv, ClaimsAccountedFor
  <2>10. PreparedIsStored'
      BY <2>1, <2>5 DEF IInv, PreparedIsStored
  <2> QED
      BY <2>6, <2>7, <2>9, <2>10 DEF IInv
<1> QED
    BY <1>1, <1>2, <1>3, <1>4 DEF HandleClaim

LEMMA RespondInductive ==
    ASSUME IInv, TypeOK', NEW delivered \in BOOLEAN, Respond(delivered)
    PROVE  IInv'
<1>1. ~CallOfLivePod'
    BY DEF Respond, CallOfLivePod
<1>2. caller \in Pods /\ todo = <<>> /\ UNCHANGED <<podResources, lost>>
    BY DEF IInv, TypeOK, Respond, ghosts
<1>3. ASSUME NEW p \in Pods, pod'[p] = "prepared", p \notin lost',
             NEW c \in ToSet(ClaimsOf[p])
      PROVE  Holds(podResources'[p], c)
  <2>1. CASE pod'[p] = pod[p]
      BY <1>2, <1>3, <2>1 DEF IInv, PreparedIsStored
  <2>2. CASE pod'[p] # pod[p]
    <3>1. p = caller /\ errors = {} /\ pod[caller] = "pending"
        BY <1>2, <2>2 DEF IInv, TypeOK, Respond
    <3>2. CallOfLivePod /\ ToSet(todo) = {}
        BY <1>2, <3>1, DriverAssumption DEF CallOfLivePod, ToSet
    <3> QED
        BY <1>2, <1>3, <3>1, <3>2 DEF IInv, ClaimsAccountedFor
  <2> QED
      BY <2>1, <2>2
<1>4. PreparedIsStored'
    BY <1>3 DEF PreparedIsStored
<1> QED
    BY <1>1, <1>4 DEF IInv, CallerStaysFirst, StoringForCaller, ClaimsAccountedFor

(* The kubelet's call, and what the cluster does meanwhile.                *)
LEMMA PrepareInductive ==
    ASSUME IInv, TypeOK', NEW p \in Pods, PrepareResourceClaims(p)
    PROVE  IInv'
<1>1. /\ caller' = p /\ todo' = ClaimsOf[p] /\ fetched' = reservedFor
      /\ stage' = "preparing" /\ UNCHANGED <<podResources, reservedFor, pod, lost>>
      /\ \A c \in ToSet(ClaimsOf[p]) : p \in ToSet(reservedFor[c])
    BY DEF PrepareResourceClaims, api
<1>2. CallerStaysFirst'
  <2>1. ASSUME NEW c \in ToSet(ClaimsOf[p]), Len(reservedFor[c]) = 1
        PROVE  reservedFor[c] # <<>> /\ reservedFor[c][1] = p
    <3>1. c \in ClaimUIDs
        BY DriverAssumption DEF ToSet
    <3>2. reservedFor[c] \in Seq(Pods)
        BY <3>1 DEF IInv, TypeOK
    <3>3. PICK i \in DOMAIN reservedFor[c] : reservedFor[c][i] = p
        BY <1>1, <2>1 DEF ToSet
    <3> QED
        BY <2>1, <3>2, <3>3
  <2> QED
      BY <1>1, <2>1 DEF CallerStaysFirst
<1>3. StoringForCaller' /\ ClaimsAccountedFor'
    BY <1>1 DEF StoringForCaller, ClaimsAccountedFor
<1>4. PreparedIsStored'
    BY <1>1 DEF IInv, PreparedIsStored
<1> QED
    BY <1>2, <1>3, <1>4 DEF IInv

LEMMA ClusterInductive ==
    ASSUME IInv, TypeOK', ClusterStep
    PROVE  IInv'
<1>1. ASSUME NEW p \in Pods, DeletePod(p)
      PROVE  IInv'
    BY <1>1, FrameInductive DEF DeletePod, IInv, TypeOK, api, handler, ghosts
<1>2. ASSUME UNCHANGED <<podResources, pod, caller, todo, fetched, errors, stage,
                         updated, lost>>,
             CallOfLivePod => \A c \in ClaimUIDs :
                 reservedFor[c] # <<>> /\ reservedFor[c][1] = caller =>
                     reservedFor'[c] # <<>> /\ reservedFor'[c][1] = caller
      PROVE  IInv'
  <2>1. ToSet(todo) \subseteq ClaimUIDs
      BY DEF IInv, TypeOK, ToSet
  <2>2. CallOfLivePod' <=> CallOfLivePod
      BY <1>2 DEF CallOfLivePod
  <2>3. CallerStaysFirst'
      BY <1>2, <2>1, <2>2 DEF IInv, CallerStaysFirst
  <2> QED
      BY <1>2, <2>2, <2>3
         DEF IInv, StoringForCaller, ClaimsAccountedFor, PreparedIsStored
<1>3. ASSUME NEW p \in Pods, NEW d \in ClaimUIDs, Reserve(p, d)
      PROVE  IInv'
  <2>1. ASSUME NEW c \in ClaimUIDs, reservedFor[c] # <<>>
        PROVE  reservedFor'[c] # <<>> /\ reservedFor'[c][1] = reservedFor[c][1]
    <3>1. reservedFor[c] \in Seq(Pods) /\ reservedFor \in [ClaimUIDs -> Seq(Pods)]
        BY DEF IInv, TypeOK
    <3>2. reservedFor' = [reservedFor EXCEPT ![d] = Append(reservedFor[d], p)]
        BY <1>3 DEF Reserve
    <3>3. Append(reservedFor[c], p) # <<>> /\ Append(reservedFor[c], p)[1] = reservedFor[c][1]
        BY <2>1, <3>1
    <3> QED
        BY <2>1, <3>1, <3>2, <3>3
  <2> QED
      BY <1>2, <1>3, <2>1 DEF Reserve, handler, ghosts
<1>4. ASSUME NEW p \in Pods, NEW d \in ClaimUIDs, Unreserve(p, d)
      PROVE  IInv'
  <2>1. PICK i \in DOMAIN reservedFor[d] :
            /\ reservedFor[d][i] = p
            /\ reservedFor' = [reservedFor EXCEPT ![d] = RemoveAt(@, i)]
      BY <1>4 DEF Unreserve
  <2>2. pod[p] # "pending" /\ UNCHANGED <<podResources, pod, caller, todo, fetched,
                                          errors, stage, updated, lost>>
      BY <1>4 DEF Unreserve, handler, ghosts
  <2>3. ASSUME CallOfLivePod, NEW c \in ClaimUIDs,
               reservedFor[c] # <<>>, reservedFor[c][1] = caller
        PROVE  reservedFor'[c] # <<>> /\ reservedFor'[c][1] = caller
    <3>1. reservedFor \in [ClaimUIDs -> Seq(Pods)]
        BY DEF IInv, TypeOK
    <3>2. CASE c = d
      <4>1. i # 1
          BY <2>1, <2>2, <2>3, <3>2 DEF CallOfLivePod
      <4>2. /\ RemoveAt(reservedFor[d], i) # <<>>
            /\ RemoveAt(reservedFor[d], i)[1] = reservedFor[d][1]
          BY <3>1, <4>1, RemoveAtTyped
      <4> QED
          BY <2>1, <2>3, <3>1, <3>2, <4>2
    <3>3. CASE c # d
        BY <2>1, <2>3, <3>1, <3>3
    <3> QED
        BY <3>2, <3>3
  <2> QED
      BY <1>2, <2>2, <2>3
<1> QED
    BY <1>1, <1>3, <1>4 DEF ClusterStep

LEMMA NextInductive == IInv /\ [Next]_vars => IInv'
<1> SUFFICES ASSUME IInv, [Next]_vars PROVE IInv'
    OBVIOUS
<1>0. TypeOK'
    BY NextTyped DEF IInv
<1>1. CASE \E p \in Pods : PrepareResourceClaims(p)
    BY <1>0, <1>1, PrepareInductive
<1>2. ASSUME NEW p \in Pods, UnprepareResourceClaims(p)
      PROVE  IInv'
    BY <1>0, <1>2, FrameInductive
       DEF UnprepareResourceClaims, IInv, TypeOK, api, handler, ghosts
<1>3. CASE \E c \in ClaimUIDs : HandleClaim(c)
    BY <1>0, <1>3, HandleClaimInductive
<1>4. CASE \E delivered \in BOOLEAN : Respond(delivered)
    BY <1>0, <1>4, RespondInductive
<1>5. CASE Crash \/ Panic
  <2>1. caller' = None /\ pod' = pod /\ lost' = lost \cup {p \in Pods : pod[p] = "prepared"}
      BY <1>5 DEF Crash, Panic, Die
  <2> QED
      BY <1>0, <2>1 DEF IInv, CallerStaysFirst, StoringForCaller, ClaimsAccountedFor,
                        CallOfLivePod, PreparedIsStored
<1>6. CASE ClusterStep
    BY <1>0, <1>6, ClusterInductive
<1>7. CASE UNCHANGED vars
    BY <1>0, <1>7, FrameInductive DEF vars, api, handler, ghosts
<1> QED
    BY <1>1, <1>2, <1>3, <1>4, <1>5, <1>6, <1>7
       DEF Next, DriverStep, HandlerStep, Quiescent

(* Every claim of the call of a live pod is to come, failed, or stored     *)
(* where the NRI plugin looks for it.                                      *)
THEOREM Inductive == Spec => []IInv
BY InitInductive, NextInductive, PTL DEF Spec

(* A pod the kubelet runs has all its claims in the store under its UID,   *)
(* until the agent restarts.                                               *)
THEOREM PreparedStored == Spec => []PreparedIsStored
<1>1. IInv => PreparedIsStored
    BY DEF IInv
<1> QED
    BY <1>1, Inductive, PTL

-----------------------------------------------------------------------------
(* A claim with a status the driver has applied, for the last time if only *)
(* once.                                                                   *)
Published(claim) ==
    /\ applies[claim.uid] > 0
    /\ applies[claim.uid] = 1 => claim.devices = deviceStatus[claim.uid]

(* So is every stored claim, and the one on its way to the store.          *)
PublishedInv ==
    /\ \A p \in Pods : \A k \in DOMAIN podResources[p] : Published(podResources[p][k])
    /\ stage = "storing" => Published(updated.claim)

(* What a second apply of a claim does to what is stored of it is out of   *)
(* StoredIsPublished, and the first one finds nothing stored.              *)
LEMMA PublishKeeps ==
    ASSUME TypeOK, NEW c \in ClaimUIDs, Publish(c), NEW claim \in StoredClaim, Published(claim)
    PROVE  Published(claim)'
<1>1. claim.uid \in ClaimUIDs /\ applies[claim.uid] \in Nat
    BY DEF TypeOK, StoredClaim
<1>2. CASE claim.uid = c
  <2>1. applies'[c] = applies[c] + 1
      BY DEF Publish, TypeOK
  <2> QED
      BY <1>1, <1>2, <2>1 DEF Published
<1>3. CASE claim.uid # c
    BY <1>1, <1>3 DEF Published, Publish, TypeOK
<1> QED
    BY <1>2, <1>3

LEMMA PublishedByHandler ==
    ASSUME TypeOK, PublishedInv, NEW c \in ClaimUIDs, HandleClaim(c)
    PROVE  PublishedInv'
<1>1. \A p \in Pods : \A k \in DOMAIN podResources[p] : podResources[p][k] \in StoredClaim
    BY DEF TypeOK, Store
<1>2. ASSUME Publish(c), podResources' = podResources
      PROVE  \A p \in Pods : \A k \in DOMAIN podResources'[p] : Published(podResources[p][k])'
    BY <1>1, <1>2, PublishKeeps DEF PublishedInv
<1>3. CASE ApplyStatus(c)
  <2>1. Publish(c) /\ podResources' = podResources /\ updated'.claim.uid = c
        /\ updated'.claim.devices = deviceStatus'[c]
      BY <1>3 DEF ApplyStatus
  <2>2. applies'[c] > 0
      BY <2>1 DEF Publish, TypeOK
  <2> QED
      BY <1>2, <2>1, <2>2 DEF PublishedInv, Published
<1>4. CASE ApplyAnswerLost(c)
  <2>1. Publish(c) /\ podResources' = podResources /\ stage' = "preparing"
      BY <1>4 DEF ApplyAnswerLost, FailClaim, NextClaim
  <2> QED
      BY <1>2, <2>1 DEF PublishedInv
<1>5. CASE StoreClaim(c)
  <2>1. /\ stage' = "preparing" /\ UNCHANGED <<deviceStatus, applies>>
        /\ podResources' = Add(podResources, updated.reservedFor[1], updated.claim)
        /\ Published(updated.claim)
      BY <1>5 DEF StoreClaim, NextClaim, api, ghosts, PublishedInv
  <2>2. updated.reservedFor[1] \in Pods /\ updated.claim \in StoredClaim
      BY <1>5 DEF StoreClaim, TypeOK
  <2>3. ASSUME NEW p \in Pods, NEW k \in DOMAIN podResources'[p]
        PROVE  \/ podResources'[p][k] = updated.claim
               \/ /\ k \in DOMAIN podResources[p]
                  /\ podResources'[p][k] = podResources[p][k]
    <3>1. podResources'[p] \in {podResources[p], Append(podResources[p], updated.claim)}
        BY <2>1, <2>2 DEF Add, TypeOK, Store
    <3>2. podResources[p] \in Seq(StoredClaim)
        BY DEF TypeOK, Store
    <3>3. CASE podResources'[p] = Append(podResources[p], updated.claim)
      <4>1. /\ k \in 1..(Len(podResources[p]) + 1)
            /\ DOMAIN podResources[p] = 1..Len(podResources[p])
          BY <2>2, <2>3, <3>2, <3>3
      <4>2. k = Len(podResources[p]) + 1 => podResources'[p][k] = updated.claim
          BY <2>2, <3>2, <3>3
      <4>3. k # Len(podResources[p]) + 1 =>
                k \in 1..Len(podResources[p]) /\ podResources'[p][k] = podResources[p][k]
          BY <2>2, <3>2, <3>3, <4>1
      <4> QED
          BY <4>1, <4>2, <4>3
    <3> QED
        BY <2>3, <3>1, <3>3
  <2>4. \A p \in Pods : \A k \in DOMAIN podResources'[p] : Published(podResources'[p][k])
      BY <2>1, <2>3 DEF PublishedInv
  <2> QED
      BY <2>1, <2>4 DEF PublishedInv, Published
<1>6. ASSUME UNCHANGED <<podResources, deviceStatus, applies>>, stage' # "storing"
      PROVE  PublishedInv'
    BY <1>6 DEF PublishedInv, Published
<1>7. CASE NotReservedOnce(c) \/ AllocationFails(c) \/ ApplyFails(c)
    BY <1>6, <1>7 DEF NotReservedOnce, AllocationFails, ApplyFails, FailClaim, NextClaim,
       api, ghosts
<1>8. CASE SkipForeignResult(c) \/ AllocateDevice(c)
    BY <1>6, <1>8 DEF SkipForeignResult, AllocateDevice, AtResult, AtClaim, api, ghosts
<1> QED
    BY <1>3, <1>4, <1>5, <1>7, <1>8 DEF HandleClaim

(* What the plugin will configure is what the claim's status shows, as     *)
(* long as the driver has applied it once (driver.go:221-232).             *)
THEOREM PublishedStored == Spec => []StoredIsPublished
<1>1. Init => PublishedInv
    BY DEF Init, PublishedInv, NewMemory
<1>2. TypeOK /\ PublishedInv /\ [Next]_vars => PublishedInv'
  <2> SUFFICES ASSUME TypeOK, PublishedInv, [Next]_vars
               PROVE  PublishedInv'
      OBVIOUS
  <2>1. CASE \E c \in ClaimUIDs : HandleClaim(c)
      BY <2>1, PublishedByHandler
  <2>2. CASE Crash \/ Panic
    <3>1. podResources' = NewMemory /\ stage' = "idle"
        BY <2>2 DEF Crash, Panic, Die
    <3> QED
        BY <3>1 DEF PublishedInv, NewMemory
  <2>3. ASSUME UNCHANGED <<podResources, deviceStatus, applies>>,
               stage' # "storing" \/ UNCHANGED <<stage, updated>>
        PROVE  PublishedInv'
      BY <2>3 DEF PublishedInv, Published
  <2>4. CASE \E p \in Pods : PrepareResourceClaims(p) \/ UnprepareResourceClaims(p)
      BY <2>3, <2>4 DEF PrepareResourceClaims, UnprepareResourceClaims, api, handler, ghosts
  <2>5. CASE \E delivered \in BOOLEAN : Respond(delivered)
      BY <2>3, <2>5 DEF Respond, api, ghosts
  <2>6. CASE ClusterStep
      BY <2>3, <2>6 DEF ClusterStep, DeletePod, Reserve, Unreserve, api, handler, ghosts
  <2>7. CASE UNCHANGED vars
      BY <2>3, <2>7 DEF vars, api, handler, ghosts
  <2> QED
      BY <2>1, <2>2, <2>4, <2>5, <2>6, <2>7 DEF Next, DriverStep, HandlerStep, Quiescent
<1>3. TypeOK /\ PublishedInv => StoredIsPublished
    BY DEF PublishedInv, Published, StoredIsPublished
<1> QED
    BY <1>1, <1>2, <1>3, TypeCorrect, PTL DEF Spec
=============================================================================
