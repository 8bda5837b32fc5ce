---------------------------- MODULE DiscoveryProofs ----------------------------
(***************************************************************************)
(* Theorems about Discovery.tla, for any interfaces, networks and channel  *)
(* sizes.                                                                  *)
(***************************************************************************)
EXTENDS Discovery, TLAPS

USE DiscoveryAssumption

LEMMA CacheCases ==
    ASSUME C!Next
    PROVE  \/ \E n \in Names, spec \in Specs \cup {Absent} : C!LinkChanges(n, spec)
           \/ \E n \in Names : C!SyncUnchanged(n) \/ C!SyncChanged(n)
           \/ C!PollDevices \/ C!StartWatch \/ C!Deliver
           \/ C!WriteStore \/ C!Announce \/ C!AnnounceUnwatched \/ C!AnnounceDropped
BY DEF C!Next, C!Sync, C!Worker

LEMMA ControllerCases ==
    ASSUME K!Next
    PROVE  \/ \E network \in Networks :
                K!EditNetwork(network) \/ K!NetworkEvent(network) \/ K!ListDevices(network)
           \/ K!Resync \/ K!Reconcile \/ K!Publish \/ K!PublishFails
BY DEF K!Next

-----------------------------------------------------------------------------
(* Types                                                                   *)

LEMMA CacheTypePreserved ==
    ASSUME C!TypeOK, C!Next
    PROVE  C!TypeOK'
<1> USE DEF C!TypeOK, C!entries
<1>1. ASSUME NEW n \in Names, NEW spec \in Specs \cup {Absent}, C!LinkChanges(n, spec)
      PROVE  C!TypeOK'
    BY <1>1 DEF C!LinkChanges
<1>2. ASSUME NEW n \in Names, C!SyncUnchanged(n) \/ C!SyncChanged(n)
      PROVE  C!TypeOK'
    BY <1>2 DEF C!SyncUnchanged, C!SyncChanged
<1>3. CASE C!PollDevices \/ C!StartWatch \/ C!WriteStore
    BY <1>3 DEF C!PollDevices, C!StartWatch, C!WriteStore
<1>4. CASE C!AnnounceUnwatched \/ C!AnnounceDropped
    BY <1>4 DEF C!AnnounceUnwatched, C!AnnounceDropped, C!SyncDone
<1>5. CASE C!Announce
  <2>1. [name |-> syncing, spec |-> snapshot[syncing]] \in C!Event
      BY <1>5 DEF C!Announce, C!Event
  <2> QED
      BY <1>5, <2>1 DEF C!Announce, C!SyncDone
<1>6. CASE C!Deliver
  <2>1. Head(watch) \in C!Event /\ Tail(watch) \in Seq(C!Event) /\ Len(Tail(watch)) <= ChannelSize
      BY <1>6 DEF C!Deliver
  <2> QED
      BY <1>6, <2>1 DEF C!Deliver, C!Event
<1> QED
    BY <1>1, <1>2, <1>3, <1>4, <1>5, <1>6, CacheCases

LEMMA ControllerTypePreserved ==
    ASSUME K!TypeOK, K!Next
    PROVE  K!TypeOK'
<1>1. ASSUME NEW network \in Networks, K!EditNetwork(network) \/ K!NetworkEvent(network)
      PROVE  K!TypeOK'
  <2>1. networks' \in {networks, networks \ {network}, networks \cup {network}}
      BY <1>1 DEF K!EditNetwork, K!NetworkEvent
  <2>2. lister' \in {lister, lister \ {network}, lister \cup {network}}
      BY <1>1 DEF K!EditNetwork, K!NetworkEvent
  <2>3. edits' \in 0..MaxEdits
      BY <1>1 DEF K!TypeOK, K!EditNetwork, K!NetworkEvent
  <2>4. dirty' \in BOOLEAN
      BY <1>1 DEF K!TypeOK, K!EditNetwork, K!NetworkEvent
  <2>5. UNCHANGED <<stage, todo, resources, published>>
      BY <1>1 DEF K!EditNetwork, K!NetworkEvent
  <2>6. networks' \subseteq Networks /\ lister' \subseteq Networks
      BY <2>1, <2>2 DEF K!TypeOK
  <2> QED
      BY <2>3, <2>4, <2>5, <2>6 DEF K!TypeOK
<1>2. ASSUME NEW network \in Networks, K!ListDevices(network)
      PROVE  K!TypeOK'
  <2>1. K!Exposed(network) \subseteq Networks \X Names \X Specs
      BY DEF K!Exposed
  <2>2. resources' \in K!Resources /\ todo' \subseteq Networks
      BY <1>2, <2>1 DEF K!TypeOK, K!Resources, K!ListDevices
  <2> QED
      BY <1>2, <2>2 DEF K!TypeOK, K!Resources, K!ListDevices
<1>3. CASE K!Resync \/ K!Reconcile \/ K!Publish \/ K!PublishFails
    BY <1>3 DEF K!TypeOK, K!Resources, K!Resync, K!Reconcile, K!Publish, K!PublishFails
<1> QED
    BY <1>1, <1>2, <1>3, ControllerCases

LEMMA TypePreserved ==
    ASSUME TypeOK, [Next]_vars
    PROVE  TypeOK'
<1>1. CASE CacheStep
  <2>1. C!TypeOK'
      BY <1>1, CacheTypePreserved DEF CacheStep, TypeOK
  <2> QED
      BY <1>1, <2>1 DEF CacheStep, controllerOnly, TypeOK, K!TypeOK, C!TypeOK
<1>2. CASE ControllerStep
  <2>1. K!TypeOK'
      BY <1>2, ControllerTypePreserved DEF ControllerStep, TypeOK
  <2>2. store' = store
      BY <1>2, ControllerCases DEF ControllerStep, K!EditNetwork, K!NetworkEvent,
         K!ListDevices, K!Resync, K!Reconcile, K!Publish, K!PublishFails
  <2> QED
      BY <1>2, <2>1, <2>2 DEF ControllerStep, cacheOnly, TypeOK, C!TypeOK, C!entries, K!TypeOK
<1>3. CASE UNCHANGED vars
    BY <1>3 DEF vars, cacheOnly, controllerOnly, TypeOK, C!TypeOK, K!TypeOK
<1> QED
    BY <1>1, <1>2, <1>3 DEF Next

-----------------------------------------------------------------------------
(* The device cache                                                        *)

(* The newest event of a name tells what the snapshot has, and without one *)
(* the store does: StoreFollowsSnapshot, name by name.                     *)
Follows(n) ==
    /\ C!Pending(n) = {} => store[n] = snapshot[n]
    /\ \A last \in C!Pending(n) :
          (\A i \in C!Pending(n) : i <= last) => watch[last].spec = snapshot[n]

LEMMA StoreFollowsByName ==
    StoreFollowsSnapshot <=>
        \A n \in Names : syncing # n /\ fate[n] # "dropped" => Follows(n)
BY DEF StoreFollowsSnapshot, C!StoreFollowsSnapshot, Follows

LEMMA Appended ==
    ASSUME C!TypeOK, C!Announce, NEW n \in Names
    PROVE  C!Pending(n)' = IF n = syncing THEN C!Pending(n) \cup {Len(watch) + 1}
                           ELSE C!Pending(n)
<1> DEFINE event == [name |-> syncing, spec |-> snapshot[syncing]]
<1>1. watch' = Append(watch, event) /\ watch \in Seq(C!Event)
    BY DEF C!Announce, C!TypeOK
<1>2. DOMAIN watch' = 1..(Len(watch) + 1) /\ DOMAIN watch = 1..Len(watch)
    BY <1>1
<1>3. \A i \in DOMAIN watch : watch'[i] = watch[i]
    BY <1>1
<1>4. watch'[Len(watch) + 1].name = syncing
    BY <1>1
<1> QED
    BY <1>1, <1>2, <1>3, <1>4 DEF C!Pending

LEMMA CacheTold ==
    ASSUME C!TypeOK, C!Next, ~dirty', NEW n \in Names, ~Untold(n)'
    PROVE  ~Untold(n) /\ ~dirty
<1>1. CASE C!Announce
  <2>1. syncing # n
      BY <1>1, Appended DEF Untold
  <2> QED
      BY <1>1, <2>1, Appended DEF Untold, C!Announce, C!TypeOK
<1> QED
    BY <1>1, CacheCases DEF Untold, C!Pending, C!TypeOK, C!LinkChanges, C!SyncUnchanged,
       C!SyncChanged, C!PollDevices, C!StartWatch, C!Deliver, C!WriteStore,
       C!AnnounceUnwatched, C!AnnounceDropped, C!SyncDone

(* Followed names stay followed until the worker takes them.               *)
LEMMA FollowsPreserved ==
    ASSUME TypeOK, C!UnwatchedIsWritten, C!Next, NEW n \in Names,
           syncing # n /\ fate[n] # "dropped" => Follows(n),
           syncing' # n, fate'[n] # "dropped"
    PROVE  Follows(n)'
<1> USE DEF TypeOK
<1>1. CASE \/ \E m \in Names, spec \in Specs \cup {Absent} : C!LinkChanges(m, spec)
           \/ \E m \in Names : C!SyncUnchanged(m)
           \/ C!PollDevices \/ C!StartWatch
    BY <1>1 DEF Follows, C!Pending, C!LinkChanges, C!SyncUnchanged, C!PollDevices, C!StartWatch
<1>2. ASSUME NEW m \in Names, C!SyncChanged(m)
      PROVE  Follows(n)'
    BY <1>2 DEF Follows, C!Pending, C!SyncChanged, C!TypeOK, C!entries
<1>3. CASE C!WriteStore
    BY <1>3 DEF Follows, C!Pending, C!WriteStore, C!TypeOK, C!entries
<1>4. CASE C!Announce
  <2>1. syncing = n => /\ Len(watch) + 1 \in C!Pending(n)'
                       /\ \A i \in C!Pending(n)' : i <= Len(watch) + 1
      BY <1>4, Appended DEF C!TypeOK, C!Pending
  <2>2. watch'[Len(watch) + 1].spec = snapshot[syncing]
      BY <1>4 DEF C!Announce, C!TypeOK
  <2>3. \A i \in DOMAIN watch : watch'[i] = watch[i]
      BY <1>4 DEF C!Announce, C!TypeOK
  <2>4. CASE syncing = n
    <3>1. \A last \in C!Pending(n)' : (\A i \in C!Pending(n)' : i <= last) => last = Len(watch) + 1
        BY <1>4, <2>1, <2>4, Appended DEF C!TypeOK, C!Pending
    <3> QED
        BY <1>4, <2>1, <2>2, <2>4, <3>1 DEF Follows, C!Announce
  <2>5. CASE syncing # n
    <3>1. Follows(n)
        BY <1>4, <2>5 DEF C!Announce, C!TypeOK
    <3>2. C!Pending(n)' = C!Pending(n)
        BY <1>4, <2>5, Appended
    <3> QED
        BY <1>4, <2>3, <3>1, <3>2 DEF Follows, C!Announce, C!Pending
  <2> QED
      BY <2>4, <2>5
<1>5. CASE C!AnnounceUnwatched
  <2>1. watch = <<>> /\ store[syncing] = snapshot[syncing]
      BY <1>5 DEF C!AnnounceUnwatched, C!UnwatchedIsWritten
  <2>2. C!Pending(n)' = {}
      BY <1>5, <2>1 DEF C!AnnounceUnwatched, C!Pending
  <2>3. store[n] = snapshot[n]
      BY <1>5, <2>1 DEF Follows, C!Pending, C!AnnounceUnwatched, C!TypeOK
  <2> QED
      BY <1>5, <2>2, <2>3 DEF Follows, C!AnnounceUnwatched
<1>6. CASE C!AnnounceDropped
    BY <1>6 DEF Follows, C!Pending, C!AnnounceDropped, C!SyncDone, C!TypeOK
<1>7. CASE C!Deliver
  <2>1. Follows(n)
      BY <1>7 DEF C!Deliver
  <2>2. /\ watch \in Seq(C!Event) /\ watch # <<>>
        /\ DOMAIN watch = 1..Len(watch)
        /\ DOMAIN watch' = 1..(Len(watch) - 1)
        /\ \A i \in DOMAIN watch' : watch'[i] = watch[i + 1]
      BY <1>7 DEF C!Deliver, C!TypeOK
  <2>3. \A i : i \in C!Pending(n)' <=> i \in Nat \ {0} /\ i + 1 \in C!Pending(n)
      BY <2>2 DEF C!Pending
  <2>4. \A i \in C!Pending(n) : i \in Nat /\ (i = 1 \/ i - 1 \in C!Pending(n)')
    <3>1. \A i \in C!Pending(n) : i \in 1..Len(watch) /\ i = (i - 1) + 1
        BY <2>2 DEF C!Pending
    <3>2. \A i \in C!Pending(n) : i # 1 => i - 1 \in Nat \ {0}
        BY <2>2, <3>1
    <3> QED
        BY <2>3, <3>1, <3>2
  <2>5. ASSUME C!Pending(n)' = {}
        PROVE  store'[n] = snapshot[n]
    <3>1. C!Pending(n) \subseteq {1}
        BY <2>4, <2>5
    <3>2. CASE C!Pending(n) = {}
        BY <1>7, <2>1, <2>2, <3>2 DEF Follows, C!Pending, C!Deliver, C!TypeOK, C!entries
    <3>3. CASE 1 \in C!Pending(n)
      <4>1. watch[1].spec = snapshot[n] /\ watch[1].name = n
          BY <2>1, <3>1, <3>3 DEF Follows, C!Pending
      <4> QED
          BY <1>7, <2>2, <4>1 DEF C!Deliver, C!TypeOK, C!entries
    <3> QED
        BY <3>1, <3>2, <3>3
  <2>6. ASSUME NEW last \in C!Pending(n)', \A i \in C!Pending(n)' : i <= last
        PROVE  watch'[last].spec = snapshot[n]
    <3>1. last + 1 \in C!Pending(n) /\ \A i \in C!Pending(n) : i <= last + 1
      <4>1. last \in Nat /\ last + 1 \in C!Pending(n)
          BY <2>3
      <4>2. \A i \in C!Pending(n) : i = 1 \/ i - 1 <= last
          BY <2>4, <2>6
      <4> QED
          BY <2>4, <4>1, <4>2
    <3>2. watch[last + 1].spec = snapshot[n]
        BY <2>1, <3>1 DEF Follows
    <3> QED
        BY <2>2, <2>6, <3>2 DEF C!Pending
  <2> QED
      BY <1>7, <2>5, <2>6 DEF Follows, C!Deliver
<1> QED
    BY <1>1, <1>2, <1>3, <1>4, <1>5, <1>6, <1>7, CacheCases

LEMMA UnwatchedPreserved ==
    ASSUME TypeOK, C!UnwatchedIsWritten, C!Next
    PROVE  C!UnwatchedIsWritten'
<1> USE DEF TypeOK, C!UnwatchedIsWritten, C!TypeOK
<1>1. CASE \/ \E m \in Names, spec \in Specs \cup {Absent} : C!LinkChanges(m, spec)
           \/ C!PollDevices \/ C!StartWatch
    BY <1>1 DEF C!LinkChanges, C!PollDevices, C!StartWatch
<1>2. CASE \E m \in Names : C!SyncUnchanged(m) \/ C!SyncChanged(m)
    BY <1>2 DEF C!SyncUnchanged, C!SyncChanged
<1>3. CASE C!WriteStore
    BY <1>3 DEF C!WriteStore, C!entries
<1>4. CASE C!Announce \/ C!AnnounceUnwatched \/ C!AnnounceDropped
    BY <1>4 DEF C!Announce, C!AnnounceUnwatched, C!AnnounceDropped, C!SyncDone
<1>5. CASE C!Deliver
    BY <1>5 DEF C!Deliver
<1> QED
    BY <1>1, <1>2, <1>3, <1>4, <1>5, CacheCases

LEMMA CacheUntouched ==
    ASSUME ControllerStep
    PROVE  UNCHANGED <<cacheOnly, store>>
BY ControllerCases DEF ControllerStep, K!EditNetwork, K!NetworkEvent, K!ListDevices,
   K!Resync, K!Reconcile, K!Publish, K!PublishFails

LEMMA CachePreserved ==
    ASSUME TypeOK, C!UnwatchedIsWritten, StoreFollowsSnapshot, [Next]_vars
    PROVE  C!UnwatchedIsWritten' /\ StoreFollowsSnapshot'
<1>1. CASE CacheStep
  <2>1. \A n \in Names : syncing' # n /\ fate'[n] # "dropped" => Follows(n)'
      BY <1>1, FollowsPreserved, StoreFollowsByName DEF CacheStep
  <2> QED
      BY <1>1, <2>1, UnwatchedPreserved
      DEF CacheStep, StoreFollowsSnapshot, C!StoreFollowsSnapshot, Follows
<1>2. CASE ControllerStep \/ UNCHANGED vars
  <2>1. UNCHANGED <<cacheOnly, store>>
      BY <1>2, CacheUntouched DEF vars
  <2> QED
      BY <2>1 DEF cacheOnly, StoreFollowsSnapshot, C!StoreFollowsSnapshot,
         C!UnwatchedIsWritten, C!Pending
<1> QED
    BY <1>1, <1>2 DEF Next

-----------------------------------------------------------------------------
(* The controller                                                          *)

LEMMA CurrentByResource ==
    \A resource \in Exposes :
        resource \in Current <=> resource[1] \in lister /\ store[resource[2]] = resource[3]
BY DEF Current, K!Exposed

(* A name is told of, and the controller not woken, only if neither was    *)
(* otherwise before, and then its entry in the store stays.                *)
LEMMA EntryStays ==
    ASSUME TypeOK, C!Next, ~dirty', NEW n \in Names, ~Untold(n)'
    PROVE  store'[n] = store[n]
<1>1. CASE C!WriteStore
    BY <1>1 DEF C!WriteStore, Untold, TypeOK, C!TypeOK, C!entries
<1>2. CASE C!Deliver
    BY <1>2 DEF C!Deliver
<1> QED
    BY <1>1, <1>2, CacheCases DEF C!LinkChanges, C!SyncUnchanged, C!SyncChanged,
       C!PollDevices, C!StartWatch, C!Announce, C!AnnounceUnwatched, C!AnnounceDropped

LEMMA WakeupsByCache ==
    ASSUME IInv, CacheStep
    PROVE  GatheredIsCurrent' /\ NoLostWakeup'
<1>1. UNCHANGED <<networks, lister, stage, todo, resources, published, edits>>
    BY DEF CacheStep, controllerOnly
<1>2. SUFFICES ASSUME ~dirty'
               PROVE  GatheredIsCurrent' /\ NoLostWakeup'
    BY DEF GatheredIsCurrent, NoLostWakeup
<1>3. ~dirty
    BY <1>2, CacheCases DEF CacheStep, C!LinkChanges, C!SyncUnchanged, C!SyncChanged,
       C!PollDevices, C!StartWatch, C!Deliver, C!WriteStore, C!Announce,
       C!AnnounceUnwatched, C!AnnounceDropped
<1>4. ASSUME NEW resource \in Exposes, ~Untold(resource[2])'
      PROVE  ~Untold(resource[2]) /\ (resource \in Current' <=> resource \in Current)
  <2>1. resource[2] \in Names
      OBVIOUS
  <2>2. store'[resource[2]] = store[resource[2]]
      BY <1>2, <1>4, <2>1, EntryStays DEF IInv, CacheStep
  <2>3. ~Untold(resource[2])
      BY <1>2, <1>4, <2>1, CacheTold DEF IInv, TypeOK, CacheStep
  <2>4. resource \in Current' <=> resource[1] \in lister' /\ store'[resource[2]] = resource[3]
      BY DEF Current, K!Exposed
  <2> QED
      BY <1>1, <2>2, <2>3, <2>4, CurrentByResource
<1>5. NoLostWakeup'
    BY <1>1, <1>3, <1>4 DEF IInv, NoLostWakeup
<1>6. GatheredIsCurrent'
    BY <1>1, <1>3, <1>4 DEF IInv, GatheredIsCurrent
<1> QED
    BY <1>5, <1>6

LEMMA WakeupsByController ==
    ASSUME IInv, ControllerStep
    PROVE  GatheredIsCurrent' /\ NoLostWakeup'
<1>1. UNCHANGED <<cacheOnly, store>>
    BY CacheUntouched
<1>2. \A n \in Names : Untold(n)' <=> Untold(n)
    BY <1>1 DEF Untold, C!Pending, cacheOnly
<1>3. \A resource \in Exposes : resource[2] \in Names
    OBVIOUS
<1>4. ASSUME lister' = lister
      PROVE  Current' = Current
    BY <1>1, <1>4 DEF Current, K!Exposed
<1>5. CASE K!Reconcile
  <2>1. stage' = "listing" /\ todo' = lister' /\ resources' = {} /\ lister' = lister
      BY <1>5 DEF K!Reconcile
  <2>2. GatheredIsCurrent'
      BY <1>4, <2>1, CurrentByResource DEF GatheredIsCurrent
  <2> QED
      BY <2>1, <2>2 DEF NoLostWakeup
<1>6. ASSUME NEW network \in Networks, K!ListDevices(network)
      PROVE  GatheredIsCurrent' /\ NoLostWakeup'
  <2>1. /\ stage = "listing" /\ stage' = stage /\ dirty' = dirty /\ lister' = lister
        /\ network \in todo /\ todo' = todo \ {network}
        /\ resources' = resources \cup K!Exposed(network)
      BY <1>6 DEF K!ListDevices
  <2>2. NoLostWakeup'
      BY <2>1 DEF NoLostWakeup
  <2>3. ASSUME ~dirty, NEW resource \in Exposes, ~Untold(resource[2])'
        PROVE  IF resource[1] \in todo'
               THEN resource \notin resources'
               ELSE resource \in resources' <=> resource \in Current'
    <3>1. resource \in K!Exposed(network) <=> resource[1] = network /\ resource \in Current
        BY <2>1, <2>3, CurrentByResource DEF K!Exposed, IInv, GatheredIsCurrent
    <3>2. IF resource[1] \in todo
          THEN resource \notin resources
          ELSE resource \in resources <=> resource \in Current
        BY <1>2, <1>3, <2>1, <2>3 DEF IInv, GatheredIsCurrent
    <3>3. Current' = Current
        BY <1>4, <2>1
    <3> QED
        BY <2>1, <3>1, <3>2, <3>3
  <2>4. ~dirty => todo' \subseteq lister'
      BY <2>1 DEF IInv, GatheredIsCurrent
  <2> QED
      BY <2>1, <2>2, <2>3, <2>4 DEF GatheredIsCurrent
<1>7. CASE K!Publish
  <2>1. /\ stage = "listing" /\ stage' = "idle" /\ dirty' = dirty /\ lister' = lister
        /\ todo = {} /\ published' = resources
      BY <1>7 DEF K!Publish
  <2>2. Current' = Current
      BY <1>4, <2>1
  <2> QED
      BY <1>2, <1>3, <2>1, <2>2 DEF IInv, GatheredIsCurrent, NoLostWakeup
<1>8. ASSUME NEW network \in Networks, K!EditNetwork(network)
      PROVE  GatheredIsCurrent' /\ NoLostWakeup'
  <2>1. UNCHANGED <<lister, dirty, stage, todo, resources, published>>
      BY <1>8 DEF K!EditNetwork
  <2>2. Current' = Current
      BY <1>4, <2>1
  <2> QED
      BY <1>2, <1>3, <2>1, <2>2 DEF IInv, GatheredIsCurrent, NoLostWakeup
<1>9. ASSUME dirty'
      PROVE  GatheredIsCurrent' /\ NoLostWakeup'
    BY <1>9 DEF GatheredIsCurrent, NoLostWakeup
<1> QED
    BY <1>5, <1>6, <1>7, <1>8, <1>9, ControllerCases
    DEF ControllerStep, K!NetworkEvent, K!Resync, K!PublishFails

LEMMA OnlyExposedPreserved ==
    ASSUME OnlyExposed, [Next]_vars
    PROVE  OnlyExposed'
<1>1. \A network : K!Exposed(network) \subseteq Exposes
    BY DEF K!Exposed
<1>2. CASE ControllerStep
    BY <1>1, <1>2, ControllerCases DEF ControllerStep, OnlyExposed, K!EditNetwork, K!NetworkEvent,
       K!ListDevices, K!Resync, K!Reconcile, K!Publish, K!PublishFails
<1>3. CASE CacheStep \/ UNCHANGED vars
    BY <1>3 DEF CacheStep, controllerOnly, vars, OnlyExposed
<1> QED
    BY <1>2, <1>3 DEF Next

-----------------------------------------------------------------------------
LEMMA InitEstablishes == Init => IInv
<1> SUFFICES ASSUME Init PROVE IInv
    OBVIOUS
<1> USE DEF Init, C!Init, C!NewDeviceCache, K!Init, K!NewDeviceNetworkController
<1>1. C!TypeOK
  <2>1. watch \in Seq(C!Event) /\ Len(watch) = 0
      OBVIOUS
  <2>2. links \in C!entries /\ snapshot \in C!entries /\ store \in C!entries
      BY DEF C!entries
  <2>3. dirty \in BOOLEAN /\ watching \in BOOLEAN
      OBVIOUS
  <2>4. fate \in [Names -> {"sent", "unwatched", "dropped"}]
      OBVIOUS
  <2> QED
      BY <2>1, <2>2, <2>3, <2>4 DEF C!TypeOK
<1>2. K!TypeOK
    BY DEF K!TypeOK, K!Resources
<1>3. C!UnwatchedIsWritten
    BY DEF C!UnwatchedIsWritten
<1>4. StoreFollowsSnapshot
    BY DEF StoreFollowsSnapshot, C!StoreFollowsSnapshot, C!Pending
<1>5. GatheredIsCurrent /\ NoLostWakeup
    BY CurrentByResource DEF GatheredIsCurrent, NoLostWakeup
<1>6. OnlyExposed
    BY DEF OnlyExposed
<1> QED
    BY <1>1, <1>2, <1>3, <1>4, <1>5, <1>6 DEF IInv, TypeOK

LEMMA Preserved ==
    ASSUME IInv, [Next]_vars
    PROVE  IInv'
<1>1. TypeOK'
    BY TypePreserved DEF IInv
<1>2. C!UnwatchedIsWritten' /\ StoreFollowsSnapshot'
    BY CachePreserved DEF IInv
<1>3. GatheredIsCurrent' /\ NoLostWakeup'
  <2>1. CASE UNCHANGED vars
    <3>1. Current' = Current /\ \A n \in Names : Untold(n)' <=> Untold(n)
        BY <2>1 DEF vars, cacheOnly, controllerOnly, Current, K!Exposed, Untold, C!Pending
    <3> QED
        BY <2>1, <3>1 DEF vars, cacheOnly, controllerOnly, IInv, GatheredIsCurrent, NoLostWakeup
  <2> QED
      BY <2>1, WakeupsByCache, WakeupsByController DEF Next
<1>4. OnlyExposed'
    BY OnlyExposedPreserved DEF IInv
<1> QED
    BY <1>1, <1>2, <1>3, <1>4 DEF IInv

(* Every reachable state of cache and controller is well typed.            *)
THEOREM TypeCorrect == Spec => []TypeOK
<1>1. Init => TypeOK
    BY InitEstablishes DEF IInv
<1> QED
    BY <1>1, TypePreserved, PTL DEF Spec

(* The invariants of cache and controller are inductive together.          *)
THEOREM Inductive == Spec => []IInv
    BY InitEstablishes, Preserved, PTL DEF Spec

(* The store of the devices, written by the worker and by the informer     *)
(* without a common lock, is on its way to what the worker has seen        *)
(* (cache.go:243-300), for a channel of any size and any interfaces.       *)
THEOREM StoreConverges == Spec => []StoreFollowsSnapshot
<1>1. IInv => StoreFollowsSnapshot
    BY DEF IInv
<1> QED
    BY Inductive, <1>1, PTL

(* No event is forgotten that comes while the controller reconciles, and   *)
(* no failed publication (devicenetwork.go:140-161), for any networks and  *)
(* interfaces: a controller that sleeps has published what it should.      *)
THEOREM WakeupsKept == Spec => []NoLostWakeup
<1>1. IInv => NoLostWakeup
    BY DEF IInv
<1> QED
    BY Inductive, <1>1, PTL

-----------------------------------------------------------------------------
(* The advertised pool                                                     *)

Owed == {n \in Names : Untold(n)}
Due == dirty \/ stage = "listing"

LEMMA PoolInit == Init => Pool!Init
<1> SUFFICES ASSUME Init PROVE Pool!Init
    OBVIOUS
<1>1. Owed = {}
    BY DEF Owed, Untold, Init, C!Init, C!NewDeviceCache, C!Pending
<1>2. /\ store = [n \in Names |-> Absent]
      /\ published = {} /\ lister \subseteq Networks
      /\ dirty = (lister # {})
    BY DEF Init, C!Init, C!NewDeviceCache, K!Init, K!NewDeviceNetworkController
<1> QED
    BY <1>1, <1>2 DEF Pool!Init, Owed

(* The worker takes up a changed link: its name is owed from now on.       *)
LEMMA SyncOwes ==
    ASSUME TypeOK, NEW n \in Names, C!SyncChanged(n)
    PROVE  Owed' = Owed \cup {n}
<1>1. syncing' = n /\ fate' = fate /\ C!Pending(n)' = C!Pending(n)
    BY DEF C!SyncChanged, C!Pending
<1>2. \A m \in Names : syncing # m
    BY DEF TypeOK, C!TypeOK, C!SyncChanged
<1>3. \A m \in Names : C!Pending(m)' = C!Pending(m)
    BY DEF C!SyncChanged, C!Pending
<1>4. \A m \in Names : Untold(m)' <=> Untold(m) \/ m = n
    BY <1>1, <1>2, <1>3 DEF Untold
<1> QED
    BY <1>4 DEF Owed

(* What it was announcing stays owed: in the channel, or told to nobody.   *)
LEMMA AnnounceOwes ==
    ASSUME TypeOK, C!Announce \/ C!AnnounceUnwatched \/ C!AnnounceDropped
    PROVE  Owed' = Owed
<1>1. /\ syncing \in Names /\ syncing' = Absent
      /\ \A m \in Names : m # syncing => fate'[m] = fate[m]
    BY DEF TypeOK, C!TypeOK, C!Announce, C!AnnounceUnwatched, C!AnnounceDropped, C!SyncDone
<1>2. \A m \in Names : m # syncing => C!Pending(m)' = C!Pending(m)
    BY Appended DEF TypeOK, C!Pending, C!AnnounceUnwatched, C!AnnounceDropped
<1>3. ASSUME NEW n \in Names, n = syncing
      PROVE  Untold(n) /\ Untold(n)'
  <2>1. CASE C!Announce
      BY <1>3, <2>1, Appended DEF TypeOK, Untold
  <2>2. CASE C!AnnounceUnwatched \/ C!AnnounceDropped
      BY <1>3, <2>2 DEF TypeOK, C!TypeOK, Untold, C!AnnounceUnwatched, C!AnnounceDropped
  <2> QED
      BY <2>1, <2>2
<1>4. \A m \in Names : Untold(m)' <=> Untold(m)
  <2> TAKE m \in Names
  <2>1. CASE m = syncing
      BY <1>3, <2>1
  <2>2. CASE m # syncing
      BY <1>1, <1>2, <2>2 DEF Untold
  <2> QED
      BY <2>1, <2>2
<1> QED
    BY <1>4 DEF Owed

(* An event that is delivered was owed, and only its own name is told.     *)
LEMMA DeliverTells ==
    ASSUME TypeOK, C!Deliver
    PROVE  /\ Head(watch).name \in Owed
           /\ Owed' \in {Owed, Owed \ {Head(watch).name}}
<1> DEFINE n == Head(watch).name
<1>1. /\ watch \in Seq(C!Event) /\ watch # <<>> /\ n = watch[1].name
      /\ DOMAIN watch = 1..Len(watch) /\ Len(watch) \in Nat \ {0}
      /\ DOMAIN watch' = 1..(Len(watch) - 1)
      /\ \A i \in DOMAIN watch' : watch'[i] = watch[i + 1]
    BY DEF C!Deliver, TypeOK, C!TypeOK
<1>2. n \in Names
  <2>1. watch[1] \in C!Event
      BY <1>1
  <2> QED
      BY <1>1, <2>1 DEF C!Event
<1>3. 1 \in C!Pending(n)
    BY <1>1 DEF C!Pending
<1>4. UNCHANGED <<syncing, fate>>
    BY DEF C!Deliver
<1> HIDE DEF n
<1>5. \A m \in Names : m # n => (C!Pending(m)' = {} <=> C!Pending(m) = {})
  <2> SUFFICES ASSUME NEW m \in Names, m # n
               PROVE  C!Pending(m)' = {} <=> C!Pending(m) = {}
      OBVIOUS
  <2>1. \A i \in C!Pending(m)' : i + 1 \in C!Pending(m)
      BY <1>1 DEF C!Pending
  <2>2. \A i \in C!Pending(m) : i - 1 \in C!Pending(m)'
    <3> SUFFICES ASSUME NEW i \in C!Pending(m)
                 PROVE  i - 1 \in C!Pending(m)'
        OBVIOUS
    <3>1. i \in 2..Len(watch) /\ watch[i].name = m
        BY <1>1 DEF C!Pending
    <3>2. i - 1 \in DOMAIN watch' /\ (i - 1) + 1 = i
        BY <1>1, <3>1
    <3> QED
        BY <1>1, <3>1, <3>2 DEF C!Pending
  <2> QED
      BY <2>1, <2>2
<1>6. \A m \in Names : m # n => (Untold(m)' <=> Untold(m))
    BY <1>4, <1>5 DEF Untold
<1>7. Untold(n)
    BY <1>3 DEF Untold
<1> QED
    BY <1>2, <1>6, <1>7 DEF Owed, n

LEMMA CacheFeedsPool ==
    ASSUME TypeOK, CacheStep
    PROVE  [Pool!Next]_(Pool!vars)
<1>1. UNCHANGED <<lister, stage, published>>
    BY DEF CacheStep, controllerOnly
<1>2. CASE \/ \E n \in Names, spec \in Specs \cup {Absent} : C!LinkChanges(n, spec)
           \/ \E n \in Names : C!SyncUnchanged(n)
           \/ C!PollDevices \/ C!StartWatch
  <2>1. UNCHANGED <<syncing, fate, watch, store, dirty>>
      BY <1>2 DEF C!LinkChanges, C!SyncUnchanged, C!PollDevices, C!StartWatch
  <2>2. Owed' = Owed
      BY <2>1 DEF Owed, Untold, C!Pending
  <2> QED
      BY <1>1, <2>1, <2>2 DEF Pool!vars, Owed
<1>3. ASSUME NEW n \in Names, C!SyncChanged(n)
      PROVE  Pool!Change(n, store[n])
  <2>1. UNCHANGED <<store, dirty>> /\ store \in [Names -> Specs \cup {Absent}]
      BY <1>3 DEF C!SyncChanged, TypeOK, C!TypeOK, C!entries
  <2>2. store' = [store EXCEPT ![n] = store[n]]
      BY <2>1
  <2> QED
      BY <1>1, <1>3, <2>1, <2>2, SyncOwes DEF Pool!Change, Owed
<1>4. CASE C!WriteStore
  <2>1. /\ syncing \in Names /\ snapshot[syncing] \in Specs \cup {Absent}
        /\ store' = [store EXCEPT ![syncing] = snapshot[syncing]]
        /\ UNCHANGED <<syncing, fate, watch, dirty>>
      BY <1>4 DEF C!WriteStore, TypeOK, C!TypeOK, C!entries
  <2>2. Owed' = Owed /\ syncing \in Owed
      BY <2>1 DEF Owed, Untold, C!Pending
  <2>3. Pool!Change(syncing, snapshot[syncing])
      BY <1>1, <2>1, <2>2 DEF Pool!Change, Owed
  <2> QED
      BY <2>1, <2>3 DEF Pool!Next
<1>5. CASE C!Announce \/ C!AnnounceUnwatched \/ C!AnnounceDropped
  <2>1. UNCHANGED <<store, dirty>>
      BY <1>5 DEF C!Announce, C!AnnounceUnwatched, C!AnnounceDropped
  <2> QED
      BY <1>1, <1>5, <2>1, AnnounceOwes DEF Pool!vars, Owed
<1>6. CASE C!Deliver
  <2> DEFINE event == Head(watch)
  <2>1. event \in C!Event
      BY <1>6 DEF C!Deliver, TypeOK, C!TypeOK
  <2>2. event.name \in Names /\ event.spec \in Specs \cup {Absent}
      BY <2>1 DEF C!Event
  <2>3. Pool!Hear(event.name, event.spec)
      BY <1>1, <1>6, DeliverTells DEF Pool!Hear, C!Deliver, Owed
  <2> QED
      BY <2>2, <2>3 DEF Pool!Next
<1>7. ASSUME NEW n \in Names, C!SyncChanged(n)
      PROVE  Pool!Next
    BY <1>3, <1>7 DEF Pool!Next, TypeOK, C!TypeOK, C!entries
<1> QED
    BY <1>2, <1>4, <1>5, <1>6, <1>7, CacheCases DEF CacheStep

LEMMA ControllerAdvertises ==
    ASSUME IInv, ControllerStep
    PROVE  [Pool!Next]_(Pool!vars)
<1>1. UNCHANGED <<cacheOnly, store>>
    BY CacheUntouched
<1>2. Owed' = Owed
    BY <1>1 DEF Owed, Untold, C!Pending, cacheOnly
<1>3. CASE \/ \E network \in Networks : K!EditNetwork(network) \/ K!ListDevices(network)
           \/ K!Reconcile \/ K!PublishFails
  <2>1. UNCHANGED <<lister, published>> /\ (Due' <=> Due)
      BY <1>3 DEF K!EditNetwork, K!ListDevices, K!Reconcile, K!PublishFails, Due
  <2> QED
      BY <1>1, <1>2, <2>1 DEF Pool!vars, Owed, Due
<1>4. ASSUME NEW network \in Networks, K!NetworkEvent(network)
      PROVE  Pool!ListNetwork(network)
    BY <1>1, <1>2, <1>4 DEF K!NetworkEvent, Pool!ListNetwork, Owed
<1>5. CASE K!Resync
    BY <1>1, <1>2, <1>5 DEF K!Resync, Pool!Next, Pool!Remind, Owed
<1>6. CASE K!Publish
  <2>1. /\ stage = "listing" /\ stage' = "idle" /\ todo = {} /\ published' = resources
        /\ UNCHANGED <<lister, dirty>> /\ dirty \in BOOLEAN
      BY <1>6 DEF K!Publish, IInv, TypeOK, K!TypeOK
  <2>2. resources \in SUBSET Exposes
      BY DEF IInv, OnlyExposed
  <2>3. dirty \/ Pool!Agree(resources, Pool!Current)
    <3>1. ASSUME ~dirty, NEW r \in Exposes, r[2] \notin Owed
          PROVE  r \in resources <=> r \in Pool!Current
      <4>1. r[2] \in Names
          OBVIOUS
      <4>2. ~Untold(r[2])
          BY <3>1, <4>1 DEF Owed
      <4>3. r \in resources <=> r \in Current
          BY <2>1, <3>1, <4>2 DEF IInv, GatheredIsCurrent
      <4> QED
          BY <4>3, CurrentByResource DEF Pool!Current
    <3> QED
        BY <3>1 DEF Pool!Agree, Owed
  <2>4. Pool!Advertise(resources)
      BY <1>1, <1>2, <2>1, <2>3 DEF Pool!Advertise, Owed
  <2> QED
      BY <2>2, <2>4 DEF Pool!Next
<1> QED
    BY <1>3, <1>4, <1>5, <1>6, ControllerCases DEF ControllerStep, Pool!Next

LEMMA StepAdvertises ==
    ASSUME IInv, [Next]_vars
    PROVE  [Pool!Next]_(Pool!vars)
<1>1. CASE UNCHANGED vars
    BY <1>1 DEF vars, cacheOnly, controllerOnly, Pool!vars, Untold, C!Pending
<1> QED
    BY <1>1, CacheFeedsPool, ControllerAdvertises DEF Next, IInv

(* From the links to the advertised pool, cache, informer, work queue and  *)
(* reconciler do nothing that AdvertisedPool.tla does not allow, for a     *)
(* channel of any size, any interfaces and any networks.                   *)
THEOREM PoolImplemented == Spec => ImplementsPool
BY Inductive, PoolInit, StepAdvertises, PTL DEF Spec, ImplementsPool, Pool!Spec

(* What the abstract pool promises follows from its own steps.             *)
LEMMA PoolInvInit == Pool!Init => Pool!PoolInv
BY DEF Pool!Init, Pool!PoolInv, Pool!TypeOK, Pool!PoolIsCurrent, Pool!Agree, Pool!Current

LEMMA PoolInvPreserved ==
    Pool!PoolInv /\ [Pool!Next]_(Pool!vars) => Pool!PoolInv'
<1> SUFFICES ASSUME Pool!PoolInv, [Pool!Next]_(Pool!vars)
             PROVE  Pool!PoolInv'
    OBVIOUS
<1> USE DEF Pool!PoolInv, Pool!TypeOK, Pool!PoolIsCurrent, Pool!Agree, Pool!Current
<1>1. ASSUME NEW n \in Names, NEW spec \in Specs \cup {Absent}, Pool!Change(n, spec)
      PROVE  Pool!PoolInv'
    BY <1>1 DEF Pool!Change
<1>2. ASSUME NEW n \in Names, NEW spec \in Specs \cup {Absent}, Pool!Hear(n, spec)
      PROVE  Pool!PoolInv'
    BY <1>2 DEF Pool!Hear
<1>3. CASE \/ \E network \in Networks : Pool!ListNetwork(network)
           \/ Pool!Remind
    BY <1>3 DEF Pool!ListNetwork, Pool!Remind
<1>4. ASSUME NEW pool \in SUBSET Exposes, Pool!Advertise(pool)
      PROVE  Pool!PoolInv'
    BY <1>4 DEF Pool!Advertise
<1>5. CASE UNCHANGED Pool!vars
    BY <1>5 DEF Pool!vars
<1> QED
    BY <1>1, <1>2, <1>3, <1>4, <1>5 DEF Pool!Next

(* Whatever implements the pool is right, while no pool is due, about      *)
(* every interface of which it has been told.                              *)
THEOREM PoolStaysCurrent == Pool!Spec => []Pool!PoolIsCurrent
<1>1. Pool!PoolInv => Pool!PoolIsCurrent
    BY DEF Pool!PoolInv
<1> QED
    BY <1>1, PoolInvInit, PoolInvPreserved, PTL DEF Pool!Spec
=============================================================================
