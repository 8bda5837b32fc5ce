----------------------------- MODULE DeviceCache -----------------------------
(***************************************************************************)
(* The cache of the host's network devices: pkg/host/cache.go.             *)
(*                                                                         *)
(* A ticker polls the host's interfaces and queues their names; one worker *)
(* reads the link of a queued name, compares it with the cache's snapshot, *)
(* and on a change writes the store of a synthetic informer and broadcasts *)
(* an event.  The informer watches the broadcaster: for each event it      *)
(* writes the same store again and calls the event handlers.  The worker   *)
(* and the informer are not synchronised, so an event in flight may undo   *)
(* a newer write of the worker for a while.                                *)
(*                                                                         *)
(* Granularity.  The work queue hands a name to the worker once however    *)
(* often it was added; it is the set of the names waiting.  The snapshot   *)
(* is touched by the worker only, so reading the link and updating the     *)
(* snapshot is one step; the write to the store and the broadcast are one  *)
(* each, the broadcaster handing an event to its watcher at once.  A link  *)
(* that cannot be read for another reason than its absence leaves its name *)
(* in the queue and changes nothing, as a poll that fails does.  One       *)
(* worker: run.go:223.  The informer has listed the empty store before the *)
(* worker starts (cache.go:146).                                           *)
(***************************************************************************)
EXTENDS Naturals, Sequences

CONSTANTS
    Names,           \* names of network interfaces
    Specs,           \* what DeviceSpec can be
    Absent,          \* there is no such link, or no such entry
    ChannelSize,     \* capacity of the watch channel (1000 in the code)
    MaxChanges       \* bound on the changes of the host's links

VARIABLES
    links,           \* the links of the host, in the kernel
    queue,           \* names waiting in dc.queue
    syncing,         \* the name the worker is at, or Absent
    step,            \* where syncDevice is
    snapshot,        \* dc.snapshot
    store,           \* the store of dc.informer
    watching,        \* the informer has called Watch
    watch,           \* events on their way to the informer
    fate,            \* what became of the last event of each name
    changes,         \* how much of MaxChanges is used up
    dirty            \* an event handler has queued work for its owner

entries == [Names -> Specs \cup {Absent}]
vars == <<links, queue, syncing, step, snapshot, store, watching, watch, fate,
          changes, dirty>>

Event == [name : Names, spec : Specs \cup {Absent}]

TypeOK ==
    /\ links \in entries /\ snapshot \in entries /\ store \in entries
    /\ queue \subseteq Names
    /\ syncing \in Names \cup {Absent}
    /\ step \in {"idle", "writing", "announcing"}
    /\ step = "idle" <=> syncing = Absent
    /\ watching \in BOOLEAN /\ dirty \in BOOLEAN
    /\ watch \in Seq(Event) /\ Len(watch) <= ChannelSize
    /\ fate \in [Names -> {"sent", "unwatched", "dropped"}]
    /\ changes \in 0..MaxChanges

NewDeviceCache ==
    /\ queue = {} /\ syncing = Absent /\ step = "idle"
    /\ snapshot = [n \in Names |-> Absent]
    /\ store = [n \in Names |-> Absent]
    /\ watching = FALSE /\ watch = <<>>
    /\ fate = [n \in Names |-> "sent"]

Init ==
    /\ NewDeviceCache
    /\ links \in entries
    /\ changes = 0
    /\ dirty \in BOOLEAN

-----------------------------------------------------------------------------

(* A link appears, disappears, or comes back with other properties.        *)
LinkChanges(n, spec) ==
    /\ changes < MaxChanges
    /\ links[n] # spec
    /\ links' = [links EXCEPT ![n] = spec]
    /\ changes' = changes + 1
    /\ UNCHANGED <<queue, syncing, step, snapshot, store, watching, watch, fate, dirty>>

(* The ticker: the names of the links there are, not of the cached ones.   *)
PollDevices ==
    /\ queue' = queue \cup {n \in Names : links[n] # Absent}
    /\ UNCHANGED <<links, syncing, step, snapshot, store, watching, watch, fate,
                   changes, dirty>>

(* syncDevice of a link that is as the snapshot has it.                    *)
SyncUnchanged(n) ==
    /\ step = "idle"
    /\ n \in queue
    /\ links[n] = snapshot[n]
    /\ queue' = queue \ {n}
    /\ UNCHANGED <<links, syncing, step, snapshot, store, watching, watch, fate,
                   changes, dirty>>

(* syncDevice of a link that is new, gone or changed.                      *)
SyncChanged(n) ==
    /\ step = "idle"
    /\ n \in queue
    /\ links[n] # snapshot[n]
    /\ queue' = queue \ {n}
    /\ snapshot' = [snapshot EXCEPT ![n] = links[n]]
    /\ syncing' = n
    /\ step' = "writing"
    /\ UNCHANGED <<links, store, watching, watch, fate, changes, dirty>>

(* A worker that leaves the store to the informer.                         *)
LeaveStore ==
    /\ step = "writing"
    /\ step' = "announcing"
    /\ UNCHANGED <<links, queue, syncing, snapshot, store, watching, watch, fate,
                   changes, dirty>>

WriteStore ==
    /\ step = "writing"
    /\ store' = [store EXCEPT ![syncing] = snapshot[syncing]]
    /\ step' = "announcing"
    /\ UNCHANGED <<links, queue, syncing, snapshot, watching, watch, fate,
                   changes, dirty>>

SyncDone == step' = "idle" /\ syncing' = Absent

(* The broadcast reaches the informer's channel ...                        *)
Announce ==
    /\ step = "announcing"
    /\ watching /\ Len(watch) < ChannelSize
    /\ watch' = Append(watch, [name |-> syncing, spec |-> snapshot[syncing]])
    /\ fate' = [fate EXCEPT ![syncing] = "sent"]
    /\ SyncDone
    /\ UNCHANGED <<links, queue, snapshot, store, watching, changes, dirty>>

(* ... or nobody, because the informer does not watch yet ...              *)
AnnounceUnwatched ==
    /\ step = "announcing"
    /\ ~watching
    /\ fate' = [fate EXCEPT ![syncing] = "unwatched"]
    /\ SyncDone
    /\ UNCHANGED <<links, queue, snapshot, store, watching, watch, changes, dirty>>

(* A broadcaster that queues without bound.                                *)
AnnounceBeyond ==
    /\ step = "announcing"
    /\ watching /\ Len(watch) >= ChannelSize
    /\ watch' = Append(watch, [name |-> syncing, spec |-> snapshot[syncing]])
    /\ SyncDone
    /\ UNCHANGED <<links, queue, snapshot, store, watching, fate, changes, dirty>>

(* ... or is dropped: DropIfChannelFull.                                   *)
AnnounceDropped ==
    /\ step = "announcing"
    /\ watching /\ Len(watch) = ChannelSize
    /\ fate' = [fate EXCEPT ![syncing] = "dropped"]
    /\ SyncDone
    /\ UNCHANGED <<links, queue, snapshot, store, watching, watch, changes, dirty>>

Worker ==
    \/ WriteStore \/ Announce \/ AnnounceUnwatched \/ AnnounceDropped

(* The informer, which has listed the store, comes to watch it.            *)
StartWatch ==
    /\ ~watching
    /\ watching' = TRUE
    /\ UNCHANGED <<links, queue, syncing, step, snapshot, store, watch, fate,
                   changes, dirty>>

(* The informer writes the event to the store and calls the handlers.      *)
Deliver ==
    /\ watch # <<>>
    /\ watch' = Tail(watch)
    /\ store' = [store EXCEPT ![Head(watch).name] = Head(watch).spec]
    /\ dirty' = TRUE
    /\ UNCHANGED <<links, queue, syncing, step, snapshot, watching, fate, changes>>

Sync(n) == SyncUnchanged(n) \/ SyncChanged(n)

Next ==
    \/ \E n \in Names : Sync(n) \/ \E spec \in Specs \cup {Absent} : LinkChanges(n, spec)
    \/ PollDevices
    \/ Worker
    \/ StartWatch
    \/ Deliver

Spec == Init /\ [][Next]_vars

-----------------------------------------------------------------------------

(* The events of a name that are on their way.                             *)
Pending(n) == {i \in DOMAIN watch : watch[i].name = n}

(* The worker and the informer write the store without a common lock.      *)
(* Still, when the worker is done with a name, the store has what the      *)
(* snapshot has or an event on its way sets it so; otherwise later polls,  *)
(* which compare with the snapshot (cache.go:279), would never repair it.  *)
(* A full channel breaks this for the names it dropped.                    *)
StoreFollowsSnapshot ==
    \A n \in Names : syncing # n /\ fate[n] # "dropped" =>
        /\ Pending(n) = {} => store[n] = snapshot[n]
        /\ \A last \in Pending(n) :
              (\A i \in Pending(n) : i <= last) => watch[last].spec = snapshot[n]

(* Nothing is on its way before the informer watches, and the worker has   *)
(* written what it then announces to nobody.                               *)
UnwatchedIsWritten ==
    /\ ~watching => watch = <<>>
    /\ step = "announcing" /\ ~watching => store[syncing] = snapshot[syncing]
=============================================================================
