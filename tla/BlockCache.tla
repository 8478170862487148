----------------------------- MODULE BlockCache -----------------------------
(***************************************************************************)
(* The write-back sector cache (src/block/cache.c) over a block device     *)
(* (src/block/device.c), driven by the file system's sync object           *)
(* (src/filesystems/inferenceos_fs/sync.c), whose generation the cache     *)
(* stamps on every dirty entry.                                            *)
(*                                                                         *)
(* The device behind the operations table is external.  It acknowledges a  *)
(* write before the data is durable; flush makes durable what it           *)
(* acknowledged; a failed write may or may not have taken effect; after a  *)
(* failed flush it may have forgotten any write it had buffered; and a     *)
(* power loss leaves in each sector its durable value or any value handed  *)
(* to the device since the last good flush.  A sector is written whole.    *)
(*                                                                         *)
(* The barrier runs one device request per step, so that a power loss or   *)
(* a device failure can fall between any two of them.                      *)
(***************************************************************************)
EXTENDS Integers

CONSTANTS Sector,           \* the sectors of the device
          EntryCount,       \* cache->entry_count
          Value,            \* sector contents
          Zeroed,           \* what memset leaves in an entry's fields
          MaxGeneration,    \* stands for UINT64_MAX
          MaxPins           \* stands for UINT32_MAX

ASSUME CacheAssumption ==
    /\ EntryCount \in Nat \ {0}
    /\ MaxGeneration \in Nat \ {0}
    /\ MaxPins \in Nat
    /\ Zeroed \notin Sector
    /\ Zeroed \notin Value

Index == 1 .. EntryCount
Generation == 0 .. MaxGeneration

VARIABLES
    entries,        \* cache->entries
    last_use,       \* entry->last_use, as the entry's rank among all
    current,        \* cache->current_generation
    sync,           \* struct ios_fs_sync; attached is sync->cache != NULL
    barrier,        \* the barrier in progress: its step and its loop state
    device,         \* status, and the two images behind the operations table
    pending,        \* values handed to the device since the last good flush
    acked, since    \* ghosts: content at the last good barrier, values since

cacheVars == <<entries, last_use, current>>
ghostVars == <<acked, since>>
vars == <<entries, last_use, current, sync, barrier, device, pending, acked, since>>

EntryState == {"EMPTY", "CLEAN", "DIRTY", "ERROR"}
Entry == [state : EntryState, sector : Sector \cup {Zeroed},
          bytes : Value \cup {Zeroed},
          dirty_generation : Generation, pin_count : 0 .. MaxPins]
Result == {"OK", "ERROR"}
Sync == [attached : BOOLEAN, generation : Generation, durable : Generation,
         dirty : BOOLEAN, last_result : Result]
Barrier == [step : {"idle", "write", "flush", "invalidate"},
            index : 1 .. EntryCount + 1, failed : BOOLEAN, unmounting : BOOLEAN]
Device == [status : {"READY", "READ_ONLY", "FAILED"},
           media : [Sector -> Value], view : [Sector -> Value]]

TypeOK ==
    /\ entries \in [Index -> Entry]
    /\ last_use \in [Index -> Index]
    /\ current \in Generation \ {0}
    /\ sync \in Sync
    /\ barrier \in Barrier
    /\ device \in Device
    /\ pending \in [Sector -> SUBSET Value]
    /\ acked \in [Sector -> Value]
    /\ since \in [Sector -> SUBSET Value]

-----------------------------------------------------------------------------
(* Helpers of the cache.                                                   *)

EmptyEntry == [state |-> "EMPTY", sector |-> Zeroed, bytes |-> Zeroed,
               dirty_generation |-> 0, pin_count |-> 0]

Idle == [step |-> "idle", index |-> 1, failed |-> FALSE, unmounting |-> FALSE]

NoValues == [s \in Sector |-> {}]

Uncommitted(e) == e.state \in {"DIRTY", "ERROR"}

\* fault: an entry whose write-back failed no longer counts as holding its sector
find_entry_not_failed(s) ==
    {i \in Index : entries[i].state \in {"CLEAN", "DIRTY"} /\ entries[i].sector = s}

(* find_entry: the entries that hold a sector.                             *)
find_entry(s) ==
    {i \in Index : entries[i].state # "EMPTY" /\ entries[i].sector = s}

(* entry->last_use = ++cache->use_clock: the entry gets the highest rank.  *)
Touch(i) ==
    [j \in Index |-> IF j = i THEN EntryCount
                     ELSE IF last_use[j] > last_use[i] THEN last_use[j] - 1
                     ELSE last_use[j]]

Evictable(st) == {i \in Index : entries[i].state = st /\ entries[i].pin_count = 0}

\* fault: an entry whose write-back failed may be reused
select_victim_failed == Evictable("EMPTY") \cup Evictable("CLEAN") \cup Evictable("ERROR")

(* select_victim: the first empty entry, else the least recently used      *)
(* clean one; never a pinned, a dirty or a failed one.                     *)
select_victim ==
    IF Evictable("EMPTY") # {}
      THEN {i \in Evictable("EMPTY") : \A j \in Evictable("EMPTY") : i <= j}
      ELSE {i \in Evictable("CLEAN") :
              \A j \in Evictable("CLEAN") : last_use[i] <= last_use[j]}

(* acquire_entry: the entry that will hold sector s.                       *)
acquire_entry(s) == IF find_entry(s) # {} THEN find_entry(s) ELSE select_victim

Fresh(s, v) == [state |-> "CLEAN", sector |-> s, bytes |-> v,
                dirty_generation |-> 0, pin_count |-> 0]

(* What the entry i holds once sector s is acquired for reading.           *)
Loaded(i, s) == IF find_entry(s) # {} THEN entries[i] ELSE Fresh(s, device.view[s])

Usable == device.status # "FAILED"
Quiet == barrier.step = "idle"

(* A sector as the layers above see it.                                    *)
View == [s \in Sector |-> IF find_entry(s) # {}
                            THEN entries[CHOOSE i \in find_entry(s) : TRUE].bytes
                            ELSE device.view[s]]
-----------------------------------------------------------------------------
(* Initialisation: block_device_initialize, block_cache_initialize,        *)
(* ios_fs_sync_initialize.  The device keeps what it holds.                *)

EmptyCache == [i \in Index |-> EmptyEntry]
AttachedSync(g) == [attached |-> TRUE, generation |-> g, durable |-> 0,
                    dirty |-> FALSE, last_result |-> "OK"]

Init ==
    /\ entries = EmptyCache
    /\ last_use = [i \in Index |-> i]
    /\ current = 1
    /\ sync = AttachedSync(1)
    /\ barrier = Idle
    /\ \E content \in [Sector -> Value], st \in {"READY", "READ_ONLY"} :
          /\ device = [status |-> st, media |-> content, view |-> content]
          /\ acked = content
    /\ pending = NoValues
    /\ since = NoValues
-----------------------------------------------------------------------------
(* block_cache_read: a hit only renews last_use, a miss loads the sector.  *)
block_cache_read(s) ==
    /\ Quiet
    /\ \E i \in acquire_entry(s) :
         /\ find_entry(s) # {} \/ Usable
         /\ entries' = [entries EXCEPT ![i] = Loaded(i, s)]
         /\ last_use' = Touch(i)
    /\ UNCHANGED <<current, sync, barrier, device, pending, ghostVars>>

(* The device read of a miss fails: the victim has already been emptied.   *)
block_cache_read_fails(s) ==
    /\ Quiet
    /\ find_entry(s) = {}
    /\ \E i \in select_victim : entries' = [entries EXCEPT ![i] = EmptyEntry]
    /\ UNCHANGED <<last_use, current, sync, barrier, device, pending, ghostVars>>

(* block_cache_pin: a read that also counts a pin (at the limit it leaves  *)
(* what the read leaves).                                                  *)
block_cache_pin(s) ==
    /\ Quiet
    /\ \E i \in acquire_entry(s) :
         /\ find_entry(s) # {} \/ Usable
         /\ Loaded(i, s).pin_count < MaxPins
         /\ entries' = [entries EXCEPT ![i] = [Loaded(i, s) EXCEPT !.pin_count = @ + 1]]
         /\ last_use' = Touch(i)
    /\ UNCHANGED <<current, sync, barrier, device, pending, ghostVars>>

block_cache_unpin(s) ==
    /\ Quiet
    /\ \E i \in find_entry(s) :
         /\ entries[i].pin_count > 0
         /\ entries' = [entries EXCEPT ![i].pin_count = @ - 1]
    /\ UNCHANGED <<last_use, current, sync, barrier, device, pending, ghostVars>>

(* ios_fs_sync_write_sector through block_cache_write: no device access;   *)
(* the entry is stamped with the sync object's generation.                 *)
ios_fs_sync_write_sector(s, v) ==
    /\ Quiet /\ sync.attached
    /\ device.status # "READ_ONLY"
    /\ sync.generation \in 1 .. current
    /\ \E i \in acquire_entry(s) :
         LET e == IF find_entry(s) # {} THEN entries[i] ELSE Fresh(s, Zeroed)
         IN  entries' = [entries EXCEPT ![i] =
                           [e EXCEPT !.bytes = v, !.state = "DIRTY",
                                     !.dirty_generation = sync.generation]]
         /\ last_use' = Touch(i)
    /\ sync' = [sync EXCEPT !.dirty = TRUE]
    /\ since' = [since EXCEPT ![s] = @ \cup {v}]
    /\ UNCHANGED <<current, barrier, device, pending, acked>>

(* The write is refused: read-only device, or every entry dirty, failed or *)
(* pinned (E_WOULD_BLOCK).  The status is latched in last_result.          *)
ios_fs_sync_write_refused(s) ==
    /\ Quiet /\ sync.attached
    /\ \/ device.status = "READ_ONLY"
       \/ sync.generation \notin 1 .. current
       \/ acquire_entry(s) = {}
    /\ sync' = [sync EXCEPT !.last_result = "ERROR"]
    /\ UNCHANGED <<cacheVars, barrier, device, pending, ghostVars>>
-----------------------------------------------------------------------------
(* ios_fs_sync_barrier, called by the file service or, unmounting, by      *)
(* vfs_unmount_root, which invalidates the cache after it succeeds.        *)

Targeted(e) == Uncommitted(e) /\ e.dirty_generation <= sync.generation

ios_fs_sync_barrier(unmounting) ==
    /\ Quiet /\ sync.attached
    /\ sync.generation < MaxGeneration
    /\ sync.generation \in 1 .. current
    /\ barrier' = [step |-> "write", index |-> 1, failed |-> FALSE, unmounting |-> unmounting]
    /\ UNCHANGED <<cacheVars, sync, device, pending, ghostVars>>

ios_fs_sync_barrier_overflow ==
    /\ Quiet /\ sync.attached
    /\ sync.generation = MaxGeneration
    /\ sync' = [sync EXCEPT !.last_result = "ERROR"]
    /\ UNCHANGED <<cacheVars, barrier, device, pending, ghostVars>>

(* The first loop of block_cache_barrier.                                  *)
BarrierSkip ==
    /\ barrier.step = "write" /\ barrier.index <= EntryCount
    /\ ~Targeted(entries[barrier.index])
    /\ barrier' = [barrier EXCEPT !.index = @ + 1]
    /\ UNCHANGED <<cacheVars, sync, device, pending, ghostVars>>

block_device_write(s, v) ==
    /\ device' = [device EXCEPT !.view[s] = v]
    /\ pending' = [pending EXCEPT ![s] = @ \cup {v}]

BarrierWrite ==
    /\ barrier.step = "write" /\ barrier.index <= EntryCount
    /\ device.status = "READY"
    /\ LET e == entries[barrier.index] IN
         /\ Targeted(e)
         /\ block_device_write(e.sector, e.bytes)
         /\ entries' = [entries EXCEPT ![barrier.index].state = "DIRTY"]
    /\ barrier' = [barrier EXCEPT !.index = @ + 1]
    /\ UNCHANGED <<last_use, current, sync, ghostVars>>

(* A failed write: nothing reached the device, or the data did after all.  *)
BarrierWriteFails ==
    /\ barrier.step = "write" /\ barrier.index <= EntryCount
    /\ LET e == entries[barrier.index] IN
         /\ Targeted(e)
         /\ entries' = [entries EXCEPT ![barrier.index].state = "ERROR"]
         /\ \/ device.status = "READY" /\ block_device_write(e.sector, e.bytes)
            \/ /\ device.status = "READY"
               /\ pending' = [pending EXCEPT ![e.sector] = @ \cup {e.bytes}]
               /\ UNCHANGED device
            \/ UNCHANGED <<device, pending>>
    /\ barrier' = [barrier EXCEPT !.index = @ + 1, !.failed = TRUE]
    /\ UNCHANGED <<last_use, current, sync, ghostVars>>

\* fault: the barrier goes on to the flush after a failed write
BarrierLoopEndsFailed ==
    /\ barrier.step = "write" /\ barrier.index > EntryCount
    /\ barrier' = [barrier EXCEPT !.step = "flush"]
    /\ UNCHANGED <<cacheVars, sync, device, pending, ghostVars>>

BarrierLoopEnds ==
    /\ barrier.step = "write" /\ barrier.index > EntryCount
    /\ ~barrier.failed
    /\ barrier' = [barrier EXCEPT !.step = "flush"]
    /\ UNCHANGED <<cacheVars, sync, device, pending, ghostVars>>

\* fault: unmounting goes on after a failed sync
BarrierAbortsUnmounting ==
    /\ barrier.step = "write" /\ barrier.index > EntryCount
    /\ barrier.failed
    /\ sync' = [sync EXCEPT !.last_result = "ERROR"]
    /\ barrier' = IF barrier.unmounting
                    THEN [barrier EXCEPT !.step = "invalidate"] ELSE Idle
    /\ UNCHANGED <<cacheVars, device, pending, ghostVars>>

(* Some write failed: the barrier returns its status without a flush.      *)
BarrierAborts ==
    /\ barrier.step = "write" /\ barrier.index > EntryCount
    /\ barrier.failed
    /\ sync' = [sync EXCEPT !.last_result = "ERROR"]
    /\ barrier' = Idle
    /\ UNCHANGED <<cacheVars, device, pending, ghostVars>>

(* The flush succeeds: the entries are clean, the generation is durable,   *)
(* the next one opens.                                                     *)
BarrierFlush ==
    /\ barrier.step = "flush"
    /\ Usable
    /\ device' = [device EXCEPT !.media = device.view]
    /\ pending' = NoValues
    /\ entries' = [i \in Index |->
                     IF Targeted(entries[i])
                       THEN [entries[i] EXCEPT !.state = "CLEAN", !.dirty_generation = 0]
                       ELSE entries[i]]
    /\ current' = current + 1
    /\ sync' = [sync EXCEPT !.durable = sync.generation, !.dirty = FALSE,
                            !.last_result = "OK", !.generation = current + 1]
    /\ barrier' = IF barrier.unmounting
                    THEN [barrier EXCEPT !.step = "invalidate"] ELSE Idle
    /\ acked' = View
    /\ since' = NoValues
    /\ UNCHANGED last_use

(* The flush fails: every entry it covered is kept as failed, to be        *)
(* written again.  The device may have dropped what it had buffered.       *)
BarrierFlushFails ==
    /\ barrier.step = "flush"
    /\ entries' = [i \in Index |->
                     IF entries[i].state = "DIRTY"
                        /\ entries[i].dirty_generation <= sync.generation
                       THEN [entries[i] EXCEPT !.state = "ERROR"] ELSE entries[i]]
    /\ \E kept \in [Sector -> Value] :
         /\ \A s \in Sector :
               kept[s] \in {device.view[s], device.media[s]} \cup pending[s]
         /\ device' = [device EXCEPT !.view = kept]
    /\ sync' = [sync EXCEPT !.last_result = "ERROR"]
    /\ barrier' = Idle
    /\ UNCHANGED <<last_use, current, pending, ghostVars>>

(* ios_fs_sync_invalidate_operation: every entry is zeroed, whatever its   *)
(* state, and the sync object forgets the cache.                           *)
ios_fs_sync_invalidate_operation ==
    /\ barrier.step = "invalidate"
    /\ entries' = EmptyCache
    /\ last_use' = [i \in Index |-> i]
    /\ sync' = [sync EXCEPT !.attached = FALSE, !.dirty = FALSE]
    /\ barrier' = Idle
    /\ UNCHANGED <<current, device, pending, ghostVars>>

(* runtime_mount_ready: a mount after an unmount attaches the sync object  *)
(* again, at the cache's current generation.                               *)
runtime_mount_ready ==
    /\ Quiet /\ ~sync.attached
    /\ sync' = AttachedSync(current)
    /\ UNCHANGED <<cacheVars, barrier, device, pending, ghostVars>>
-----------------------------------------------------------------------------
(* Environment: the transport reports the device failed; power is lost and *)
(* the kernel boots again on what the media holds.                         *)

DeviceFails ==
    /\ device.status # "FAILED"
    /\ device' = [device EXCEPT !.status = "FAILED"]
    /\ UNCHANGED <<cacheVars, sync, barrier, pending, ghostVars>>

Crash ==
    /\ \E kept \in [Sector -> Value], st \in {"READY", "READ_ONLY"} :
         /\ \A s \in Sector : kept[s] \in {device.media[s]} \cup pending[s]
         /\ device' = [status |-> st, media |-> kept, view |-> kept]
         /\ acked' = kept
    /\ entries' = EmptyCache
    /\ last_use' = [i \in Index |-> i]
    /\ current' = 1
    /\ sync' = AttachedSync(1)
    /\ barrier' = Idle
    /\ pending' = NoValues
    /\ since' = NoValues
-----------------------------------------------------------------------------
(* ios_fs_sync_durable_result, what the layers above are told.             *)
ios_fs_sync_durable_result ==
    IF sync.last_result # "OK" THEN sync.last_result
    ELSE IF sync.dirty THEN "WOULD_BLOCK" ELSE "OK"
-----------------------------------------------------------------------------
CacheStep ==
    \E s \in Sector :
        \/ block_cache_read(s) \/ block_cache_read_fails(s)
        \/ block_cache_pin(s) \/ block_cache_unpin(s)
        \/ ios_fs_sync_write_refused(s)
        \/ \E v \in Value : ios_fs_sync_write_sector(s, v)

BarrierStep ==
    \/ \E unmounting \in BOOLEAN : ios_fs_sync_barrier(unmounting)
    \/ ios_fs_sync_barrier_overflow
    \/ BarrierSkip \/ BarrierWrite \/ BarrierWriteFails
    \/ BarrierLoopEnds \/ BarrierAborts
    \/ BarrierFlush \/ BarrierFlushFails
    \/ ios_fs_sync_invalidate_operation
    \/ runtime_mount_ready

Next == CacheStep \/ BarrierStep \/ DeviceFails \/ Crash

Spec == Init /\ [][Next]_vars
-----------------------------------------------------------------------------
(* The cache never holds two copies of a sector: find_entry would return   *)
(* one of them and the barrier would write both, the older one perhaps     *)
(* last.                                                                   *)
OneEntryPerSector ==
    \A i, j \in Index :
        /\ entries[i].state # "EMPTY" /\ entries[j].state # "EMPTY"
        /\ entries[i].sector = entries[j].sector
        => i = j

(* Everything the device has been handed and has not made durable is still *)
(* held by a dirty or failed entry, so a failed barrier can be repeated    *)
(* without loss.                                                           *)
DirtyEntryCovers ==
    \A s \in Sector :
        pending[s] # {} \/ device.view[s] # device.media[s]
        => \E i \in find_entry(s) : Uncommitted(entries[i])

(* ios_fs_sync_durable_result says OK only when a power loss would leave   *)
(* exactly what is read now.                                               *)
DurableResultHonest ==
    ios_fs_sync_durable_result = "OK"
    => \A s \in Sector : device.media[s] = View[s] /\ pending[s] = {}

(* A power loss leaves in each sector the value of the last good barrier   *)
(* or one written since, never anything older.                             *)
CrashWindow ==
    \A s \in Sector : {device.media[s]} \cup pending[s] \subseteq {acked[s]} \cup since[s]


-----------------------------------------------------------------------------
(* The inductive invariant behind the properties above.                    *)

(* An entry in use holds a sector of the device and a value.               *)
LiveEntries ==
    \A i \in Index : entries[i].state # "EMPTY"
        => entries[i].sector \in Sector /\ entries[i].bytes \in Value

(* A clean entry agrees with its device.                                   *)
CleanAgrees ==
    \A i \in Index : entries[i].state = "CLEAN"
        => entries[i].bytes = device.view[entries[i].sector]

(* What an uncommitted entry holds was written since the last good barrier,*)
(* under a generation the next barrier covers, and sync tells of it.       *)
UncommittedKnown ==
    \A i \in Index : Uncommitted(entries[i])
        => /\ entries[i].bytes \in since[entries[i].sector]
           /\ entries[i].dirty_generation <= sync.generation
           /\ sync.attached
           /\ sync.dirty \/ sync.last_result # "OK"
           /\ barrier.step # "invalidate"

(* The sync object and the cache agree on the generation while attached,   *)
(* and a barrier runs only below its limit.                                *)
GenerationsAgree ==
    /\ sync.attached => sync.generation = current
    /\ barrier.step # "idle" => sync.attached
    /\ barrier.step \in {"write", "flush"} => sync.generation < MaxGeneration

(* Up to the loop's index, an uncommitted entry's bytes are on the device  *)
(* unless a write has failed.                                              *)
BarrierProgress ==
    \/ barrier.step \notin {"write", "flush"}
    \/ barrier.failed /\ barrier.step = "write"
    \/ \A i \in Index :
          /\ barrier.step = "flush" \/ i < barrier.index
          /\ Uncommitted(entries[i])
          => entries[i].bytes = device.view[entries[i].sector]

(* The inductive invariant, of which the parts above are needed so that    *)
(* every step of cache, sync object and device keeps them all.             *)
IInv ==
    /\ TypeOK
    /\ OneEntryPerSector
    /\ LiveEntries
    /\ CleanAgrees
    /\ DirtyEntryCovers
    /\ UncommittedKnown
    /\ GenerationsAgree
    /\ BarrierProgress
    /\ CrashWindow

(* The cache over its device behaves as an ordered disk: reads return the  *)
(* last write and a good barrier is a point no crash goes back behind.     *)
Disk == INSTANCE OrderedDisk WITH view <- View, floor <- acked
ImplementsOrderedDisk == Disk!DiskSpec
=============================================================================
