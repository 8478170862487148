-------------------------- MODULE BlockCacheProofs --------------------------
(***************************************************************************)
(* Proofs about BlockCache for every device, every cache size and every    *)
(* generation limit: the invariant IInv is inductive, and with it the      *)
(* cache over its device implements OrderedDisk.                           *)
(***************************************************************************)
EXTENDS BlockCache, TLAPS

(* An entry acquired for a sector holds it already, or is empty or clean.  *)
LEMMA AcquiredEntry ==
    ASSUME NEW s, NEW i \in acquire_entry(s)
    PROVE  /\ i \in Index
           /\ find_entry(s) # {} => entries[i].state # "EMPTY" /\ entries[i].sector = s
           /\ find_entry(s) = {} => entries[i].state \in {"EMPTY", "CLEAN"}
  BY DEF acquire_entry, select_victim, Evictable, find_entry

(* Acquiring an entry keeps last_use a function into the ranks.            *)
LEMMA TouchType ==
    ASSUME last_use \in [Index -> Index], NEW i \in Index
    PROVE  Touch(i) \in [Index -> Index]
<1> SUFFICES ASSUME NEW j \in Index
             PROVE  (IF j = i THEN EntryCount
                     ELSE IF last_use[j] > last_use[i] THEN last_use[j] - 1
                     ELSE last_use[j]) \in Index
  BY DEF Touch
<1>1. last_use[i] \in Index /\ last_use[j] \in Index /\ EntryCount \in Index
  BY CacheAssumption DEF Index
<1>2. \A a, b \in Index : a > b => a - 1 \in Index
  BY CacheAssumption DEF Index
<1>3. QED
  BY <1>1, <1>2

(* The values the initial states and the reset steps use are well typed.   *)
LEMMA ConstantTypes ==
    /\ EmptyEntry \in Entry
    /\ EmptyCache \in [Index -> Entry]
    /\ Idle \in Barrier
    /\ NoValues \in [Sector -> SUBSET Value]
    /\ [i \in Index |-> i] \in [Index -> Index]
    /\ \A g \in Generation : AttachedSync(g) \in Sync
  BY CacheAssumption
     DEF EmptyEntry, EmptyCache, Entry, EntryState, Idle, Barrier, NoValues,
         AttachedSync, Sync, Result, Generation, Index

(* The ways the code writes an entry keep it an entry.                     *)
LEMMA EntryUpdates ==
    ASSUME NEW e \in Entry
    PROVE  /\ \A st \in EntryState : [e EXCEPT !.state = st] \in Entry
           /\ [e EXCEPT !.state = "CLEAN", !.dirty_generation = 0] \in Entry
           /\ \A v \in Value, g \in Generation :
                [e EXCEPT !.bytes = v, !.state = "DIRTY", !.dirty_generation = g] \in Entry
           /\ e.pin_count < MaxPins => [e EXCEPT !.pin_count = @ + 1] \in Entry
           /\ e.pin_count > 0 => [e EXCEPT !.pin_count = @ - 1] \in Entry
<1> USE CacheAssumption
<1>1. \A st \in EntryState : [e EXCEPT !.state = st] \in Entry
  BY DEF Entry
<1>2. [e EXCEPT !.state = "CLEAN", !.dirty_generation = 0] \in Entry
  <2>1. 0 \in Generation
    BY DEF Generation
  <2>2. \A g \in Generation : [e EXCEPT !.state = "CLEAN", !.dirty_generation = g] \in Entry
    BY DEF Entry, EntryState
  <2>3. QED
    BY <2>1, <2>2
<1>3. \A v \in Value, g \in Generation :
        [e EXCEPT !.bytes = v, !.state = "DIRTY", !.dirty_generation = g] \in Entry
  BY DEF Entry, EntryState
<1>4. e.pin_count < MaxPins => [e EXCEPT !.pin_count = @ + 1] \in Entry
  <2> DEFINE n == e.pin_count
  <2>1. n \in 0 .. MaxPins
    BY DEF Entry
  <2>2. n < MaxPins => n + 1 \in 0 .. MaxPins
    BY <2>1
  <2> HIDE DEF n
  <2>3. \A m \in 0 .. MaxPins : [e EXCEPT !.pin_count = m] \in Entry
    BY DEF Entry
  <2>4. QED
    BY <2>2, <2>3 DEF n
<1>5. e.pin_count > 0 => [e EXCEPT !.pin_count = @ - 1] \in Entry
  <2> DEFINE n == e.pin_count
  <2>1. n \in 0 .. MaxPins
    BY DEF Entry
  <2>2. n > 0 => n - 1 \in 0 .. MaxPins
    BY <2>1
  <2> HIDE DEF n
  <2>3. \A m \in 0 .. MaxPins : [e EXCEPT !.pin_count = m] \in Entry
    BY DEF Entry
  <2>4. QED
    BY <2>2, <2>3 DEF n
<1>6. QED
  BY <1>1, <1>2, <1>3, <1>4, <1>5

(* An empty cache, as ios_fs_block_cache_init leaves it, is well typed.    *)
LEMMA FreshType ==
    ASSUME NEW s \in Sector, NEW v \in Value \cup {Zeroed}
    PROVE  Fresh(s, v) \in Entry
  BY CacheAssumption DEF Fresh, Entry, EntryState, Generation

(* A state with an empty cache, nothing pending and nothing acknowledged   *)
(* beyond what the device holds satisfies every part of IInv but its type. *)
LEMMA ResetState ==
    /\ entries = EmptyCache /\ pending = NoValues /\ barrier = Idle
    /\ sync = AttachedSync(current) /\ device.view = device.media
    /\ acked = device.media
    => /\ OneEntryPerSector /\ LiveEntries /\ CleanAgrees
       /\ DirtyEntryCovers /\ UncommittedKnown /\ GenerationsAgree
       /\ BarrierProgress /\ CrashWindow
  BY DEF OneEntryPerSector, LiveEntries, CleanAgrees, DirtyEntryCovers,
         UncommittedKnown, GenerationsAgree, BarrierProgress, CrashWindow,
         EmptyCache, EmptyEntry, NoValues, Idle, AttachedSync, Uncommitted

(* A freshly initialised cache over any device image satisfies IInv.       *)
LEMMA InitInvariant == Init => IInv
<1> SUFFICES ASSUME Init PROVE IInv
  OBVIOUS
<1>1. TypeOK
  BY ConstantTypes, CacheAssumption DEF Init, TypeOK, Generation, Device
<1>2. QED
  BY <1>1, ResetState DEF Init, IInv

(* Every step keeps the type invariant.  The barrier's flush needs that    *)
(* its generation is below the limit and is the cache's current one.       *)
LEMMA TypeStep == TypeOK /\ GenerationsAgree /\ LiveEntries /\ [Next]_vars => TypeOK'
<1> SUFFICES ASSUME TypeOK, GenerationsAgree, LiveEntries, [Next]_vars PROVE TypeOK'
  OBVIOUS
<1> USE CacheAssumption DEF TypeOK
<1>1. ASSUME NEW s \in Sector, block_cache_read(s) PROVE TypeOK'
  <2>1. PICK i \in acquire_entry(s) :
          entries' = [entries EXCEPT ![i] = Loaded(i, s)] /\ last_use' = Touch(i)
    BY <1>1 DEF block_cache_read
  <2>2. Loaded(i, s) \in Entry
    <3>1. CASE find_entry(s) # {}
      BY <3>1, AcquiredEntry DEF Loaded
    <3>2. CASE find_entry(s) = {}
      BY <3>2, FreshType DEF Loaded, Device
    <3>3. QED
      BY <3>1, <3>2
  <2>3. QED
    BY <1>1, <2>1, <2>2, AcquiredEntry, TouchType DEF block_cache_read, ghostVars
<1>2. ASSUME NEW s \in Sector, block_cache_read_fails(s) PROVE TypeOK'
  <2>1. PICK i \in select_victim : entries' = [entries EXCEPT ![i] = EmptyEntry]
    BY <1>2 DEF block_cache_read_fails
  <2>2. QED
    BY <1>2, <2>1, ConstantTypes DEF block_cache_read_fails, ghostVars
<1>3. ASSUME NEW s \in Sector, block_cache_pin(s) PROVE TypeOK'
  <2>1. PICK i \in acquire_entry(s) :
          /\ Loaded(i, s).pin_count < MaxPins
          /\ entries' = [entries EXCEPT ![i] = [Loaded(i, s) EXCEPT !.pin_count = @ + 1]]
          /\ last_use' = Touch(i)
    BY <1>3 DEF block_cache_pin
  <2>2. Loaded(i, s) \in Entry
    <3>1. CASE find_entry(s) # {}
      BY <3>1, AcquiredEntry DEF Loaded
    <3>2. CASE find_entry(s) = {}
      BY <3>2, FreshType DEF Loaded, Device
    <3>3. QED
      BY <3>1, <3>2
  <2>3. [Loaded(i, s) EXCEPT !.pin_count = @ + 1] \in Entry
    BY <2>1, <2>2, EntryUpdates
  <2>4. QED
    BY <1>3, <2>1, <2>3, AcquiredEntry, TouchType DEF block_cache_pin, ghostVars
<1>4. ASSUME NEW s \in Sector, block_cache_unpin(s) PROVE TypeOK'
  <2>1. PICK i \in find_entry(s) :
          /\ entries[i].pin_count > 0
          /\ entries' = [entries EXCEPT ![i].pin_count = @ - 1]
    BY <1>4 DEF block_cache_unpin
  <2>2. [entries[i] EXCEPT !.pin_count = @ - 1] \in Entry
    BY <2>1, EntryUpdates DEF find_entry
  <2>3. QED
    BY <1>4, <2>1, <2>2 DEF block_cache_unpin, ghostVars, find_entry
<1>5. ASSUME NEW s \in Sector, ios_fs_sync_write_refused(s) PROVE TypeOK'
  BY <1>5 DEF ios_fs_sync_write_refused, cacheVars, ghostVars, Sync, Result
<1>6. ASSUME NEW s \in Sector, NEW v \in Value, ios_fs_sync_write_sector(s, v)
      PROVE  TypeOK'
  <2> DEFINE e(i) == IF find_entry(s) # {} THEN entries[i] ELSE Fresh(s, Zeroed)
             w(i) == [e(i) EXCEPT !.bytes = v, !.state = "DIRTY",
                                  !.dirty_generation = sync.generation]
  <2>1. PICK i \in acquire_entry(s) :
          entries' = [entries EXCEPT ![i] = w(i)] /\ last_use' = Touch(i)
    BY <1>6 DEF ios_fs_sync_write_sector
  <2>2. e(i) \in Entry
    BY AcquiredEntry, FreshType
  <2> HIDE DEF e
  <2>3. w(i) \in Entry
    BY <2>2, EntryUpdates DEF Sync
  <2>4. since' \in [Sector -> SUBSET Value] /\ sync' \in Sync
    BY <1>6, ZenonT(30) DEF ios_fs_sync_write_sector, Sync
  <2> HIDE DEF w
  <2>5. QED
    BY <1>6, <2>1, <2>3, <2>4, AcquiredEntry, TouchType DEF ios_fs_sync_write_sector
<1>7. ASSUME NEW u \in BOOLEAN, ios_fs_sync_barrier(u) PROVE TypeOK'
  BY <1>7 DEF ios_fs_sync_barrier, cacheVars, ghostVars, Barrier
<1>8. CASE ios_fs_sync_barrier_overflow
  BY <1>8 DEF ios_fs_sync_barrier_overflow, cacheVars, ghostVars, Sync, Result
<1>9. CASE BarrierSkip
  BY <1>9 DEF BarrierSkip, cacheVars, ghostVars, Barrier
<1>10. CASE BarrierWrite \/ BarrierWriteFails
  <2> DEFINE k == barrier.index
  <2>1. k \in Index /\ Targeted(entries[k])
    BY <1>10 DEF BarrierWrite, BarrierWriteFails, Barrier, Index
  <2>2. entries[k].sector \in Sector /\ entries[k].bytes \in Value
    BY <2>1 DEF Targeted, Uncommitted, LiveEntries
  <2>3. device' \in Device /\ pending' \in [Sector -> SUBSET Value]
    BY <1>10, <2>2 DEF BarrierWrite, BarrierWriteFails, block_device_write, Device
  <2>4. entries' \in [Index -> Entry]
    <3>1. entries' = [entries EXCEPT ![k].state = "DIRTY"]
          \/ entries' = [entries EXCEPT ![k].state = "ERROR"]
      BY <1>10 DEF BarrierWrite, BarrierWriteFails
    <3>2. [entries[k] EXCEPT !.state = "DIRTY"] \in Entry
          /\ [entries[k] EXCEPT !.state = "ERROR"] \in Entry
      BY <2>1, EntryUpdates DEF EntryState
    <3>3. QED
      BY <2>1, <3>1, <3>2
  <2>5. barrier' \in Barrier
    <3>1. k + 1 \in 1 .. EntryCount + 1
      BY <2>1, SMTT(30) DEF Index
    <3>2. barrier' = [barrier EXCEPT !.index = k + 1]
          \/ barrier' = [barrier EXCEPT !.index = k + 1, !.failed = TRUE]
      BY <1>10 DEF BarrierWrite, BarrierWriteFails
    <3> HIDE DEF k
    <3>3. QED
      BY <3>1, <3>2 DEF Barrier
  <2>6. QED
    BY <1>10, <2>3, <2>4, <2>5 DEF BarrierWrite, BarrierWriteFails, ghostVars
<1>11. CASE BarrierLoopEnds
  BY <1>11 DEF BarrierLoopEnds, cacheVars, ghostVars, Barrier
<1>12. CASE BarrierAborts
  BY <1>12, ConstantTypes DEF BarrierAborts, cacheVars, ghostVars, Sync, Result
<1>13. CASE BarrierFlush
  <2>1. current' \in Generation \ {0} /\ sync' \in Sync
    <3>1. current + 1 \in Generation \ {0}
      <4>1. current = sync.generation /\ sync.generation < MaxGeneration
        BY <1>13 DEF BarrierFlush, GenerationsAgree
      <4>2. QED
        BY <4>1 DEF Generation
    <3>2. QED
      BY <1>13, <3>1 DEF BarrierFlush, Sync, Result
  <2>2. entries' \in [Index -> Entry]
    BY <1>13, EntryUpdates DEF BarrierFlush
  <2>3. barrier' \in Barrier
    BY <1>13, ConstantTypes DEF BarrierFlush, Barrier
  <2>4. acked' \in [Sector -> Value]
    BY <1>13 DEF BarrierFlush, View, find_entry, LiveEntries, Device
  <2>5. device' \in Device
    BY <1>13 DEF BarrierFlush, Device
  <2>6. QED
    BY <1>13, <2>1, <2>2, <2>3, <2>4, <2>5, ConstantTypes DEF BarrierFlush
<1>14. CASE BarrierFlushFails
  <2>1. entries' \in [Index -> Entry]
    BY <1>14, EntryUpdates DEF BarrierFlushFails, EntryState
  <2>2. device' \in Device /\ sync' \in Sync
    BY <1>14 DEF BarrierFlushFails, Device, Sync, Result
  <2>3. QED
    BY <1>14, <2>1, <2>2, ConstantTypes DEF BarrierFlushFails, ghostVars
<1>15. CASE ios_fs_sync_invalidate_operation
  BY <1>15, ConstantTypes DEF ios_fs_sync_invalidate_operation, ghostVars, Sync
<1>16. CASE runtime_mount_ready
  BY <1>16, ConstantTypes DEF runtime_mount_ready, cacheVars, ghostVars
<1>17. CASE DeviceFails
  BY <1>17 DEF DeviceFails, cacheVars, ghostVars, Device
<1>18. CASE Crash
  <2>1. device' \in Device /\ acked' \in [Sector -> Value]
    BY <1>18 DEF Crash, Device
  <2>2. current' \in Generation \ {0}
    BY <1>18 DEF Crash, Generation
  <2>3. QED
    BY <1>18, <2>1, <2>2, ConstantTypes DEF Crash, Generation
<1>19. CASE UNCHANGED vars
  BY <1>19 DEF vars
<1>20. QED
  BY <1>1, <1>2, <1>3, <1>4, <1>5, <1>6, <1>7, <1>8, <1>9, <1>10, <1>11, <1>12,
     <1>13, <1>14, <1>15, <1>16, <1>17, <1>18, <1>19
     DEF Next, CacheStep, BarrierStep
-----------------------------------------------------------------------------
(* What a step that leaves entries, images and ghosts alone keeps.         *)
LEMMA FrameStep ==
    ASSUME IInv, UNCHANGED <<entries, device.view, device.media, pending, acked, since>>
    PROVE  OneEntryPerSector' /\ LiveEntries' /\ CleanAgrees' /\ DirtyEntryCovers'
           /\ CrashWindow'
<1>1. OneEntryPerSector' /\ LiveEntries' /\ CleanAgrees' /\ CrashWindow'
  BY DEF IInv, OneEntryPerSector, LiveEntries, CleanAgrees, CrashWindow
<1>2. DirtyEntryCovers'
  BY DEF IInv, DirtyEntryCovers, find_entry, Uncommitted
<1>3. QED
  BY <1>1, <1>2

(* Steps of the sync object, the barrier's loop and the device's status.   *)
LEMMA ControlSteps ==
    ASSUME IInv,
           \/ \E s \in Sector : ios_fs_sync_write_refused(s)
           \/ \E u \in BOOLEAN : ios_fs_sync_barrier(u)
           \/ ios_fs_sync_barrier_overflow \/ BarrierSkip \/ BarrierLoopEnds
           \/ BarrierAborts \/ runtime_mount_ready \/ DeviceFails
    PROVE  /\ OneEntryPerSector' /\ LiveEntries' /\ CleanAgrees' /\ DirtyEntryCovers'
           /\ UncommittedKnown' /\ GenerationsAgree' /\ BarrierProgress' /\ CrashWindow'
<1> USE DEF IInv
<1>1. UNCHANGED <<entries, device.view, device.media, pending, acked, since, current>>
  BY DEF ios_fs_sync_write_refused, ios_fs_sync_barrier, ios_fs_sync_barrier_overflow,
         BarrierSkip, BarrierLoopEnds, BarrierAborts, runtime_mount_ready, DeviceFails,
         cacheVars, ghostVars, TypeOK, Device
<1>2. OneEntryPerSector' /\ LiveEntries' /\ CleanAgrees' /\ DirtyEntryCovers' /\ CrashWindow'
  BY <1>1, FrameStep
<1>3. CASE (\E s \in Sector : ios_fs_sync_write_refused(s)) \/ ios_fs_sync_barrier_overflow
  <2>1. sync' = [sync EXCEPT !.last_result = "ERROR"] /\ barrier' = barrier
    BY <1>3 DEF ios_fs_sync_write_refused, ios_fs_sync_barrier_overflow
  <2>2. UncommittedKnown' /\ GenerationsAgree'
    BY <1>1, <2>1 DEF UncommittedKnown, GenerationsAgree, TypeOK, Sync
  <2>3. BarrierProgress'
    BY <1>1, <2>1 DEF BarrierProgress
  <2>4. QED
    BY <1>2, <2>2, <2>3
<1>4. CASE \E u \in BOOLEAN : ios_fs_sync_barrier(u)
  <2>1. /\ sync' = sync /\ barrier'.step = "write" /\ barrier'.index = 1
        /\ sync.attached /\ sync.generation < MaxGeneration
    BY <1>4 DEF ios_fs_sync_barrier
  <2>2. UncommittedKnown' /\ GenerationsAgree'
    BY <1>1, <2>1 DEF UncommittedKnown, GenerationsAgree
  <2>3. BarrierProgress'
    BY <1>1, <2>1 DEF BarrierProgress, Index
  <2>4. QED
    BY <1>2, <2>2, <2>3
<1>5. CASE BarrierSkip
  <2>1. /\ sync' = sync /\ barrier.index \in Index
        /\ barrier' = [barrier EXCEPT !.index = @ + 1]
        /\ barrier.step = "write" /\ ~Targeted(entries[barrier.index])
    BY <1>5 DEF BarrierSkip, TypeOK, Barrier, Index
  <2>2. UncommittedKnown' /\ GenerationsAgree'
    BY <1>1, <2>1 DEF UncommittedKnown, GenerationsAgree, TypeOK, Barrier
  <2>3. ~Uncommitted(entries[barrier.index])
    BY <2>1 DEF Targeted, UncommittedKnown
  <2>4. barrier'.index = barrier.index + 1 /\ barrier'.step = "write"
        /\ barrier'.failed = barrier.failed
    BY <2>1 DEF TypeOK, Barrier
  <2>5. \A i \in Index : i < barrier.index + 1 => i < barrier.index \/ i = barrier.index
    BY <2>1 DEF Index
  <2>6. BarrierProgress'
    BY <1>1, <2>1, <2>3, <2>4, <2>5 DEF BarrierProgress
  <2>7. QED
    BY <1>2, <2>2, <2>6
<1>6. CASE BarrierLoopEnds
  <2>1. /\ sync' = sync /\ barrier.index > EntryCount /\ ~barrier.failed
        /\ barrier.step = "write" /\ barrier'.step = "flush"
    BY <1>6 DEF BarrierLoopEnds, TypeOK, Barrier
  <2>2. UncommittedKnown' /\ GenerationsAgree'
    BY <1>1, <2>1 DEF UncommittedKnown, GenerationsAgree
  <2>3. \A i \in Index : i < barrier.index
    BY <2>1, CacheAssumption DEF Index, TypeOK, Barrier
  <2>4. BarrierProgress'
    BY <1>1, <2>1, <2>3 DEF BarrierProgress
  <2>5. QED
    BY <1>2, <2>2, <2>4
<1>7. CASE BarrierAborts
  <2>1. /\ sync' = [sync EXCEPT !.last_result = "ERROR"] /\ barrier'.step = "idle"
        /\ barrier.step = "write"
    BY <1>7 DEF BarrierAborts, Idle
  <2>2. UncommittedKnown' /\ GenerationsAgree'
    BY <1>1, <2>1 DEF UncommittedKnown, GenerationsAgree, TypeOK, Sync
  <2>3. BarrierProgress'
    BY <2>1 DEF BarrierProgress
  <2>4. QED
    BY <1>2, <2>2, <2>3
<1>8. CASE runtime_mount_ready
  <2>1. /\ ~sync.attached /\ barrier.step = "idle" /\ barrier' = barrier
        /\ sync'.attached /\ sync'.generation = current
    BY <1>8 DEF runtime_mount_ready, Quiet, AttachedSync
  <2>2. UncommittedKnown'
    BY <1>1, <2>1 DEF UncommittedKnown
  <2>3. GenerationsAgree' /\ BarrierProgress'
    BY <1>1, <2>1 DEF GenerationsAgree, BarrierProgress
  <2>4. QED
    BY <1>2, <2>2, <2>3
<1>9. CASE DeviceFails
  <2>1. sync' = sync /\ barrier' = barrier
    BY <1>9 DEF DeviceFails
  <2>2. UncommittedKnown' /\ GenerationsAgree' /\ BarrierProgress'
    BY <1>1, <2>1 DEF UncommittedKnown, GenerationsAgree, BarrierProgress
  <2>3. QED
    BY <1>2, <2>2
<1>10. QED
  BY <1>3, <1>4, <1>5, <1>6, <1>7, <1>8, <1>9

(* The steps that replace an entry without writing: a hit keeps what the   *)
(* entry holds, a miss loads the device's value over an empty or clean     *)
(* entry, a failed load empties it.                                        *)
LEMMA ReplacedEntry ==
    ASSUME IInv, NEW s \in Sector, NEW i \in Index, NEW e,
           entries' = [entries EXCEPT ![i] = e],
           UNCHANGED <<current, sync, barrier, device, pending, acked, since>>,
           \/ /\ e.state = entries[i].state /\ e.sector = entries[i].sector
              /\ e.bytes = entries[i].bytes
              /\ e.dirty_generation = entries[i].dirty_generation
           \/ /\ find_entry(s) = {} /\ entries[i].state \in {"EMPTY", "CLEAN"}
              /\ e.state = "CLEAN" /\ e.sector = s /\ e.bytes = device.view[s]
           \/ entries[i].state \in {"EMPTY", "CLEAN"} /\ e.state = "EMPTY"
    PROVE  /\ OneEntryPerSector' /\ LiveEntries' /\ CleanAgrees' /\ DirtyEntryCovers'
           /\ UncommittedKnown' /\ GenerationsAgree' /\ BarrierProgress' /\ CrashWindow'
<1> USE DEF IInv
<1>1. entries'[i] = e /\ \A j \in Index : j # i => entries'[j] = entries[j]
  BY DEF TypeOK
<1>2. OneEntryPerSector'
  BY <1>1 DEF OneEntryPerSector, find_entry
<1>3. LiveEntries'
  BY <1>1 DEF LiveEntries, TypeOK, Device
<1>4. CleanAgrees'
  BY <1>1 DEF CleanAgrees
<1>5. \A j \in Index : Uncommitted(entries[j]) =>
         /\ Uncommitted(entries'[j])
         /\ entries'[j].sector = entries[j].sector
  BY <1>1 DEF Uncommitted
<1>6. DirtyEntryCovers'
  BY <1>5 DEF DirtyEntryCovers, find_entry, Uncommitted
<1>7. \A j \in Index : Uncommitted(entries'[j]) =>
         /\ Uncommitted(entries[j])
         /\ entries'[j].sector = entries[j].sector
         /\ entries'[j].bytes = entries[j].bytes
         /\ entries'[j].dirty_generation = entries[j].dirty_generation
  BY <1>1 DEF Uncommitted
<1>8. UncommittedKnown' /\ BarrierProgress'
  BY <1>7 DEF UncommittedKnown, BarrierProgress
<1>9. GenerationsAgree' /\ CrashWindow'
  BY DEF GenerationsAgree, CrashWindow
<1>10. QED
  BY <1>2, <1>3, <1>4, <1>6, <1>8, <1>9

(* A read, a pin and a failed load lose nothing the cache must keep.       *)
LEMMA ReadSteps ==
    ASSUME IInv, NEW s \in Sector,
           \/ block_cache_read(s) \/ block_cache_read_fails(s)
           \/ block_cache_pin(s) \/ block_cache_unpin(s)
    PROVE  /\ OneEntryPerSector' /\ LiveEntries' /\ CleanAgrees' /\ DirtyEntryCovers'
           /\ UncommittedKnown' /\ GenerationsAgree' /\ BarrierProgress' /\ CrashWindow'
<1>1. UNCHANGED <<current, sync, barrier, device, pending, acked, since>>
  BY DEF block_cache_read, block_cache_read_fails, block_cache_pin, block_cache_unpin,
         ghostVars
<1>2. ASSUME NEW i \in acquire_entry(s)
      PROVE  \/ Loaded(i, s) = entries[i]
             \/ /\ find_entry(s) = {} /\ entries[i].state \in {"EMPTY", "CLEAN"}
                /\ Loaded(i, s) = Fresh(s, device.view[s])
  BY AcquiredEntry DEF Loaded
<1>3. CASE block_cache_read(s)
  <2>1. PICK i \in acquire_entry(s) : entries' = [entries EXCEPT ![i] = Loaded(i, s)]
    BY <1>3 DEF block_cache_read
  <2>2. i \in Index
    BY AcquiredEntry
  <2>3. QED
    BY <1>1, <1>2, <2>1, <2>2, ReplacedEntry DEF Fresh
<1>4. CASE block_cache_pin(s)
  <2>1. PICK i \in acquire_entry(s) :
          entries' = [entries EXCEPT ![i] = [Loaded(i, s) EXCEPT !.pin_count = @ + 1]]
    BY <1>4 DEF block_cache_pin
  <2>2. i \in Index /\ entries[i] \in Entry
    BY AcquiredEntry DEF IInv, TypeOK
  <2> DEFINE e == [Loaded(i, s) EXCEPT !.pin_count = @ + 1]
  <2>3. \/ /\ e.state = entries[i].state /\ e.sector = entries[i].sector
           /\ e.bytes = entries[i].bytes
           /\ e.dirty_generation = entries[i].dirty_generation
        \/ /\ find_entry(s) = {} /\ entries[i].state \in {"EMPTY", "CLEAN"}
           /\ e.state = "CLEAN" /\ e.sector = s /\ e.bytes = device.view[s]
    BY <1>2, <2>2 DEF Fresh, Entry
  <2> HIDE DEF e
  <2>4. QED
    BY <1>1, <2>1, <2>2, <2>3, ReplacedEntry DEF e
<1>5. CASE block_cache_unpin(s)
  <2>1. PICK i \in find_entry(s) : entries' = [entries EXCEPT ![i].pin_count = @ - 1]
    BY <1>5 DEF block_cache_unpin
  <2>2. i \in Index /\ entries[i] \in Entry
    BY DEF find_entry, IInv, TypeOK
  <2> DEFINE e == [entries[i] EXCEPT !.pin_count = @ - 1]
  <2>3. /\ e.state = entries[i].state /\ e.sector = entries[i].sector
        /\ e.bytes = entries[i].bytes
        /\ e.dirty_generation = entries[i].dirty_generation
    BY <2>2 DEF Entry
  <2>4. entries' = [entries EXCEPT ![i] = e]
    BY <2>1
  <2> HIDE DEF e
  <2>5. QED
    BY <1>1, <2>2, <2>3, <2>4, ReplacedEntry
<1>6. CASE block_cache_read_fails(s)
  <2>1. PICK i \in select_victim : entries' = [entries EXCEPT ![i] = EmptyEntry]
    BY <1>6 DEF block_cache_read_fails
  <2>2. i \in Index /\ entries[i].state \in {"EMPTY", "CLEAN"}
    BY DEF select_victim, Evictable
  <2>3. QED
    BY <1>1, <2>1, <2>2, ReplacedEntry DEF EmptyEntry
<1>7. QED
  BY <1>3, <1>4, <1>5, <1>6

(* A write puts an uncommitted entry over the sector's own entry or over   *)
(* an empty or clean one.                                                  *)
LEMMA WriteStep ==
    ASSUME IInv, NEW s \in Sector, NEW v \in Value, ios_fs_sync_write_sector(s, v)
    PROVE  /\ OneEntryPerSector' /\ LiveEntries' /\ CleanAgrees' /\ DirtyEntryCovers'
           /\ UncommittedKnown' /\ GenerationsAgree' /\ BarrierProgress' /\ CrashWindow'
<1> USE DEF IInv
<1>1. PICK i \in acquire_entry(s) :
        entries' = [entries EXCEPT ![i] =
                      [(IF find_entry(s) # {} THEN entries[i] ELSE Fresh(s, Zeroed))
                         EXCEPT !.bytes = v, !.state = "DIRTY",
                                !.dirty_generation = sync.generation]]
  BY DEF ios_fs_sync_write_sector
<1>2. i \in Index /\ entries[i] \in Entry
  BY AcquiredEntry DEF TypeOK
<1>3. /\ entries'[i].state = "DIRTY" /\ entries'[i].sector = s
      /\ entries'[i].bytes = v /\ entries'[i].dirty_generation = sync.generation
  BY <1>1, <1>2, AcquiredEntry DEF Fresh, Entry, TypeOK
<1>4. \A j \in Index : j # i => entries'[j] = entries[j]
  BY <1>1, <1>2 DEF TypeOK
<1>5. \A j \in Index : j # i /\ entries[j].state # "EMPTY" => entries[j].sector # s
  BY <1>2, AcquiredEntry DEF OneEntryPerSector, find_entry
<1>6. /\ UNCHANGED <<current, barrier, device, pending, acked>>
      /\ sync' = [sync EXCEPT !.dirty = TRUE] /\ sync.attached /\ barrier.step = "idle"
      /\ since' = [since EXCEPT ![s] = @ \cup {v}]
  BY DEF ios_fs_sync_write_sector, Quiet
<1>7. OneEntryPerSector'
  BY <1>3, <1>4, <1>5 DEF OneEntryPerSector
<1>8. LiveEntries' /\ CleanAgrees'
  BY <1>3, <1>4, <1>6 DEF LiveEntries, CleanAgrees
<1>9. DirtyEntryCovers'
  <2> SUFFICES ASSUME NEW r \in Sector, pending[r] # {} \/ device.view[r] # device.media[r]
               PROVE  \E k \in Index : Uncommitted(entries'[k]) /\ entries'[k].sector = r
    BY <1>6 DEF DirtyEntryCovers, find_entry, Uncommitted
  <2>1. CASE r = s
    BY <1>2, <1>3, <2>1 DEF Uncommitted
  <2>2. CASE r # s
    <3>1. PICK k \in Index : Uncommitted(entries[k]) /\ entries[k].sector = r
      BY DEF DirtyEntryCovers, find_entry
    <3>2. k # i
      BY <2>2, <3>1, AcquiredEntry DEF Uncommitted
    <3>3. QED
      BY <1>4, <3>1, <3>2
  <2>3. QED
    BY <2>1, <2>2
<1>10. sync'.attached /\ sync'.generation = sync.generation /\ sync'.dirty
  BY <1>6 DEF TypeOK, Sync
<1>11. UncommittedKnown'
  <2> SUFFICES ASSUME NEW k \in Index, Uncommitted(entries'[k])
               PROVE  /\ entries'[k].bytes \in since'[entries'[k].sector]
                      /\ entries'[k].dirty_generation <= sync'.generation
    BY <1>6, <1>10 DEF UncommittedKnown
  <2>1. CASE k = i
    BY <1>3, <1>6, <1>10, <2>1 DEF TypeOK, Sync, Generation
  <2>2. CASE k # i
    BY <1>4, <1>5, <1>6, <1>10, <2>2 DEF UncommittedKnown, Uncommitted, TypeOK, LiveEntries
  <2>3. QED
    BY <2>1, <2>2
<1>12. GenerationsAgree' /\ BarrierProgress'
  BY <1>6, <1>10 DEF GenerationsAgree, BarrierProgress
<1>13. CrashWindow'
  BY <1>6 DEF CrashWindow, TypeOK
<1>14. QED
  BY <1>7, <1>8, <1>9, <1>11, <1>12, <1>13

(* One entry is written back; on failure the device may have it or not.    *)
LEMMA WriteBackStep ==
    ASSUME IInv, BarrierWrite \/ BarrierWriteFails
    PROVE  /\ OneEntryPerSector' /\ LiveEntries' /\ CleanAgrees' /\ DirtyEntryCovers'
           /\ UncommittedKnown' /\ GenerationsAgree' /\ BarrierProgress' /\ CrashWindow'
<1> DEFINE k == barrier.index
           e == entries[k]
<1> USE DEF IInv
<1>1. k \in Index /\ e \in Entry /\ Uncommitted(e)
  BY DEF BarrierWrite, BarrierWriteFails, TypeOK, Barrier, Index, Targeted
<1>2. e.sector \in Sector /\ e.bytes \in Value /\ e.bytes \in since[e.sector]
  BY <1>1 DEF LiveEntries, UncommittedKnown, Uncommitted
<1>3. /\ UNCHANGED <<current, sync, acked, since>>
      /\ entries' = [entries EXCEPT ![k].state = "DIRTY"]
         \/ entries' = [entries EXCEPT ![k].state = "ERROR"]
  BY DEF BarrierWrite, BarrierWriteFails, ghostVars
<1>4. /\ \A j \in Index : Uncommitted(entries'[j]) <=> Uncommitted(entries[j])
      /\ \A j \in Index : entries'[j].state = "EMPTY" <=> entries[j].state = "EMPTY"
      /\ \A j \in Index : entries'[j].state = "CLEAN" <=> entries[j].state = "CLEAN"
      /\ \A j \in Index : /\ entries'[j].sector = entries[j].sector
                           /\ entries'[j].bytes = entries[j].bytes
                           /\ entries'[j].dirty_generation = entries[j].dirty_generation
  <2>1. \A j \in Index : j # k => entries'[j] = entries[j]
    BY <1>1, <1>3 DEF TypeOK
  <2>2. /\ entries'[k].state \in {"DIRTY", "ERROR"}
        /\ entries'[k].sector = e.sector /\ entries'[k].bytes = e.bytes
        /\ entries'[k].dirty_generation = e.dirty_generation
    <3>1. entries'[k] = [e EXCEPT !.state = "DIRTY"] \/ entries'[k] = [e EXCEPT !.state = "ERROR"]
      BY <1>1, <1>3 DEF TypeOK
    <3> HIDE DEF e
    <3>2. QED
      BY <1>1, <3>1 DEF Entry
  <2>3. QED
    BY <1>1, <2>1, <2>2 DEF Uncommitted
<1>5. /\ device'.media = device.media
      /\ \A r \in Sector : r # e.sector =>
            device'.view[r] = device.view[r] /\ pending'[r] = pending[r]
      /\ pending'[e.sector] \subseteq pending[e.sector] \cup {e.bytes}
  BY <1>2, SMTT(30) DEF BarrierWrite, BarrierWriteFails, block_device_write, TypeOK, Device
<1>6. OneEntryPerSector' /\ LiveEntries'
  BY <1>4 DEF OneEntryPerSector, LiveEntries
<1>7. \A j \in Index : j # k /\ entries[j].state # "EMPTY" => entries[j].sector # e.sector
  BY <1>1 DEF OneEntryPerSector, Uncommitted
<1>8. CleanAgrees'
  BY <1>1, <1>4, <1>5, <1>7 DEF CleanAgrees, LiveEntries, Uncommitted
<1>9. DirtyEntryCovers'
  <2> SUFFICES ASSUME NEW r \in Sector, pending'[r] # {} \/ device'.view[r] # device'.media[r]
               PROVE  \E j \in Index : Uncommitted(entries'[j]) /\ entries'[j].sector = r
    BY DEF DirtyEntryCovers, find_entry, Uncommitted
  <2>1. CASE r = e.sector
    BY <1>1, <1>4, <2>1
  <2>2. CASE r # e.sector
    BY <1>4, <1>5, <2>2 DEF DirtyEntryCovers, find_entry
  <2>3. QED
    BY <2>1, <2>2
<1>10. barrier'.step = "write" /\ barrier'.index = k + 1 /\ barrier.step = "write"
  BY DEF BarrierWrite, BarrierWriteFails, TypeOK, Barrier
<1>11. UncommittedKnown' /\ GenerationsAgree'
  BY <1>3, <1>4, <1>10 DEF UncommittedKnown, GenerationsAgree
<1>12. BarrierProgress'
  <2>1. CASE BarrierWriteFails
    BY <1>10, <2>1 DEF BarrierWriteFails, BarrierProgress, TypeOK, Barrier
  <2>2. CASE BarrierWrite
    <3>1. device'.view[e.sector] = e.bytes /\ barrier'.failed = barrier.failed
      BY <1>2, <2>2 DEF BarrierWrite, block_device_write, TypeOK, Device, Barrier
    <3>2. \A i \in Index : i < k + 1 => i < k \/ i = k
      BY <1>1 DEF Index
    <3>3. QED
      BY <1>1, <1>4, <1>5, <1>7, <1>10, <3>1, <3>2
         DEF BarrierProgress, LiveEntries, Uncommitted
  <2>3. QED
    BY <2>1, <2>2
<1>13. CrashWindow'
  BY <1>2, <1>3, <1>5 DEF CrashWindow
<1>14. QED
  BY <1>6, <1>8, <1>9, <1>11, <1>12, <1>13

(* Before the flush every sector reads the same through the cache and      *)
(* through the device.                                                     *)
LEMMA FlushedView ==
    ASSUME IInv, barrier.step = "flush"
    PROVE  View = device.view
<1> USE DEF IInv
<1>1. \A i \in Index : entries[i].state # "EMPTY" =>
        entries[i].bytes = device.view[entries[i].sector]
  BY DEF BarrierProgress, CleanAgrees, Uncommitted, TypeOK, Entry, EntryState
<1>2. \A s \in Sector : View[s] = device.view[s]
  BY <1>1 DEF View, find_entry
<1>3. QED
  BY <1>2 DEF View, TypeOK, Device

(* A good flush makes the device's view durable and every entry clean.     *)
LEMMA FlushStep ==
    ASSUME IInv, BarrierFlush
    PROVE  /\ OneEntryPerSector' /\ LiveEntries' /\ CleanAgrees' /\ DirtyEntryCovers'
           /\ UncommittedKnown' /\ GenerationsAgree' /\ BarrierProgress' /\ CrashWindow'
<1> USE DEF IInv
<1>1. /\ barrier.step = "flush" /\ barrier'.step \in {"idle", "invalidate"}
      /\ pending' = NoValues /\ since' = NoValues /\ acked' = View
      /\ device'.media = device.view /\ device'.view = device.view
      /\ current' = current + 1 /\ sync'.generation = current + 1
      /\ sync'.attached = sync.attached
  BY DEF BarrierFlush, Idle, TypeOK, Device, Sync, Barrier
<1>2. \A i \in Index : entries[i].state = "EMPTY" => entries'[i] = entries[i]
  BY DEF BarrierFlush, Targeted, Uncommitted
<1>3. \A i \in Index : entries[i].state # "EMPTY" =>
        /\ entries'[i].state = "CLEAN" /\ entries'[i].sector = entries[i].sector
        /\ entries'[i].bytes = entries[i].bytes
  BY DEF BarrierFlush, Targeted, UncommittedKnown, Uncommitted, TypeOK, Entry, EntryState
<1>4. \A i \in Index : ~Uncommitted(entries'[i])
  BY <1>2, <1>3 DEF Uncommitted
<1>5. OneEntryPerSector' /\ LiveEntries'
  BY <1>2, <1>3 DEF OneEntryPerSector, LiveEntries
<1>6. CleanAgrees'
  BY <1>1, <1>2, <1>3 DEF CleanAgrees, BarrierProgress, Uncommitted, TypeOK, Entry, EntryState
<1>7. DirtyEntryCovers' /\ UncommittedKnown'
  BY <1>1, <1>4 DEF DirtyEntryCovers, UncommittedKnown, NoValues
<1>8. GenerationsAgree' /\ BarrierProgress'
  BY <1>1 DEF GenerationsAgree, BarrierProgress
<1>9. CrashWindow'
  BY <1>1, FlushedView DEF CrashWindow, NoValues
<1>10. QED
  BY <1>5, <1>6, <1>7, <1>8, <1>9

(* After a failed flush the device may have dropped what it buffered, but  *)
(* only where an uncommitted entry covers it.                              *)
LEMMA FlushFailsStep ==
    ASSUME IInv, BarrierFlushFails
    PROVE  /\ OneEntryPerSector' /\ LiveEntries' /\ CleanAgrees' /\ DirtyEntryCovers'
           /\ UncommittedKnown' /\ GenerationsAgree' /\ BarrierProgress' /\ CrashWindow'
<1> USE DEF IInv
<1>1. /\ UNCHANGED <<current, pending, acked, since>>
      /\ sync'.last_result = "ERROR" /\ sync'.generation = sync.generation
      /\ sync'.attached = sync.attached /\ barrier'.step = "idle"
      /\ device'.media = device.media
      /\ \A s \in Sector : device'.view[s] \in {device.view[s], device.media[s]} \cup pending[s]
  BY DEF BarrierFlushFails, Idle, TypeOK, Device, Sync, ghostVars
<1>2. \A j \in Index :
        /\ Uncommitted(entries'[j]) <=> Uncommitted(entries[j])
        /\ entries'[j].state = "EMPTY" <=> entries[j].state = "EMPTY"
        /\ entries'[j].state = "CLEAN" <=> entries[j].state = "CLEAN"
        /\ entries'[j].sector = entries[j].sector
        /\ entries'[j].bytes = entries[j].bytes
        /\ entries'[j].dirty_generation = entries[j].dirty_generation
  BY DEF BarrierFlushFails, Uncommitted, TypeOK, Entry
<1>3. OneEntryPerSector' /\ LiveEntries'
  BY <1>2 DEF OneEntryPerSector, LiveEntries
<1>4. \A s \in Sector : (~ \E i \in find_entry(s) : Uncommitted(entries[i]))
        => device'.view[s] = device.view[s]
  BY <1>1 DEF DirtyEntryCovers
<1>5. CleanAgrees'
  <2> SUFFICES ASSUME NEW i \in Index, entries[i].state = "CLEAN"
               PROVE  entries[i].bytes = device'.view[entries[i].sector]
    BY <1>2 DEF CleanAgrees
  <2>1. ~ \E j \in find_entry(entries[i].sector) : Uncommitted(entries[j])
    BY DEF find_entry, OneEntryPerSector, Uncommitted
  <2>2. QED
    BY <1>4, <2>1 DEF CleanAgrees, LiveEntries
<1>6. DirtyEntryCovers'
  <2> SUFFICES ASSUME NEW r \in Sector, pending'[r] # {} \/ device'.view[r] # device'.media[r]
               PROVE  \E j \in Index : Uncommitted(entries'[j]) /\ entries'[j].sector = r
    BY DEF DirtyEntryCovers, find_entry, Uncommitted
  <2>1. \E j \in find_entry(r) : Uncommitted(entries[j])
    BY <1>1 DEF DirtyEntryCovers
  <2>2. QED
    BY <1>2, <2>1 DEF find_entry
<1>7. barrier.step # "invalidate"
  BY DEF BarrierFlushFails
<1>8. UncommittedKnown'
  BY <1>1, <1>2, <1>7 DEF UncommittedKnown
<1>9. GenerationsAgree' /\ BarrierProgress' /\ CrashWindow'
  BY <1>1 DEF GenerationsAgree, BarrierProgress, CrashWindow
<1>10. QED
  BY <1>3, <1>5, <1>6, <1>8, <1>9

(* Unmounting empties the cache when nothing in it is uncommitted.         *)
LEMMA InvalidateStep ==
    ASSUME IInv, ios_fs_sync_invalidate_operation
    PROVE  /\ OneEntryPerSector' /\ LiveEntries' /\ CleanAgrees' /\ DirtyEntryCovers'
           /\ UncommittedKnown' /\ GenerationsAgree' /\ BarrierProgress' /\ CrashWindow'
<1> USE DEF IInv
<1>1. /\ UNCHANGED <<current, device, pending, acked, since>>
      /\ ~sync'.attached /\ barrier'.step = "idle" /\ barrier.step = "invalidate"
      /\ \A i \in Index : entries'[i].state = "EMPTY"
  BY DEF ios_fs_sync_invalidate_operation, ghostVars, EmptyCache, EmptyEntry, Idle,
         TypeOK, Sync
<1>2. \A s \in Sector : pending[s] = {} /\ device.view[s] = device.media[s]
  BY <1>1 DEF DirtyEntryCovers, UncommittedKnown, find_entry
<1>3. QED
  BY <1>1, <1>2 DEF OneEntryPerSector, LiveEntries, CleanAgrees, DirtyEntryCovers,
       UncommittedKnown, GenerationsAgree, BarrierProgress, CrashWindow, Uncommitted

(* Power loss: the cache starts again over what the device kept.           *)
LEMMA CrashStep ==
    ASSUME IInv, Crash
    PROVE  /\ OneEntryPerSector' /\ LiveEntries' /\ CleanAgrees' /\ DirtyEntryCovers'
           /\ UncommittedKnown' /\ GenerationsAgree' /\ BarrierProgress' /\ CrashWindow'
<1>1. /\ entries' = EmptyCache /\ pending' = NoValues /\ barrier' = Idle
      /\ sync' = AttachedSync(current') /\ device'.view = device'.media
      /\ acked' = device'.media
  BY DEF Crash
<1>2. QED
  BY <1>1 DEF OneEntryPerSector, LiveEntries, CleanAgrees, DirtyEntryCovers,
         UncommittedKnown, GenerationsAgree, BarrierProgress, CrashWindow,
         EmptyCache, EmptyEntry, NoValues, Idle, AttachedSync, Uncommitted

(* Every step of the cache, the barrier and the environment keeps IInv.    *)
LEMMA InvariantStep == IInv /\ [Next]_vars => IInv'
<1> SUFFICES ASSUME IInv, [Next]_vars PROVE IInv'
  OBVIOUS
<1>1. TypeOK'
  BY TypeStep DEF IInv
<1>2. CASE UNCHANGED vars
  BY <1>2 DEF vars, IInv, TypeOK, OneEntryPerSector, LiveEntries, CleanAgrees,
       DirtyEntryCovers, UncommittedKnown, GenerationsAgree, BarrierProgress, CrashWindow,
       find_entry, Uncommitted
<1>3. CASE Next
  BY <1>1, <1>3, ControlSteps, ReadSteps, WriteStep, WriteBackStep, FlushStep,
     FlushFailsStep, InvalidateStep, CrashStep
     DEF IInv, Next, CacheStep, BarrierStep
<1>4. QED
  BY <1>2, <1>3

(* IInv holds in every reachable state of the cache.                       *)
THEOREM Invariance == Spec => []IInv
  BY InitInvariant, InvariantStep, PTL DEF Spec

(* The type invariant, for every cache and device.                         *)
THEOREM TypeCorrect == Spec => []TypeOK
<1>1. IInv => TypeOK
  BY DEF IInv
<1>2. QED
  BY <1>1, Invariance, PTL

(* A failed barrier can be repeated without loss: what the device may not  *)
(* have made durable is held by a dirty or failed entry.                   *)
THEOREM NothingLostByFailure == Spec => []DirtyEntryCovers
<1>1. IInv => DirtyEntryCovers
  BY DEF IInv
<1>2. QED
  BY <1>1, Invariance, PTL

(* ios_fs_sync_durable_result never says OK of data a power loss can undo. *)
THEOREM DurableResultCorrect == Spec => []DurableResultHonest
<1>1. IInv => DurableResultHonest
  <2> SUFFICES ASSUME IInv, ios_fs_sync_durable_result = "OK", NEW s \in Sector
               PROVE  device.media[s] = View[s] /\ pending[s] = {}
    BY DEF DurableResultHonest
  <2>1. sync.last_result = "OK" /\ ~sync.dirty
    BY DEF ios_fs_sync_durable_result, IInv, TypeOK, Sync, Result
  <2>2. \A i \in Index : ~Uncommitted(entries[i])
    BY <2>1 DEF IInv, UncommittedKnown
  <2>3. pending[s] = {} /\ device.view[s] = device.media[s]
    BY <2>2 DEF IInv, DirtyEntryCovers, find_entry
  <2>4. \A i \in find_entry(s) : entries[i].bytes = device.view[s]
    BY <2>2 DEF find_entry, IInv, CleanAgrees, Uncommitted, TypeOK, Entry, EntryState
  <2>5. QED
    BY <2>3, <2>4 DEF View
<1>2. QED
  BY <1>1, Invariance, PTL

-----------------------------------------------------------------------------
(* Refinement: what a sector reads as is the bytes of its only entry.      *)
LEMMA ViewOf ==
    ASSUME OneEntryPerSector, NEW s \in Sector, NEW i \in find_entry(s)
    PROVE  View[s] = entries[i].bytes
<1>1. \A j \in find_entry(s) : j = i
  BY DEF OneEntryPerSector, find_entry
<1>2. QED
  BY <1>1 DEF View

(* What the cache and device show of every sector is a value.              *)
LEMMA ViewType == LiveEntries /\ TypeOK => View \in [Sector -> Value]
  BY DEF View, find_entry, LiveEntries, TypeOK, Device

(* A sector's view is kept by a step that keeps the device's value and     *)
(* every entry's hold on it.                                               *)
LEMMA ViewKept ==
    ASSUME IInv, IInv', NEW s \in Sector,
           \A i \in Index : i \in find_entry(s) =>
              i \in find_entry(s)' /\ entries'[i].bytes = entries[i].bytes,
           find_entry(s) = {} =>
              /\ \A i \in find_entry(s)' : entries'[i].bytes = device.view[s]
              /\ device'.view[s] = device.view[s]
    PROVE  View'[s] = View[s]
<1>1. CASE find_entry(s) = {}
  BY <1>1 DEF View
<1>2. CASE find_entry(s) # {}
  <2>1. PICK i \in find_entry(s) : TRUE
    BY <1>2
  <2>2. i \in Index /\ i \in find_entry(s)'
    BY DEF find_entry
  <2>3. View[s] = entries[i].bytes
    BY <2>1, ViewOf DEF IInv
  <2>4. \A j \in find_entry(s)' : j = i
    BY <2>2 DEF IInv, OneEntryPerSector, find_entry
  <2>5. View'[s] = entries'[i].bytes
    BY <2>2, <2>4 DEF View
  <2>6. QED
    BY <2>2, <2>3, <2>5
<1>3. QED
  BY <1>1, <1>2

(* The steps the ordered disk does not see: they change the cache or the   *)
(* device and no sector reads differently.                                 *)
LEMMA InvisibleSteps ==
    ASSUME IInv, IInv',
           \/ \E s \in Sector : \/ block_cache_read(s) \/ block_cache_read_fails(s)
                                \/ block_cache_pin(s) \/ block_cache_unpin(s)
                                \/ ios_fs_sync_write_refused(s)
           \/ \E u \in BOOLEAN : ios_fs_sync_barrier(u)
           \/ ios_fs_sync_barrier_overflow \/ BarrierSkip \/ BarrierWrite
           \/ BarrierWriteFails \/ BarrierLoopEnds \/ BarrierAborts
           \/ BarrierFlushFails \/ ios_fs_sync_invalidate_operation
           \/ runtime_mount_ready \/ DeviceFails
    PROVE  UNCHANGED <<View, acked, since>>
<1> USE DEF IInv
<1>1. UNCHANGED <<acked, since>>
  BY DEF block_cache_read, block_cache_read_fails, block_cache_pin, block_cache_unpin,
         ios_fs_sync_write_refused, ios_fs_sync_barrier, ios_fs_sync_barrier_overflow,
         BarrierSkip, BarrierWrite, BarrierWriteFails, BarrierLoopEnds, BarrierAborts,
         BarrierFlushFails, ios_fs_sync_invalidate_operation, runtime_mount_ready,
         DeviceFails, ghostVars
<1>2. SUFFICES ASSUME NEW r \in Sector PROVE View'[r] = View[r]
  BY <1>1 DEF View
<1>3. CASE \/ \E s \in Sector : ios_fs_sync_write_refused(s)
           \/ \E u \in BOOLEAN : ios_fs_sync_barrier(u)
           \/ ios_fs_sync_barrier_overflow \/ BarrierSkip \/ BarrierLoopEnds
           \/ BarrierAborts \/ runtime_mount_ready \/ DeviceFails
  <2>1. UNCHANGED <<entries, device.view>>
    BY <1>3 DEF ios_fs_sync_write_refused, ios_fs_sync_barrier,
       ios_fs_sync_barrier_overflow, BarrierSkip, BarrierLoopEnds, BarrierAborts,
       runtime_mount_ready, DeviceFails, cacheVars, TypeOK, Device
  <2>2. QED
    BY <2>1 DEF View, find_entry
<1>4. ASSUME NEW s \in Sector, block_cache_read(s) \/ block_cache_pin(s)
      PROVE  View'[r] = View[r]
  <2>1. PICK i \in acquire_entry(s) :
          \/ entries' = [entries EXCEPT ![i] = Loaded(i, s)]
          \/ entries' = [entries EXCEPT ![i] = [Loaded(i, s) EXCEPT !.pin_count = @ + 1]]
    BY <1>4 DEF block_cache_read, block_cache_pin
  <2>2. i \in Index /\ entries[i] \in Entry /\ device' = device
    BY <1>4, AcquiredEntry DEF TypeOK, block_cache_read, block_cache_pin
  <2>3. \A j \in Index : j # i => entries'[j] = entries[j]
    BY <2>1, <2>2 DEF TypeOK
  <2>4. CASE find_entry(s) # {}
    <3>1. /\ entries'[i].state = entries[i].state /\ entries'[i].sector = entries[i].sector
          /\ entries'[i].bytes = entries[i].bytes
      BY <2>1, <2>2, <2>4 DEF Loaded, Entry, TypeOK
    <3>2. QED
      BY <2>2, <2>3, <3>1, ViewKept DEF find_entry
  <2>5. CASE find_entry(s) = {}
    <3>1. /\ entries'[i].state = "CLEAN" /\ entries'[i].sector = s
          /\ entries'[i].bytes = device.view[s]
      BY <2>1, <2>2, <2>5 DEF Loaded, Fresh, TypeOK
    <3>2. entries[i].state \in {"EMPTY", "CLEAN"}
      BY <2>5, AcquiredEntry
    <3>3. CASE i \in find_entry(r)
      <4>1. r # s /\ entries[i].bytes = device.view[r]
        BY <2>5, <3>2, <3>3 DEF CleanAgrees, find_entry
      <4>2. find_entry(r)' = {}
        BY <2>2, <2>3, <3>1, <3>3, <4>1 DEF find_entry, OneEntryPerSector
      <4>3. View[r] = entries[i].bytes
        BY <3>3, ViewOf
      <4>4. View'[r] = device'.view[r]
        BY <4>2 DEF View
      <4>5. QED
        BY <2>2, <4>1, <4>3, <4>4
    <3>4. CASE i \notin find_entry(r)
      BY <2>2, <2>3, <3>1, <3>4, ViewKept DEF find_entry
    <3>5. QED
      BY <3>3, <3>4
  <2>6. QED
    BY <2>4, <2>5
<1>5. ASSUME NEW s \in Sector, block_cache_read_fails(s) PROVE View'[r] = View[r]
  <2>1. PICK i \in select_victim : entries' = [entries EXCEPT ![i] = EmptyEntry]
    BY <1>5 DEF block_cache_read_fails
  <2>2. /\ i \in Index /\ entries[i].state \in {"EMPTY", "CLEAN"} /\ device' = device
        /\ entries'[i].state = "EMPTY"
    BY <1>5, <2>1 DEF select_victim, Evictable, block_cache_read_fails, EmptyEntry, TypeOK
  <2>3. \A j \in Index : j # i => entries'[j] = entries[j]
    BY <2>1, <2>2 DEF TypeOK
  <2>4. CASE i \in find_entry(r)
    <3>1. View[r] = device.view[r]
      BY <2>2, <2>4, ViewOf DEF CleanAgrees, find_entry
    <3>2. find_entry(r)' = {}
      BY <2>2, <2>3, <2>4 DEF find_entry, OneEntryPerSector
    <3>3. QED
      BY <2>2, <3>1, <3>2 DEF View
  <2>5. CASE i \notin find_entry(r)
    BY <2>2, <2>3, <2>5, ViewKept DEF find_entry
  <2>6. QED
    BY <2>4, <2>5
<1>6. ASSUME NEW s \in Sector, block_cache_unpin(s) PROVE View'[r] = View[r]
  <2>1. PICK i \in find_entry(s) : entries' = [entries EXCEPT ![i].pin_count = @ - 1]
    BY <1>6 DEF block_cache_unpin
  <2>2. i \in Index /\ entries[i] \in Entry /\ device' = device
    BY <1>6 DEF find_entry, TypeOK, block_cache_unpin
  <2>3. \A j \in Index : /\ entries'[j].state = entries[j].state
                         /\ entries'[j].sector = entries[j].sector
                         /\ entries'[j].bytes = entries[j].bytes
    BY <2>1, <2>2 DEF TypeOK, Entry
  <2>4. QED
    BY <2>2, <2>3, ViewKept DEF find_entry
<1>7. CASE BarrierWrite \/ BarrierWriteFails
  <2> DEFINE k == barrier.index
  <2>1. k \in Index /\ entries[k] \in Entry /\ Uncommitted(entries[k])
    BY <1>7 DEF BarrierWrite, BarrierWriteFails, TypeOK, Barrier, Index, Targeted
  <2>2. entries' = [entries EXCEPT ![k].state = "DIRTY"]
        \/ entries' = [entries EXCEPT ![k].state = "ERROR"]
    BY <1>7 DEF BarrierWrite, BarrierWriteFails
  <2>3. /\ \A j \in Index : j # k => entries'[j] = entries[j]
        /\ entries'[k].state # "EMPTY" /\ entries'[k].sector = entries[k].sector
        /\ entries'[k].bytes = entries[k].bytes
    BY <2>1, <2>2 DEF TypeOK, Entry
  <2>4. entries[k].sector # r => device'.view[r] = device.view[r]
    <3> DEFINE q == entries[k].sector
               b == entries[k].bytes
    <3>1. q \in Sector
      BY <2>1 DEF LiveEntries, Uncommitted
    <3>2. device' = device \/ device' = [device EXCEPT !.view[q] = b]
      BY <1>7 DEF BarrierWrite, BarrierWriteFails, block_device_write
    <3> HIDE DEF q, b
    <3>3. q # r => device'.view[r] = device.view[r]
      BY <3>1, <3>2 DEF TypeOK, Device
    <3>4. QED
      BY <3>3 DEF q
  <2>5. find_entry(r) = {} => entries[k].sector # r
    BY <2>1 DEF find_entry, Uncommitted
  <2>6. QED
    BY <2>1, <2>3, <2>4, <2>5, ViewKept DEF find_entry, Uncommitted
<1>8. CASE BarrierFlushFails
  <2>1. \A j \in Index : /\ entries'[j].state = "EMPTY" <=> entries[j].state = "EMPTY"
                         /\ entries'[j].sector = entries[j].sector
                         /\ entries'[j].bytes = entries[j].bytes
    BY <1>8 DEF BarrierFlushFails, TypeOK, Entry
  <2>2. device'.view[r] \in {device.view[r], device.media[r]} \cup pending[r]
    BY <1>8 DEF BarrierFlushFails, TypeOK, Device
  <2>3. find_entry(r) = {} => device'.view[r] = device.view[r]
    BY <2>2 DEF DirtyEntryCovers
  <2>4. QED
    BY <2>1, <2>3, ViewKept DEF find_entry
<1>9. CASE ios_fs_sync_invalidate_operation
  <2>1. \A i \in Index : ~Uncommitted(entries[i])
    BY <1>9 DEF ios_fs_sync_invalidate_operation, UncommittedKnown
  <2>2. View[r] = device.view[r]
    BY <2>1 DEF View, find_entry, CleanAgrees, Uncommitted, TypeOK, Entry, EntryState
  <2>3. find_entry(r)' = {} /\ device' = device
    BY <1>9 DEF ios_fs_sync_invalidate_operation, find_entry, EmptyCache, EmptyEntry
  <2>4. QED
    BY <2>2, <2>3 DEF View
<1>10. QED
  BY <1>3, <1>4, <1>5, <1>6, <1>7, <1>8, <1>9

(* A cached write is the ordered disk's write.                             *)
LEMMA WriteRefines ==
    ASSUME IInv, IInv', NEW s \in Sector, NEW v \in Value, ios_fs_sync_write_sector(s, v)
    PROVE  Disk!DiskWrite(s, v)
<1> USE DEF IInv
<1>1. PICK i \in acquire_entry(s) :
        entries' = [entries EXCEPT ![i] =
                      [(IF find_entry(s) # {} THEN entries[i] ELSE Fresh(s, Zeroed))
                         EXCEPT !.bytes = v, !.state = "DIRTY",
                                !.dirty_generation = sync.generation]]
  BY DEF ios_fs_sync_write_sector
<1>2. i \in Index /\ entries[i] \in Entry /\ device' = device
  BY AcquiredEntry DEF TypeOK, ios_fs_sync_write_sector
<1>3. entries'[i].state = "DIRTY" /\ entries'[i].sector = s /\ entries'[i].bytes = v
  BY <1>1, <1>2, AcquiredEntry DEF Fresh, Entry, TypeOK
<1>4. \A j \in Index : j # i => entries'[j] = entries[j]
  BY <1>1, <1>2 DEF TypeOK
<1>5. View'[s] = v
  <2>1. i \in find_entry(s)' /\ \A j \in find_entry(s)' : j = i
    BY <1>2, <1>3 DEF find_entry, OneEntryPerSector
  <2>2. QED
    BY <1>3, <2>1 DEF View
<1>6. ASSUME NEW r \in Sector, r # s PROVE View'[r] = View[r]
  <2>1. CASE i \in find_entry(r)
    <3>1. find_entry(s) = {} /\ entries[i].state = "CLEAN"
      BY <1>6, <2>1, AcquiredEntry DEF find_entry
    <3>2. View[r] = device.view[r]
      BY <2>1, <3>1, ViewOf DEF CleanAgrees, find_entry
    <3>3. find_entry(r)' = {}
      BY <1>2, <1>3, <1>4, <1>6, <2>1 DEF find_entry, OneEntryPerSector
    <3>4. QED
      BY <1>2, <3>2, <3>3 DEF View
  <2>2. CASE i \notin find_entry(r)
    BY <1>2, <1>3, <1>4, <1>6, <2>2, ViewKept DEF find_entry
  <2>3. QED
    BY <2>1, <2>2
<1>7. View' = [View EXCEPT ![s] = v]
  <2>1. View \in [Sector -> Value] /\ View' \in [Sector -> Value]
    <3>1. (LiveEntries /\ TypeOK => View \in [Sector -> Value])'
      BY ViewType, PTL
    <3>2. QED
      BY <3>1, ViewType
  <2> HIDE DEF View
  <2>2. QED
    BY <1>5, <1>6, <2>1
<1>8. QED
  BY <1>7 DEF Disk!DiskWrite, ios_fs_sync_write_sector

(* The barrier's good flush is the ordered disk's barrier.                 *)
LEMMA BarrierRefines ==
    ASSUME IInv, IInv', BarrierFlush
    PROVE  Disk!DiskBarrier
<1> USE DEF IInv
<1>1. \A i \in Index : /\ entries'[i].state = "EMPTY" <=> entries[i].state = "EMPTY"
                       /\ entries'[i].sector = entries[i].sector
                       /\ entries'[i].bytes = entries[i].bytes
  BY DEF BarrierFlush, Targeted, Uncommitted, TypeOK, Entry
<1>2. device'.view = device.view
  BY DEF BarrierFlush, TypeOK, Device
<1>3. \A r \in Sector : View'[r] = View[r]
  BY <1>1, <1>2, ViewKept DEF find_entry
<1>4. View' = View
  BY <1>3 DEF View
<1>5. QED
  BY <1>4 DEF Disk!DiskBarrier, Disk!NothingSince, NoValues, BarrierFlush

(* A power loss is the ordered disk's crash.                               *)
LEMMA CrashRefines ==
    ASSUME IInv, Crash
    PROVE  Disk!DiskCrash
<1>1. PICK kept \in [Sector -> Value] :
        /\ \A s \in Sector : kept[s] \in {device.media[s]} \cup pending[s]
        /\ device'.view = kept /\ acked' = kept
  BY DEF Crash
<1>2. View' = kept
  <2>1. \A s \in Sector : find_entry(s)' = {}
    BY DEF Crash, find_entry, EmptyCache, EmptyEntry
  <2>2. QED
    BY <1>1, <2>1 DEF View
<1>3. \A s \in Sector : kept[s] \in {acked[s]} \cup since[s]
  BY <1>1 DEF IInv, CrashWindow
<1>4. QED
  BY <1>1, <1>2, <1>3 DEF Disk!DiskCrash, Disk!NothingSince, NoValues, Crash

(* The write-back cache over a device that buffers, fails and loses power  *)
(* implements the ordered disk, for every cache size and device.           *)
THEOREM Refinement == Spec => ImplementsOrderedDisk
<1>1. Init => Disk!DiskInit
  <2> SUFFICES ASSUME Init PROVE Disk!DiskInit
    OBVIOUS
  <2>1. \A s \in Sector : find_entry(s) = {}
    BY DEF Init, find_entry, EmptyCache, EmptyEntry
  <2>2. View = device.view /\ device.view \in [Sector -> Value] /\ acked = device.view
    BY <2>1 DEF Init, View
  <2>3. QED
    BY <2>2 DEF Disk!DiskInit, Disk!NothingSince, NoValues, Init
<1>2. IInv /\ IInv' /\ [Next]_vars => [Disk!DiskNext]_(Disk!diskVars)
  <2> SUFFICES ASSUME IInv, IInv', [Next]_vars PROVE [Disk!DiskNext]_(Disk!diskVars)
    OBVIOUS
  <2>1. CASE UNCHANGED vars
    BY <2>1 DEF vars, Disk!diskVars, View, find_entry
  <2>2. CASE Next
    <3>1. \/ UNCHANGED <<View, acked, since>>
          \/ \E s \in Sector, v \in Value : Disk!DiskWrite(s, v)
          \/ Disk!DiskBarrier
          \/ Disk!DiskCrash
      BY <2>2, InvisibleSteps, WriteRefines, BarrierRefines, CrashRefines
         DEF Next, CacheStep, BarrierStep
    <3>2. QED
      BY <3>1 DEF Disk!DiskNext, Disk!diskVars
  <2>3. QED
    BY <2>1, <2>2
<1>3. QED
  BY <1>1, <1>2, Invariance, PTL DEF Spec, ImplementsOrderedDisk, Disk!DiskSpec
=============================================================================
