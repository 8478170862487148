---------------------------- MODULE FileService ----------------------------
(***************************************************************************)
(* The file service of InferenceOS-FS (file_service.c, with fat.c,          *)
(* directory.c and records.c): files and directories kept in FAT chains and *)
(* 32-byte directory records, changed by a fixed order of sector writes and *)
(* barriers.  A regular file is a pair of records, a companion that carries *)
(* the committed flag and a primary that names the chain; a directory is a  *)
(* single primary.                                                          *)
(*                                                                          *)
(* The storage below is OrderedDisk: every directory slot is a block of its *)
(* own, which is what a pair that straddles two sectors meets, and weaker   *)
(* than what a pair within one sector is given.  The service runs one call  *)
(* at a time.  A call is the list of steps it has left (plan); any of them  *)
(* may be refused, and power may be lost between any two.                   *)
(***************************************************************************)
EXTENDS Integers, Sequences, FiniteSets, TLC

CONSTANTS LastCluster,          \* data clusters are 2..LastCluster
          Slots,                \* records (and content blocks) in a cluster
          FatEntriesPerSector,
          Base, Ext,            \* the two parts of an 8.3 name
          Tag,                  \* what a caller may write
          MaxFileClusters,      \* IOS_FS_FILE_SERVICE_MAX_CLUSTERS
          MaxOperations,        \* bound: calls made
          MaxFaults,            \* bound: refusals, failed barriers, crashes
          MovesInterrupted      \* whether faults fall within moves between directories

Root == 2                       \* IOS_FS_ROOT_CLUSTER
Cluster == Root .. LastCluster
Slot == 1 .. Slots
Name == Base \X Ext

FREE == 0
EOC == 1                        \* any value at or above IOS_FS_FAT_EOC_FIRST
FatValue == {FREE, EOC} \cup Cluster

ASSUME FileServiceAssumption ==
    /\ LastCluster \in Nat /\ LastCluster > Root
    /\ Slots \in Nat /\ Slots > 3
    /\ FatEntriesPerSector \in Nat \ {0}
    /\ MaxFileClusters \in Nat \ {0}
    /\ MaxOperations \in Nat /\ MaxFaults \in Nat
    /\ MovesInterrupted \in BOOLEAN

FatSector(c) == c \div FatEntriesPerSector

Block == ({0} \X {FatSector(c) : c \in Cluster}) \cup (Cluster \X Slot)

-----------------------------------------------------------------------------
(* Records.  A companion repeats the extension and an 8-bit checksum of the  *)
(* name; different names may share the checksum, and here all of them do.    *)

Zero == [kind |-> "zero"]               \* first byte 0: end of the directory
Deleted == [kind |-> "deleted"]         \* first byte 0xe5
Internal == [kind |-> "internal"]       \* "." and ".."
Data(t) == [kind |-> "data", tag |-> t]

ios_fs_companion_encode(name, committed) ==
    [kind |-> "companion", ext |-> name[2], committed |-> committed]

ios_fs_primary_encode(name, attributes, first, clusters) ==
    [kind |-> "primary", name |-> name, attributes |-> attributes,
     first |-> first, clusters |-> clusters]

ios_fs_record_pair_validate(companion, primary) ==
    /\ companion.kind = "companion"
    /\ primary.kind = "primary"
    /\ companion.committed
    /\ primary.attributes = "regular"
    /\ companion.ext = primary.name[2]

Record ==
    {Zero, Deleted, Internal}
      \cup {Data(t) : t \in Tag}
      \cup {ios_fs_companion_encode(n, b) : n \in Name, b \in BOOLEAN}
      \cup {ios_fs_primary_encode(n, a, f, s) :
              n \in Name, a \in {"regular", "directory"},
              f \in {0} \cup Cluster, s \in 0 .. MaxFileClusters}

FatRecord(f, i) ==
    [kind |-> "fat",
     next |-> [c \in {c \in Cluster : FatSector(c) = i} |-> f[c]]]

-----------------------------------------------------------------------------
(* The allocation table.                                                     *)

FatOn(v) == [c \in Cluster |-> v[<<0, FatSector(c)>>].next[c]]

Broken == <<>>      \* what a traversal that meets a bad link or a loop returns

ios_fs_fat_traverse(f, start) ==
    LET walk[n \in 1 .. Cardinality(Cluster) + 1] ==
          IF n = 1 THEN <<start>>
          ELSE LET w == walk[n - 1]
                   next == f[w[Len(w)]]
               IN  IF next \in Cluster THEN Append(w, next) ELSE w
        chain == walk[Cardinality(Cluster) + 1]
    IN  IF /\ Len(chain) <= Cardinality(Cluster)
           /\ f[chain[Len(chain)]] = EOC
        THEN chain ELSE Broken

FreeClusters(f) == {c \in Cluster : f[c] = FREE}

(* The lowest `count` free clusters, in order.                               *)
FirstFree(f, count) ==
    [i \in 1 .. count |->
       CHOOSE c \in FreeClusters(f) :
         Cardinality({d \in FreeClusters(f) : d < c}) = i - 1]

ClustersOf(chain) == {chain[i] : i \in DOMAIN chain}

ios_fs_fat_allocate(f, chain) ==
    [c \in Cluster |->
       IF c \notin ClustersOf(chain) THEN f[c]
       ELSE LET i == CHOOSE i \in DOMAIN chain : chain[i] = c
            IN  IF i < Len(chain) THEN chain[i + 1] ELSE EOC]

ios_fs_fat_free(f, chain) ==
    [c \in Cluster |-> IF c \in ClustersOf(chain) THEN FREE ELSE f[c]]

-----------------------------------------------------------------------------
(* Directories.  A directory never grows beyond its first cluster.           *)

At(v, d, k) == v[<<d, k>>]

(* Slots before the first zero record: the ones a scan looks at.             *)
Scanned(v, d) == {k \in Slot : \A j \in 1 .. k : At(v, d, j) # Zero}

Entries(v, d) == {k \in Scanned(v, d) : At(v, d, k).kind = "primary"}

HasCompanion(v, d, k) == k > 1 /\ At(v, d, k - 1).kind = "companion"

(* The scan reports no error: pairs are valid, no regular primary stands     *)
(* alone, no name occurs twice.  One bad record fails the whole directory.   *)
ios_fs_directory_scan(v, d) ==
    /\ \A k \in Scanned(v, d) :
         CASE At(v, d, k).kind = "companion" ->
                k < Slots /\ ios_fs_record_pair_validate(At(v, d, k), At(v, d, k + 1))
           [] At(v, d, k).kind = "primary" ->
                At(v, d, k).attributes = "regular" => HasCompanion(v, d, k)
           [] OTHER -> At(v, d, k).kind \in {"deleted", "internal"}
    /\ \A j, k \in Entries(v, d) :
         At(v, d, j).name = At(v, d, k).name => j = k

(* Companion slots of the pairs a new file may take, lowest first.           *)
Available(v, d, k) == k \notin Scanned(v, d) \/ At(v, d, k) = Deleted

FreePairs(v, d) ==
    {k \in 1 .. Slots - 1 : Available(v, d, k) /\ Available(v, d, k + 1)}

FreeSlots(v, d) == {k \in Slot : At(v, d, k) \in {Zero, Deleted}}

Lowest(S) == CHOOSE k \in S : \A j \in S : k <= j

-----------------------------------------------------------------------------
(* What a volume says, read through the table it holds itself.               *)

Blank == [k \in Slot |-> [kind |-> "unreadable"]]

Contents(v, f, primary) ==
    IF primary.clusters = 0 THEN <<>>
    ELSE LET chain == ios_fs_fat_traverse(f, primary.first)
         IN  IF Len(chain) < primary.clusters THEN <<Blank>>
             ELSE [i \in 1 .. primary.clusters |-> [k \in Slot |-> v[<<chain[i], k>>]]]

Entry(v, primary) ==
    [name |-> primary.name,
     attributes |-> primary.attributes,
     directory |-> IF primary.attributes = "directory" THEN primary.first ELSE 0,
     contents |-> IF primary.attributes = "directory" THEN <<>>
                  ELSE Contents(v, FatOn(v), primary)]

Listing(v, d) == {Entry(v, At(v, d, k)) : k \in Entries(v, d)}

Subdirectories(v, d) ==
    {At(v, d, k).first :
       k \in {k \in Entries(v, d) : At(v, d, k).attributes = "directory"}}

(* Directories a walk from start finds through directories that scan.        *)
ReachedFrom(v, start) ==
    LET reach[n \in 0 .. Cardinality(Cluster)] ==
          IF n = 0 THEN {start}
          ELSE LET near == reach[n - 1]
               IN  near \cup UNION {Subdirectories(v, d) :
                     d \in {d \in near : ios_fs_directory_scan(v, d)}}
    IN  reach[Cardinality(Cluster)]

Readable(v) == {d \in ReachedFrom(v, Root) : ios_fs_directory_scan(v, d)}

(* Every entry of a readable directory, as the place of its primary.         *)
Owners(v) == UNION {{d} \X Entries(v, d) : d \in Readable(v)}

Owned(v, owner) ==
    LET primary == At(v, owner[1], owner[2])
    IN  IF primary.first = 0 THEN {}
        ELSE ClustersOf(ios_fs_fat_traverse(FatOn(v), primary.first))

-----------------------------------------------------------------------------
VARIABLES view, floor, since,   \* the disk, as OrderedDisk has it
          fat,                  \* service->fat
          dirtyFat,             \* service->dirty_fat_sectors
          initialized,          \* service->initialized
          plan,                 \* the steps the running call has left
          result,               \* of the last call, or that it runs: busy, moving
          operations, faults,   \* calls made and faults met, for the bounds
          shadow, target,       \* listings before and after the last call
          changing              \* the directories that call changes

INSTANCE OrderedDisk WITH Sector <- Block, Value <- Record

service == <<fat, dirtyFat, initialized>>
ghosts == <<shadow, target, changing>>
vars == <<view, floor, since, service, plan, result, operations, faults, ghosts>>

Content == [Slot -> {Data(t) : t \in Tag}]

(* The result of the formatter: an empty root directory.                     *)
FormattedFat == [c \in Cluster |-> IF c = Root THEN EOC ELSE FREE]

Init ==
    /\ fat = FormattedFat
    /\ view = [b \in Block |-> IF b[1] = 0 THEN FatRecord(fat, b[2]) ELSE Zero]
    /\ floor = view
    /\ since = NothingSince
    /\ dirtyFat = {}
    /\ initialized = TRUE
    /\ plan = <<>>
    /\ result = "none"
    /\ operations = 0 /\ faults = 0
    /\ shadow = [d \in Cluster |-> {}]
    /\ target = shadow
    /\ changing = {}

-----------------------------------------------------------------------------
(* Steps of a plan.                                                          *)

Put(d, k, record) == [op |-> "write", image |-> (<<d, k>> :> record), rollback |-> FALSE]
PutContent(c, content) ==
    [op |-> "write", image |-> [b \in {c} \X Slot |-> content[b[2]]], rollback |-> TRUE]
persist_fat == [op |-> "fat"]
barrier == [op |-> "barrier"]
release_chain(first) == IF first = 0 THEN <<>> ELSE <<[op |-> "release", first |-> first]>>

\* fault: the allocation is persisted after the records that name it
commit_primary_fat_last(d, k, primary) ==
    << Put(d, k, ios_fs_companion_encode(primary.name, FALSE)),
       barrier,
       Put(d, k + 1, primary),
       Put(d, k, ios_fs_companion_encode(primary.name, TRUE)),
       barrier,
       persist_fat,
       barrier >>

\* fault: success is reported before the last barrier
commit_primary_unflushed(d, k, primary) ==
    << Put(d, k, ios_fs_companion_encode(primary.name, FALSE)),
       barrier,
       persist_fat,
       barrier,
       Put(d, k + 1, primary),
       Put(d, k, ios_fs_companion_encode(primary.name, TRUE)) >>

commit_primary(d, k, primary) ==
    << Put(d, k, ios_fs_companion_encode(primary.name, FALSE)),
       barrier,
       persist_fat,
       barrier,
       Put(d, k + 1, primary),
       Put(d, k, ios_fs_companion_encode(primary.name, TRUE)),
       barrier >>

delete_located(v, d, k) ==
    (IF HasCompanion(v, d, k)
     THEN << Put(d, k - 1, ios_fs_companion_encode(At(v, d, k).name, FALSE)),
             barrier,
             Put(d, k - 1, Deleted) >>
     ELSE <<>>)
    \o << Put(d, k, Deleted), barrier >>

(* Each cluster of the new chain is written and made durable in turn.        *)
PutContents(chain, contents) ==
    [i \in 1 .. 2 * Len(chain) |->
       IF i % 2 = 1 THEN PutContent(chain[(i + 1) \div 2], contents[(i + 1) \div 2])
       ELSE barrier]

-----------------------------------------------------------------------------
(* The start of a call.                                                      *)

validate_service ==
    /\ plan = <<>>
    /\ initialized
    /\ operations < MaxOperations

(* A directory a call may work on: a path leads to it, its chain is whole in *)
(* the table the service holds, and it scans.                                *)
Usable(d) == d \in Readable(view) /\ ios_fs_fat_traverse(fat, d) # Broken

Listed(ghost) == [d \in Cluster |-> IF d \in Readable(view) THEN Listing(view, d) ELSE ghost[d]]

(* The call goes ahead; `promised` is what it makes of the directories in    *)
(* its domain.                                                               *)
Start(running, steps, promised) ==
    /\ operations' = operations + 1
    /\ plan' = steps
    /\ result' = running
    /\ shadow' = Listed(shadow)
    /\ target' = promised @@ Listed(target)
    /\ changing' = DOMAIN promised
    /\ UNCHANGED <<view, floor, since, initialized, faults>>

Begin(steps, promised) == Start("busy", steps, promised)
BeginMove(steps, promised) == Start("moving", steps, promised)

Primaries(d) == {k \in Entries(view, d) : At(view, d, k).attributes = "regular"}

(* find_display_base_in_directory: a name is taken by any entry of its base. *)
BaseTaken(d, name, ignored) ==
    \E k \in Entries(view, d) \ ignored : At(view, d, k).name[1] = name[1]

create_file_in_directory(d, name) ==
    LET primary == ios_fs_primary_encode(name, "regular", 0, 0)
    IN  /\ ~BaseTaken(d, name, {})
        /\ FreePairs(view, d) # {}
        /\ Begin(commit_primary(d, Lowest(FreePairs(view, d)), primary),
                 d :> (Listing(view, d) \cup {Entry(view, primary)}))
        /\ UNCHANGED <<fat, dirtyFat>>

(* ios_fs_file_service_replace and _append write a whole new chain, move the *)
(* entry to it and only then free the old one.                               *)
save_content(d, k, contents) ==
    LET old == At(view, d, k)
        count == Len(contents)
        chain == FirstFree(fat, count)
        primary == ios_fs_primary_encode(old.name, "regular",
                     IF count = 0 THEN 0 ELSE chain[1], count)
    IN  /\ k \in Primaries(d)
        /\ old.clusters > 0 => ios_fs_fat_traverse(fat, old.first) # Broken
        /\ count <= MaxFileClusters
        /\ count <= Cardinality(FreeClusters(fat))
        /\ fat' = ios_fs_fat_allocate(fat, chain)
        /\ dirtyFat' = {FatSector(c) : c \in ClustersOf(chain)}
        /\ Begin(PutContents(chain, contents)
                   \o commit_primary(d, k - 1, primary)
                   \o release_chain(old.first),
                 d :> (Listing(view, d) \ {Entry(view, old)})
                        \cup {[Entry(view, old) EXCEPT !.contents = contents]})

ios_fs_file_service_replace(d, k, count, t) ==
    save_content(d, k, [i \in 1 .. count |-> [s \in Slot |-> Data(t)]])

ios_fs_file_service_append(d, k, t) ==
    save_content(d, k, Append(Contents(view, fat, At(view, d, k)), [s \in Slot |-> Data(t)]))

(* No room for the chain: the call has already forgotten the dirty sectors.  *)
save_content_no_space(d, k, count) ==
    /\ k \in Primaries(d)
    /\ count <= MaxFileClusters
    /\ count > Cardinality(FreeClusters(fat))
    /\ dirtyFat' = {}
    /\ operations' = operations + 1
    /\ result' = "error"
    /\ UNCHANGED <<view, floor, since, fat, initialized, plan, faults, ghosts>>

rename_located(d, k, name) ==
    LET old == At(view, d, k)
        primary == [old EXCEPT !.name = name]
    IN  /\ k \in Primaries(d)
        /\ ~BaseTaken(d, name, {k})
        /\ old.name # name
        /\ Begin(<< Put(d, k - 1, ios_fs_companion_encode(old.name, FALSE)), barrier >>
                   \o commit_primary(d, k - 1, primary),
                 d :> (Listing(view, d) \ {Entry(view, old)}) \cup {Entry(view, primary)})
        /\ UNCHANGED <<fat, dirtyFat>>

(* The same function when the destination is another directory.              *)
rename_located_across(d, k, into, name) ==
    LET old == At(view, d, k)
        primary == [old EXCEPT !.name = name]
    IN  /\ into # d
        /\ Usable(into)
        /\ k \in Primaries(d)
        /\ ~BaseTaken(into, name, {})
        /\ FreePairs(view, into) # {}
        /\ BeginMove(commit_primary(into, Lowest(FreePairs(view, into)), primary)
                       \o delete_located(view, d, k),
                     (d :> Listing(view, d) \ {Entry(view, old)})
                       @@ (into :> Listing(view, into) \cup {Entry(view, primary)}))
        /\ UNCHANGED <<fat, dirtyFat>>

(* The VFS's rename, of files and directories: a file's pair goes straight   *)
(* to its new name, a directory's single record is written over.             *)
ios_fs_file_service_vfs_rename(d, k, name) ==
    LET old == At(view, d, k)
        primary == [old EXCEPT !.name = name]
    IN  /\ k \in Entries(view, d)
        /\ ~BaseTaken(d, name, {k})
        /\ old.name # name
        /\ Begin(IF HasCompanion(view, d, k) THEN commit_primary(d, k - 1, primary)
                 ELSE << Put(d, k, primary), barrier >>,
                 d :> (Listing(view, d) \ {Entry(view, old)}) \cup {Entry(view, primary)})
        /\ UNCHANGED <<fat, dirtyFat>>

(* A directory moves with its cluster, whose ".." record is rewritten.  The  *)
(* VFS refuses a destination inside the directory that moves.                *)
ios_fs_file_service_vfs_rename_across(d, k, into, name) ==
    LET old == At(view, d, k)
        primary == [old EXCEPT !.name = name]
    IN  /\ into # d
        /\ Usable(into)
        /\ k \in Entries(view, d) /\ old.attributes = "directory"
        /\ into \notin ReachedFrom(view, old.first)
        /\ ~BaseTaken(into, name, {})
        /\ FreeSlots(view, into) # {}
        /\ BeginMove(<< Put(into, Lowest(FreeSlots(view, into)), primary), barrier,
                        Put(old.first, 2, Internal), barrier >>
                       \o delete_located(view, d, k),
                     (d :> Listing(view, d) \ {Entry(view, old)})
                       @@ (into :> Listing(view, into) \cup {Entry(view, primary)}))
        /\ UNCHANGED <<fat, dirtyFat>>

\* fault: the chain is released before the records are deleted
remove_located_file_released_first(d, k) ==
    LET old == At(view, d, k)
    IN  /\ k \in Primaries(d)
        /\ Begin(release_chain(old.first) \o delete_located(view, d, k),
                 d :> Listing(view, d) \ {Entry(view, old)})
        /\ UNCHANGED <<fat, dirtyFat>>

remove_located_file(d, k) ==
    LET old == At(view, d, k)
    IN  /\ k \in Primaries(d)
        /\ Begin(delete_located(view, d, k) \o release_chain(old.first),
                 d :> Listing(view, d) \ {Entry(view, old)})
        /\ UNCHANGED <<fat, dirtyFat>>

(* A new directory is one cluster holding "." and "..", and one record.      *)
NewDirectory == [k \in Slot |-> IF k <= 2 THEN Internal ELSE Zero]

ios_fs_file_service_create_directory(d, name) ==
    LET chain == FirstFree(fat, 1)
        primary == ios_fs_primary_encode(name, "directory", chain[1], 0)
    IN  /\ ~BaseTaken(d, name, {})
        /\ FreeSlots(view, d) # {}
        /\ FreeClusters(fat) # {}
        /\ fat' = ios_fs_fat_allocate(fat, chain)
        /\ dirtyFat' = {FatSector(chain[1])}
        /\ Begin(<< PutContent(chain[1], NewDirectory), barrier,
                    persist_fat, barrier,
                    Put(d, Lowest(FreeSlots(view, d)), primary), barrier >>,
                 (d :> Listing(view, d) \cup {Entry(view, primary)}) @@ (chain[1] :> {}))

ios_fs_file_service_remove_directory(d, k) ==
    LET old == At(view, d, k)
    IN  /\ k \in Entries(view, d) /\ old.attributes = "directory"
        /\ ios_fs_directory_scan(view, old.first)
        /\ Entries(view, old.first) = {}
        /\ Begin(delete_located(view, d, k) \o release_chain(old.first),
                 d :> Listing(view, d) \ {Entry(view, old)})
        /\ UNCHANGED <<fat, dirtyFat>>

-----------------------------------------------------------------------------
(* Running a call, step by step.                                             *)

Running(op) == plan # <<>> /\ plan[1].op = op

Continue(steps) ==
    /\ plan' = steps
    /\ result' = IF steps = <<>> THEN "ok" ELSE result
    /\ UNCHANGED <<operations, faults, ghosts>>

Interruptible == faults < MaxFaults /\ (MovesInterrupted \/ result # "moving")

(* The call returns the error of the step that failed.                       *)
Fail ==
    /\ Interruptible
    /\ faults' = faults + 1
    /\ plan' = <<>>
    /\ result' = "error"
    /\ UNCHANGED <<operations, ghosts>>

WriteStep ==
    /\ Running("write")
    /\ DiskWriteAll(plan[1].image)
    /\ Continue(Tail(plan))
    /\ UNCHANGED service

(* A read or write of the burst is refused.  Only the content writes undo    *)
(* the allocation, by reading the table back.                                *)
WriteRefused ==
    /\ Running("write")
    /\ \E written \in SUBSET DOMAIN plan[1].image :
         /\ written # DOMAIN plan[1].image
         /\ DiskWriteAll([b \in written |-> plan[1].image[b]])
    /\ IF plan[1].rollback
       THEN fat' = FatOn(view) /\ dirtyFat' = {}
       ELSE UNCHANGED <<fat, dirtyFat>>
    /\ Fail
    /\ UNCHANGED initialized

FatImage(sectors) ==
    [b \in {0} \X sectors |-> FatRecord(fat, b[2])]

FatStep ==
    /\ Running("fat")
    /\ DiskWriteAll(FatImage(dirtyFat))
    /\ dirtyFat' = {}
    /\ Continue(Tail(plan))
    /\ UNCHANGED <<fat, initialized>>

FatRefused ==
    /\ Running("fat")
    /\ \E written \in SUBSET dirtyFat :
         written # dirtyFat /\ DiskWriteAll(FatImage(written))
    /\ Fail
    /\ UNCHANGED service

BarrierStep ==
    /\ Running("barrier")
    /\ DiskBarrier
    /\ Continue(Tail(plan))
    /\ UNCHANGED service

BarrierFails ==
    /\ Running("barrier")
    /\ initialized' = FALSE
    /\ Fail
    /\ UNCHANGED <<view, floor, since, fat, dirtyFat>>

ReleaseStep ==
    LET chain == ios_fs_fat_traverse(fat, plan[1].first)
    IN  /\ Running("release")
        /\ fat' = ios_fs_fat_free(fat, chain)
        /\ dirtyFat' = dirtyFat \cup {FatSector(c) : c \in ClustersOf(chain)}
        /\ plan' = IF chain = Broken THEN <<>> ELSE <<persist_fat, barrier>> \o Tail(plan)
        /\ result' = IF chain = Broken THEN "error" ELSE result
        /\ UNCHANGED <<view, floor, since, initialized, operations, faults, ghosts>>

(* Unmounting succeeds only with its barrier; the next mount reads the table *)
(* and starts the service again.                                             *)
Remount ==
    /\ plan = <<>>
    /\ DiskBarrier
    /\ fat' = FatOn(view)
    /\ dirtyFat' = {}
    /\ initialized' = TRUE
    /\ UNCHANGED <<plan, result, operations, faults, ghosts>>

Crash ==
    /\ Interruptible
    /\ faults' = faults + 1
    /\ DiskPowerLoss
    /\ fat' = FatOn(view')
    /\ dirtyFat' = {}
    /\ initialized' = TRUE
    /\ plan' = <<>>
    /\ result' = "crashed"
    /\ UNCHANGED <<operations, ghosts>>

(* One call of the service's interface, in some directory.                   *)
Call(d) ==
    \/ \E name \in Name : create_file_in_directory(d, name)
    \/ \E name \in Name : ios_fs_file_service_create_directory(d, name)
    \/ \E k \in Entries(view, d) :
         \/ \E n \in 0 .. MaxFileClusters, t \in Tag : ios_fs_file_service_replace(d, k, n, t)
         \/ \E t \in Tag : ios_fs_file_service_append(d, k, t)
         \/ \E n \in 1 .. MaxFileClusters : save_content_no_space(d, k, n)
         \/ \E name \in Name : rename_located(d, k, name)
         \/ \E name \in Name : ios_fs_file_service_vfs_rename(d, k, name)
         \/ \E into \in Cluster, name \in Name :
              \/ rename_located_across(d, k, into, name)
              \/ ios_fs_file_service_vfs_rename_across(d, k, into, name)
         \/ remove_located_file(d, k)
         \/ ios_fs_file_service_remove_directory(d, k)

Next ==
    \/ validate_service /\ \E d \in {d \in Cluster : Usable(d)} : Call(d)
    \/ WriteStep \/ WriteRefused
    \/ FatStep \/ FatRefused
    \/ BarrierStep \/ BarrierFails
    \/ ReleaseStep
    \/ Remount \/ Crash

Spec == Init /\ [][Next]_vars

-----------------------------------------------------------------------------
(* Properties.                                                               *)

BlockValue == [b \in Block |-> IF b[1] = 0
                 THEN [kind : {"fat"}, next : [{c \in Cluster : FatSector(c) = b[2]} -> FatValue]]
                 ELSE Record]

TypeOK ==
    /\ \A b \in Block : view[b] \in BlockValue[b] /\ floor[b] \in BlockValue[b]
    /\ \A b \in Block : since[b] \subseteq BlockValue[b]
    /\ fat \in [Cluster -> FatValue]
    /\ dirtyFat \subseteq {FatSector(c) : c \in Cluster}
    /\ initialized \in BOOLEAN
    /\ \A i \in DOMAIN plan : plan[i].op \in {"write", "fat", "barrier", "release"}
    /\ result \in {"none", "ok", "error", "busy", "moving", "crashed"}
    /\ operations \in 0 .. MaxOperations /\ faults \in 0 .. MaxFaults

(* A directory that scans lists exactly what it listed before the last call  *)
(* or what the call promised, names and contents, wherever the call stopped: *)
(* at a refused write, a failed barrier or a power loss.                     *)
OldOrNew ==
    \A d \in Readable(view) : Listing(view, d) \in {shadow[d], target[d]}

(* A call that returned success has changed the directories as promised, and *)
(* no power loss undoes it.                                                  *)
SuccessIsDurable ==
    result = "ok" =>
      /\ floor = view /\ since = NothingSince
      /\ \A d \in changing : d \in Readable(view) /\ Listing(view, d) = target[d]

(* No cluster belongs to two entries, and the root belongs to none; only     *)
(* while a move between directories runs do both its entries have the chain. *)
OneOwner ==
    LET owners == Owners(view)
        owned == [o \in owners |-> Owned(view, o)]
    IN  result # "moving" =>
          \A o \in owners :
            /\ Root \notin owned[o]
            /\ \A p \in owners \ {o} : owned[o] \cap owned[p] = {}

(* The table in memory never shows a cluster free that an entry owns, so no  *)
(* later call takes it.                                                      *)
LiveNotFree ==
    \A o \in Owners(view) : \A c \in Owned(view, o) : fat[c] # FREE

(* Clusters are accounted for: one owner each, and none free in memory that  *)
(* an entry owns (allocate_chain, release_chain, commit_primary).            *)
ClustersOwned == TypeOK /\ OneOwner /\ LiveNotFree
=============================================================================
