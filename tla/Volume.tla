------------------------------- MODULE Volume -------------------------------
(***************************************************************************)
(* The life of a volume: format, mount, unmount, sync and power-off of the *)
(* command interface (cui/fs_commands.c, formatter.c, mount.c, superblock.c,*)
(* validator.c, vfs/mount.c, vfs/unmount.c, power.c, runtime.c) around the *)
(* block cache.  Format and probe talk to the device directly; the file    *)
(* service and the FAT that a mount loads go through the cache.            *)
(*                                                                         *)
(* The volume has its two superblocks, a FAT of two sectors and a root     *)
(* directory of one, with at most one file, whose chain needs both sectors *)
(* of the FAT.  The cache keeps its promises (BlockCache): a barrier       *)
(* writes all dirty sectors and flushes, or fails and leaves them dirty    *)
(* with any of them written.  A command is the list of steps it has left.  *)
(***************************************************************************)
EXTENDS Integers, Sequences

CONSTANTS MaxSerial,        \* stands for UINT32_MAX
          MaxFaults         \* bound: requests that fail, power losses

ASSUME VolumeAssumption == MaxSerial \in Nat \ {0, 1} /\ MaxFaults \in Nat

Serial == 0 .. MaxSerial - 1
Superblocks == {"primary", "backup"}
FatSectors == {"fat1", "fat2"}
Sector == Superblocks \cup FatSectors \cup {"root"}

Zero == 0                   \* a sector of zeros, or no valid superblock
Fresh == 1                  \* the first sector of a FAT with only the root in use
Used == 2                   \* a FAT sector with the file's clusters in use
Names == 3                  \* a directory sector that names the file

(* The images whose sectors come from the given sets, and what each sector *)
(* may hold.                                                               *)
ImagesOf(sets) ==
    [primary : sets["primary"], backup : sets["backup"],
     fat1 : sets["fat1"], fat2 : sets["fat2"], root : sets["root"]]

Content == [primary |-> Serial, backup |-> Serial,
            fat1 |-> {Zero, Fresh, Used}, fat2 |-> {Zero, Used}, root |-> {Zero, Names}]

(* An image of some sectors, or of one, written over that of a disk.       *)
Over(image, disk) == [s \in Sector |-> IF s \in DOMAIN image THEN image[s] ELSE disk[s]]
Only(s, bytes) == [x \in {s} |-> bytes]

VARIABLES view,         \* what the device answers
          may,          \* what each sector may hold after a power loss
          cache,        \* the sectors cached
          attached,     \* state->sync.cache != NULL
          root,         \* registry->root != NULL
          mount,        \* state->filesystem, the one struct ios_fs_mount
          serial,       \* next_volume_serial
          plan,         \* the steps the command has left
          phase,        \* boot, running, or stopped by a failed boot
          power,        \* controller->state
          faults,       \* faults so far
          incomplete,   \* ghost: a format was begun and has not succeeded since
          mountFailed   \* ghost: a mount failed after it was attached

kernel == <<cache, attached, root, mount, serial, phase, power>>
ghosts == <<incomplete, mountFailed>>
device == <<view, may>>
vars == <<device, kernel, plan, faults, ghosts>>

-----------------------------------------------------------------------------
Absent == [state |-> "EMPTY", bytes |-> Zero]
Cached(st, v) == [state |-> st, bytes |-> v]
EmptyCache == [s \in Sector |-> Absent]

Dirty == {s \in Sector : cache[s].state = "DIRTY"}

(* A sector as it is read through the cache.                               *)
View == [s \in Sector |-> IF cache[s].state = "EMPTY" THEN view[s] ELSE cache[s].bytes]

(* memset(mount, 0), and what ios_fs_mount_report_set leaves.              *)
Unmounted(state, serial_number) ==
    [mounted |-> FALSE, state |-> state, superblock |-> serial_number, ready |-> FALSE]

Blank == [s \in Sector |-> Zero]
Formatted(n) == [s \in Sector |-> IF s \in Superblocks THEN n
                                  ELSE IF s = "fat1" THEN Fresh ELSE Zero]
WithFile == [s \in FatSectors \cup {"root"} |-> IF s = "root" THEN Names ELSE Used]

(* A blank disk, or a volume with or without its file, one of whose        *)
(* superblocks may have been damaged.                                      *)
Init ==
    /\ view \in {Blank} \cup {Over(damage, volume) :
                    damage \in {<<>>, Only("primary", Zero), Only("backup", Zero)},
                    volume \in {Formatted(1), Over(WithFile, Formatted(1))}}
    /\ may = [s \in Sector |-> {view[s]}]
    /\ cache = EmptyCache /\ attached = TRUE /\ root = FALSE
    /\ mount = Unmounted("REJECTED", 0) /\ serial = 1
    /\ plan = <<>> /\ phase = "boot" /\ power = "READY"
    /\ mountFailed = FALSE
    /\ incomplete = FALSE
    /\ faults = 0

(* Something fails, as long as the bound allows.                           *)
Fault == faults < MaxFaults /\ faults' = faults + 1

Idle == phase = "running" /\ power = "READY" /\ plan = <<>>
Running(op) == plan # <<>> /\ plan[1].op = op

-----------------------------------------------------------------------------
(* Device requests.                                                        *)

MayAlso(image) ==
    [s \in Sector |-> may[s] \cup (IF s \in DOMAIN image THEN {image[s]} ELSE {})]

block_device_write ==
    /\ Running("write")
    /\ view' = Over(plan[1].image, view)
    /\ may' = MayAlso(plan[1].image)
    /\ plan' = Tail(plan)
    /\ UNCHANGED <<kernel, ghosts, faults>>

(* A failed request of several sectors may have written any of them.       *)
block_device_write_fails ==
    /\ Fault
    /\ Running("write")
    /\ \E written \in SUBSET DOMAIN plan[1].image :
         view' = Over([s \in written |-> plan[1].image[s]], view)
    /\ may' = MayAlso(plan[1].image)
    /\ plan' = <<>>
    /\ UNCHANGED <<kernel, ghosts>>

block_device_flush ==
    /\ Running("flush")
    /\ may' = [s \in Sector |-> {view[s]}]
    /\ plan' = Tail(plan)
    /\ incomplete' = (incomplete /\ plan[1].command # "format")
    /\ UNCHANGED <<view, kernel, mountFailed, faults>>

block_device_flush_fails ==
    /\ Fault
    /\ Running("flush")
    /\ view' \in ImagesOf(may)
    /\ plan' = <<>>
    /\ UNCHANGED <<may, kernel, ghosts>>

Write(image) == [op |-> "write", image |-> image]
Flush(command) == [op |-> "flush", command |-> command]

-----------------------------------------------------------------------------
(* ios_fs_format: zero everything behind the superblocks, write the first  *)
(* FAT sector, the backup and the primary superblock, and flush once.      *)
FormatSteps(n) ==
    << Write([s \in FatSectors |-> Zero]), Write(Only("root", Zero)),
       Write(Only("fat1", Fresh)), Write(Only("backup", n)), Write(Only("primary", n)),
       Flush("format") >>

(* Faulty: the mount is not looked at.                                     *)
format_command_mounted ==
    /\ Idle /\ serial < MaxSerial
    /\ plan' = FormatSteps(serial)
    /\ serial' = serial + 1
    /\ incomplete' = TRUE
    /\ UNCHANGED <<device, cache, attached, root, mount, phase, power, mountFailed, faults>>

format_command ==
    /\ Idle /\ ~root /\ serial < MaxSerial
    /\ plan' = FormatSteps(serial)
    /\ serial' = serial + 1
    /\ incomplete' = TRUE
    /\ UNCHANGED <<device, cache, attached, root, mount, phase, power, mountFailed, faults>>

-----------------------------------------------------------------------------
(* Mounting, by the command or at boot.                                    *)

(* ios_fs_validate_root_chain: reserved entries and the root's own.        *)
ios_fs_validate_root_chain == view["fat1"] # Zero

(* The state ios_fs_mount_probe reports.                                   *)
Classified ==
    IF ~ios_fs_validate_root_chain \/ \A s \in Superblocks : view[s] = Zero THEN "REJECTED"
    ELSE IF view["primary"] = view["backup"] THEN "RW" ELSE "DIAGNOSTIC"

Trusted == IF view["primary"] # Zero THEN view["primary"] ELSE view["backup"]

Load(s) == [op |-> "load", sector |-> s]
SetReady == [op |-> "ready"]
LoadSteps == << Load("fat1"), Load("fat2"), SetReady >>

MayMount == Idle \/ (phase = "boot" /\ plan = <<>>)

(* ios_fs_mount_probe clears the mount, whatever it was, and reports;      *)
(* vfs_mount_root attaches it unless there is a root already; then         *)
(* runtime_mount_ready begins.                                             *)
ios_fs_mount_root ==
    /\ MayMount
    /\ IF Classified = "REJECTED" \/ root
       THEN /\ mount' = Unmounted(Classified, IF Classified = "REJECTED" THEN 0 ELSE Trusted)
            /\ phase' = "running"
            /\ UNCHANGED <<root, attached, plan>>
       ELSE /\ mount' = [Unmounted(Classified, Trusted) EXCEPT !.mounted = TRUE]
            /\ root' = TRUE
            /\ attached' = TRUE
            /\ plan' = LoadSteps
            /\ UNCHANGED phase
    /\ UNCHANGED <<device, cache, serial, power, ghosts, faults>>

(* A read of the probe fails, after the mount has been cleared.            *)
ios_fs_mount_probe_fails ==
    /\ Fault
    /\ MayMount
    /\ mount' = Unmounted("REJECTED", 0)
    /\ phase' = "running"
    /\ UNCHANGED <<device, cache, attached, root, serial, plan, power, ghosts>>

(* load_fat: each sector of the FAT through the cache.                     *)
load_fat ==
    /\ Running("load")
    /\ LET s == plan[1].sector
       IN  cache' = IF cache[s].state = "EMPTY"
                    THEN [cache EXCEPT ![s] = Cached("CLEAN", view[s])] ELSE cache
    /\ plan' = Tail(plan)
    /\ UNCHANGED <<device, attached, root, mount, serial, phase, power, ghosts, faults>>

(* mount_ready fails: mount_command takes the root back, with neither a    *)
(* barrier nor an invalidation, which are not configured yet.  At boot the *)
(* runtime does not come up.                                               *)
ReadyFails ==
    /\ plan' = <<>>
    /\ mountFailed' = TRUE
    /\ IF phase = "boot"
       THEN phase' = "stopped" /\ UNCHANGED <<root, mount>>
       ELSE root' = FALSE /\ mount' = [mount EXCEPT !.mounted = FALSE] /\ UNCHANGED phase
    /\ UNCHANGED <<device, cache, attached, serial, power, incomplete>>

(* There is no memory for the FAT, or a sector of it cannot be read.       *)
load_fat_fails ==
    /\ Fault
    /\ Running("load")
    /\ plan[1].sector = "fat1" \/ cache[plan[1].sector].state = "EMPTY"
    /\ ReadyFails

(* The reserved entries are looked at again, as they were loaded; then the *)
(* unmount operations are configured and paths may be used.                *)
runtime_mount_ready ==
    /\ Running("ready")
    /\ IF View["fat1"] = Zero THEN ReadyFails
       ELSE /\ mount' = [mount EXCEPT !.ready = TRUE]
            /\ phase' = "running"
            /\ plan' = Tail(plan)
            /\ UNCHANGED <<device, cache, attached, root, serial, power, ghosts>>
    /\ UNCHANGED faults

-----------------------------------------------------------------------------
(* The file service, as far as the volume's life depends on it.            *)

(* validate_context and vfs_mount_begin_operation.                         *)
vfs_mount_begin_operation == Idle /\ mount.mounted /\ mount.ready /\ attached

Put(image) == [op |-> "put", image |-> image]
Barrier == [op |-> "barrier"]

(* The FAT with the file's chain, and with the root's own only.            *)
Chain == [s \in FatSectors |-> Used]
NoChain == [s \in FatSectors |-> IF s = "fat1" THEN Fresh ELSE Zero]

(* A file is saved: its chain is durable before its name is.               *)
vfs_create_file ==
    /\ vfs_mount_begin_operation /\ mount.state = "RW"
    /\ View["root"] = Zero
    /\ plan' = << Put(Chain), Barrier, Put(Only("root", Names)), Barrier >>
    /\ UNCHANGED <<device, kernel, ghosts, faults>>

(* Faulty: the chain is released before the name is gone.                  *)
vfs_remove_object_released_first ==
    /\ vfs_mount_begin_operation /\ mount.state = "RW"
    /\ View["root"] = Names
    /\ plan' = << Put(NoChain), Barrier, Put(Only("root", Zero)), Barrier >>
    /\ UNCHANGED <<device, kernel, ghosts, faults>>

vfs_remove_object ==
    /\ vfs_mount_begin_operation /\ mount.state = "RW"
    /\ View["root"] = Names
    /\ plan' = << Put(Only("root", Zero)), Barrier, Put(NoChain), Barrier >>
    /\ UNCHANGED <<device, kernel, ghosts, faults>>

(* The cache with the sectors of an image accepted and not yet written.    *)
Accepted(image) == [s \in Sector |-> IF s \in DOMAIN image THEN Cached("DIRTY", image[s]) ELSE cache[s]]

ios_fs_sync_write_sector ==
    /\ Running("put")
    /\ cache' = Accepted(plan[1].image)
    /\ plan' = Tail(plan)
    /\ UNCHANGED <<device, attached, root, mount, serial, phase, power, ghosts, faults>>

(* The cache refuses one of the writes.                                    *)
ios_fs_sync_write_refused ==
    /\ Fault
    /\ Running("put")
    /\ \E accepted \in (SUBSET DOMAIN plan[1].image) \ {DOMAIN plan[1].image} :
         cache' = Accepted([s \in accepted |-> plan[1].image[s]])
    /\ plan' = <<>>
    /\ UNCHANGED <<device, attached, root, mount, serial, phase, power, ghosts>>

(* A directory is listed: the root's sector is cached.                     *)
vfs_enumerate ==
    /\ vfs_mount_begin_operation
    /\ cache["root"].state = "EMPTY"
    /\ cache' = [cache EXCEPT !["root"] = Cached("CLEAN", view["root"])]
    /\ UNCHANGED <<device, attached, root, mount, serial, plan, phase, power, ghosts, faults>>

(* A clean entry is reused for some other sector of the volume.            *)
select_victim(s) ==
    /\ Idle /\ root
    /\ cache[s].state = "CLEAN"
    /\ cache' = [cache EXCEPT ![s] = Absent]
    /\ UNCHANGED <<device, attached, root, mount, serial, plan, phase, power, ghosts, faults>>

-----------------------------------------------------------------------------
(* ios_fs_sync_barrier: all dirty sectors and a flush, or a failure.       *)

DirtyImage == [s \in Dirty |-> cache[s].bytes]

BarrierSucceeds ==
    /\ attached
    /\ view' = Over(DirtyImage, view)
    /\ may' = [s \in Sector |-> {view'[s]}]

Cleaned == [s \in Sector |-> IF s \in Dirty THEN Cached("CLEAN", cache[s].bytes) ELSE cache[s]]

BarrierFails ==
    /\ attached
    /\ may' = MayAlso(DirtyImage)
    /\ view' \in ImagesOf(MayAlso(DirtyImage))

ios_fs_sync_barrier ==
    /\ Running("barrier")
    /\ BarrierSucceeds
    /\ cache' = Cleaned
    /\ plan' = Tail(plan)
    /\ UNCHANGED <<attached, root, mount, serial, phase, power, ghosts, faults>>

ios_fs_sync_barrier_fails ==
    /\ Fault
    /\ Running("barrier")
    /\ BarrierFails
    /\ plan' = <<>>
    /\ UNCHANGED <<kernel, ghosts>>

sync_command ==
    /\ Idle /\ attached
    /\ plan' = <<Barrier>>
    /\ UNCHANGED <<device, kernel, ghosts, faults>>

-----------------------------------------------------------------------------
(* unmount_command: flush the device, then vfs_unmount_root.               *)

Detach == [op |-> "detach"]

unmount_command ==
    /\ Idle /\ root
    /\ plan' = <<Flush("unmount"), Detach>>
    /\ UNCHANGED <<device, kernel, ghosts, faults>>

(* Faulty: the cache keeps its entries.                                    *)
vfs_unmount_root_cached ==
    /\ Running("detach") /\ mount.mounted
    /\ BarrierSucceeds
    /\ cache' = Cleaned /\ attached' = FALSE
    /\ mount' = [mount EXCEPT !.mounted = FALSE]
    /\ root' = FALSE
    /\ mountFailed' = FALSE
    /\ plan' = <<>>
    /\ UNCHANGED <<serial, phase, power, incomplete, faults>>

(* The barrier succeeds: the cache is emptied, the sync object and the     *)
(* registry let go.                                                        *)
vfs_unmount_root ==
    /\ Running("detach") /\ mount.mounted
    /\ BarrierSucceeds
    /\ cache' = EmptyCache /\ attached' = FALSE
    /\ mount' = [mount EXCEPT !.mounted = FALSE]
    /\ root' = FALSE
    /\ mountFailed' = FALSE
    /\ plan' = <<>>
    /\ UNCHANGED <<serial, phase, power, incomplete, faults>>

(* Faulty: the root is detached although the barrier failed.               *)
vfs_unmount_root_fails_detached ==
    /\ Fault
    /\ Running("detach") /\ mount.mounted
    /\ BarrierFails
    /\ cache' = EmptyCache /\ attached' = FALSE
    /\ mount' = [mount EXCEPT !.mounted = FALSE]
    /\ root' = FALSE
    /\ plan' = <<>>
    /\ UNCHANGED <<serial, phase, power, ghosts>>

(* The barrier fails: the mount is active again, with what it had.         *)
vfs_unmount_root_fails ==
    /\ Fault
    /\ Running("detach") /\ mount.mounted
    /\ BarrierFails
    /\ plan' = <<>>
    /\ UNCHANGED <<kernel, ghosts>>

(* The mount has been cleared under the registry: E_INVALID_STATE.         *)
vfs_unmount_root_refused ==
    /\ Running("detach") /\ ~mount.mounted
    /\ plan' = <<>>
    /\ UNCHANGED <<device, kernel, ghosts, faults>>

-----------------------------------------------------------------------------
(* ios_power_request: a barrier, then a flush of every device, then the    *)
(* transition; any failure makes the controller ready again.  A flush that *)
(* fails after a good barrier leaves what sync_command leaves.             *)

ios_power_request ==
    /\ Idle
    /\ BarrierSucceeds
    /\ cache' = Cleaned
    /\ power' = "TRANSITIONING"
    /\ UNCHANGED <<attached, root, mount, serial, plan, phase, ghosts, faults>>

ios_power_request_fails ==
    /\ Fault
    /\ Idle
    /\ BarrierFails
    /\ UNCHANGED <<kernel, plan, ghosts>>

ios_uefi_power_transition_fails ==
    /\ Fault
    /\ power = "TRANSITIONING"
    /\ power' = "READY"
    /\ UNCHANGED <<device, cache, attached, root, mount, serial, plan, phase, ghosts>>

(* The machine is reset, or power is lost at any moment.                   *)
Reset ==
    /\ IF power = "TRANSITIONING" THEN UNCHANGED faults ELSE Fault
    /\ \E v \in ImagesOf(may) : view' = v /\ may' = [s \in Sector |-> {v[s]}]
    /\ cache' = EmptyCache /\ attached' = TRUE /\ root' = FALSE
    /\ mount' = Unmounted("REJECTED", 0) /\ serial' = 1
    /\ plan' = <<>> /\ phase' = "boot" /\ power' = "READY"
    /\ mountFailed' = FALSE
    /\ UNCHANGED incomplete

-----------------------------------------------------------------------------
Next ==
    \/ block_device_write \/ block_device_write_fails
    \/ block_device_flush \/ block_device_flush_fails
    \/ format_command
    \/ ios_fs_mount_root \/ ios_fs_mount_probe_fails
    \/ load_fat \/ load_fat_fails
    \/ runtime_mount_ready
    \/ vfs_create_file \/ vfs_remove_object \/ vfs_enumerate
    \/ ios_fs_sync_write_sector \/ ios_fs_sync_write_refused
    \/ \E s \in Sector : select_victim(s)
    \/ ios_fs_sync_barrier \/ ios_fs_sync_barrier_fails \/ sync_command
    \/ unmount_command
    \/ vfs_unmount_root \/ vfs_unmount_root_fails \/ vfs_unmount_root_refused
    \/ ios_power_request \/ ios_power_request_fails \/ ios_uefi_power_transition_fails
    \/ Reset

Spec == Init /\ [][Next]_vars

-----------------------------------------------------------------------------
(* Properties.                                                             *)

(* The kernel's and the device's state is well formed; in particular the   *)
(* serial number given to a volume never runs past its limit.              *)
TypeOK ==
    /\ view \in ImagesOf(Content)
    /\ \A s \in Sector : may[s] \subseteq Content[s] /\ may[s] # {}
    /\ DOMAIN cache = Sector
    /\ \A s \in Sector : cache[s] = Absent
                      \/ cache[s] \in [state : {"CLEAN", "DIRTY"}, bytes : Content[s]]
    /\ attached \in BOOLEAN /\ root \in BOOLEAN
    /\ mount \in [mounted : BOOLEAN, state : {"RW", "DIAGNOSTIC", "REJECTED"},
                  superblock : Serial, ready : BOOLEAN]
    /\ serial \in 1 .. MaxSerial
    /\ phase \in {"boot", "running", "stopped"}
    /\ power \in {"READY", "TRANSITIONING"}
    /\ faults \in 0 .. MaxFaults
    /\ incomplete \in BOOLEAN /\ mountFailed \in BOOLEAN

(* Once nothing is mounted, by unmounting or after a format, everything is *)
(* durable and nothing waits in the cache, whatever failed on the way.     *)
UnmountedIsDurable ==
    ~root /\ ~incomplete => Dirty = {} /\ \A s \in Sector : may[s] = {view[s]}

(* A mounted volume keeps the superblocks it was admitted on: no command   *)
(* rewrites a volume that is in use.                                       *)
AdmittedVolumeStays ==
    mount.mounted /\ mount.state = "RW" /\ ~incomplete =>
        \A s \in Superblocks : view[s] = mount.superblock

(* Unless a format was cut short, a name that can be read, now or after a  *)
(* power loss, stands on clusters the FAT has in use.                      *)
NamesOnUsedClusters ==
    ~incomplete /\ (View["root"] = Names \/ Names \in may["root"]) =>
        \A s \in FatSectors : View[s] = Used /\ may[s] = {Used}

(* The device is written behind the cache only while the cache holds       *)
(* nothing of it: a clean entry agrees with the device.  A mount that      *)
(* failed half way leaves entries behind, which a format outdates.         *)
CacheMirrorsDevice ==
    ~incomplete /\ ~mountFailed =>
        \A s \in Sector : cache[s].state = "CLEAN" => cache[s].bytes = view[s]

(* The machine is switched off only with everything durable, and while no  *)
(* command is under way.                                                   *)
ShutdownLosesNothing ==
    power = "TRANSITIONING" =>
        /\ plan = <<>> /\ phase = "running"
        /\ Dirty = {}
        /\ \A s \in Sector : may[s] = {view[s]}

(* What is not in the cache is durable unless a format was cut short, and  *)
(* the superblocks are never cached.                                       *)
DeviceSettled ==
    /\ \A s \in Sector : view[s] \in may[s]
    /\ ~incomplete => \A s \in Sector \ Dirty : may[s] = {view[s]}
    /\ \A s \in Superblocks : cache[s] = Absent

(* Without a root nothing is mounted and nothing waits in the cache, which *)
(* is empty unless a mount failed half way.                                *)
CacheBelongsToRoot ==
    ~root => /\ ~mount.mounted
             /\ Dirty = {} /\ cache["root"] = Absent
             /\ ~mountFailed => \A s \in Sector : cache[s] = Absent

(* What each command relies on at each of its steps: a format empties the  *)
(* directory before it writes a superblock; a name is put only on a chain  *)
(* that is durable, and a chain is released only once the name is durably  *)
(* gone.                                                                   *)
Formatting(n) ==
    /\ incomplete /\ ~root
    /\ \/ plan = FormatSteps(n)
       \/ plan = << Write(Only("root", Zero)), Write(Only("fat1", Fresh)),
                    Write(Only("backup", n)), Write(Only("primary", n)), Flush("format") >>
       \/ /\ view["root"] = Zero
          /\ \/ plan = << Write(Only("fat1", Fresh)), Write(Only("backup", n)),
                          Write(Only("primary", n)), Flush("format") >>
             \/ plan = << Write(Only("backup", n)), Write(Only("primary", n)), Flush("format") >>
             \/ plan = << Write(Only("primary", n)), Flush("format") >>
             \/ plan = << Flush("format") >>

Loading ==
    /\ root /\ Dirty = {} /\ cache["root"] = Absent
    /\ \/ plan = LoadSteps
       \/ plan = << Load("fat2"), SetReady >>
       \/ plan = << SetReady >>

Saving ==
    /\ root
    /\ \/ plan = << Put(Chain), Barrier, Put(Only("root", Names)), Barrier >>
       \/ /\ plan = << Barrier, Put(Only("root", Names)), Barrier >>
          /\ \A s \in FatSectors : cache[s] = Cached("DIRTY", Used)
       \/ /\ plan = << Put(Only("root", Names)), Barrier >>
          /\ \A s \in FatSectors : View[s] = Used /\ may[s] = {Used}

Removing ==
    /\ root
    /\ \/ plan = << Put(Only("root", Zero)), Barrier, Put(NoChain), Barrier >>
       \/ /\ plan = << Barrier, Put(NoChain), Barrier >>
          /\ cache["root"] = Cached("DIRTY", Zero)
       \/ /\ plan = << Put(NoChain), Barrier >>
          /\ View["root"] = Zero /\ may["root"] = {Zero}

CommandsOrdered ==
    \/ plan = <<>>
    \/ \E n \in Serial : Formatting(n)
    \/ Loading \/ Saving \/ Removing
    \/ plan = << Barrier >>
    \/ plan = << Flush("unmount"), Detach >>
    \/ plan = << Detach >>

(* What the user was told is durable is, after an unmount and before the   *)
(* power is switched off (vfs_unmount, ios_power_request), and every       *)
(* command has made durable what its next step relies on.                  *)
NothingLost ==
    /\ TypeOK
    /\ UnmountedIsDurable
    /\ ShutdownLosesNothing
    /\ DeviceSettled
    /\ CacheBelongsToRoot
    /\ CommandsOrdered
=============================================================================
