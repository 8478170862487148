------------------------------ MODULE StorVsc ------------------------------
(***************************************************************************)
(* The Hyper-V storage driver (drivers/hyperv/storvsc.c over vmbus.c and    *)
(* ring.c) and the search for the data disk that uses it                    *)
(* (block/platform_hyperv.c, block/disk_safety.c): protocol negotiation,    *)
(* then LUN after LUN probed and classified until one is blank or carries   *)
(* the file system, which is published as the block device.                 *)
(*                                                                          *)
(* One request is a packet in the outbound ring, its data in the driver's   *)
(* only bounce buffer.  The host (external) takes the packets in any order, *)
(* moves the data at that moment and answers each once, or never; it may    *)
(* also send a packet of its own.  The driver spins for the answer;         *)
(* spin_limit empty looks are a time-out.                                   *)
(*                                                                          *)
(* Three things let the driver go on while a packet it knows nothing of is  *)
(* still in a ring: a channel write that fails in its signal hypercall,     *)
(* after the packet has been written; a time-out during the search; and a   *)
(* packet the host was not asked for.  `lapses' counts them.                *)
(***************************************************************************)
EXTENDS Integers, Sequences, FiniteSets

CONSTANTS MaxLun,           \* HYPERV_MAX_LUN
          Machines,         \* the disks there may be: per LUN <<>> or sector contents
          Requested,        \* the calls the layers above make
          NoValue,
          MaxCalls,         \* bound: calls of the published device
          MaxLapses         \* bound: lapses

Lun == 0 .. MaxLun
Sector == 0 .. 4
Probe == 2                  \* DISK_PROBE_SECTORS: the middle is in neither region
LastProbe == 3              \* sector_count - probe_sectors
Reply == {"inquiry", "capacity", "capacity16"}
Value == {"zero", "superblock", "partitions", "data"} \cup Reply
Versions == 3               \* IOS_ARRAY_COUNT(versions)

VARIABLES stage,            \* where initialisation stands; "ready", "none"
          version,          \* the protocol version being asked for
          lun, first_probe, \* driver->lun; probed by storvsc_initialize itself
          ready,            \* driver->ready
          start_zero,       \* of block_classify_data_disk
          transaction,      \* driver->next_transaction_id
          waiting,          \* expected_transaction, 0 outside wait_completion
          outbound,         \* requests the host has not taken
          inbound,          \* completions the driver has not taken
          bounce,           \* driver->bounce, by sector-sized slots
          disk, media,      \* per LUN: what reads return, what is durable
          original,         \* the disks at boot
          calls, lapses,    \* calls so far, and requests lost track of
          call, answer      \* of the published block device

search == <<stage, version, lun, first_probe, ready, start_zero>>
channel == <<transaction, waiting, outbound, inbound>>
platter == <<disk, media, original>>
device == <<call, answer>>
(* The block device as the layers above see it: a sector holds what its disk *)
(* holds or what a write that may still be carried out would put there.      *)
StorMay ==
    [s \in Sector |->
       IF stage # "ready" THEN {}
       ELSE {disk[lun][s]} \cup
              {p.request.value : p \in {p \in outbound : /\ p.request.op = "write"
                                                         /\ p.request.first = s
                                                         /\ p.request.lun = lun}}]
StorStable == [s \in Sector |-> IF stage = "ready" THEN media[lun][s] ELSE NoValue]

INSTANCE BlockDevice WITH attached <- stage = "ready", may <- StorMay, stable <- StorStable,
                          kept <- lapses = 0

(* What BlockPlatform assumes of the constants.                              *)
StorVscAssumption ==
    /\ MaxLun \in Nat /\ MaxCalls \in Nat
    /\ Machines \subseteq [Lun -> [Sector -> Value] \cup {<<>>}]
    /\ Requested \subseteq Call
    /\ MaxLapses \in Nat
    /\ NoValue \notin Value

Present(l) == disk[l] # <<>>
Unread == [i \in 0 .. Probe - 1 |-> "zero"]

(* A disk the platform hands out: an InferenceOS-FS volume with its two      *)
(* superblocks, or one whose first and last sectors are zero, whatever is    *)
(* between them.                                                             *)
Eligible(contents) ==
    \/ contents[0] = "superblock" /\ contents[1] = "superblock"
    \/ \A i \in 0 .. Probe - 1 : contents[i] = "zero" /\ contents[LastProbe + i] = "zero"

-----------------------------------------------------------------------------
(* Requests.                                                                 *)

Scsi(op, first, count, value) ==
    [op |-> op, lun |-> lun, first |-> first, count |-> count, value |-> value]
Inband == Scsi("inband", 0, 0, NoValue)

(* The request each stage of the initialisation makes.                       *)
StageRequest ==
    CASE stage \in Reply -> Scsi(stage, 0, 0, NoValue)
      [] stage = "first" -> Scsi("read", 0, 2, NoValue)
      [] stage = "entries" -> Scsi("read", 2, 1, NoValue)
      [] stage = "start" -> Scsi("read", 0, Probe, NoValue)
      [] stage = "end" -> Scsi("read", LastProbe, Probe, NoValue)
      [] OTHER -> Inband

(* probe_disk clears the bounce buffer; storage_transfer fills it to write.  *)
Filled(request) ==
    CASE request.op = "inquiry" -> Unread
      [] request.op = "write" -> [bounce EXCEPT ![0] = request.value]
      [] OTHER -> bounce

(* vmbus_channel_write and _gpa_direct end in one of three ways: the packet  *)
(* is in the ring and the driver waits for its completion; the ring is full  *)
(* or its indices are bad and nothing is written; or the packet is in the    *)
(* ring and the hypercall that signals the host fails.                       *)
execute_scsi(request, outcome) ==
    /\ outcome = "stranded" => lapses < MaxLapses
    /\ bounce' = Filled(request)
    /\ transaction' = transaction + 1
    /\ outbound' = IF outcome = "refused" THEN outbound
                   ELSE outbound \cup {[id |-> transaction, request |-> request]}
    /\ waiting' = IF outcome = "sent" THEN transaction ELSE 0
    /\ lapses' = IF outcome = "stranded" THEN lapses + 1 ELSE lapses
    /\ UNCHANGED <<inbound, platter>>

-----------------------------------------------------------------------------
(* The search, from the return of one request to the next.                   *)

Goto(next) == stage' = next /\ UNCHANGED <<version, lun, first_probe, ready, start_zero>>

(* storvsc_select_lun *)
Select(l) == lun' = l /\ stage' = "inquiry" /\ ready' = FALSE /\ UNCHANGED <<version, start_zero>>

(* The loop of block_hyperv_initialize_primary goes on; LUN 0 is probed      *)
(* again if storvsc_initialize's own probe of it failed.                     *)
NextLun ==
    /\ first_probe' = FALSE
    /\ IF first_probe /\ stage \in Reply THEN Select(0)
       ELSE IF lun < MaxLun THEN Select(lun + 1)
       ELSE stage' = "none" /\ UNCHANGED <<version, lun, ready, start_zero>>

Publish == Goto("ready")

(* negotiate_protocol *)
Negotiated(ok) ==
    CASE stage = "begin" -> Goto(IF ok THEN "version" ELSE "none")
      [] stage = "version" ->
           IF ok THEN Goto("properties")
           ELSE IF version < Versions
                THEN version' = version + 1 /\ UNCHANGED <<stage, lun, first_probe, ready, start_zero>>
           ELSE Goto("none")
      [] stage = "properties" -> IF ok THEN Goto("finish") ELSE Select(0) /\ first_probe' = FALSE
      [] stage = "finish" -> Select(0) /\ first_probe' = ok

(* probe_disk: what INQUIRY and READ CAPACITY may find in the bounce buffer. *)
Inquired(ok) ==
    \/ /\ ok /\ bounce[0] \in {"inquiry", "zero", "data"}
       /\ Goto("capacity")
    \/ /\ ~ok \/ bounce[0] \notin {"inquiry", "zero"}
       /\ NextLun

Candidate == stage' = "first" /\ ready' = TRUE /\ UNCHANGED <<version, lun, first_probe, start_zero>>

Measured(ok) ==
    \/ ok /\ bounce[0] = "capacity" /\ Candidate
    \/ ok /\ bounce[0] = "capacity" /\ Goto("capacity16")
    \/ (~ok \/ bounce[0] # "capacity") /\ NextLun

Measured16(ok) == IF ok /\ bounce[0] = "capacity16" THEN Candidate ELSE NextLun

(* Faulty: one superblock of the two is enough.                              *)
block_classify_data_disk_one_superblock(ok) ==
    IF ok /\ stage = "first" /\ bounce[0] = "superblock" THEN Publish
    ELSE IF ok /\ stage = "start" THEN Goto("end")
    ELSE NextLun

(* block_classify_data_disk, with classify_gpt and probe_zero_region.        *)
block_classify_data_disk(ok) ==
    IF ~ok THEN NextLun
    ELSE CASE stage = "first" ->
                IF bounce[0] = "superblock" /\ bounce[1] = "superblock" THEN Publish
                ELSE IF bounce[1] = "partitions" THEN Goto("entries") \/ NextLun
                ELSE IF bounce[0] = "partitions" THEN NextLun
                ELSE Goto("start")
           [] stage = "entries" -> NextLun
           [] stage = "start" ->
                /\ stage' = "end"
                /\ start_zero' = \A i \in 0 .. Probe - 1 : bounce[i] = "zero"
                /\ UNCHANGED <<version, lun, first_probe, ready>>
           [] stage = "end" ->
                IF start_zero /\ \A i \in 0 .. Probe - 1 : bounce[i] = "zero"
                THEN Publish ELSE NextLun

(* What the initialisation does with the return of its request.              *)
Resume(ok) ==
    CASE stage \in {"begin", "version", "properties", "finish"} -> Negotiated(ok)
      [] stage = "inquiry" -> Inquired(ok)
      [] stage = "capacity" -> Measured(ok)
      [] stage = "capacity16" -> Measured16(ok)
      [] OTHER -> block_classify_data_disk(ok)

(* The published device's call returns; a read is copied out of the buffer.  *)
Return(ok) ==
    /\ call' = NoCall
    /\ answer' = IF ~ok THEN Error
                 ELSE Ok(IF call.op = "read" THEN bounce[0] ELSE NoValue)

Returned(ok) ==
    IF stage = "ready" THEN Return(ok) /\ UNCHANGED search
    ELSE Resume(ok) /\ UNCHANGED device

Searching == stage \notin {"ready", "none"}

block_hyperv_initialize_primary ==
    /\ Searching /\ waiting = 0
    /\ execute_scsi(StageRequest, "sent")
    /\ UNCHANGED <<search, calls, device>>

block_hyperv_initialize_unsent ==
    /\ Searching /\ waiting = 0
    /\ \E outcome \in {"refused", "stranded"} : execute_scsi(StageRequest, outcome)
    /\ Resume(FALSE)
    /\ UNCHANGED <<calls, device>>

-----------------------------------------------------------------------------
(* The block device's operations.                                            *)

CallRequest(c) ==
    IF c.op = "flush" THEN Scsi("flush", 0, 0, NoValue) ELSE Scsi(c.op, c.sector, 1, c.value)

Callable == stage = "ready" /\ call = NoCall /\ calls < MaxCalls

storage_transfer ==
    /\ Callable /\ ready
    /\ calls' = calls + 1
    /\ \E c \in Requested :
         /\ execute_scsi(CallRequest(c), "sent")
         /\ call' = c
    /\ answer' = NoAnswer
    /\ UNCHANGED search

(* The channel write fails and so does the call; the driver stays ready.     *)
storage_transfer_unsent ==
    /\ Callable /\ ready
    /\ calls' = calls + 1
    /\ \E c \in Requested, outcome \in {"refused", "stranded"} :
         execute_scsi(CallRequest(c), outcome)
    /\ answer' = Error
    /\ UNCHANGED <<search, call>>

storage_transfer_refused ==
    /\ Callable /\ ~ready
    /\ calls' = calls + 1
    /\ answer' = Error
    /\ UNCHANGED <<search, channel, bounce, platter, call, lapses>>

(* Faulty: the status of the completion is not looked at.                    *)
wait_completion_unchecked ==
    /\ waiting # 0 /\ inbound # <<>>
    /\ waiting' = 0
    /\ inbound' = Tail(inbound)
    /\ Returned(Head(inbound).id = waiting)
    /\ UNCHANGED <<transaction, outbound, bounce, platter, calls, lapses>>

(* wait_completion: a packet that is not the completion of the request is an *)
(* error, and so is a failed one; either way the driver stays ready.         *)
wait_completion ==
    /\ waiting # 0 /\ inbound # <<>>
    /\ waiting' = 0
    /\ inbound' = Tail(inbound)
    /\ Returned(Head(inbound).id = waiting /\ Head(inbound).ok)
    /\ UNCHANGED <<transaction, outbound, bounce, platter, calls, lapses>>

(* Faulty: the driver stays ready after a time-out.                          *)
Freeze_ready == UNCHANGED search

Freeze == ready' = FALSE /\ UNCHANGED <<stage, version, lun, first_probe, start_zero>>

wait_completion_timeout ==
    /\ waiting # 0 /\ inbound = <<>>
    /\ waiting' = 0
    /\ \/ stage = "ready" /\ Return(FALSE) /\ Freeze /\ UNCHANGED lapses
       \/ /\ stage # "ready" /\ lapses < MaxLapses
          /\ lapses' = lapses + 1
          /\ Resume(FALSE) /\ UNCHANGED device
    /\ UNCHANGED <<transaction, outbound, inbound, bounce, platter, calls>>

-----------------------------------------------------------------------------
(* The host (external).                                                      *)

(* Its data moves as the request is carried out.                             *)
HostMoves(r) ==
    CASE r.op \in Reply -> bounce' = [bounce EXCEPT ![0] = r.op] /\ UNCHANGED platter
      [] r.op = "read" ->
           /\ bounce' = [i \in DOMAIN bounce |->
                           IF i < r.count THEN disk[r.lun][r.first + i] ELSE bounce[i]]
           /\ UNCHANGED platter
      [] r.op = "write" ->
           disk' = [disk EXCEPT ![r.lun][r.first] = bounce[0]] /\ UNCHANGED <<bounce, media, original>>
      [] r.op = "flush" ->
           media' = [media EXCEPT ![r.lun] = disk[r.lun]] /\ UNCHANGED <<bounce, disk, original>>
      [] OTHER -> UNCHANGED <<bounce, platter>>

HostAnswers(packet, ok) ==
    /\ outbound' = outbound \ {packet}
    /\ inbound' = Append(inbound, [id |-> packet.id, ok |-> ok])
    /\ UNCHANGED <<search, transaction, waiting, calls, lapses, device>>

HostPerforms(packet) ==
    /\ packet.request.op = "inband" \/ Present(packet.request.lun)
    /\ HostMoves(packet.request)
    /\ HostAnswers(packet, TRUE)

(* It reports an error, with or without having done the work.                *)
HostRejects(packet) ==
    /\ \/ UNCHANGED <<bounce, platter>>
       \/ Present(packet.request.lun) /\ packet.request.op = "write" /\ HostMoves(packet.request)
    /\ HostAnswers(packet, FALSE)

(* It sends a packet that completes no request, as when a disk is added.     *)
HostIntrudes ==
    /\ lapses < MaxLapses
    /\ lapses' = lapses + 1
    /\ inbound' = Append(inbound, [id |-> 0, ok |-> FALSE])
    /\ UNCHANGED <<search, transaction, waiting, outbound, bounce, platter, calls, device>>

-----------------------------------------------------------------------------
StorInit ==
    /\ stage = "begin" /\ version = 1
    /\ lun = 0 /\ first_probe = FALSE
    /\ ready = FALSE /\ start_zero = FALSE
    /\ transaction = 1 /\ waiting = 0
    /\ outbound = {} /\ inbound = <<>>
    /\ bounce = Unread
    /\ disk \in Machines
    /\ media = disk /\ original = disk
    /\ calls = 0 /\ lapses = 0
    /\ call = NoCall /\ answer = NoAnswer

StorDriver ==
    \/ block_hyperv_initialize_primary \/ block_hyperv_initialize_unsent
    \/ wait_completion \/ wait_completion_timeout

StorCalls == storage_transfer \/ storage_transfer_unsent \/ storage_transfer_refused

StorHost ==
    \/ \E packet \in outbound : HostPerforms(packet) \/ HostRejects(packet)
    \/ HostIntrudes

StorNext == StorDriver \/ StorCalls \/ StorHost

-----------------------------------------------------------------------------
(* What the driver's correctness rests on.                                   *)

Contents == [Sector -> Value]
Request == {r \in [op : {"inband", "read", "write", "flush"} \cup Reply, lun : Lun,
                   first : Sector, count : 0 .. Probe, value : Value \cup {NoValue}] :
              r.first + r.count \in 0 .. LastProbe + Probe}

StorTypeOK ==
    /\ stage \in {"begin", "version", "properties", "finish", "inquiry", "capacity",
                  "capacity16", "first", "entries", "start", "end", "ready", "none"}
    /\ version \in 1 .. Versions
    /\ lun \in Lun
    /\ first_probe \in BOOLEAN /\ ready \in BOOLEAN /\ start_zero \in BOOLEAN
    /\ transaction \in Nat \ {0} /\ waiting \in 0 .. transaction - 1
    /\ outbound \subseteq [id : Nat \ {0}, request : Request]
    /\ inbound \in Seq([id : Nat, ok : BOOLEAN])
    /\ bounce \in [0 .. Probe - 1 -> Value]
    /\ disk \in [Lun -> Contents \cup {<<>>}] /\ media \in [Lun -> Contents \cup {<<>>}]
    /\ original \in [Lun -> Contents \cup {<<>>}]

(* The request the driver is waiting for.                                    *)
Current == IF stage = "ready" THEN CallRequest(call) ELSE StageRequest

(* A request reported done has found its disk and has had its effect, and    *)
(* nothing has disturbed that since.                                         *)
Carried ==
    /\ stage \notin {"begin", "version", "properties", "finish"} => Present(lun)
    /\ stage \in {"first", "start"} => \A i \in 0 .. Probe - 1 : bounce[i] = disk[lun][i]
    /\ stage = "end" => \A i \in 0 .. Probe - 1 : bounce[i] = disk[lun][LastProbe + i]
    /\ stage = "ready" /\ call.op = "read" => bounce[0] = disk[lun][call.sector]
    /\ stage = "ready" /\ call.op = "write" => disk[lun][call.sector] = call.value
    /\ stage = "ready" /\ call.op = "flush" => media[lun] = disk[lun]

(* The rings are empty, or hold the request that is waited for or its        *)
(* completion, or what a time-out has left behind; in the last case the      *)
(* driver is not ready any more.                                             *)
RingsIdle == waiting = 0 /\ outbound = {} /\ inbound = <<>>
InFlight ==
    /\ waiting # 0 /\ inbound = <<>>
    /\ outbound = {[id |-> waiting, request |-> Current]}
    /\ Current.op = "write" => bounce[0] = Current.value
Done ==
    /\ waiting # 0 /\ outbound = {}
    /\ \E ok \in BOOLEAN : inbound = <<[id |-> waiting, ok |-> ok]>> /\ (ok => Carried)
Abandoned ==
    /\ stage = "ready" /\ ~ready /\ waiting = 0
    /\ \/ outbound = {} /\ Len(inbound) = 1
       \/ /\ inbound = <<>>
          /\ \E p \in outbound : /\ outbound = {p}
                                /\ \E c \in Call : /\ p.request = CallRequest(c)
                                                   /\ c.op = "write" => bounce[0] = c.value

OneExchange == RingsIdle \/ InFlight \/ Done \/ Abandoned

(* Only the published device is called, and a call lasts as long as its      *)
(* request is waited for.                                                    *)
CallIsExchange ==
    /\ stage = "ready" => (call # NoCall <=> waiting # 0)
    /\ stage # "ready" => call = NoCall /\ answer = NoAnswer
    /\ stage = "none" => waiting = 0

(* Whatever has been lost track of, no disk but the published one changes.   *)
OthersUntouched ==
    \A l \in Lun : stage # "ready" \/ l # lun => disk[l] = original[l] /\ media[l] = original[l]

(* What the classification has found of the disk in front of it so far, and  *)
(* what it has concluded.                                                    *)
SearchSound ==
    /\ stage = "end" /\ start_zero => \A i \in 0 .. Probe - 1 : original[lun][i] = "zero"
    /\ stage = "ready" => /\ Present(lun) /\ media[lun] # <<>> /\ original[lun] # <<>>
                          /\ Eligible(original[lun])
=============================================================================
