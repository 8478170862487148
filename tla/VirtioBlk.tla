----------------------------- MODULE VirtioBlk -----------------------------
(***************************************************************************)
(* The virtio block driver (drivers/virtio_blk/virtio_blk.c over its PCI    *)
(* transport, transport_pci.c): a table of request slots, each with its     *)
(* descriptors in the one virtqueue.  A call takes a free slot, publishes   *)
(* it and polls until the device has used it or the spins run out.          *)
(*                                                                          *)
(* The device (external) carries published requests out in any order, and   *)
(* each at most once; it may also ask for a reset, return a descriptor that *)
(* heads no request, or return the descriptor of a slot out of turn.  The   *)
(* last leaves the driver with requests it has lost track of; `lapses'      *)
(* counts it.                                                               *)
(***************************************************************************)
EXTENDS Integers, Sequences, FiniteSets

CONSTANTS QueueCapacity,    \* IOS_VIRTIO_BLK_PCI_REQUEST_LIMIT
          Sector, Value,
          Images,           \* the disks there may be: sector contents
          Requested,        \* the calls the layers above make
          NoValue,
          MaxCalls,         \* bound: calls
          MaxLapses         \* bound: lapses

Slot == 1 .. QueueCapacity
NoSlot == 0
Bogus == QueueCapacity + 1  \* a descriptor that heads no request

VARIABLES vstage,           \* where virtio_blk_initialize stands; "ready", "none"
          requests,         \* device->requests: state and result
          waiting_slot,     \* the request wait_for_request polls
          statuses,         \* per slot, what the device has written for it
          queued,           \* published descriptors the device has not used
          used,             \* the used ring from last_used_index on
          needs_reset,      \* DEVICE_NEEDS_RESET or FAILED in the device status
          status,           \* block_device->status
          vdisk, vmedia,    \* what reads return, what is durable
          calls, lapses,    \* calls so far, and descriptors out of turn
          call, answer      \* of the block device

queue == <<requests, waiting_slot, statuses, queued, used>>
medium == <<vdisk, vmedia>>
vdevice == <<call, answer>>
virtioVars == <<vstage, queue, needs_reset, status, medium, calls, lapses, vdevice>>

Published == vstage = "ready"

(* The block device as the layers above see it.                              *)
VirtioMay ==
    [s \in Sector |->
       IF ~Published THEN {}
       ELSE {vdisk[s]} \cup
              {p.call.value : p \in {p \in queued : p.call.op = "write" /\ p.call.sector = s}}]
VirtioStable == [s \in Sector |-> IF Published THEN vmedia[s] ELSE NoValue]

INSTANCE BlockDevice WITH attached <- Published, may <- VirtioMay, stable <- VirtioStable,
                          kept <- lapses = 0

(* What BlockPlatform assumes of the constants.                              *)
VirtioAssumption ==
    /\ QueueCapacity \in Nat \ {0} /\ MaxCalls \in Nat /\ MaxLapses \in Nat
    /\ Images \subseteq [Sector -> Value] /\ Requested \subseteq Call
    /\ NoValue \notin Value

Free == [state |-> "FREE", ok |-> FALSE, value |-> NoValue]
Available == [Free EXCEPT !.state = "AVAILABLE"]
Unwritten == [ok |-> FALSE, value |-> NoValue]      \* a status of 0xff is E_IO

-----------------------------------------------------------------------------
(* virtio_blk_initialize: reset, features, queue, capacity, driver ok.       *)

Following(step) ==
    CASE step = "reset" -> "features" [] step = "features" -> "queue"
      [] step = "queue" -> "capacity" [] step = "capacity" -> "driver_ok"
      [] step = "driver_ok" -> "ready"

virtio_blk_initialize ==
    /\ vstage \notin {"ready", "none"}
    /\ vstage' \in {Following(vstage), "none"}
    /\ UNCHANGED <<queue, needs_reset, status, medium, calls, lapses, vdevice>>

-----------------------------------------------------------------------------
(* Calls.                                                                    *)

FirstFree == {i \in Slot : /\ requests[i].state = "FREE"
                           /\ \A j \in Slot : j < i => requests[j].state # "FREE"}

Callable == Published /\ call = NoCall /\ calls < MaxCalls

virtio_blk_submit ==
    /\ Callable /\ status = "READY"
    /\ calls' = calls + 1
    /\ \E c \in Requested, i \in FirstFree :
         /\ requests' = [requests EXCEPT ![i] = Available]
         /\ statuses' = [statuses EXCEPT ![i] = Unwritten]
         /\ queued' = queued \cup {[slot |-> i, call |-> c]}
         /\ waiting_slot' = i
         /\ call' = c
    /\ answer' = NoAnswer
    /\ UNCHANGED <<vstage, used, needs_reset, status, medium, lapses>>

(* A failed device, no free slot, or a buffer the device cannot reach.       *)
virtio_blk_submit_refused ==
    /\ Callable
    /\ calls' = calls + 1
    /\ answer' = Error
    /\ UNCHANGED <<vstage, queue, needs_reset, status, medium, call, lapses>>

Return(result) ==
    /\ call' = NoCall
    /\ answer' = result
    /\ waiting_slot' = NoSlot
    /\ UNCHANGED <<vstage, statuses, medium, calls, lapses>>

(* pci_service completes the used elements up to the first that is not due:  *)
(* its descriptor heads no request, or its slot is not AVAILABLE.            *)
Due(k) ==
    /\ used[k] \in Slot /\ requests[used[k]].state = "AVAILABLE"
    /\ \A j \in 1 .. k - 1 : used[j] # used[k]
Good == {k \in DOMAIN used : \A j \in 1 .. k : Due(j)}
NotDue == used[Cardinality(Good) + 1]
FromNotDue == SubSeq(used, Cardinality(Good) + 1, Len(used))

Completed ==
    [i \in Slot |->
       IF \E k \in Good : used[k] = i
       THEN [state |-> "USED", ok |-> statuses[i].ok, value |-> statuses[i].value]
       ELSE requests[i]]

Released(slots, i) == [slots EXCEPT ![i] = Free]

Answered(slot) == IF ~slot.ok THEN Error ELSE Ok(slot.value)

Polling == waiting_slot # NoSlot /\ ~needs_reset

virtio_blk_poll ==
    /\ Polling /\ Good = DOMAIN used
    /\ Completed[waiting_slot].state = "USED"
    /\ requests' = Released(Completed, waiting_slot)
    /\ used' = <<>>
    /\ Return(Answered(Completed[waiting_slot]))
    /\ UNCHANGED <<queued, needs_reset, status>>

(* E_WOULD_BLOCK: only other slots have been used.                           *)
virtio_blk_poll_others ==
    /\ Polling /\ used # <<>> /\ Good = DOMAIN used
    /\ Completed[waiting_slot].state = "AVAILABLE"
    /\ requests' = Completed
    /\ used' = <<>>
    /\ UNCHANGED <<vstage, waiting_slot, statuses, queued, needs_reset, status, medium, calls,
                   lapses, vdevice>>

(* virtio_blk_fail: whatever is published is failed, and nothing more is.    *)
Failed(slots) == [i \in Slot |-> IF slots[i].state = "AVAILABLE"
                                 THEN [Free EXCEPT !.state = "USED"] ELSE slots[i]]

mark_transport_failed(slots) ==
    /\ requests' = slots
    /\ needs_reset' = TRUE
    /\ status' = "FAILED"

(* E_PROTOCOL: a descriptor that heads no request fails the transport.       *)
virtio_blk_poll_protocol ==
    /\ Polling /\ Good # DOMAIN used
    /\ NotDue = Bogus
    /\ mark_transport_failed(Failed(Completed))
    /\ used' = FromNotDue
    /\ Return(Error)
    /\ UNCHANGED queued

(* E_INVALID_STATE from virtio_blk_complete: the call fails, its slot stays  *)
(* taken, the element stays in the used ring, and the device stays READY.    *)
virtio_blk_poll_invalid_state ==
    /\ Polling /\ Good # DOMAIN used
    /\ NotDue # Bogus
    /\ requests' = Completed
    /\ used' = FromNotDue
    /\ Return(Error)
    /\ UNCHANGED <<queued, needs_reset, status>>

(* E_IO: the device wants a reset; the slot stays taken.                     *)
virtio_blk_poll_reset ==
    /\ waiting_slot # NoSlot /\ needs_reset
    /\ Return(Error)
    /\ UNCHANGED <<requests, queued, used, needs_reset, status>>

(* Faulty: the wait has no bound.                                            *)
wait_for_request_timeout_never == FALSE /\ UNCHANGED virtioVars

wait_for_request_timeout ==
    /\ Polling /\ used = <<>>
    /\ mark_transport_failed(Released(Failed(requests), waiting_slot))
    /\ Return(Error)
    /\ UNCHANGED <<queued, used>>

-----------------------------------------------------------------------------
(* The device (external).                                                    *)

DeviceMoves(c) ==
    CASE c.op = "write" -> vdisk' = [vdisk EXCEPT ![c.sector] = c.value] /\ UNCHANGED vmedia
      [] c.op = "flush" -> vmedia' = vdisk /\ UNCHANGED vdisk
      [] OTHER -> UNCHANGED medium

DeviceUses(packet, ok) ==
    /\ queued' = queued \ {packet}
    /\ statuses' = [statuses EXCEPT ![packet.slot] =
                       [ok |-> ok, value |-> IF packet.call.op = "read" /\ ok
                                             THEN vdisk[packet.call.sector] ELSE NoValue]]
    /\ used' = Append(used, packet.slot)
    /\ UNCHANGED <<vstage, requests, waiting_slot, needs_reset, status, calls, lapses, vdevice>>

DevicePerforms(packet) == DeviceMoves(packet.call) /\ DeviceUses(packet, TRUE)

DeviceRejects(packet) ==
    /\ UNCHANGED medium \/ (packet.call.op = "write" /\ DeviceMoves(packet.call))
    /\ DeviceUses(packet, FALSE)

DeviceBreaks ==
    /\ Published /\ ~needs_reset
    /\ \/ needs_reset' = TRUE /\ UNCHANGED used
       \/ /\ used' = Append(used, Bogus)
          /\ Bogus \notin {used[k] : k \in DOMAIN used}
          /\ UNCHANGED needs_reset
    /\ UNCHANGED <<vstage, requests, waiting_slot, statuses, queued, status, medium, calls,
                   lapses, vdevice>>

(* It returns a slot that is free, that it still has, or that it has already *)
(* returned.                                                                 *)
DeviceRepeats ==
    /\ Published /\ ~needs_reset
    /\ lapses < MaxLapses
    /\ lapses' = lapses + 1
    /\ \E i \in Slot : used' = Append(used, i)
    /\ UNCHANGED <<vstage, requests, waiting_slot, statuses, queued, needs_reset, status, medium,
                   calls, vdevice>>

-----------------------------------------------------------------------------
VirtioInit ==
    /\ vstage = "reset"
    /\ requests = [i \in Slot |-> Free]
    /\ waiting_slot = NoSlot
    /\ statuses = [i \in Slot |-> Unwritten]
    /\ queued = {} /\ used = <<>>
    /\ needs_reset = FALSE
    /\ status = "READY"
    /\ vdisk \in Images
    /\ vmedia = vdisk
    /\ calls = 0 /\ lapses = 0
    /\ call = NoCall /\ answer = NoAnswer

VirtioPolls ==
    \/ virtio_blk_poll \/ virtio_blk_poll_others
    \/ virtio_blk_poll_protocol \/ virtio_blk_poll_invalid_state \/ virtio_blk_poll_reset
    \/ wait_for_request_timeout

VirtioCalls == virtio_blk_submit \/ virtio_blk_submit_refused

VirtioDevice ==
    \/ \E packet \in queued : DevicePerforms(packet) \/ DeviceRejects(packet)
    \/ DeviceBreaks \/ DeviceRepeats

VirtioNext == virtio_blk_initialize \/ VirtioCalls \/ VirtioPolls \/ VirtioDevice

-----------------------------------------------------------------------------
(* What the driver's correctness rests on.                                   *)

Content == Value \cup {NoValue}
VirtioTypeOK ==
    /\ vstage \in {"reset", "features", "queue", "capacity", "driver_ok", "ready", "none"}
    /\ requests \in [Slot -> [state : {"FREE", "AVAILABLE", "USED"}, ok : BOOLEAN, value : Content]]
    /\ waiting_slot \in Slot \cup {NoSlot}
    /\ statuses \in [Slot -> [ok : BOOLEAN, value : Content]]
    /\ queued \subseteq [slot : Slot, call : Call]
    /\ used \in Seq(Slot \cup {Bogus})
    /\ needs_reset \in BOOLEAN /\ status \in {"READY", "FAILED"}
    /\ vdisk \in [Sector -> Value] /\ vmedia \in [Sector -> Value]

(* The device has used the request that is waited for: if the status reports *)
(* success, the call has had its effect and nothing has disturbed that since.*)
Served(e) ==
    /\ e.ok /\ call.op = "read" => e.value = vdisk[call.sector]
    /\ e.ok /\ call.op = "write" => e.value = NoValue /\ vdisk[call.sector] = call.value
    /\ e.ok /\ call.op = "flush" => e.value = NoValue /\ vmedia = vdisk

(* While the device has not asked for a reset, the queue holds the request   *)
(* of the call in progress or nothing, at most one descriptor that heads no  *)
(* request besides.                                                          *)
SlotsIdle ==
    /\ requests = [i \in Slot |-> Free]
    /\ queued = {} /\ used \in {<<>>, <<Bogus>>}
SlotPolled ==
    /\ requests = [i \in Slot |-> IF i = waiting_slot THEN Available ELSE Free]
    /\ \/ /\ queued = {[slot |-> waiting_slot, call |-> call]}
          /\ used \in {<<>>, <<Bogus>>}
       \/ /\ queued = {}
          /\ Served(statuses[waiting_slot])
          /\ used \in {<<waiting_slot>>, <<waiting_slot, Bogus>>, <<Bogus, waiting_slot>>}

CallIsPolled ==
    /\ call = NoCall <=> waiting_slot = NoSlot
    /\ ~Published => /\ call = NoCall /\ answer = NoAnswer
                     /\ ~needs_reset /\ lapses = 0 /\ vmedia = vdisk
OnePolled ==
    /\ ~needs_reset /\ call = NoCall => SlotsIdle
    /\ ~needs_reset /\ call # NoCall => SlotPolled
    /\ ~needs_reset => status = "READY"
=============================================================================
