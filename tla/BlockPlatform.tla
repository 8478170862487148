--------------------------- MODULE BlockPlatform ---------------------------
(***************************************************************************)
(* block_platform_initialize_primary (src/block/platform.c): under Hyper-V  *)
(* the primary block device is a disk found by the storage driver, on any   *)
(* other machine it is the virtio disk.  Either way it has to keep the      *)
(* contract of BlockDevice.                                                 *)
(***************************************************************************)
EXTENDS Integers, Sequences, FiniteSets

CONSTANTS MaxLun, Machines, Images, Requested, NoValue, MaxLapses,
          QueueCapacity, MaxCalls

VARIABLES platform,         \* selected_hyperv
          stage, version, lun, first_probe, ready, start_zero, transaction, waiting,
          outbound, inbound, bounce, disk, media, original,
          vstage, requests, waiting_slot, statuses, queued, used, needs_reset, status,
          vdisk, vmedia,
          calls, lapses, call, answer

Hv == INSTANCE StorVsc
Q35 == INSTANCE VirtioBlk WITH Sector <- Hv!Sector, Value <- Hv!Value

ASSUME PlatformAssumption == Hv!StorVscAssumption /\ Q35!VirtioAssumption

hypervOnly == <<stage, version, lun, first_probe, ready, start_zero, transaction,
                waiting, outbound, inbound, bounce, disk, media, original>>
q35Only == <<vstage, requests, waiting_slot, statuses, queued, used, needs_reset, status,
             vdisk, vmedia>>
vars == <<platform, hypervOnly, q35Only, calls, lapses, call, answer>>

OnHyperv == platform = "hyperv"

(* The driver that is not selected keeps the zeroes it was linked with.      *)
Init ==
    /\ platform \in {"hyperv", "q35"}
    /\ Hv!StorInit /\ Q35!VirtioInit
    /\ OnHyperv => vdisk = CHOOSE image \in Images : TRUE
    /\ ~OnHyperv => \A l \in Hv!Lun : disk[l] = <<>>

HypervStep == OnHyperv /\ Hv!StorNext /\ UNCHANGED <<platform, q35Only>>
Q35Step == ~OnHyperv /\ Q35!VirtioNext /\ UNCHANGED <<platform, hypervOnly>>

Next == HypervStep \/ Q35Step

(* Both drivers spin in the kernel, so their waits end; neither the host nor *)
(* the layers above are obliged to do anything.                              *)
Fairness ==
    /\ WF_vars(OnHyperv /\ Hv!StorDriver /\ UNCHANGED <<platform, q35Only>>)
    /\ WF_vars(~OnHyperv /\ Q35!VirtioPolls /\ UNCHANGED <<platform, hypervOnly>>)

Spec == Init /\ [][Next]_vars /\ Fairness

-----------------------------------------------------------------------------
TypeOK ==
    /\ platform \in {"hyperv", "q35"}
    /\ Hv!StorTypeOK /\ Q35!VirtioTypeOK
    /\ calls \in 0 .. MaxCalls /\ lapses \in 0 .. MaxLapses
    /\ call \in Hv!Call \cup {Hv!NoCall}
    /\ answer \in [status : {"none", "error", "ok"}, value : Hv!Value \cup {NoValue}]

(* The published device is what BlockCache assumes of it: successful calls   *)
(* have had their effect, a failed write leaves the old or the new value in  *)
(* its own sector (storage_transfer, wait_completion, submit_and_wait); this  *)
(* ends with the first lapse: a storvsc packet left in a ring while the      *)
(* driver goes on, or a virtio used element out of turn.                     *)
Device == INSTANCE BlockDevice WITH
            kept <- lapses = 0,
            Sector <- Hv!Sector, Value <- Hv!Value,
            attached <- IF OnHyperv THEN stage = "ready" ELSE Q35!Published,
            may <- IF OnHyperv THEN Hv!StorMay ELSE Q35!VirtioMay,
            stable <- IF OnHyperv THEN Hv!StorStable ELSE Q35!VirtioStable
ImplementsBlockDevice == Device!BdSpec

(* Until the first lapse, only a disk with both superblocks or with its      *)
(* first and last sectors zero is handed out, so never a partitioned one,    *)
(* whatever fails on the way (block_classify_data_disk and the loop over the *)
(* LUNs of block_hyperv_initialize_primary).  A disk with data only between  *)
(* its probed regions passes for blank.                                      *)
PublishedIsEligible == OnHyperv /\ lapses = 0 => Hv!SearchSound

(* The bounce buffer serves one request at a time: the driver submits        *)
(* nothing while the host may still carry out an earlier request             *)
(* (wait_completion, storage_transfer), but for one more with every lapse.   *)
OneOutstanding == Cardinality(outbound) + Len(inbound) <= lapses + 1

(* Between calls no request slot is taken, unless the device has asked for a *)
(* reset, has been failed or has returned a slot out of turn: a long run of  *)
(* failing calls cannot exhaust the queue (virtio_blk_submit,                *)
(* virtio_blk_poll).                                                         *)
SlotsReturned ==
    ~OnHyperv /\ lapses = 0 /\ call = Q35!NoCall /\ ~needs_reset =>
        \A i \in Q35!Slot : requests[i] = Q35!Free

(* Every call returns, whatever the host does (spin_limit,                   *)
(* IOS_VIRTIO_BLK_PCI_TIMEOUT_SPINS).                                        *)
CallReturns == call # Hv!NoCall ~> call = Hv!NoCall

(* Without a lapse neither driver loses track of a request: one at a time on *)
(* the bounce buffer, every slot of the virtqueue given back, and whatever a *)
(* ring holds is the request of the call in progress, what it has done, or   *)
(* the rest of a time-out after which no more is submitted.  With lapses,    *)
(* each leaves at most one packet too many, a call still lasts as long as    *)
(* its wait, and no disk but the published one is written.                   *)
RequestsAccounted ==
    /\ TypeOK /\ OneOutstanding /\ SlotsReturned
    /\ OnHyperv => Hv!CallIsExchange /\ Hv!OthersUntouched
    /\ OnHyperv /\ lapses = 0 => Hv!OneExchange
    /\ ~OnHyperv => Q35!CallIsPolled /\ Hv!RingsIdle
    /\ ~OnHyperv /\ lapses = 0 => Q35!OnePolled
=============================================================================
