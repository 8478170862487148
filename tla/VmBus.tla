------------------------------- MODULE VmBus -------------------------------
(***************************************************************************)
(* Hyper-V's bus (drivers/hyperv/vmbus.c, arch/x86_64/hyperv.c) while the  *)
(* kernel boots: version negotiation, the offers, and the opening of one   *)
(* channel per input device (block/platform_hyperv.c), with the protocol   *)
(* greeting of each (drivers/hyperv/input.c).                              *)
(*                                                                         *)
(* The guest posts control messages with a hypercall and polls one message *)
(* slot for the answers.  The host is external: it answers in order, as    *)
(* late as it likes, it may refuse, and it may put the news of another     *)
(* device between two answers.  A post, a signal or an allocation that     *)
(* fails, an answer later than the spin limit and a refusal each use up    *)
(* one of the faults.                                                      *)
(*                                                                         *)
(* The storage channel, opened the same way before the others, is left to  *)
(* the module StorVsc.                                                     *)
(***************************************************************************)
EXTENDS HvRing, FiniteSets

CONSTANTS Versions,        \* the guest's versions, best first
          HostVersions,    \* the ones the host takes
          Devices,         \* the input devices in the order they are opened
          OfferSets,       \* which of them the host may offer
          Greeting,        \* the first packet each driver sends
          Reply,           \* the host's answer to it
          Faults

VARIABLES bus,             \* struct ios_vmbus
          channel,         \* the channels of the devices
          ready,           \* keyboard_ready, mouse_ready
          boot,            \* where the initialization is
          slot,            \* the message slot of the interrupt source
          host,            \* external
          faults

busVars == <<bus, channel, ready, boot, slot, host, faults>>

DeviceSet == {Devices[i] : i \in 1 .. Len(Devices)}
NoMessage == [type |-> "none"]
ClosedChannel ==
    [open |-> FALSE, id |-> 0, out |-> hyperv_ring_initialize, in |-> hyperv_ring_initialize]

BusInit ==
    /\ bus = [state |-> "connecting", version |-> 0, offers |-> {}, next_id |-> 1]
    /\ channel = [d \in DeviceSet |-> ClosedChannel]
    /\ ready = [d \in DeviceSet |-> FALSE]
    /\ boot = [pc |-> "enable", index |-> 1]
    /\ slot = NoMessage
    /\ \E offered \in OfferSets :
          host = [version |-> 0, inbox |-> <<>>, outbox |-> <<>>, offered |-> offered, news |-> 1,
                  gpadl |-> [d \in DeviceSet |-> 0], opened |-> [d \in DeviceSet |-> 0],
                  approved |-> [d \in DeviceSet |-> FALSE]]
    /\ faults = Faults

-----------------------------------------------------------------------------
(* Posting and receiving.                                                  *)

Device == Devices[boot.index]
Goto(pc) == boot' = [boot EXCEPT !.pc = pc]

(* post_message: three attempts, after which the message was not sent.     *)
post_message(m) == host' = [host EXCEPT !.inbox = Append(@, m)] /\ UNCHANGED faults
Fault == faults > 0 /\ faults' = faults - 1

(* receive_message.  A message that does not fit the receiver's buffer is  *)
(* refused and stays where it is; of all messages only an offer is larger  *)
(* than the answers the guest waits for.                                   *)
Large(m) == m.type = "offer"
Consumed == slot' = NoMessage
Refused == slot # NoMessage /\ Large(slot) /\ UNCHANGED <<slot, faults>>
TimedOut == slot = NoMessage /\ Fault /\ UNCHANGED slot

(* wait_for_type: news of a device that went away is skipped; any other    *)
(* message than the one expected is an error.                              *)
Skip ==
    /\ slot.type = "rescind" /\ Consumed
    /\ UNCHANGED <<bus, channel, ready, boot, host, faults>>
Fits == slot.type \notin {"none", "offer", "rescind"}

-----------------------------------------------------------------------------
(* vmbus_initialize and vmbus_request_offers.                              *)

(* x86_64_hyperv_enable_hypercall and x86_64_hyperv_enable_synic.          *)
EnableHypercalls ==
    /\ boot.pc = "enable"
    /\ \/ Goto("contact") /\ UNCHANGED <<bus, faults>>
       \/ Fault /\ Goto("done") /\ bus' = [bus EXCEPT !.state = "failed"]
    /\ UNCHANGED <<channel, ready, slot, host>>

NextVersion ==
    IF boot.index < Len(Versions)
    THEN boot' = [pc |-> "contact", index |-> boot.index + 1] /\ UNCHANGED bus
    ELSE Goto("done") /\ bus' = [bus EXCEPT !.state = "failed"]

InitiateContact ==
    /\ boot.pc = "contact"
    /\ \/ /\ post_message([type |-> "contact", version |-> Versions[boot.index]])
          /\ Goto("await version") /\ UNCHANGED bus
       \/ Fault /\ NextVersion /\ UNCHANGED host
    /\ UNCHANGED <<channel, ready, slot>>

(* The version is the one the guest asked for last, not one in the answer. *)
(* The host has nothing else to say before a version is agreed on.         *)
AwaitVersion ==
    /\ boot.pc = "await version"
    /\ \/ /\ slot.type = "version" /\ Consumed /\ UNCHANGED faults
          /\ IF slot.supported
             THEN /\ bus' = [bus EXCEPT !.state = "connected", !.version = Versions[boot.index]]
                  /\ Goto("request offers")
             ELSE NextVersion
       \/ TimedOut /\ NextVersion
    /\ UNCHANGED <<channel, ready, host>>

(* A failure ends the search for a disk, not the search for input devices. *)
ToDevices == boot' = [pc |-> "device", index |-> 1]

vmbus_request_offers ==
    /\ boot.pc = "request offers"
    /\ \/ post_message([type |-> "request offers"]) /\ Goto("await offers")
       \/ Fault /\ ToDevices /\ UNCHANGED host
    /\ UNCHANGED <<bus, channel, ready, slot>>

AwaitOffers ==
    /\ boot.pc = "await offers"
    /\ \/ /\ slot.type = "offer" /\ Consumed
          /\ bus' = [bus EXCEPT !.offers = @ \cup {slot.device}]
          /\ UNCHANGED <<boot, faults>>
       \/ /\ slot.type \notin {"none", "offer"} /\ Consumed
          /\ ToDevices /\ UNCHANGED <<bus, faults>>
       \/ TimedOut /\ ToDevices /\ UNCHANGED bus
    /\ UNCHANGED <<channel, ready, host>>

-----------------------------------------------------------------------------
(* hyperv_platform_input_initialize: vmbus_open_channel and the greeting   *)
(* of each device; what fails for one device leaves the next to its turn.  *)

NextDevice ==
    boot' = IF boot.index < Len(Devices) THEN [pc |-> "device", index |-> boot.index + 1]
            ELSE [boot EXCEPT !.pc = "done"]

NoDevice ==
    /\ boot.pc = "device"
    /\ \/ Device \notin bus.offers /\ UNCHANGED faults
       \/ Device \in bus.offers /\ Fault
    /\ NextDevice
    /\ UNCHANGED <<bus, channel, ready, slot, host>>

CreateGpadl ==
    /\ boot.pc = "device" /\ Device \in bus.offers
    /\ channel' = [channel EXCEPT ![Device] = [ClosedChannel EXCEPT !.id = bus.next_id]]
    /\ bus' = [bus EXCEPT !.next_id = @ + 1]
    /\ \/ /\ post_message([type |-> "gpadl", device |-> Device, id |-> bus.next_id])
          /\ Goto("await gpadl")
       \/ Fault /\ NextDevice /\ UNCHANGED host
    /\ UNCHANGED <<ready, slot>>

(* Faulty: the status of the answer is not looked at.                    *)
IsAnswer_also_refusal(type) ==
    slot.type = type /\ slot.device = Device /\ slot.id = channel[Device].id

(* The answer must be a success and name this device and this opening.     *)
IsAnswer(type) ==
    slot.type = type /\ slot.device = Device /\ slot.id = channel[Device].id /\ slot.ok

AwaitAnswer(type, Then) ==
    \/ Skip
    \/ /\ IsAnswer(type) /\ Consumed
       /\ Then
       /\ UNCHANGED <<bus, ready, host, faults>>
    \/ /\ \/ Fits /\ ~IsAnswer(type) /\ Consumed /\ UNCHANGED faults
          \/ Refused
          \/ TimedOut
       /\ NextDevice
       /\ UNCHANGED <<bus, channel, ready, host>>

AwaitGpadl == boot.pc = "await gpadl" /\ AwaitAnswer("gpadl created", Goto("open") /\ UNCHANGED channel)

OpenChannel ==
    /\ boot.pc = "open"
    /\ \/ /\ post_message([type |-> "open", device |-> Device, id |-> channel[Device].id])
          /\ Goto("await open")
       \/ Fault /\ NextDevice /\ UNCHANGED host
    /\ UNCHANGED <<bus, channel, ready, slot>>

AwaitOpen ==
    /\ boot.pc = "await open"
    /\ AwaitAnswer("open result",
          Goto("greet") /\ channel' = [channel EXCEPT ![Device].open = TRUE])

(* vmbus_channel_write: the packet is in the ring even when the hypercall  *)
(* that announces it fails.  Room is never short this early.               *)
Greet ==
    /\ boot.pc = "greet"
    /\ channel' = [channel EXCEPT ![Device].out = hyperv_ring_write(@, Greeting[Device])]
    /\ \/ Goto("await reply") /\ UNCHANGED faults
       \/ Fault /\ NextDevice
    /\ UNCHANGED <<bus, ready, slot, host>>

(* channel_receive and the test of the answer.                             *)
AwaitReply ==
    /\ boot.pc = "await reply"
    /\ LET in == channel[Device].in
           status == ReadStatus(in, Reply[Device].units)
       IN  IF status = "OK"
           THEN /\ channel' = [channel EXCEPT ![Device].in.read = AfterPacket(in.read, PacketAt(in))]
                /\ ready' = [ready EXCEPT ![Device] = PacketAt(in).kind = "reply" /\ PacketAt(in).ok]
                /\ UNCHANGED faults
           ELSE /\ status = "WOULD_BLOCK" => Fault
                /\ status # "WOULD_BLOCK" => UNCHANGED faults
                /\ UNCHANGED <<channel, ready>>
    /\ NextDevice
    /\ UNCHANGED <<bus, slot, host>>

GuestBoots ==
    \/ EnableHypercalls \/ InitiateContact \/ AwaitVersion \/ vmbus_request_offers \/ AwaitOffers
    \/ NoDevice \/ CreateGpadl \/ AwaitGpadl \/ OpenChannel \/ AwaitOpen \/ Greet \/ AwaitReply

-----------------------------------------------------------------------------
(* The host.                                                               *)

Offers(set) == [i \in 1 .. Cardinality(set) |->
                  LET in_order == SelectSeq(Devices, LAMBDA d : d \in set)
                  IN  [type |-> "offer", device |-> in_order[i]]]

Answer(m, ok) ==
    CASE m.type = "contact" ->
             <<[type |-> "version", supported |-> m.version \in HostVersions]>>
      [] m.type = "request offers" -> Offers(host.offered) \o <<[type |-> "all offers delivered"]>>
      [] m.type = "gpadl" ->
             <<[type |-> "gpadl created", device |-> m.device, id |-> m.id, ok |-> ok]>>
      [] m.type = "open" ->
             <<[type |-> "open result", device |-> m.device, id |-> m.id, ok |-> ok]>>

HostAnswers ==
    /\ host.inbox # <<>>
    /\ \E m \in {Head(host.inbox)}, ok \in BOOLEAN :
          /\ IF ok THEN UNCHANGED faults ELSE Fault /\ m.type \in {"gpadl", "open"}
          /\ host' =
                [host EXCEPT
                    !.inbox = Tail(@),
                    !.outbox = @ \o Answer(m, ok),
                    !.version = IF m.type = "contact" /\ m.version \in HostVersions
                                THEN m.version ELSE @,
                    !.gpadl = IF m.type = "gpadl" /\ ok THEN [@ EXCEPT ![m.device] = m.id] ELSE @,
                    !.opened = IF m.type = "open" /\ ok THEN [@ EXCEPT ![m.device] = m.id] ELSE @]
    /\ UNCHANGED <<bus, channel, ready, boot, slot>>

(* A device comes or goes while the guest waits for something else.        *)
HostNews ==
    /\ host.news > 0 /\ bus.state = "connected" /\ boot.pc # "done"
    /\ \E m \in {[type |-> "offer", device |-> "other"], [type |-> "rescind"]} :
          host' = [host EXCEPT !.news = @ - 1, !.outbox = Append(@, m)]
    /\ UNCHANGED <<bus, channel, ready, boot, slot, faults>>

HostDelivers ==
    /\ slot = NoMessage /\ host.outbox # <<>>
    /\ slot' = Head(host.outbox)
    /\ host' = [host EXCEPT !.outbox = Tail(@)]
    /\ UNCHANGED <<bus, channel, ready, boot, faults>>

(* The host takes the greeting from its ring and answers it in the other.  *)
HostReplies ==
    /\ \E d \in DeviceSet :
          /\ host.opened[d] = channel[d].id /\ channel[d].open /\ ~host.approved[d]
          /\ ReadStatus(channel[d].out, RingUnits) = "OK"
          /\ \E ok \in BOOLEAN :
                /\ IF ok THEN UNCHANGED faults ELSE Fault
                /\ host' = [host EXCEPT !.approved[d] = ok]
                /\ channel' = [channel EXCEPT
                       ![d].out.read = AfterPacket(channel[d].out.read, PacketAt(channel[d].out)),
                       ![d].in = hyperv_ring_write(@, [Reply[d] EXCEPT !.ok = ok])]
    /\ UNCHANGED <<bus, ready, boot, slot>>

HostBoots == HostAnswers \/ HostNews \/ HostDelivers \/ HostReplies

-----------------------------------------------------------------------------
(* Properties.                                                             *)

(* A channel the guest takes for open is open at the host, on the ring     *)
(* memory of this opening, and both sides speak one version: however late  *)
(* the answers, one meant for another request is not taken for this one's  *)
(* (vmbus_open_channel compares the identifiers; a late answer to a        *)
(* version is followed by another, which ends the enumeration of offers).  *)
OpenChannelAgreed ==
    \A d \in DeviceSet : channel[d].open =>
        /\ host.opened[d] = channel[d].id /\ host.gpadl[d] = channel[d].id
        /\ bus.version = host.version

(* A device is polled only after the host has accepted its protocol on an  *)
(* open channel, whatever failed on the way (the two drivers' greetings).  *)
ReadyDeviceApproved ==
    \A d \in DeviceSet : ready[d] => channel[d].open /\ host.approved[d]
=============================================================================
