------------------------------- MODULE Input -------------------------------
(***************************************************************************)
(* How keys and mouse movements reach the kernel's event queue             *)
(* (kernel/runtime.c): from boot, when either the PS/2 controller or the   *)
(* channels of Hyper-V are set up, to the runtime step, which polls the    *)
(* devices of its platform and then takes every event from the queue.      *)
(*                                                                         *)
(* A person presses keys and moves the mouse; the PS/2 controller or the   *)
(* host turns that into bytes or packets at its own pace.                  *)
(*                                                                         *)
(* The step runs from the idle loop with interrupts enabled, and from the  *)
(* timer's tick.  A tick may fall into a step of the idle loop, at any of  *)
(* the TickPoints; stack then holds the interrupted step below the other.  *)
(***************************************************************************)
EXTENDS VmBus, Ps2

CONSTANTS Platforms,         \* which of "ps2" and "hyperv" the machine may be
          Keys,              \* the keys of the keyboard
          MouseReports,      \* [left, x, y]: a position for SynthHID, for PS/2 a move
                             \* by one less
          LogicalMaximum,    \* SYNTH_HID_MOUSE_LOGICAL_MAXIMUM
          MaxReports,        \* bound, by platform: how often something is pressed or moved,
                             \* a fault counting twice
          TickPoints         \* where a tick may interrupt a step

(* A key with a code of its own is named by that code, so a name is neither *)
(* a prefix nor the code of a key that has another name.                   *)
ASSUME InputAssumption ==
    /\ Platforms \subseteq {"ps2", "hyperv"}
    /\ Versions \in Seq(Nat) /\ Len(Versions) > 0
    /\ Devices = <<"keyboard", "mouse">> /\ OfferSets \subseteq SUBSET {"keyboard", "mouse"}
    /\ \A d \in {"keyboard", "mouse"} :
          /\ Greeting[d].units \in Nat /\ PacketUnits(Greeting[d]) < RingUnits
          /\ Reply[d] \in [kind : {"reply"}, units : Nat, n : {0}, ok : BOOLEAN]
          /\ PacketUnits(Reply[d]) < RingUnits
    /\ Faults \in Nat
    /\ Keys \cap {"e0", "f0", "e1", LeftShift, RightShift, LeftControl, CapsLock} = {}
    /\ MouseReports \subseteq [left : BOOLEAN, x : Nat, y : Nat]
    /\ LogicalMaximum \in Nat \ {0}

VARIABLES platform,
          setup,       \* the PS/2 script: command, attempts, controller
          keyboard, mouse, queue,
          person,      \* keys held, whether one Shift of two was let go, reports made
          bytes,       \* what the PS/2 devices have still to send
          output,      \* the controller's output buffer
          handled,     \* packets of each Hyper-V device that were handled
          stack        \* the steps under way

inputVars == <<platform, setup, keyboard, mouse, queue, person, bytes, output, handled, stack>>
vars == <<busVars, inputVars>>

NoPacket == [kind |-> "none", n |-> 0, units |-> 0]
Step(pc, device) == [pc |-> pc, device |-> device, packet |-> NoPacket, index |-> 0]

HyperVKeyboard == [down |-> {}, shift |-> FALSE, caps |-> FALSE]
HyperVMouse == [left |-> FALSE]

Init ==
    /\ platform \in Platforms
    /\ BusInit
    /\ \E c \in PowerOnControllers :
          /\ platform = "hyperv" => c = CHOOSE x \in PowerOnControllers : TRUE
          /\ setup = [command |-> 1, attempts |-> 0, controller |-> c]
    /\ platform = "ps2" => host.offered = {}
    /\ keyboard = IF platform = "ps2" THEN ps2_keyboard_initialize ELSE HyperVKeyboard
    /\ mouse = IF platform = "ps2" THEN ps2_mouse_initialize ELSE HyperVMouse
    /\ queue = input_queue_initialize
    /\ person = [held |-> {}, caps |-> FALSE, halved |-> FALSE, repeated |-> FALSE,
                 reports |-> [d \in DeviceSet |-> 0]]
    /\ bytes = [d \in DeviceSet |-> <<>>]
    /\ output = [full |-> FALSE, device |-> "keyboard", byte |-> "none"]
    /\ handled = [d \in DeviceSet |-> 0]
    /\ stack = <<>>

-----------------------------------------------------------------------------
(* Setting up the PS/2 devices.                                            *)

Ps2Ready == platform = "ps2" /\ setup.command > Len(Script)
HyperVReady == platform = "hyperv" /\ boot.pc = "done"

(* One command of the script: it times out, the answer is not the one      *)
(* expected, or the device asks for it again.  Every failure ends the      *)
(* start of the runtime.                                                   *)
Ps2Command ==
    /\ platform = "ps2" /\ setup.command \in 1 .. Len(Script)
    /\ LET c == Script[setup.command]
       IN  \/ /\ setup' = [command |-> setup.command + 1, attempts |-> 0,
                           controller |-> Obeyed(setup.controller, c.does)]
              /\ UNCHANGED faults
           \/ /\ Fault /\ setup' = [setup EXCEPT !.command = 0]
           \/ /\ Fault /\ c.good = "ack"
              /\ setup' = [setup EXCEPT !.attempts = @ + 1,
                                        !.command = IF setup.attempts = 2 THEN 0 ELSE @]
    /\ UNCHANGED <<bus, channel, ready, boot, slot, host>>
    /\ UNCHANGED <<platform, keyboard, mouse, queue, person, bytes, output, handled, stack>>

-----------------------------------------------------------------------------
(* The person.  On Hyper-V the host puts a packet into the ring of a       *)
(* device whose protocol it has accepted.                                  *)

Reports == person.reports["keyboard"] + person.reports["mouse"]
Counted(d, p) == [p EXCEPT !.reports[d] = @ + 1]
Shifts == {"shift_l", "shift_r"}

HostSends(d, p) ==
    /\ HyperVReady /\ host.approved[d] /\ HasSpace(channel[d].in, p)
    /\ channel' = [channel EXCEPT ![d].in = hyperv_ring_write(@, p)]
    /\ UNCHANGED bytes
WireSends(d, sequence) ==
    /\ Ps2Ready /\ Len(bytes[d]) < 8
    /\ bytes' = [bytes EXCEPT ![d] = @ \o sequence]
    /\ UNCHANGED channel

KeyPacket(key, released) ==
    [kind |-> "event", key |-> key, released |-> released, e1 |-> key = "pause", units |-> 2,
     n |-> person.reports["keyboard"] + 1]

PressKey ==
    /\ Reports + 2 * (Faults - faults) < MaxReports[platform]
    /\ \E key \in Keys :
          /\ person' = Counted("keyboard",
                [person EXCEPT !.held = IF key = "pause" THEN @ ELSE @ \cup {key},
                               !.caps = IF key = "caps" /\ key \notin person.held THEN ~@ ELSE @,
                               !.halved = @ /\ key \notin Shifts,
                               !.repeated = @ \/ key \in person.held])
          /\ \/ WireSends("keyboard", MakeBytes(key))
             \/ HostSends("keyboard", KeyPacket(key, FALSE))
    /\ UNCHANGED <<bus, ready, boot, slot, host, faults>>
    /\ UNCHANGED <<platform, setup, keyboard, mouse, queue, output, handled, stack>>

ReleaseKey ==
    /\ Reports + 2 * (Faults - faults) < MaxReports[platform]
    /\ \E key \in person.held :
          /\ person' = Counted("keyboard",
                [person EXCEPT !.held = @ \ {key},
                               !.halved = IF key \in Shifts THEN Shifts \subseteq person.held ELSE @])
          /\ \/ WireSends("keyboard", BreakBytes(key))
             \/ HostSends("keyboard", KeyPacket(key, TRUE))
    /\ UNCHANGED <<bus, ready, boot, slot, host, faults>>
    /\ UNCHANGED <<platform, setup, keyboard, mouse, queue, output, handled, stack>>

MousePackets == [kind : {"report"}, report : MouseReports, units : {3},
                 n : {person.reports["mouse"] + 1}]
                \cup [kind : {"info", "other"}, units : {3}, n : {person.reports["mouse"] + 1}]

MoveMouse ==
    /\ Reports + 2 * (Faults - faults) < MaxReports[platform]
    /\ \/ \E r \in MouseReports, overflow \in BOOLEAN :
             /\ WireSends("mouse", MousePacket(r.left, overflow, r.x - 1, r.y - 1))
             /\ person' = Counted("mouse", person)
       \/ \E p \in MousePackets :
             /\ HostSends("mouse", p)
             /\ person' = Counted("mouse", person)
    /\ UNCHANGED <<bus, ready, boot, slot, host, faults>>
    /\ UNCHANGED <<platform, setup, keyboard, mouse, queue, output, handled, stack>>

(* The controller hands out one byte at a time, from either device.        *)
ControllerLoads ==
    /\ ~output.full
    /\ \E d \in DeviceSet :
          /\ bytes[d] # <<>>
          /\ output' = [full |-> TRUE, device |-> d, byte |-> Head(bytes[d])]
          /\ bytes' = [bytes EXCEPT ![d] = Tail(@)]
    /\ UNCHANGED <<busVars, platform, setup, keyboard, mouse, queue, person, handled, stack>>

-----------------------------------------------------------------------------
(* The step.  Only the topmost one runs.                                   *)

Top == stack[Len(stack)]
At(pc) == stack # <<>> /\ Top.pc = pc
Now(s) == stack' = [stack EXCEPT ![Len(stack)] = s]
After(d) == IF d = "mouse" THEN Step("pop", "none")
            ELSE Step(IF platform = "ps2" THEN "status" ELSE "poll", "mouse")
FirstPoll == Step(IF platform = "ps2" THEN "status" ELSE "poll", "keyboard")

(* runtime_idle, and the tick that finds the processor halted.             *)
StartStep ==
    /\ (Ps2Ready \/ HyperVReady) /\ stack = <<>>
    /\ stack' = <<FirstPoll>>
    /\ UNCHANGED <<busVars, platform, setup, keyboard, mouse, queue, person, bytes, output, handled>>

(* The tick interrupts a step and runs another to its end.                 *)
runtime_tick ==
    /\ Len(stack) = 1 /\ Top.pc \in TickPoints
    /\ stack' = Append(stack, FirstPoll)
    /\ UNCHANGED <<busVars, platform, setup, keyboard, mouse, queue, person, bytes, output, handled>>

(* ps2_keyboard_interrupt and ps2_mouse_interrupt read the status port and *)
(* then the data port: one byte of each device in a step.                  *)
ReadStatusPort ==
    /\ At("status")
    /\ Now(IF output.full /\ output.device = Top.device THEN Step("data", Top.device)
           ELSE After(Top.device))
    /\ UNCHANGED <<busVars, platform, setup, keyboard, mouse, queue, person, bytes, output, handled>>

ReadDataPort ==
    /\ At("data")
    /\ output' = [output EXCEPT !.full = FALSE]
    /\ IF Top.device = "keyboard"
       THEN \E r \in {ps2_keyboard_handle_byte(keyboard, queue, output.byte)} :
               keyboard' = r.keyboard /\ queue' = r.queue /\ UNCHANGED mouse
       ELSE \E r \in {ps2_mouse_handle_byte(mouse, queue, output.byte)} :
               mouse' = r.mouse /\ queue' = r.queue /\ UNCHANGED keyboard
    /\ Now(After(Top.device))
    /\ UNCHANGED <<busVars, platform, setup, person, bytes, handled>>

(* Faulty: a ring that holds exactly one packet is taken for an empty one. *)
HyperVPoll_leaves_last ==
    /\ At("poll")
    /\ LET d == Top.device
           in == channel[d].in
       IN  Now(IF /\ ready[d] /\ ReadStatus(in, RingUnits) = "OK"
                  /\ ring_used(in) > PacketUnits(PacketAt(in))
               THEN [Step("copy", d) EXCEPT !.packet = PacketAt(in), !.index = in.read]
               ELSE After(d))
    /\ UNCHANGED <<busVars, platform, setup, keyboard, mouse, queue, person, bytes, output, handled>>

(* hyperv_ring_read finds a packet, copies it and publishes the new index. *)
(* The code looks at keyboard_ready before its loop only: it would go on   *)
(* polling a device that a nested step has given up, and nothing is said   *)
(* here of a device that was given up.                                     *)
HyperVPoll ==
    /\ At("poll")
    /\ LET d == Top.device
           in == channel[d].in
           status == ReadStatus(in, RingUnits)
       IN  IF ready[d] /\ status = "OK"
           THEN /\ Now([Step("copy", d) EXCEPT !.packet = PacketAt(in), !.index = in.read])
                /\ UNCHANGED ready
           ELSE /\ Now(After(d))
                /\ ready' = [ready EXCEPT ![d] = @ /\ status = "WOULD_BLOCK"]
    /\ UNCHANGED <<bus, channel, boot, slot, host, faults>>
    /\ UNCHANGED <<platform, setup, keyboard, mouse, queue, person, bytes, output, handled>>

CopyPacket ==
    /\ At("copy")
    /\ \E in \in {channel[Top.device].in} :
          Now([Top EXCEPT !.pc = "publish",
                          !.packet = IF IsWhole(in, Top.index, Top.packet) THEN @ ELSE NoPacket])
    /\ UNCHANGED <<busVars, platform, setup, keyboard, mouse, queue, person, bytes, output, handled>>

PublishRead ==
    /\ At("publish")
    /\ channel' = [channel EXCEPT ![Top.device].in.read = AfterPacket(Top.index, Top.packet)]
    /\ Now([Top EXCEPT !.pc = "handle"])
    /\ UNCHANGED <<bus, ready, boot, slot, host, faults>>
    /\ UNCHANGED <<platform, setup, keyboard, mouse, queue, person, bytes, output, handled>>

(* Faulty: only the right key's release is taken for a release of Shift.   *)
hyperv_keyboard_handle_event_right_only(k, q, p) ==
    LET pushed == input_emit_key(q, p.key, IF p.released THEN {} ELSE {"pressed"})
    IN  [keyboard |->
            [k EXCEPT !.shift = IF p.key \in {"shift_l", "shift_r"} /\ ~p.released THEN TRUE
                                ELSE @ /\ p.key # "shift_r",
                      !.down = IF p.released THEN @ \ {p.key} ELSE @ \cup {p.key}],
         queue |-> pushed.queue, status |-> pushed.status]

hyperv_keyboard_handle_event(k, q, p) ==
    LET repeat == ~p.released /\ p.key \in k.down
        next == [down |-> IF p.released THEN k.down \ {p.key} ELSE k.down \cup {p.key},
                 shift |-> IF p.key \in {"shift_l", "shift_r"} THEN ~p.released ELSE k.shift,
                 caps |-> IF p.key = "caps" /\ ~p.released /\ ~repeat THEN ~k.caps ELSE k.caps]
        flags == {f \in {"pressed", "repeat", "shift", "caps"} :
                    CASE f = "pressed" -> ~p.released
                      [] f = "repeat"  -> repeat
                      [] f = "shift"   -> next.shift
                      [] f = "caps"    -> next.caps}
    IN  IF p.e1 THEN [keyboard |-> k, queue |-> q, status |-> "INVALID_ARGUMENT"]
        ELSE IF p.key = "print" THEN [keyboard |-> k, queue |-> q, status |-> "NOT_SUPPORTED"]
        ELSE LET pushed == input_emit_key(q, p.key, flags)
             IN  [keyboard |-> next, queue |-> pushed.queue, status |-> pushed.status]

(* An absolute position, scaled to the display.                            *)
Scaled(raw, size) ==
    ((IF raw > LogicalMaximum THEN LogicalMaximum ELSE raw) * (size - 1)) \div LogicalMaximum

hyperv_mouse_handle_report(m, q, r) ==
    LET sent == MoveAndButton(q, Scaled(r.x, Width) - q.x, Scaled(r.y, Height) - q.y,
                              m.left, r.left)
    IN  [mouse |-> [left |-> r.left], queue |-> sent.queue, status |-> sent.status]

(* The acknowledgement of the device information is written to the other   *)
(* ring; the host takes it at once or the hypercall fails.                 *)
Acknowledged == IF faults > 0 THEN {"OK", "IO"} ELSE {"OK"}

Outcomes(p) ==
    CASE p.kind = "event" ->
             {hyperv_keyboard_handle_event(keyboard, queue, p)}
      [] p.kind = "report" -> {hyperv_mouse_handle_report(mouse, queue, p.report)}
      [] p.kind = "info"   -> [queue : {queue}, status : Acknowledged]
      [] OTHER             -> [queue : {queue}, status : {"NOT_SUPPORTED"}]

(* The end of hyperv_keyboard_poll and hyperv_mouse_poll, and the loop of  *)
(* hyperv_platform_input_poll: on after a success, to the next device when *)
(* there is nothing or a key without a meaning, and without the device     *)
(* from then on after any other status.                                    *)
HandlePacket ==
    /\ At("handle")
    /\ LET d == Top.device
       IN  \E r \in Outcomes(Top.packet) :
              /\ keyboard' = IF Top.packet.kind = "event" THEN r.keyboard ELSE keyboard
              /\ mouse' = IF Top.packet.kind = "report" THEN r.mouse ELSE mouse
              /\ queue' = r.queue
              /\ faults' = IF r.status = "IO" THEN faults - 1 ELSE faults
              /\ handled' = [handled EXCEPT ![d] = @ + 1]
              /\ ready' = [ready EXCEPT ![d] = @ /\ r.status \in {"OK", "NOT_SUPPORTED"}]
              /\ Now(IF r.status = "OK" THEN Step("poll", d) ELSE After(d))
    /\ UNCHANGED <<bus, channel, boot, slot, host, platform, setup, person, bytes, output>>

(* input_queue_pop until the queue is empty; then the step is over.        *)
TakeEvent ==
    /\ At("pop")
    /\ \/ queue.count > 0 /\ queue' = input_queue_pop(queue) /\ UNCHANGED stack
       \/ queue.count = 0 /\ stack' = SubSeq(stack, 1, Len(stack) - 1) /\ UNCHANGED queue
    /\ UNCHANGED <<busVars, platform, setup, keyboard, mouse, person, bytes, output, handled>>

RunStep ==
    \/ StartStep \/ ReadStatusPort \/ ReadDataPort \/ HyperVPoll \/ CopyPacket \/ PublishRead
    \/ HandlePacket \/ TakeEvent

BootHyperV == platform = "hyperv" /\ GuestBoots /\ UNCHANGED inputVars
(* Nothing in the kernel looks at the message slot once it has booted.     *)
ServeHyperV == platform = "hyperv" /\ boot.pc # "done" /\ HostBoots /\ UNCHANGED inputVars

Next ==
    \/ Ps2Command \/ BootHyperV \/ ServeHyperV
    \/ PressKey \/ ReleaseKey \/ MoveMouse \/ ControllerLoads
    \/ runtime_tick \/ RunStep

(* The idle loop runs a step after every interrupt and the step goes on    *)
(* until it returns; the PS/2 controller offers the bytes it has.          *)
Spec == Init /\ [][Next]_vars /\ WF_vars(RunStep) /\ WF_vars(ControllerLoads)

-----------------------------------------------------------------------------
(* Properties.                                                             *)

(* Indices stay inside their buffers and the pointer on the display.       *)
TypeOK ==
    /\ queue.head \in 0 .. Capacity - 1 /\ queue.count \in 0 .. Capacity
    /\ queue.x \in 0 .. Width - 1 /\ queue.y \in 0 .. Height - 1
    /\ \A d \in DeviceSet : channel[d].in.read \in 0 .. RingUnits - 1
                            /\ channel[d].in.write \in 0 .. RingUnits - 1
    /\ Len(stack) <= 2 /\ faults \in 0 .. Faults

(* Every packet the host sends to a device that is served is handled       *)
(* whole, once and in the order it was sent: hyperv_ring_read does not     *)
(* give space back before it has copied what is there, nor read it again.  *)
ReportsHandledInOrder ==
    \A i \in 1 .. Len(stack) :
        stack[i].pc = "handle" => stack[i].packet.n = handled[stack[i].device] + 1

(* The events in the queue change only by one leaving at the front or some *)
(* joining at the end, also where the circular buffer wraps and when it is *)
(* full (input_queue_push and input_queue_pop).                            *)
QueueIsFifo ==
    [][\/ /\ Len(Queued(queue)') >= Len(Queued(queue))
          /\ SubSeq(Queued(queue)', 1, Len(Queued(queue))) = Queued(queue)
       \/ queue.count > 0 /\ Queued(queue)' = Tail(Queued(queue))]_vars

(* When everything sent has been decoded, the PS/2 driver's idea of the    *)
(* keys is what the person holds, after prefixes, Pause, codes it does not *)
(* know and events the queue dropped; caps lock has changed once for every *)
(* press, not for repeats.                                                 *)
KeysFollowPerson ==
    Ps2Ready /\ bytes["keyboard"] = <<>> /\ ~(output.full /\ output.device = "keyboard") =>
        /\ keyboard.pause = 0 /\ ~keyboard.break /\ ~keyboard.extended
        /\ ShiftDown(keyboard) <=> person.held \cap Shifts # {}
        /\ keyboard.caps = person.caps /\ ~ControlDown(keyboard)

(* The same of the Hyper-V driver while it is served, but for Shift.  It    *)
(* has one flag for the two keys, which follows the last of them that was  *)
(* pressed or let go: never set with none held, but clear with one held,   *)
(* from when the other is let go until one is pressed again                *)
(* (hyperv_keyboard_handle_event; Control and Alt have the same code).     *)
FlagsFollowKeys ==
    HyperVReady /\ ready["keyboard"] /\ handled["keyboard"] = person.reports["keyboard"] =>
        /\ keyboard.shift <=> person.held \cap Shifts # {} /\ ~person.halved
        /\ keyboard.caps = person.caps /\ keyboard.down = person.held \ {"print"}

(* No event says that a key repeats unless a key was sent again while it   *)
(* was held: neither driver takes one press for two.                       *)
RepeatsAreReal ==
    \A i \in 1 .. queue.count :
        LET e == Queued(queue)[i]
        IN  e.kind = "key" /\ "repeat" \in e.flags => person.repeated

(* A PS/2 controller that was set up sends scan code set 2 untranslated,   *)
(* whatever configuration the firmware left, and both devices report.      *)
ControllerConfigured ==
    Ps2Ready =>
        /\ setup.controller.configuration = {"keyboard irq", "mouse irq"}
        /\ setup.controller.keyboard = "enabled" /\ setup.controller.set = 2
        /\ setup.controller.mouse = "streaming"

(* What a device has sent is taken in the end, unless the device is given  *)
(* up: the poll loops end and no packet or byte is left behind.            *)
Pending(d) == IF platform = "ps2" THEN bytes[d] # <<>>
              ELSE HyperVReady /\ ready[d] /\ ring_used(channel[d].in) # 0
ReportsTaken == \A d \in DeviceSet : Pending(d) ~> ~Pending(d)

(* A device is in use only as both sides agreed, on Hyper-V after any late *)
(* answers, on PS/2 whatever the firmware left (vmbus.c, input.c, ps2).    *)
DevicesSetUp == TypeOK /\ OpenChannelAgreed /\ ReadyDeviceApproved /\ ControllerConfigured

(* What the drivers report is what the person did: every report once and   *)
(* in order, Caps Lock and the keys as they are, Shift as it is held on    *)
(* PS/2 and as it was last touched on Hyper-V, no repeats of their own.    *)
InputFaithful ==
    ReportsHandledInOrder /\ KeysFollowPerson /\ FlagsFollowKeys /\ RepeatsAreReal
=============================================================================
