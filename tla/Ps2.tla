-------------------------------- MODULE Ps2 --------------------------------
(***************************************************************************)
(* The PS/2 keyboard and mouse (drivers/ps2/keyboard.c, mouse.c): the      *)
(* commands that set up the controller and the two devices, and the        *)
(* decoding of the bytes they send.  A keyboard or a mouse is a record; a  *)
(* byte is a string for the keyboard and a record for the mouse.           *)
(***************************************************************************)
EXTENDS InputQueue

-----------------------------------------------------------------------------
(* Keyboard bytes, scan code set 2.                                        *)

LeftShift == "12"
RightShift == "59"
LeftControl == "14"
CapsLock == "58"
(* key_for_scan: the codes without a key return NOT_SUPPORTED.             *)
Unmapped == {"unknown", "77"}

(* What the keyboard sends; Pause has no break code.                       *)
MakeBytes(key) ==
    CASE key = "shift_l" -> <<LeftShift>>
      [] key = "shift_r" -> <<RightShift>>
      [] key = "caps"    -> <<CapsLock>>
      [] key = "arrow"   -> <<"e0", "6b">>
      [] key = "pause"   -> <<"e1", "14", "77", "e1", "f0", "14", "f0", "77">>
      [] key = "print"   -> <<"e0", "12", "e0", "7c">>
      [] OTHER           -> <<key>>
BreakBytes(key) ==
    CASE key = "arrow" -> <<"e0", "f0", "6b">>
      [] key = "print" -> <<"e0", "f0", "7c", "e0", "f0", "12">>
      [] OTHER         -> <<"f0">> \o MakeBytes(key)

ps2_keyboard_initialize ==
    [pause |-> 0, extended |-> FALSE, break |-> FALSE, down |-> {}, caps |-> FALSE]

(* left_shift and right_shift are kept apart; like key_down they follow    *)
(* the last make or break of their key, so they are read from it.          *)
ShiftDown(k) == <<FALSE, LeftShift>> \in k.down \/ <<FALSE, RightShift>> \in k.down
ControlDown(k) == <<FALSE, LeftControl>> \in k.down

(* In the extended set only the arrows, right control and right alt exist. *)
IsMapped(byte, extended) == IF extended THEN byte \in {"6b", "14"} ELSE byte \notin Unmapped

Prefixed(k, byte) ==
    CASE byte = "e0" -> [k EXCEPT !.extended = TRUE]
      [] byte = "f0" -> [k EXCEPT !.break = TRUE]
      [] byte = "e1" -> [k EXCEPT !.extended = FALSE, !.break = FALSE, !.pause = 7]

Decoded(k, byte) ==
    LET index == <<k.extended, byte>>
        repeat == ~k.break /\ index \in k.down
    IN  [keyboard |-> [k EXCEPT !.break = FALSE, !.extended = FALSE,
                                !.down = IF k.break THEN @ \ {index} ELSE @ \cup {index},
                                !.caps = IF byte = CapsLock /\ ~k.extended /\ ~k.break /\ ~repeat
                                         THEN ~@ ELSE @],
         repeat |-> repeat]

Flags(k, released, repeat) ==
    {f \in {"pressed", "repeat", "shift", "control", "caps"} :
        CASE f = "pressed" -> ~released
          [] f = "repeat"  -> repeat
          [] f = "shift"   -> ShiftDown(k)
          [] f = "control" -> ControlDown(k)
          [] f = "caps"    -> k.caps}

(* The prefixes are over with the byte they came before, known or not.     *)
Unsupported(k) == [k EXCEPT !.break = FALSE, !.extended = FALSE]

ps2_keyboard_handle_byte(k, q, byte) ==
    CASE k.pause # 0 -> [keyboard |-> [k EXCEPT !.pause = @ - 1], queue |-> q, status |-> "OK"]
      [] k.pause = 0 /\ byte \in {"e0", "f0", "e1"} ->
             [keyboard |-> Prefixed(k, byte), queue |-> q, status |-> "OK"]
      [] k.pause = 0 /\ byte \notin {"e0", "f0", "e1"} /\ ~IsMapped(byte, k.extended) ->
             [keyboard |-> Unsupported(k), queue |-> q, status |-> "NOT_SUPPORTED"]
      [] OTHER ->
             LET d == Decoded(k, byte)
                 pushed == input_emit_key(q, byte, Flags(d.keyboard, k.break, d.repeat))
             IN  [keyboard |-> d.keyboard, queue |-> pushed.queue, status |-> pushed.status]

-----------------------------------------------------------------------------
(* Mouse packets of three bytes: a header, whose bit 3 is always set, and  *)
(* two movements.  "sync" is bit 3 of the byte; -1 is 0xff, so a movement  *)
(* may have it set too.                                                    *)

MoveByte(d) == [sync |-> d < 0, value |-> d, left |-> FALSE, overflow |-> FALSE]
HeaderByte(left, overflow) == [sync |-> TRUE, value |-> 0, left |-> left, overflow |-> overflow]
MousePacket(left, overflow, dx, dy) == <<HeaderByte(left, overflow), MoveByte(dx), MoveByte(dy)>>

ps2_mouse_initialize == [packet |-> <<>>, left |-> FALSE]

(* A packet that overflowed moves nothing but still tells the buttons.     *)
ps2_mouse_handle_byte(m, q, byte) ==
    LET packet == Append(m.packet, byte)
    IN  CASE m.packet = <<>> /\ ~byte.sync -> [mouse |-> m, queue |-> q, status |-> "PROTOCOL"]
          [] (m.packet # <<>> \/ byte.sync) /\ Len(packet) < 3 ->
                 [mouse |-> [m EXCEPT !.packet = packet], queue |-> q, status |-> "OK"]
          [] OTHER ->
                 LET header == packet[1]
                     dx == IF header.overflow THEN 0 ELSE packet[2].value
                     dy == IF header.overflow THEN 0 ELSE -packet[3].value
                     sent == MoveAndButton(q, dx, dy, m.left, header.left)
                 IN  [mouse |-> [packet |-> <<>>, left |-> header.left],
                      queue |-> sent.queue, status |-> sent.status]

-----------------------------------------------------------------------------
(* ps2_keyboard_hardware_initialize and ps2_mouse_hardware_initialize as a *)
(* list of commands.  "to" is the controller, the keyboard or the mouse;   *)
(* a command to a device is repeated while the device asks for it again,   *)
(* at most three times.  "good" is the answer the code insists on.         *)

Command(to, does, good) == [to |-> to, does |-> does, good |-> good]

Script ==
    << Command("controller", "disable keyboard", "none"),
       Command("controller", "read configuration", "any"),
       Command("controller", "write keyboard off", "none"),
       Command("controller", "self test", "55"),
       Command("controller", "test keyboard port", "00"),
       Command("controller", "enable keyboard", "none"),
       Command("keyboard", "scan code set", "ack"),
       Command("keyboard", "set 2", "ack"),
       Command("keyboard", "report keys", "ack"),
       Command("controller", "write keyboard on", "none"),
       Command("controller", "enable mouse", "none"),
       Command("controller", "test mouse port", "00"),
       Command("controller", "read configuration", "any"),
       Command("controller", "write mouse on", "none"),
       Command("mouse", "defaults", "ack"),
       Command("mouse", "report moves", "ack") >>

(* The configuration byte as the driver keeps it between reading and       *)
(* writing it, and the controller as the commands leave it.  The firmware  *)
(* may leave any configuration behind, with translation to set 1 on.       *)
PowerOnControllers ==
    [configuration : SUBSET {"keyboard irq", "mouse irq", "translate"}, read : {{}},
     keyboard : {"enabled", "disabled"}, set : {1}, mouse : {"off"}, selecting : {FALSE}]

Obeyed(c, does) ==
    CASE does = "disable keyboard"   -> [c EXCEPT !.keyboard = "disabled"]
      [] does = "enable keyboard"    -> [c EXCEPT !.keyboard = "enabled"]
      [] does = "read configuration" -> [c EXCEPT !.read = c.configuration]
      [] does = "write keyboard off" -> [c EXCEPT !.configuration = {}, !.read = {}]
      [] does = "write keyboard on"  -> [c EXCEPT !.read = @ \cup {"keyboard irq"},
                                                  !.configuration = c.read \cup {"keyboard irq"}]
      [] does = "write mouse on"     -> [c EXCEPT !.read = @ \cup {"mouse irq"},
                                                  !.configuration = c.read \cup {"mouse irq"}]
      [] does = "scan code set"      -> [c EXCEPT !.selecting = TRUE]
      [] does = "set 2"              -> [c EXCEPT !.selecting = FALSE,
                                                  !.set = IF c.selecting THEN 2 ELSE @]
      [] does = "report moves"       -> [c EXCEPT !.mouse = "streaming"]
      [] OTHER                       -> c
=============================================================================
