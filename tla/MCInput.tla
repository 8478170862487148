------------------------------ MODULE MCInput ------------------------------
(* A keyboard and a mouse, three versions of which the host knows two, and *)
(* rings with room for one packet at a time.                               *)
EXTENDS Input

InputDevices == <<"keyboard", "mouse">>
GuestVersions == <<3, 2, 1>>
OfferedDevices == {{"keyboard", "mouse"}, {"mouse"}, {}}
Greetings == [d \in {"keyboard", "mouse"} |->
                [kind |-> "greeting", units |-> IF d = "keyboard" THEN 1 ELSE 3, n |-> 0]]
Replies == [d \in {"keyboard", "mouse"} |->
              [kind |-> "reply", units |-> IF d = "keyboard" THEN 1 ELSE 3, n |-> 0, ok |-> TRUE]]
ReportBounds == [ps2 |-> 3, hyperv |-> 3]
MouseMoves == {[left |-> TRUE, x |-> 2, y |-> 1]}
=============================================================================
