----------------------------- MODULE MCDesktop -----------------------------
(* A screen of four by three cells with the windows the runtime places:    *)
(* explorer on the left, viewers on the right, close button in the corner. *)
EXTENDS Desktop

Placement == [explorer |-> Rect(0, 0, 2, 2), txt |-> Rect(2, 1, 1, 1), doc |-> Rect(2, 2, 1, 1),
              close |-> Rect(3, 0, 1, 1)]

Key(code, pressed) == [kind |-> "key", code |-> code, pressed |-> pressed]
Press(at) == [kind |-> "button", button |-> "left", pressed |-> TRUE, at |-> at]
Reports == {Key("text", TRUE), Key("enter", TRUE), Key("escape", TRUE),
            Press(<<0, 0>>), Press(<<2, 2>>), Press(<<3, 0>>),
            [kind |-> "move", at |-> <<3, 2>>]}
MoveTo == {<<1, 1>>}

Boots == [available : {TRUE}, surfaces_match : {TRUE}, ready : {{"explorer", "doc", "txt"}}]
         \cup [available : {TRUE}, surfaces_match : {FALSE}, ready : {{"explorer"}}]
         \cup [available : {TRUE}, surfaces_match : {TRUE}, ready : {{"doc"}}]
         \cup [available : {FALSE}, surfaces_match : {TRUE}, ready : {{"explorer"}}]
=============================================================================
