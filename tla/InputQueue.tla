----------------------------- MODULE InputQueue -----------------------------
(***************************************************************************)
(* The queue of normalized input events (gui/input/events.c): a circular   *)
(* buffer that drops and counts what does not fit, and the position of the *)
(* pointer, which moves even when its event is dropped.  A queue is a      *)
(* record; push and pop run with interrupts disabled, so each is one step. *)
(*                                                                         *)
(* Pushing returns [queue, status]; NO_SPACE is the only failure, because  *)
(* every event the drivers build passes event_is_valid.                    *)
(***************************************************************************)
EXTENDS Integers, Sequences

CONSTANTS Capacity,        \* IOS_INPUT_QUEUE_CAPACITY
          Width, Height    \* the display the pointer stays on

ASSUME InputQueueAssumption ==
    Capacity \in Nat \ {0} /\ Width \in Nat \ {0} /\ Height \in Nat \ {0}

NoEvent == [kind |-> "none"]

input_queue_initialize ==
    [slots |-> [i \in 0 .. Capacity - 1 |-> NoEvent], head |-> 0, count |-> 0, dropped |-> 0,
     x |-> 0, y |-> 0]

(* Faulty: a full queue takes the event all the same.                    *)
input_queue_push_overwrites(q, e) ==
    [queue |-> [q EXCEPT !.slots[(q.head + q.count) % Capacity] = e,
                         !.count = IF @ = Capacity THEN @ ELSE @ + 1],
     status |-> "OK"]

input_queue_push(q, e) ==
    IF q.count = Capacity
    THEN [queue |-> [q EXCEPT !.dropped = @ + 1], status |-> "NO_SPACE"]
    ELSE [queue |-> [q EXCEPT !.slots[(q.head + q.count) % Capacity] = e, !.count = @ + 1],
          status |-> "OK"]

(* The events in the queue, oldest first.                                  *)
Queued(q) == [i \in 1 .. q.count |-> q.slots[(q.head + i - 1) % Capacity]]

Front(q) == q.slots[q.head]
input_queue_pop(q) == [q EXCEPT !.head = (@ + 1) % Capacity, !.count = @ - 1]

input_emit_key(q, key, flags) == input_queue_push(q, [kind |-> "key", key |-> key, flags |-> flags])

Clamped(v, size) == IF v < 0 THEN 0 ELSE IF v >= size THEN size - 1 ELSE v

input_emit_pointer_move(q, dx, dy) ==
    LET moved == [q EXCEPT !.x = Clamped(@ + dx, Width), !.y = Clamped(@ + dy, Height)]
    IN  input_queue_push(moved, [kind |-> "move", x |-> moved.x, y |-> moved.y])

input_emit_pointer_button(q, pressed) ==
    input_queue_push(q, [kind |-> "button", pressed |-> pressed, x |-> q.x, y |-> q.y])

(* A move, when there is one, and then the change of the button, when it   *)
(* changed: both drivers report the first failure and go on after it.  One *)
(* button stands for the three.                                            *)
MoveAndButton(q, dx, dy, old, new) ==
    LET move == IF dx = 0 /\ dy = 0 THEN [queue |-> q, status |-> "OK"]
                ELSE input_emit_pointer_move(q, dx, dy)
        button == IF old = new THEN [queue |-> move.queue, status |-> "OK"]
                  ELSE input_emit_pointer_button(move.queue, new)
    IN  [queue |-> button.queue,
         status |-> IF move.status = "OK" THEN button.status ELSE move.status]
=============================================================================
