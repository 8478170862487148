----------------------------- MODULE InputProofs -----------------------------
(***************************************************************************)
(* The way of a key or a mouse report to the event queue, for every set of *)
(* keys, every size of the rings, of the queue and of the display, and any *)
(* number of reports and faults: a device is used only as both sides have  *)
(* agreed, whatever comes late while it is set up, the event queue loses   *)
(* and reorders nothing it has taken, and what the drivers report is what  *)
(* the person did.  For the last, Faith says of every byte or packet still *)
(* on its way what the driver will make of it.                             *)
(***************************************************************************)
EXTENDS Input, FiniteSetTheorems, SequenceTheorems, TLAPS

-----------------------------------------------------------------------------
(* Arithmetic of a circular buffer: at most one turn is added or taken off. *)
LEMMA Turn ==
    ASSUME NEW c \in Nat \ {0}, NEW a \in Int, -c <= a, a < 2 * c
    PROVE  a % c = IF a < 0 THEN a + c ELSE IF a < c THEN a ELSE a - c
<1>1. CASE a < 0
  BY <1>1
<1>2. CASE 0 <= a /\ a < c
  BY <1>2
<1>3. CASE c <= a
  BY <1>3
<1>4. QED
  BY <1>1, <1>2, <1>3

(* Places of a buffer of c places of which n are taken from h on.           *)
LEMMA Places ==
    ASSUME NEW c \in Nat \ {0}, NEW h \in 0 .. c - 1, NEW n \in 0 .. c
    PROVE  /\ n < c => \A i \in 1 .. n : (h + i - 1) % c # (h + n) % c
           /\ \A i \in 1 .. c : (((h + 1) % c) + i - 1) % c = (h + (i + 1) - 1) % c
           /\ \A a \in Nat : a % c \in 0 .. c - 1
<1>1. \A a \in Nat : a < 2 * c => a % c = IF a < c THEN a ELSE a - c
  <2>1. ASSUME NEW a \in Nat, a < 2 * c PROVE a % c = IF a < c THEN a ELSE a - c
    <3>1. CASE a < c
      BY <3>1
    <3>2. CASE ~(a < c)
      BY <2>1, <3>2
    <3>3. QED
      BY <3>1, <3>2
  <2>2. QED
    BY <2>1
<1>2. ASSUME NEW i \in 1 .. c PROVE (((h + 1) % c) + i - 1) % c = (h + (i + 1) - 1) % c
  <2>1. (h + 1) % c = IF h + 1 < c THEN h + 1 ELSE (h + 1) - c
    BY <1>1
  <2>2. (((h + 1) % c) + i) - 1 \in Nat /\ (((h + 1) % c) + i) - 1 < 2 * c
    BY <2>1
  <2>3. h + (i + 1) - 1 \in Nat /\ h + (i + 1) - 1 < 2 * c
    OBVIOUS
  <2>4. QED
    BY <1>1, <2>1, <2>2, <2>3
<1>3. ASSUME n < c, NEW i \in 1 .. n PROVE (h + i - 1) % c # (h + n) % c
  <2>1. h + i - 1 \in Nat /\ h + i - 1 < 2 * c /\ h + n \in Nat /\ h + n < 2 * c
    BY <1>3
  <2>2. QED
    BY <1>1, <1>3, <2>1
<1>4. \A a \in Nat : a % c \in 0 .. c - 1
  OBVIOUS
<1>5. QED
  BY <1>2, <1>3, <1>4

-----------------------------------------------------------------------------
(* The event queue.                                                        *)

Queues(events) ==
    [slots : [0 .. Capacity - 1 -> events], head : 0 .. Capacity - 1, count : 0 .. Capacity,
     dropped : Nat, x : 0 .. Width - 1, y : 0 .. Height - 1]
QueueSound(q) == \E events : q \in Queues(events)

LEMMA QueueFields ==
    ASSUME NEW q, QueueSound(q)
    PROVE  /\ q.head \in 0 .. Capacity - 1 /\ q.count \in 0 .. Capacity
           /\ q.x \in 0 .. Width - 1 /\ q.y \in 0 .. Height - 1
           /\ Capacity \in Nat \ {0}
  BY InputQueueAssumption DEF QueueSound, Queues

(* What RepeatsAreReal says of one event.                                   *)
Honest(e, repeated) == e.kind = "key" /\ "repeat" \in e.flags => repeated

(* The queue q became r by pushes: what was queued is where it was, and     *)
(* what was added is honest.                                                *)
Pushed(q, r, repeated) ==
    /\ QueueSound(r) /\ q.count <= r.count
    /\ \A i \in 1 .. q.count : Queued(r)[i] = Queued(q)[i]
    /\ \A i \in q.count + 1 .. r.count : Honest(Queued(r)[i], repeated)

LEMMA PushedNone ==
    ASSUME NEW q, QueueSound(q), NEW b
    PROVE  Pushed(q, q, b)
  BY QueueFields DEF Pushed

LEMMA PushedTwice ==
    ASSUME NEW q, NEW r, NEW s, NEW b, QueueSound(q), Pushed(q, r, b), Pushed(r, s, b)
    PROVE  Pushed(q, s, b)
  BY QueueFields DEF Pushed

(* input_queue_push: a full queue keeps what it has, another gets the event *)
(* at its end, wherever the buffer wraps.                                   *)
LEMMA PushFacts ==
    ASSUME NEW q, QueueSound(q), NEW e, NEW b, Honest(e, b)
    PROVE  Pushed(q, input_queue_push(q, e).queue, b)
<1> DEFINE r == input_queue_push(q, e).queue
           t == (q.head + q.count) % Capacity
<1>1. Capacity \in Nat \ {0} /\ q.head \in 0 .. Capacity - 1 /\ q.count \in 0 .. Capacity
      /\ q.x \in 0 .. Width - 1 /\ q.y \in 0 .. Height - 1
  BY QueueFields
<1>2. t \in 0 .. Capacity - 1
  BY <1>1, Turn
<1>3. PICK old : q \in Queues(old)
  BY DEF QueueSound
<1> DEFINE events == old \cup {e}
<1>4. q \in Queues(events)
  BY <1>3 DEF Queues
<1>5. CASE q.count = Capacity
  <2>1. r = [q EXCEPT !.dropped = @ + 1]
    BY <1>5 DEF input_queue_push
  <2>2. r \in Queues(events) /\ r.slots = q.slots /\ r.head = q.head /\ r.count = q.count
    BY <1>4, <2>1 DEF Queues
  <2>3. Queued(r) = Queued(q)
    BY <2>2 DEF Queued
  <2>4. QueueSound(r)
    BY <2>2 DEF QueueSound
  <2>5. QED
    BY <2>2, <2>3, <2>4, <1>1 DEF Pushed
<1>6. CASE q.count # Capacity
  <2> DEFINE c == q.count + 1
  <2>1. c \in 0 .. Capacity
    BY <1>1, <1>6
  <2>2. r = [q EXCEPT !.slots[t] = e, !.count = c]
    BY <1>6, <1>4 DEF input_queue_push, Queues
  <2>3. /\ r \in Queues(events) /\ r.slots = [q.slots EXCEPT ![t] = e]
        /\ r.head = q.head /\ r.count = c
    <3>1. e \in events
      OBVIOUS
    <3> HIDE DEF t, c, r, events
    <3>2. QED
      BY <1>2, <1>4, <2>1, <2>2, <3>1 DEF Queues
  <2>4. q.slots \in [0 .. Capacity - 1 -> events]
    BY <1>4 DEF Queues
  <2>5. r.slots[t] = e /\ \A i \in 0 .. Capacity - 1 : i # t => r.slots[i] = q.slots[i]
    <3> HIDE DEF t, c
    <3>1. QED
      BY <1>2, <2>3, <2>4
  <2>6. ASSUME NEW i \in 1 .. q.count PROVE Queued(r)[i] = Queued(q)[i]
    <3>1. (q.head + i - 1) % Capacity \in 0 .. Capacity - 1
          /\ (q.head + i - 1) % Capacity # t
      <4>1. q.head + i - 1 \in Nat /\ q.count < Capacity
        BY <1>1, <1>6
      <4>2. QED
        BY <1>1, <4>1, Places
    <3>2. Queued(r)[i] = r.slots[(q.head + i - 1) % Capacity]
          /\ Queued(q)[i] = q.slots[(q.head + i - 1) % Capacity]
      BY <2>3, <1>1 DEF Queued
    <3>3. QED
      BY <3>1, <3>2, <2>5
  <2>7. Queued(r)[c] = e
    <3>1. Queued(r)[c] = r.slots[(q.head + c - 1) % Capacity]
      BY <2>1, <2>3, <1>1 DEF Queued
    <3>2. q.head + c - 1 = q.head + q.count
      BY <1>1
    <3>3. QED
      BY <3>1, <3>2, <2>5
  <2>8. QueueSound(r)
    BY <2>3 DEF QueueSound
  <2>9. QED
    BY <2>3, <2>6, <2>7, <2>8, <1>1 DEF Pushed
<1>7. QED
  BY <1>5, <1>6

(* input_queue_pop: the oldest event leaves, the others move up.            *)
LEMMA PopFacts ==
    ASSUME NEW q, QueueSound(q), q.count > 0
    PROVE  /\ QueueSound(input_queue_pop(q)) /\ input_queue_pop(q).count = q.count - 1
           /\ \A i \in 1 .. q.count - 1 : Queued(input_queue_pop(q))[i] = Queued(q)[i + 1]
<1> DEFINE r == input_queue_pop(q)
           h == (q.head + 1) % Capacity
           c == q.count - 1
<1>1. Capacity \in Nat \ {0} /\ q.head \in 0 .. Capacity - 1 /\ q.count \in 0 .. Capacity
      /\ q.x \in 0 .. Width - 1 /\ q.y \in 0 .. Height - 1
  BY QueueFields
<1>2. h \in 0 .. Capacity - 1 /\ c \in 0 .. Capacity
  <2>1. q.head + 1 \in Nat
    BY <1>1
  <2>2. QED
    BY <1>1, <2>1, Places
<1>3. PICK old : q \in Queues(old)
  BY DEF QueueSound
<1>6. r = [q EXCEPT !.head = h, !.count = c]
  BY <1>3 DEF input_queue_pop, Queues
<1>7. r \in Queues(old) /\ r.slots = q.slots /\ r.head = h /\ r.count = c
  <2> HIDE DEF h, c, r
  <2>1. QED
    BY <1>2, <1>3, <1>6 DEF Queues
<1>8. ASSUME NEW i \in 1 .. q.count - 1 PROVE Queued(r)[i] = Queued(q)[i + 1]
  <2>1. (h + i - 1) % Capacity = (q.head + (i + 1) - 1) % Capacity
    <3>1. i \in 1 .. Capacity
      BY <1>1
    <3>2. QED
      BY <1>1, <3>1, Places
  <2>2. Queued(r)[i] = q.slots[(h + i - 1) % Capacity]
    BY <1>7, <1>1 DEF Queued
  <2>3. Queued(q)[i + 1] = q.slots[(q.head + (i + 1) - 1) % Capacity]
    BY <1>1 DEF Queued
  <2>4. QED
    BY <2>1, <2>2, <2>3
<1>9. QED
  BY <1>7, <1>8 DEF QueueSound

LEMMA ClampedFacts ==
    ASSUME NEW v \in Int, NEW size \in Nat \ {0}
    PROVE  Clamped(v, size) \in 0 .. size - 1
  BY DEF Clamped

(* A move moves the pointer, also when its event is dropped.                *)
LEMMA MoveFacts ==
    ASSUME NEW q, QueueSound(q), NEW dx \in Int, NEW dy \in Int, NEW b
    PROVE  Pushed(q, input_emit_pointer_move(q, dx, dy).queue, b)
<1> DEFINE m == [q EXCEPT !.x = Clamped(@ + dx, Width), !.y = Clamped(@ + dy, Height)]
           e == [kind |-> "move", x |-> m.x, y |-> m.y]
<1>1. Capacity \in Nat \ {0} /\ q.head \in 0 .. Capacity - 1 /\ q.count \in 0 .. Capacity
      /\ q.x \in 0 .. Width - 1 /\ q.y \in 0 .. Height - 1
  BY QueueFields
<1>2. PICK old : q \in Queues(old)
  BY DEF QueueSound
<1>3. QueueSound(m) /\ Queued(m) = Queued(q) /\ m.count = q.count
  <2> DEFINE px == Clamped(q.x + dx, Width)
             py == Clamped(q.y + dy, Height)
  <2>1. px \in 0 .. Width - 1 /\ py \in 0 .. Height - 1
    <3>1. q.x + dx \in Int /\ q.y + dy \in Int
      BY <1>1, InputQueueAssumption
    <3>2. QED
      BY <3>1, ClampedFacts, InputQueueAssumption
  <2>2. m = [q EXCEPT !.x = px, !.y = py]
    BY <1>2 DEF Queues
  <2>4. m \in Queues(old) /\ m.slots = q.slots /\ m.head = q.head /\ m.count = q.count
    <3> HIDE DEF px, py, m
    <3>1. QED
      BY <1>2, <2>1, <2>2 DEF Queues
  <2>5. QED
    BY <2>4 DEF QueueSound, Queued
<1>4. Honest(e, b)
  BY DEF Honest
<1>5. Pushed(m, input_queue_push(m, e).queue, b)
  BY <1>3, <1>4, PushFacts
<1>6. input_emit_pointer_move(q, dx, dy).queue = input_queue_push(m, e).queue
  BY DEF input_emit_pointer_move
<1>7. QED
  BY <1>3, <1>5, <1>6 DEF Pushed

LEMMA MoveAndButtonFacts ==
    ASSUME NEW q, QueueSound(q), NEW dx \in Int, NEW dy \in Int, NEW old, NEW new, NEW b
    PROVE  Pushed(q, MoveAndButton(q, dx, dy, old, new).queue, b)
<1> DEFINE m == IF dx = 0 /\ dy = 0 THEN [queue |-> q, status |-> "OK"]
                ELSE input_emit_pointer_move(q, dx, dy)
           n == IF old = new THEN [queue |-> m.queue, status |-> "OK"]
                ELSE input_emit_pointer_button(m.queue, new)
<1>1. Pushed(q, m.queue, b)
  BY MoveFacts, PushedNone
<1>2. QueueSound(m.queue)
  BY <1>1 DEF Pushed
<1>3. Pushed(m.queue, n.queue, b)
  <2>1. CASE old = new
    BY <2>1, <1>2, PushedNone
  <2>2. CASE old # new
    <3>1. Honest([kind |-> "button", pressed |-> new, x |-> m.queue.x, y |-> m.queue.y], b)
      BY DEF Honest
    <3>2. QED
      BY <2>2, <3>1, <1>2, PushFacts DEF input_emit_pointer_button
  <2>3. QED
    BY <2>1, <2>2
<1>4. Pushed(q, n.queue, b)
  BY <1>1, <1>2, <1>3, PushedTwice
<1>5. MoveAndButton(q, dx, dy, old, new).queue = n.queue
  BY DEF MoveAndButton
<1>6. QED
  BY <1>4, <1>5

-----------------------------------------------------------------------------
(* The rings of VMBus.                                                     *)

Rings(units) ==
    [data : [0 .. RingUnits - 1 -> units], write : 0 .. RingUnits - 1, read : 0 .. RingUnits - 1]
RingSound(r) == \E units : r \in Rings(units)

LEMMA RingFields ==
    ASSUME NEW r, RingSound(r)
    PROVE  /\ r.read \in 0 .. RingUnits - 1 /\ r.write \in 0 .. RingUnits - 1
           /\ RingUnits \in Nat /\ RingUnits > 3
           /\ ring_used(r) \in 0 .. RingUnits - 1
<1>1. r.read \in 0 .. RingUnits - 1 /\ r.write \in 0 .. RingUnits - 1
  BY DEF RingSound, Rings
<1>2. RingUnits \in Nat /\ RingUnits > 3
  BY HvRingAssumption DEF DescriptorUnits, TrailerUnits
<1>3. QED
  BY <1>1, <1>2 DEF ring_used

LEMMA Advance ==
    ASSUME NEW i \in 0 .. RingUnits - 1, NEW a \in 0 .. RingUnits, RingUnits \in Nat, RingUnits > 3
    PROVE  ring_advance(i, a) = IF i + a < RingUnits THEN i + a ELSE i + a - RingUnits
<1>1. CASE i + a < RingUnits
  BY <1>1 DEF ring_advance
<1>2. CASE ~(i + a < RingUnits)
  BY <1>2 DEF ring_advance
<1>3. QED
  BY <1>1, <1>2

LEMMA Behind ==
    ASSUME NEW i \in 0 .. RingUnits - 1, NEW w \in 0 .. RingUnits - 1,
           RingUnits \in Nat, RingUnits > 3
    PROVE  (i - w) % RingUnits = IF w <= i THEN i - w ELSE i - w + RingUnits
<1>1. CASE w <= i
  BY <1>1
<1>2. CASE ~(w <= i)
  BY <1>2
<1>3. QED
  BY <1>1, <1>2

LEMMA Units ==
    ASSUME NEW p, p.units \in Nat
    PROVE  PacketUnits(p) \in Nat /\ PacketUnits(p) >= 3 /\ PacketUnits(p) = p.units + 3
  BY DEF PacketUnits, DescriptorUnits, TrailerUnits

(* From its read index on the ring spells the packets lo + 1 .. hi of ps,   *)
(* of which pos gives the ends.                                             *)
Spells(ring, lo, hi, ps, pos) ==
    /\ pos[lo] = 0 /\ pos[hi] = ring_used(ring)
    /\ \A i \in lo .. hi : pos[i] \in 0 .. ring_used(ring)
    /\ \A i \in lo + 1 .. hi :
          /\ ps[i].units \in Nat
          /\ pos[i] = pos[i - 1] + PacketUnits(ps[i])
          /\ \A j \in i .. hi : pos[i] <= pos[j]
          /\ \A k \in 0 .. PacketUnits(ps[i]) - 1 :
                ring.data[ring_advance(ring.read, pos[i - 1] + k)] = <<ps[i], k>>

(* An empty ring spells nothing.                                            *)
LEMMA EmptySpells ==
    ASSUME NEW r, RingSound(r), r.read = r.write, NEW n \in Nat, NEW ps
    PROVE  Spells(r, n, n, ps, [i \in {n} |-> 0])
  BY RingFields DEF Spells, ring_used

LEMMA NothingToRead ==
    ASSUME NEW r, RingSound(r), NEW n \in Nat, NEW ps, NEW pos, Spells(r, n, n, ps, pos), NEW c
    PROVE  ReadStatus(r, c) = "WOULD_BLOCK" /\ r.read = r.write
<1>1. ring_used(r) = 0
  BY DEF Spells
<1>2. r.read = r.write
  BY <1>1, RingFields DEF ring_used
<1>3. QED
  BY <1>1, <1>2 DEF ReadStatus

(* What hyperv_ring_write changes: the units behind those in use.           *)
Wrote(r, p, s) ==
    /\ RingSound(s) /\ s.read = r.read
    /\ ring_used(s) = ring_used(r) + PacketUnits(p)
    /\ \A j \in 0 .. ring_used(r) - 1 :
          s.data[ring_advance(r.read, j)] = r.data[ring_advance(r.read, j)]
    /\ \A k \in 0 .. PacketUnits(p) - 1 :
          s.data[ring_advance(r.read, ring_used(r) + k)] = <<p, k>>

LEMMA WriteUnits ==
    ASSUME NEW r, RingSound(r), NEW p, p.units \in Nat, HasSpace(r, p),
           NEW s, s = hyperv_ring_write(r, p)
    PROVE  Wrote(r, p, s)
<1> DEFINE n == PacketUnits(p)
           u == ring_used(r)
           rd == r.read
           w == r.write
           w2 == ring_advance(w, n)
<1>1. /\ rd \in 0 .. RingUnits - 1 /\ w \in 0 .. RingUnits - 1
      /\ RingUnits \in Nat /\ RingUnits > 3 /\ u \in 0 .. RingUnits - 1
  BY RingFields
<1>2. u = IF w >= rd THEN w - rd ELSE RingUnits - (rd - w)
  BY DEF ring_used
<1>3. n \in Nat /\ n >= 3 /\ n <= RingUnits - u - 1
  BY Units DEF HasSpace
<1>4. PICK old : r \in Rings(old)
  BY DEF RingSound
<1> DEFINE units == old \cup {<<p, k>> : k \in 0 .. RingUnits - 1}
           data2 == [i \in 0 .. RingUnits - 1 |->
                        IF (i - w) % RingUnits < n THEN <<p, (i - w) % RingUnits>> ELSE r.data[i]]
<1>5. r.data \in [0 .. RingUnits - 1 -> old] /\ r.data \in [0 .. RingUnits - 1 -> units]
  BY <1>4 DEF Rings
<1>6. w2 = (IF w + n < RingUnits THEN w + n ELSE w + n - RingUnits) /\ w2 \in 0 .. RingUnits - 1
  <2>1. n \in 0 .. RingUnits
    BY <1>1, <1>3
  <2> HIDE DEF n, w
  <2>2. w2 = (IF w + n < RingUnits THEN w + n ELSE w + n - RingUnits)
    BY <1>1, <2>1, Advance
  <2>3. QED
    BY <1>1, <1>3, <2>2
<1>7. data2 \in [0 .. RingUnits - 1 -> units]
  <2>1. ASSUME NEW i \in 0 .. RingUnits - 1 PROVE data2[i] \in units
    <3>1. (i - w) % RingUnits \in 0 .. RingUnits - 1
      BY <1>1
    <3>2. QED
      BY <3>1, <1>5
  <2>2. QED
    BY <2>1
<1>8. s = [[r EXCEPT !.data = data2] EXCEPT !.write = w2]
  BY <1>4 DEF hyperv_ring_write, ring_copy_in, Rings
<1>9. s \in Rings(units) /\ s.data = data2 /\ s.write = w2 /\ s.read = rd
  <2> HIDE DEF data2, w2, units
  <2>1. r \in Rings(units)
    BY <1>4, <1>5 DEF Rings
  <2>2. QED
    BY <1>6, <1>7, <1>8, <2>1 DEF Rings
<1>10. RingSound(s)
  BY <1>9 DEF RingSound
<1>11. ring_used(s) = u + n
  <2> HIDE DEF n, u, w2
  <2>1. ring_used(s) = IF w2 >= rd THEN w2 - rd ELSE RingUnits - (rd - w2)
    BY <1>9 DEF ring_used
  <2>2. QED
    BY <1>1, <1>2, <1>3, <1>6, <2>1
<1>12. ASSUME NEW i \in 0 .. RingUnits - 1
       PROVE  data2[i] = LET b == IF w <= i THEN i - w ELSE i - w + RingUnits
                         IN  IF b < n THEN <<p, b>> ELSE r.data[i]
  <2>1. (i - w) % RingUnits = IF w <= i THEN i - w ELSE i - w + RingUnits
    BY <1>1, Behind
  <2>2. QED
    BY <2>1
<1>13. ASSUME NEW j \in 0 .. u - 1
       PROVE  s.data[ring_advance(rd, j)] = r.data[ring_advance(rd, j)]
  <2> DEFINE i == ring_advance(rd, j)
  <2>1. j \in 0 .. RingUnits
    BY <1>1
  <2> HIDE DEF u, n, data2
  <2>2. i = IF rd + j < RingUnits THEN rd + j ELSE rd + j - RingUnits
    BY <1>1, <2>1, Advance
  <2> HIDE DEF i
  <2>3. i \in 0 .. RingUnits - 1
    BY <1>1, <2>1, <2>2
  <2>4. ~((IF w <= i THEN i - w ELSE i - w + RingUnits) < n)
    BY <1>1, <1>2, <1>3, <2>1, <2>2, <1>13
  <2>5. QED
    BY <1>9, <1>12, <2>3, <2>4 DEF i
<1>14. ASSUME NEW k \in 0 .. n - 1
       PROVE  s.data[ring_advance(rd, u + k)] = <<p, k>>
  <2> DEFINE i == ring_advance(rd, u + k)
  <2>1. u + k \in 0 .. RingUnits
    BY <1>1, <1>3
  <2> HIDE DEF u, n, data2
  <2>2. i = IF rd + (u + k) < RingUnits THEN rd + (u + k) ELSE rd + (u + k) - RingUnits
    BY <1>1, <2>1, Advance
  <2> HIDE DEF i
  <2>3. i \in 0 .. RingUnits - 1
    BY <1>1, <2>1, <2>2
  <2>4. (IF w <= i THEN i - w ELSE i - w + RingUnits) = k
    BY <1>1, <1>2, <1>3, <2>1, <2>2, <1>14
  <2>5. k < n
    BY <1>3, <1>14
  <2>6. QED
    BY <1>9, <1>12, <2>3, <2>4, <2>5 DEF i
<1>15. QED
  BY <1>9, <1>10, <1>11, <1>13, <1>14 DEF Wrote

(* hyperv_ring_write appends a packet to those the ring spells.             *)
LEMMA WriteSpells ==
    ASSUME NEW r, RingSound(r), NEW p, p.units \in Nat, HasSpace(r, p),
           NEW lo \in Nat, NEW hi \in Nat, lo <= hi, NEW ps, NEW pos, Spells(r, lo, hi, ps, pos),
           NEW ps2, ps2[hi + 1] = p, \A i \in lo + 1 .. hi : ps2[i] = ps[i],
           NEW s, s = hyperv_ring_write(r, p)
    PROVE  \E pos2 : Spells(s, lo, hi + 1, ps2, pos2)
<1> DEFINE n == PacketUnits(p)
           u == ring_used(r)
           pos2 == [i \in lo .. hi + 1 |-> IF i = hi + 1 THEN u + n ELSE pos[i]]
<1>1. /\ u \in 0 .. RingUnits - 1 /\ RingUnits \in Nat /\ n \in Nat /\ n >= 3
  BY RingFields, Units
<1>2. /\ s.read = r.read /\ ring_used(s) = u + n
      /\ \A j \in 0 .. u - 1 : s.data[ring_advance(r.read, j)] = r.data[ring_advance(r.read, j)]
      /\ \A k \in 0 .. n - 1 : s.data[ring_advance(r.read, u + k)] = <<p, k>>
  <2>1. Wrote(r, p, s)
    BY WriteUnits
  <2>2. QED
    BY <2>1 DEF Wrote
<1>3. \A i \in lo .. hi : pos[i] \in 0 .. u /\ pos2[i] = pos[i]
  BY DEF Spells
<1>4. pos2[hi + 1] = u + n /\ pos[hi] = u /\ pos[lo] = 0 /\ pos2[lo] = 0
  BY DEF Spells
<1> HIDE DEF pos2, u, n
<1>5. \A i \in lo .. hi + 1 : pos2[i] \in 0 .. u + n
  BY <1>1, <1>3, <1>4
<1>6. ASSUME NEW i \in lo + 1 .. hi + 1
      PROVE  /\ ps2[i].units \in Nat
             /\ pos2[i] = pos2[i - 1] + PacketUnits(ps2[i])
             /\ \A j \in i .. hi + 1 : pos2[i] <= pos2[j]
             /\ \A k \in 0 .. PacketUnits(ps2[i]) - 1 :
                   s.data[ring_advance(s.read, pos2[i - 1] + k)] = <<ps2[i], k>>
  <2>1. CASE i = hi + 1
    <3>1. pos2[i - 1] = u /\ PacketUnits(ps2[i]) = n
      BY <2>1, <1>3, <1>4 DEF n
    <3>2. QED
      BY <2>1, <3>1, <1>1, <1>2, <1>4
  <2>2. CASE i # hi + 1
    <3>1. i \in lo + 1 .. hi /\ i - 1 \in lo .. hi /\ i \in lo .. hi
      BY <2>2
    <3>2. /\ ps[i].units \in Nat
          /\ pos[i] = pos[i - 1] + PacketUnits(ps[i])
          /\ \A j \in i .. hi : pos[i] <= pos[j]
          /\ \A k \in 0 .. PacketUnits(ps[i]) - 1 :
                r.data[ring_advance(r.read, pos[i - 1] + k)] = <<ps[i], k>>
      BY <3>1 DEF Spells
    <3>3. PacketUnits(ps[i]) \in Nat /\ pos[i] \in 0 .. u /\ pos[i - 1] \in 0 .. u
      BY <3>1, <3>2, <1>3, Units
    <3>4. \A j \in i .. hi + 1 : pos2[i] <= pos2[j]
      BY <3>1, <3>2, <3>3, <1>1, <1>3, <1>4
    <3>5. ASSUME NEW k \in 0 .. PacketUnits(ps[i]) - 1
          PROVE  s.data[ring_advance(s.read, pos2[i - 1] + k)] = <<ps2[i], k>>
      <4>1. pos[i - 1] + k \in 0 .. u - 1
        BY <3>2, <3>3, <1>1
      <4>2. s.data[ring_advance(r.read, pos[i - 1] + k)] = <<ps[i], k>>
        BY <4>1, <1>2, <3>2
      <4>3. QED
        BY <4>2, <1>2, <1>3, <3>1
    <3>6. QED
      BY <3>1, <3>2, <3>4, <3>5, <1>3
  <2>3. QED
    BY <2>1, <2>2
<1>7. Spells(s, lo, hi + 1, ps2, pos2)
  BY <1>2, <1>4, <1>5, <1>6 DEF Spells
<1>8. QED
  BY <1>7

(* A ring that spells something can be read, and then spells the rest.      *)
LEMMA ReadSpells ==
    ASSUME NEW r, RingSound(r), NEW lo \in Nat, NEW hi \in Nat, lo < hi,
           NEW ps, NEW pos, Spells(r, lo, hi, ps, pos)
    PROVE  /\ PacketAt(r) = ps[lo + 1] /\ ps[lo + 1].units \in Nat
           /\ PacketUnits(ps[lo + 1]) <= RingUnits - 1
           /\ \A c \in Nat : ps[lo + 1].units <= c => ReadStatus(r, c) = "OK"
           /\ IsWhole(r, r.read, ps[lo + 1])
           /\ LET s == [r EXCEPT !.read = AfterPacket(r.read, ps[lo + 1])]
              IN  RingSound(s) /\ \E pos2 : Spells(s, lo + 1, hi, ps, pos2)
<1> DEFINE p == ps[lo + 1]
           n == PacketUnits(p)
           u == ring_used(r)
           rd == r.read
           rd2 == ring_advance(rd, n)
           s == [r EXCEPT !.read = rd2]
           pos2 == [i \in lo + 1 .. hi |-> pos[i] - n]
<1>1. /\ rd \in 0 .. RingUnits - 1 /\ r.write \in 0 .. RingUnits - 1
      /\ RingUnits \in Nat /\ RingUnits > 3 /\ u \in 0 .. RingUnits - 1
      /\ u = IF r.write >= rd THEN r.write - rd ELSE RingUnits - (rd - r.write)
  BY RingFields DEF ring_used
<1>2. lo + 1 \in lo + 1 .. hi /\ (lo + 1) - 1 = lo /\ lo + 1 \in lo .. hi
  OBVIOUS
<1>3. /\ p.units \in Nat /\ pos[lo] = 0 /\ pos[hi] = u /\ pos[lo + 1] = pos[lo] + n
      /\ \A k \in 0 .. n - 1 : r.data[ring_advance(rd, pos[lo] + k)] = <<p, k>>
      /\ \A j \in lo + 1 .. hi : pos[lo + 1] <= pos[j]
      /\ \A j \in lo .. hi : pos[j] \in 0 .. u
  BY <1>2 DEF Spells
<1>4. n \in Nat /\ n >= 3 /\ n = p.units + 3 /\ pos[lo + 1] = n /\ n <= u
  <2>1. n \in Nat /\ n >= 3 /\ n = p.units + 3
    BY <1>3, Units
  <2> HIDE DEF n
  <2>2. QED
    BY <2>1, <1>1, <1>2, <1>3
<1>5. \A k \in 0 .. n - 1 : r.data[ring_advance(rd, k)] = <<p, k>>
  <2> HIDE DEF n
  <2>1. QED
    BY <1>3, <1>4
<1>6. ring_advance(rd, 0) = rd
  <2>1. 0 \in 0 .. RingUnits /\ rd + 0 = rd /\ rd < RingUnits
    BY <1>1
  <2>2. QED
    BY <1>1, <2>1, Advance
<1>7. r.data[rd] = <<p, 0>>
  <2>1. 0 \in 0 .. n - 1
    BY <1>4
  <2>2. QED
    BY <2>1, <1>5, <1>6
<1>8. PacketAt(r) = p
  BY <1>7 DEF PacketAt
<1>9. \A c \in Nat : p.units <= c => ReadStatus(r, c) = "OK"
  <2>1. <<p, 0>> # NoUnit /\ <<p, 0>>[1] = p /\ <<p, 0>>[2] = 0
    BY DEF NoUnit
  <2> HIDE DEF n, u
  <2>2. u # 0 /\ ~(u < DescriptorUnits + TrailerUnits) /\ ~(n > u)
    BY <1>1, <1>4 DEF DescriptorUnits, TrailerUnits
  <2>3. QED
    BY <2>1, <2>2, <1>3, <1>7 DEF ReadStatus, n, u
<1>10. IsWhole(r, rd, p)
  BY <1>5 DEF IsWhole
<1>11. rd2 = (IF rd + n < RingUnits THEN rd + n ELSE rd + n - RingUnits)
       /\ rd2 \in 0 .. RingUnits - 1
  <2>1. n \in 0 .. RingUnits
    BY <1>1, <1>4
  <2> HIDE DEF n
  <2>2. rd2 = (IF rd + n < RingUnits THEN rd + n ELSE rd + n - RingUnits)
    BY <1>1, <2>1, Advance
  <2>3. QED
    BY <1>1, <2>1, <2>2
<1>12. RingSound(s) /\ s.read = rd2 /\ s.write = r.write /\ s.data = r.data
  <2>1. PICK units : r \in Rings(units)
    BY DEF RingSound
  <2> HIDE DEF rd2
  <2>2. s \in Rings(units) /\ s.read = rd2 /\ s.write = r.write /\ s.data = r.data
    BY <1>11, <2>1 DEF Rings
  <2>3. QED
    BY <2>2 DEF RingSound
<1>13. ring_used(s) = u - n
  <2> HIDE DEF n, u, rd2, s
  <2>1. ring_used(s) = IF r.write >= rd2 THEN r.write - rd2 ELSE RingUnits - (rd2 - r.write)
    BY <1>12 DEF ring_used
  <2>2. QED
    BY <1>1, <1>4, <1>11, <2>1
<1>14. \A i \in lo + 1 .. hi : pos2[i] = pos[i] - n
  OBVIOUS
<1>15. ASSUME NEW i \in lo + 2 .. hi
       PROVE  /\ ps[i].units \in Nat
              /\ pos2[i] = pos2[i - 1] + PacketUnits(ps[i])
              /\ \A j \in i .. hi : pos2[i] <= pos2[j]
              /\ \A k \in 0 .. PacketUnits(ps[i]) - 1 :
                    s.data[ring_advance(s.read, pos2[i - 1] + k)] = <<ps[i], k>>
  <2> HIDE DEF n, u, rd2, s, pos2
  <2>1. i \in lo + 1 .. hi /\ i - 1 \in lo + 1 .. hi /\ i \in lo .. hi /\ i - 1 \in lo .. hi
    OBVIOUS
  <2>2. /\ ps[i].units \in Nat
        /\ pos[i] = pos[i - 1] + PacketUnits(ps[i])
        /\ \A j \in i .. hi : pos[i] <= pos[j]
        /\ \A k \in 0 .. PacketUnits(ps[i]) - 1 :
              r.data[ring_advance(rd, pos[i - 1] + k)] = <<ps[i], k>>
    BY <2>1 DEF Spells
  <2>3. PacketUnits(ps[i]) \in Nat /\ pos[i] \in 0 .. u /\ pos[i - 1] \in 0 .. u /\ n <= pos[i - 1]
    BY <2>1, <2>2, <1>3, <1>4, Units
  <2>4. pos2[i] = pos2[i - 1] + PacketUnits(ps[i])
    BY <2>1, <2>2, <2>3, <1>4, <1>14, <1>1
  <2>5. ASSUME NEW j \in i .. hi PROVE pos2[i] <= pos2[j]
    <3>1. j \in lo + 1 .. hi /\ j \in lo .. hi /\ pos[j] \in 0 .. u /\ pos[i] <= pos[j]
      BY <2>2, <1>3
    <3>2. QED
      BY <3>1, <2>1, <2>3, <1>1, <1>4, <1>14
  <2>6. ASSUME NEW k \in 0 .. PacketUnits(ps[i]) - 1
        PROVE  s.data[ring_advance(s.read, pos2[i - 1] + k)] = <<ps[i], k>>
    <3> DEFINE a == pos[i - 1] + k
    <3>1. a \in 0 .. RingUnits /\ a - n \in 0 .. RingUnits /\ pos2[i - 1] + k = a - n
      BY <2>1, <2>2, <2>3, <1>1, <1>4, <1>14
    <3> HIDE DEF a
    <3>2. ring_advance(rd, a) = IF rd + a < RingUnits THEN rd + a ELSE rd + a - RingUnits
      BY <3>1, <1>1, Advance
    <3>3. ring_advance(rd2, a - n)
            = IF rd2 + (a - n) < RingUnits THEN rd2 + (a - n) ELSE rd2 + (a - n) - RingUnits
      BY <3>1, <1>1, <1>11, Advance
    <3>4. a <= u
      BY <2>2, <2>3, <1>1 DEF a
    <3>5. ring_advance(rd2, a - n) = ring_advance(rd, a)
      BY <3>1, <3>2, <3>3, <3>4, <1>1, <1>4, <1>11
    <3>6. r.data[ring_advance(rd, a)] = <<ps[i], k>>
      BY <2>2 DEF a
    <3>7. QED
      BY <3>1, <3>5, <3>6, <1>12
  <2>7. QED
    BY <2>2, <2>4, <2>5, <2>6
<1>16. Spells(s, lo + 1, hi, ps, pos2)
  <2>1. pos2[lo + 1] = 0 /\ pos2[hi] = ring_used(s)
    <3> HIDE DEF n, u, rd2, s, pos2
    <3>1. hi \in lo + 1 .. hi
      OBVIOUS
    <3>2. QED
      BY <3>1, <1>2, <1>3, <1>4, <1>13, <1>14
  <2>2. \A i \in lo + 1 .. hi : pos2[i] \in 0 .. ring_used(s)
    <3> HIDE DEF n, u, rd2, s, pos2
    <3>1. QED
      BY <1>1, <1>3, <1>4, <1>13, <1>14
  <2>3. (lo + 1) + 1 = lo + 2
    OBVIOUS
  <2> HIDE DEF n, u, rd2, s, pos2, p
  <2>4. QED
    BY <2>1, <2>2, <2>3, <1>15 DEF Spells
<1>17. \E z : Spells(s, lo + 1, hi, ps, z)
  BY <1>16
<1>18. AfterPacket(rd, p) = rd2
  BY DEF AfterPacket
<1>19. n <= RingUnits - 1
  BY <1>1, <1>4
<1>20. QED
  BY <1>3, <1>8, <1>9, <1>10, <1>12, <1>17, <1>18, <1>19

-----------------------------------------------------------------------------
(* Sequences of whatever there is.                                         *)

IsSeq(s) == \E S : s \in Seq(S)

LEMMA SeqFacts ==
    ASSUME NEW s, IsSeq(s)
    PROVE  Len(s) \in Nat /\ (s = <<>> <=> Len(s) = 0) /\ (s # <<>> => Head(s) = s[1])
  BY DEF IsSeq

LEMMA AppendFacts ==
    ASSUME NEW s, IsSeq(s), NEW m
    PROVE  /\ IsSeq(Append(s, m)) /\ Len(Append(s, m)) = Len(s) + 1 /\ Append(s, m) # <<>>
           /\ \A i \in 1 .. Len(s) : Append(s, m)[i] = s[i]
           /\ Append(s, m)[Len(s) + 1] = m
<1>1. PICK S : s \in Seq(S)
  BY DEF IsSeq
<1> DEFINE T == S \cup {m}
<1>2. s \in Seq(T) /\ m \in T
  BY <1>1
<1> HIDE DEF T
<1>3. Append(s, m) \in Seq(T)
  BY <1>2
<1>4. QED
  BY <1>2, <1>3 DEF IsSeq

LEMMA TailFacts ==
    ASSUME NEW s, IsSeq(s), s # <<>>
    PROVE  /\ IsSeq(Tail(s)) /\ Len(Tail(s)) = Len(s) - 1 /\ Len(s) \in Nat \ {0}
           /\ \A i \in 1 .. Len(s) - 1 : Tail(s)[i] = s[i + 1]
<1>1. PICK S : s \in Seq(S)
  BY DEF IsSeq
<1>2. Tail(s) \in Seq(S)
  BY <1>1
<1>3. QED
  BY <1>1, <1>2 DEF IsSeq

LEMMA ConcatFacts ==
    ASSUME NEW s, IsSeq(s), NEW t, IsSeq(t)
    PROVE  /\ IsSeq(s \o t) /\ Len(s \o t) = Len(s) + Len(t)
           /\ \A i \in 1 .. Len(s) : (s \o t)[i] = s[i]
           /\ \A i \in 1 .. Len(t) : (s \o t)[Len(s) + i] = t[i]
<1>1. PICK S : s \in Seq(S)
  BY DEF IsSeq
<1>2. PICK T : t \in Seq(T)
  BY DEF IsSeq
<1> DEFINE U == S \cup T
<1>3. s \in Seq(U) /\ t \in Seq(U)
  BY <1>1, <1>2
<1> HIDE DEF U
<1>4. s \o t \in Seq(U)
  BY <1>3
<1>5. QED
  BY <1>3, <1>4 DEF IsSeq

-----------------------------------------------------------------------------
(* The messages between the guest and the host: in those the host has still *)
(* to answer, out its answers, sl the message slot.                        *)

(* Messages are about the one opening of their device, and an answer that   *)
(* grants something says what the host has done.                            *)
RequestOK(m, ids, begun) ==
    /\ m.type \in {"contact", "request offers", "gpadl", "open"}
    /\ m.type = "contact" => m.version \in Nat
    /\ m.type \in {"gpadl", "open"} => m.device \in begun /\ m.id = ids[m.device]
AnswerOK(m, ids, begun, gpadl, opened) ==
    /\ m.type \in {"version", "offer", "all offers delivered", "gpadl created", "open result",
                   "rescind"}
    /\ m.type \in {"gpadl created", "open result"} => m.device \in begun /\ m.id = ids[m.device]
    /\ m.type = "gpadl created" /\ m.ok => gpadl[m.device] = ids[m.device]
    /\ m.type = "open result" /\ m.ok => opened[m.device] = ids[m.device]
Messages(in, out, sl, ids, begun, gpadl, opened) ==
    /\ \A i \in 1 .. Len(in) : RequestOK(in[i], ids, begun)
    /\ \A i \in 1 .. Len(out) : AnswerOK(out[i], ids, begun, gpadl, opened)
    /\ sl = NoMessage \/ AnswerOK(sl, ids, begun, gpadl, opened)

(* While versions are negotiated nothing else is under way, and the last    *)
(* message is about the version asked for last; afterwards no version       *)
(* follows the offer of a device.                                           *)
AboutVersion(m) == m.type \in {"contact", "version"}
NoVersion(s) == \A i \in 1 .. Len(s) : ~AboutVersion(s[i])
Settled(in, out, sl) == ~AboutVersion(sl) /\ NoVersion(out) /\ NoVersion(in)
IsDeviceOffer(m) == m.type = "offer" /\ m.device \in DeviceSet

OnlyVersions(in, out, sl) ==
    /\ \A i \in 1 .. Len(in) : in[i].type = "contact"
    /\ \A i \in 1 .. Len(out) : out[i].type = "version"
    /\ sl.type \in {"none", "version"}

LastIsAbout(in, out, sl, agreed, v) ==
    /\ in # <<>> => in[Len(in)].version = v
    /\ in = <<>> /\ out # <<>> /\ out[Len(out)].supported => agreed = v
    /\ in = <<>> /\ out = <<>> /\ sl.type = "version" /\ sl.supported => agreed = v

OffersLast(in, out, sl) ==
    /\ IsDeviceOffer(sl) => NoVersion(out) /\ NoVersion(in)
    /\ \A i \in 1 .. Len(out) : IsDeviceOffer(out[i]) =>
          NoVersion(in) /\ \A j \in i + 1 .. Len(out) : ~AboutVersion(out[j])
    /\ \A i \in 1 .. Len(in) : in[i].type = "request offers" =>
          \A j \in i + 1 .. Len(in) : ~AboutVersion(in[j])

(* What was known about messages stays true when a device begins.           *)
LEMMA MessagesStay ==
    ASSUME NEW in, NEW out, NEW sl, NEW ids, NEW begun, NEW gpadl, NEW opened,
           Messages(in, out, sl, ids, begun, gpadl, opened),
           NEW ids2, NEW begun2, NEW gpadl2, NEW opened2,
           begun \subseteq begun2,
           \A d \in begun : /\ ids2[d] = ids[d]
                            /\ gpadl2[d] \in {gpadl[d], ids[d]}
                            /\ opened2[d] \in {opened[d], ids[d]}
    PROVE  Messages(in, out, sl, ids2, begun2, gpadl2, opened2)
<1>1. \A m : RequestOK(m, ids, begun) => RequestOK(m, ids2, begun2)
  BY DEF RequestOK
<1>2. \A m : AnswerOK(m, ids, begun, gpadl, opened) => AnswerOK(m, ids2, begun2, gpadl2, opened2)
  BY DEF AnswerOK
<1>3. QED
  BY <1>1, <1>2 DEF Messages

(* post_message.                                                            *)
LEMMA PostTraffic ==
    ASSUME NEW in, IsSeq(in), NEW out, NEW sl, NEW m, AboutVersion(m) => m.type = "contact",
           OffersLast(in, out, sl), AboutVersion(m) => OnlyVersions(in, out, sl)
    PROVE  /\ OffersLast(Append(in, m), out, sl)
           /\ Settled(Append(in, m), out, sl) <=> Settled(in, out, sl) /\ ~AboutVersion(m)
           /\ OnlyVersions(in, out, sl) /\ m.type = "contact" =>
                 /\ OnlyVersions(Append(in, m), out, sl)
                 /\ \A agreed : LastIsAbout(Append(in, m), out, sl, agreed, m.version)
<1> DEFINE s == Append(in, m)
<1>1. /\ Len(in) \in Nat /\ Len(s) = Len(in) + 1 /\ s # <<>>
      /\ \A i \in 1 .. Len(in) : s[i] = in[i]
      /\ s[Len(s)] = m
  BY AppendFacts, SeqFacts
<1> HIDE DEF s
<1>2. NoVersion(s) <=> NoVersion(in) /\ ~AboutVersion(m)
  <2>1. ASSUME NoVersion(in), ~AboutVersion(m) PROVE NoVersion(s)
    BY <2>1, <1>1 DEF NoVersion
  <2>2. ASSUME NoVersion(s) PROVE NoVersion(in) /\ ~AboutVersion(m)
    <3>1. Len(s) \in 1 .. Len(s) /\ 1 .. Len(in) \subseteq 1 .. Len(s)
      BY <1>1
    <3>2. QED
      BY <2>2, <3>1, <1>1 DEF NoVersion
  <2>3. QED
    BY <2>1, <2>2
<1>3. CASE AboutVersion(m)
  <2>1. OnlyVersions(in, out, sl)
    BY <1>3
  <2>2. OffersLast(s, out, sl)
    <3>1. ~IsDeviceOffer(sl) /\ \A i \in 1 .. Len(out) : ~IsDeviceOffer(out[i])
      BY <2>1 DEF OnlyVersions, IsDeviceOffer
    <3>2. \A i \in 1 .. Len(s) : s[i].type = "contact"
      BY <2>1, <1>1, <1>3 DEF OnlyVersions
    <3>3. QED
      BY <3>1, <3>2 DEF OffersLast
  <2>3. m.type = "contact" => OnlyVersions(s, out, sl)
    BY <1>1, <2>1 DEF OnlyVersions
  <2>4. \A agreed : LastIsAbout(s, out, sl, agreed, m.version)
    BY <1>1 DEF LastIsAbout
  <2>5. QED
    BY <1>2, <1>3, <2>2, <2>3, <2>4 DEF Settled, s
<1>4. CASE ~AboutVersion(m)
  <2>1. OffersLast(s, out, sl)
    <3>1. ASSUME NEW i \in 1 .. Len(s), s[i].type = "request offers", NEW j \in i + 1 .. Len(s)
          PROVE  ~AboutVersion(s[j])
      <4>1. CASE j = Len(s)
        BY <4>1, <1>1, <1>4
      <4>2. CASE j # Len(s)
        <5>1. i \in 1 .. Len(in) /\ j \in i + 1 .. Len(in) /\ j \in 1 .. Len(in)
          BY <4>2, <1>1
        <5>2. in[i].type = "request offers" /\ s[j] = in[j]
          BY <5>1, <3>1, <1>1
        <5>3. QED
          BY <5>1, <5>2 DEF OffersLast
      <4>3. QED
        BY <4>1, <4>2
    <3>2. QED
      BY <3>1, <1>2, <1>4 DEF OffersLast
  <2>2. m.type # "contact"
    BY <1>4 DEF AboutVersion
  <2>3. QED
    BY <1>2, <1>4, <2>1, <2>2 DEF Settled, s
<1>5. QED
  BY <1>3, <1>4

LEMMA PostMessages ==
    ASSUME NEW in, IsSeq(in), NEW out, NEW sl, NEW ids, NEW begun, NEW gpadl, NEW opened,
           Messages(in, out, sl, ids, begun, gpadl, opened), NEW m, RequestOK(m, ids, begun)
    PROVE  Messages(Append(in, m), out, sl, ids, begun, gpadl, opened)
<1> DEFINE s == Append(in, m)
<1>1. /\ Len(in) \in Nat /\ Len(s) = Len(in) + 1
      /\ \A i \in 1 .. Len(in) : s[i] = in[i]
      /\ s[Len(s)] = m
  BY AppendFacts, SeqFacts
<1> HIDE DEF s
<1>2. \A i \in 1 .. Len(s) : RequestOK(s[i], ids, begun)
  BY <1>1 DEF Messages
<1>3. QED
  BY <1>2 DEF Messages, s

(* The guest takes the message in the slot.                                 *)
LEMMA ConsumeTraffic ==
    ASSUME NEW in, NEW out, NEW sl, NEW ids, NEW begun, NEW gpadl, NEW opened,
           Messages(in, out, sl, ids, begun, gpadl, opened), OffersLast(in, out, sl)
    PROVE  /\ Messages(in, out, NoMessage, ids, begun, gpadl, opened)
           /\ OffersLast(in, out, NoMessage)
           /\ Settled(in, out, sl) => Settled(in, out, NoMessage)
           /\ OnlyVersions(in, out, sl) => OnlyVersions(in, out, NoMessage)
<1>1. NoMessage.type = "none"
  BY DEF NoMessage
<1>2. ~AboutVersion(NoMessage) /\ ~IsDeviceOffer(NoMessage)
  BY <1>1 DEF AboutVersion, IsDeviceOffer
<1>3. QED
  BY <1>1, <1>2 DEF Messages, OffersLast, Settled, OnlyVersions

(* The host puts its first answer into the slot.                            *)
LEMMA DeliverTraffic ==
    ASSUME NEW in, NEW out, IsSeq(out), out # <<>>,
           NEW ids, NEW begun, NEW gpadl, NEW opened,
           Messages(in, out, NoMessage, ids, begun, gpadl, opened), OffersLast(in, out, NoMessage)
    PROVE  LET rest == Tail(out)
               sl == Head(out)
           IN  /\ Messages(in, rest, sl, ids, begun, gpadl, opened)
               /\ OffersLast(in, rest, sl)
               /\ Settled(in, rest, sl) => Settled(in, out, NoMessage)
               /\ Settled(in, out, NoMessage) => Settled(in, rest, sl)
               /\ OnlyVersions(in, out, NoMessage) =>
                     /\ OnlyVersions(in, rest, sl)
                     /\ \A agreed, v : LastIsAbout(in, out, NoMessage, agreed, v) =>
                           LastIsAbout(in, rest, sl, agreed, v)
<1> DEFINE rest == Tail(out)
           sl == Head(out)
<1>1. /\ Len(out) \in Nat \ {0} /\ Len(rest) = Len(out) - 1 /\ sl = out[1]
      /\ \A i \in 1 .. Len(rest) : rest[i] = out[i + 1]
      /\ rest = <<>> <=> Len(rest) = 0
  BY SeqFacts, TailFacts
<1>2. ~AboutVersion(NoMessage) /\ ~IsDeviceOffer(NoMessage)
  BY DEF AboutVersion, IsDeviceOffer, NoMessage
<1> HIDE DEF rest, sl
<1>3. \A i \in 1 .. Len(rest) : i + 1 \in 1 .. Len(out) /\ rest[i] = out[i + 1]
  BY <1>1
<1>4. 1 \in 1 .. Len(out)
  BY <1>1
<1>5. Messages(in, rest, sl, ids, begun, gpadl, opened)
  BY <1>1, <1>3, <1>4 DEF Messages
<1>6. NoVersion(out) <=> NoVersion(rest) /\ ~AboutVersion(sl)
  <2>1. ASSUME NoVersion(out) PROVE NoVersion(rest) /\ ~AboutVersion(sl)
    BY <2>1, <1>1, <1>3, <1>4 DEF NoVersion
  <2>2. ASSUME NoVersion(rest), ~AboutVersion(sl), NEW i \in 1 .. Len(out)
        PROVE  ~AboutVersion(out[i])
    <3>1. i = 1 \/ (i - 1 \in 1 .. Len(rest) /\ (i - 1) + 1 = i)
      BY <1>1
    <3>2. QED
      BY <2>2, <3>1, <1>1, <1>3 DEF NoVersion
  <2>3. QED
    BY <2>1, <2>2 DEF NoVersion
<1>7. OffersLast(in, rest, sl)
  <2>1. IsDeviceOffer(sl) => NoVersion(rest) /\ NoVersion(in)
    <3>1. ASSUME IsDeviceOffer(sl), NEW i \in 1 .. Len(rest) PROVE ~AboutVersion(rest[i])
      <4>1. i + 1 \in 1 + 1 .. Len(out)
        BY <1>1
      <4>2. QED
        BY <3>1, <4>1, <1>1, <1>3, <1>4 DEF OffersLast
    <3>2. QED
      BY <3>1, <1>1, <1>4 DEF OffersLast, NoVersion
  <2>2. ASSUME NEW i \in 1 .. Len(rest), IsDeviceOffer(rest[i])
        PROVE  NoVersion(in) /\ \A j \in i + 1 .. Len(rest) : ~AboutVersion(rest[j])
    <3>1. i + 1 \in 1 .. Len(out) /\ IsDeviceOffer(out[i + 1])
      BY <2>2, <1>3
    <3>2. NoVersion(in) /\ \A j \in (i + 1) + 1 .. Len(out) : ~AboutVersion(out[j])
      BY <3>1 DEF OffersLast
    <3>3. \A j \in i + 1 .. Len(rest) : j \in 1 .. Len(rest) /\ j + 1 \in (i + 1) + 1 .. Len(out)
      BY <1>1
    <3>4. QED
      BY <3>2, <3>3, <1>3
  <2>3. QED
    BY <2>1, <2>2 DEF OffersLast
<1>8. Settled(in, rest, sl) <=> Settled(in, out, NoMessage)
  BY <1>2, <1>6 DEF Settled
<1>9. ASSUME OnlyVersions(in, out, NoMessage) PROVE OnlyVersions(in, rest, sl)
  BY <1>9, <1>1, <1>3, <1>4 DEF OnlyVersions
<1>10. ASSUME NEW agreed, NEW v, LastIsAbout(in, out, NoMessage, agreed, v)
       PROVE  LastIsAbout(in, rest, sl, agreed, v)
  <2>1. out # <<>>
    OBVIOUS
  <2>2. CASE rest = <<>>
    <3>1. Len(out) = 1 /\ out[Len(out)] = sl
      BY <2>2, <1>1
    <3>2. QED
      BY <1>10, <2>1, <2>2, <3>1 DEF LastIsAbout
  <2>3. CASE rest # <<>>
    <3>1. Len(rest) \in 1 .. Len(rest) /\ Len(rest) + 1 = Len(out)
      BY <2>3, <1>1
    <3>2. rest[Len(rest)] = out[Len(out)]
      BY <3>1, <1>3
    <3>3. QED
      BY <1>10, <2>1, <2>3, <3>2 DEF LastIsAbout
  <2>4. QED
    BY <2>2, <2>3
<1>11. QED
  BY <1>5, <1>7, <1>8, <1>9, <1>10 DEF rest, sl

(* The host adds to its answers.                                            *)
LEMMA AddedMessages ==
    ASSUME NEW in, NEW out, IsSeq(out), NEW add, IsSeq(add), NEW sl,
           NEW ids, NEW begun, NEW gpadl, NEW opened,
           Messages(in, out, sl, ids, begun, gpadl, opened),
           \A i \in 1 .. Len(add) : AnswerOK(add[i], ids, begun, gpadl, opened)
    PROVE  Messages(in, out \o add, sl, ids, begun, gpadl, opened)
<1> DEFINE all == out \o add
<1>1. /\ Len(out) \in Nat /\ Len(add) \in Nat /\ Len(all) = Len(out) + Len(add)
      /\ \A i \in 1 .. Len(out) : all[i] = out[i]
      /\ \A i \in 1 .. Len(add) : all[Len(out) + i] = add[i]
  BY SeqFacts, ConcatFacts
<1> HIDE DEF all
<1>2. ASSUME NEW i \in 1 .. Len(all) PROVE AnswerOK(all[i], ids, begun, gpadl, opened)
  <2>1. CASE i <= Len(out)
    BY <2>1, <1>1 DEF Messages
  <2>2. CASE ~(i <= Len(out))
    <3>1. i - Len(out) \in 1 .. Len(add) /\ Len(out) + (i - Len(out)) = i
      BY <2>2, <1>1
    <3>2. QED
      BY <3>1, <1>1
  <2>3. QED
    BY <2>1, <2>2
<1>3. QED
  BY <1>2 DEF Messages, all

(* Answers that are no versions, with offers only in answer to the request  *)
(* for them.                                                                *)
LEMMA AddedTraffic ==
    ASSUME NEW in, IsSeq(in), NEW out, IsSeq(out), NEW add, IsSeq(add), NEW sl,
           OffersLast(in, out, sl), NoVersion(add),
           \/ NoVersion(in)
           \/ \A i \in 1 .. Len(add) : ~IsDeviceOffer(add[i])
    PROVE  /\ OffersLast(in, out \o add, sl)
           /\ Settled(in, out \o add, sl) <=> Settled(in, out, sl)
<1> DEFINE all == out \o add
<1>1. /\ Len(out) \in Nat /\ Len(add) \in Nat /\ Len(all) = Len(out) + Len(add)
      /\ \A i \in 1 .. Len(out) : all[i] = out[i]
      /\ \A i \in 1 .. Len(add) : all[Len(out) + i] = add[i]
  BY SeqFacts, ConcatFacts
<1> HIDE DEF all
<1>2. ASSUME NEW i \in 1 .. Len(all)
      PROVE  \/ i \in 1 .. Len(out) /\ all[i] = out[i]
             \/ /\ i > Len(out) /\ ~AboutVersion(all[i])
                /\ NoVersion(in) \/ ~IsDeviceOffer(all[i])
  <2>1. CASE i <= Len(out)
    BY <2>1, <1>1
  <2>2. CASE ~(i <= Len(out))
    <3>1. i - Len(out) \in 1 .. Len(add) /\ Len(out) + (i - Len(out)) = i
      BY <2>2, <1>1
    <3>2. all[i] = add[i - Len(out)]
      BY <3>1, <1>1
    <3>3. QED
      BY <2>2, <3>1, <3>2, <1>1 DEF NoVersion
  <2>3. QED
    BY <2>1, <2>2
<1>3. 1 .. Len(out) \subseteq 1 .. Len(all)
  BY <1>1
<1>4. NoVersion(all) <=> NoVersion(out)
  BY <1>1, <1>2, <1>3 DEF NoVersion
<1>5. ASSUME NEW i \in 1 .. Len(all), IsDeviceOffer(all[i])
      PROVE  NoVersion(in) /\ \A j \in i + 1 .. Len(all) : ~AboutVersion(all[j])
  <2>1. CASE i \in 1 .. Len(out) /\ all[i] = out[i]
    <3>1. NoVersion(in) /\ \A j \in i + 1 .. Len(out) : ~AboutVersion(out[j])
      BY <1>5, <2>1 DEF OffersLast
    <3>2. ASSUME NEW j \in i + 1 .. Len(all) PROVE ~AboutVersion(all[j])
      <4>1. j \in 1 .. Len(all)
        BY <1>1
      <4>2. j \in 1 .. Len(out) => j \in i + 1 .. Len(out)
        BY <1>1
      <4>3. QED
        BY <4>1, <4>2, <3>1, <1>2
    <3>3. QED
      BY <3>1, <3>2
  <2>2. CASE i > Len(out) /\ NoVersion(in)
    <3>1. \A j \in i + 1 .. Len(all) : j \in 1 .. Len(all) /\ j \notin 1 .. Len(out)
      BY <2>2, <1>1
    <3>2. QED
      BY <2>2, <3>1, <1>2
  <2>3. QED
    BY <1>2, <1>5, <2>1, <2>2
<1>6. OffersLast(in, all, sl)
  BY <1>4, <1>5 DEF OffersLast
<1>7. QED
  BY <1>4, <1>6 DEF Settled, all

(* The host takes a request.                                                *)
LEMMA TakenRequest ==
    ASSUME NEW in, IsSeq(in), in # <<>>, NEW out, NEW sl, OffersLast(in, out, sl)
    PROVE  /\ OffersLast(Tail(in), out, sl)
           /\ Head(in).type = "request offers" => NoVersion(Tail(in))
           /\ Settled(in, out, sl) => Settled(Tail(in), out, sl)
           /\ ~AboutVersion(Head(in)) =>
                 (Settled(Tail(in), out, sl) => Settled(in, out, sl))
           /\ \A ids, begun, gpadl, opened : Messages(in, out, sl, ids, begun, gpadl, opened) =>
                 /\ Messages(Tail(in), out, sl, ids, begun, gpadl, opened)
                 /\ RequestOK(Head(in), ids, begun)
<1> DEFINE rest == Tail(in)
           h == Head(in)
<1>1. /\ Len(in) \in Nat \ {0} /\ Len(rest) = Len(in) - 1 /\ h = in[1]
      /\ \A i \in 1 .. Len(rest) : rest[i] = in[i + 1]
  BY SeqFacts, TailFacts
<1> HIDE DEF rest, h
<1>2. \A i \in 1 .. Len(rest) : i + 1 \in 2 .. Len(in) /\ i + 1 \in 1 .. Len(in) /\ rest[i] = in[i + 1]
  BY <1>1
<1>3. 1 \in 1 .. Len(in) /\ 1 + 1 = 2
  BY <1>1
<1>4. NoVersion(in) => NoVersion(rest)
  BY <1>2 DEF NoVersion
<1>5. ASSUME NoVersion(rest), ~AboutVersion(h) PROVE NoVersion(in)
  <2>1. ASSUME NEW i \in 1 .. Len(in) PROVE ~AboutVersion(in[i])
    <3>1. i = 1 \/ (i - 1 \in 1 .. Len(rest) /\ (i - 1) + 1 = i)
      BY <1>1
    <3>2. QED
      BY <3>1, <1>5, <1>1, <1>2 DEF NoVersion
  <2>2. QED
    BY <2>1 DEF NoVersion
<1>6. ASSUME NEW i \in 1 .. Len(rest), rest[i].type = "request offers", NEW j \in i + 1 .. Len(rest)
      PROVE  ~AboutVersion(rest[j])
  <2>1. i + 1 \in 1 .. Len(in) /\ in[i + 1].type = "request offers"
    BY <1>2, <1>6
  <2>2. j \in 1 .. Len(rest) /\ j + 1 \in (i + 1) + 1 .. Len(in)
    BY <1>1
  <2>3. QED
    BY <2>1, <2>2, <1>2 DEF OffersLast
<1>7. OffersLast(rest, out, sl)
  BY <1>4, <1>6 DEF OffersLast
<1>8. ASSUME h.type = "request offers" PROVE NoVersion(rest)
  BY <1>1, <1>2, <1>3, <1>8 DEF OffersLast, NoVersion
<1>9. ASSUME NEW ids, NEW begun, NEW gpadl, NEW opened,
             Messages(in, out, sl, ids, begun, gpadl, opened)
      PROVE  Messages(rest, out, sl, ids, begun, gpadl, opened) /\ RequestOK(h, ids, begun)
  BY <1>1, <1>2, <1>3, <1>9 DEF Messages
<1>10. QED
  BY <1>4, <1>5, <1>7, <1>8, <1>9 DEF Settled, rest, h

(* The answer to a request for a version.                                   *)
LEMMA VersionAnswered ==
    ASSUME NEW in, IsSeq(in), in # <<>>, NEW out, IsSeq(out), NEW sl, OffersLast(in, out, sl),
           Head(in).type = "contact", NEW answer, answer.type = "version", NEW add, add = <<answer>>
    PROVE  /\ OffersLast(Tail(in), out \o add, sl)
           /\ ~Settled(Tail(in), out \o add, sl) /\ ~Settled(in, out, sl)
           /\ OnlyVersions(in, out, sl) =>
                 /\ OnlyVersions(Tail(in), out \o add, sl)
                 /\ \A agreed, agreed2, v :
                       /\ LastIsAbout(in, out, sl, agreed, v)
                       /\ answer.supported => agreed2 = Head(in).version
                       => LastIsAbout(Tail(in), out \o add, sl, agreed2, v)
<1> DEFINE rest == Tail(in)
           h == Head(in)
           all == out \o add
<1>1. /\ Len(in) \in Nat \ {0} /\ Len(rest) = Len(in) - 1 /\ h = in[1]
      /\ \A i \in 1 .. Len(rest) : rest[i] = in[i + 1]
      /\ rest = <<>> <=> Len(rest) = 0
  BY SeqFacts, TailFacts
<1>2. IsSeq(add) /\ Len(add) = 1 /\ add[1] = answer
  <2>1. add \in Seq({answer})
    OBVIOUS
  <2>2. QED
    BY <2>1 DEF IsSeq
<1>3. /\ Len(out) \in Nat /\ Len(all) = Len(out) + 1 /\ all # <<>>
      /\ \A i \in 1 .. Len(out) : all[i] = out[i]
      /\ all[Len(all)] = answer
  <2>1. /\ IsSeq(all) /\ Len(all) = Len(out) + Len(add) /\ Len(out) \in Nat
        /\ \A i \in 1 .. Len(out) : all[i] = out[i]
        /\ \A i \in 1 .. Len(add) : all[Len(out) + i] = add[i]
    BY <1>2, SeqFacts, ConcatFacts
  <2>2. 1 \in 1 .. Len(add) /\ Len(all) # 0
    BY <1>2, <2>1
  <2>3. all # <<>>
    BY <2>1, <2>2, SeqFacts
  <2>4. all[Len(out) + 1] = answer
    BY <2>1, <2>2, <1>2
  <2> HIDE DEF all
  <2>5. QED
    BY <2>1, <2>3, <2>4, <1>2
<1>4. OffersLast(rest, out, sl)
  BY TakenRequest
<1> HIDE DEF rest, h, all
<1>5. AboutVersion(in[1]) /\ 1 \in 1 .. Len(in) /\ ~NoVersion(in)
  BY <1>1 DEF AboutVersion, NoVersion, h
<1>6. ~IsDeviceOffer(sl) /\ \A i \in 1 .. Len(out) : ~IsDeviceOffer(out[i])
  BY <1>5 DEF OffersLast
<1>7. \A i \in 1 .. Len(all) : all[i] = answer \/ (i \in 1 .. Len(out) /\ all[i] = out[i])
  BY <1>3
<1>8. AboutVersion(answer) /\ ~IsDeviceOffer(answer)
  BY DEF AboutVersion, IsDeviceOffer
<1>9. OffersLast(rest, all, sl)
  BY <1>4, <1>6, <1>7, <1>8 DEF OffersLast
<1>10. ~NoVersion(all)
  <2>1. Len(all) \in 1 .. Len(all)
    BY <1>3
  <2>2. QED
    BY <2>1, <1>3, <1>8 DEF NoVersion
<1>11. ASSUME OnlyVersions(in, out, sl)
       PROVE  OnlyVersions(rest, all, sl)
  <2>1. \A i \in 1 .. Len(rest) : i + 1 \in 1 .. Len(in) /\ rest[i] = in[i + 1]
    BY <1>1
  <2>2. QED
    BY <2>1, <1>7, <1>11 DEF OnlyVersions
<1>12. ASSUME NEW agreed, NEW agreed2, NEW v, LastIsAbout(in, out, sl, agreed, v),
              answer.supported => agreed2 = h.version
       PROVE  LastIsAbout(rest, all, sl, agreed2, v)
  <2>1. in[Len(in)].version = v
    BY <1>12 DEF LastIsAbout
  <2>2. CASE rest = <<>>
    <3>1. Len(in) = 1
      BY <2>2, <1>1
    <3>2. h.version = v
      BY <3>1, <2>1, <1>1
    <3>3. QED
      BY <3>2, <2>2, <1>3, <1>12 DEF LastIsAbout
  <2>3. CASE rest # <<>>
    <3>1. Len(rest) \in 1 .. Len(rest) /\ Len(rest) + 1 = Len(in)
      BY <2>3, <1>1
    <3>2. rest[Len(rest)] = in[Len(in)]
      BY <3>1, <1>1
    <3>3. QED
      BY <3>2, <2>1, <2>3 DEF LastIsAbout
  <2>4. QED
    BY <2>2, <2>3
<1>13. QED
  BY <1>5, <1>9, <1>10, <1>11, <1>12 DEF Settled, rest, all, h

-----------------------------------------------------------------------------
(* What the boot on Hyper-V keeps.                                         *)

Order(d) == IF d = "keyboard" THEN 1 ELSE 2
DevicePcs == {"device", "await gpadl", "open", "await open", "greet", "await reply"}
VersionPcs == {"enable", "contact", "await version"}
OfferPcs == {"request offers", "await offers"}

(* The opening of d has been tried, or is under way.                        *)
Begun(d) ==
    \/ boot.pc = "done"
    \/ /\ boot.pc \in DevicePcs
       /\ Order(d) < boot.index \/ (Order(d) = boot.index /\ boot.pc # "device")
Underway(d) == boot.pc \in DevicePcs \ {"device"} /\ boot.index = Order(d)
BegunDevices == {d \in DeviceSet : Begun(d)}
Ids == [d \in DeviceSet |-> channel[d].id]

Channels(units) == [open : BOOLEAN, id : Nat, out : Rings(units), in : Rings(units)]
ChannelSound(c) == \E units : c \in Channels(units)
Buses(offers) ==
    [state : {"connecting", "connected", "failed"}, version : Nat, offers : SUBSET offers,
     next_id : Nat]
Hosts(messages) ==
    [version : Nat, inbox : Seq(messages), outbox : Seq(messages),
     offered : SUBSET {"keyboard", "mouse"}, news : Int,
     gpadl : [{"keyboard", "mouse"} -> Nat], opened : [{"keyboard", "mouse"} -> Nat],
     approved : [{"keyboard", "mouse"} -> BOOLEAN]]
BusSound == \E offers : bus \in Buses(offers)
HostSound == \E messages : host \in Hosts(messages)

BootSound ==
    /\ boot \in [pc : VersionPcs \cup OfferPcs \cup DevicePcs \cup {"done"}, index : Nat \ {0}]
    /\ boot.pc \in DevicePcs => boot.index \in 1 .. 2
    /\ boot.pc \in VersionPcs => boot.index <= Len(Versions)
ChannelsSound ==
    /\ channel = [d \in DeviceSet |-> channel[d]]
    /\ \A d \in DeviceSet : ChannelSound(channel[d])
BusTypes ==
    /\ BootSound /\ BusSound /\ HostSound /\ ChannelsSound
    /\ ready \in [DeviceSet -> BOOLEAN]
    /\ faults \in 0 .. Faults

MessagesOK == Messages(host.inbox, host.outbox, slot, Ids, BegunDevices, host.gpadl, host.opened)
OffersAreLast == OffersLast(host.inbox, host.outbox, slot)
VersionSettled == Settled(host.inbox, host.outbox, slot)

Negotiating ==
    bus.state = "connecting" =>
        /\ boot.pc \in VersionPcs /\ bus.offers = {}
        /\ OnlyVersions(host.inbox, host.outbox, slot)
        /\ boot.pc = "await version" =>
              LastIsAbout(host.inbox, host.outbox, slot, host.version, Versions[boot.index])

VersionAgreed ==
    /\ bus.state = "failed" => boot.pc = "done" /\ bus.offers = {}
    /\ bus.state = "connected" => boot.pc \notin VersionPcs
    /\ boot.pc \in OfferPcs /\ VersionSettled => host.version = bus.version
    /\ bus.offers \cap DeviceSet # {} => VersionSettled /\ host.version = bus.version

(* The channel of a device: which of its rings holds what.                  *)
Empty(r) == r.read = r.write
Spelled(r, p) == \E ps, pos : Spells(r, 0, 1, ps, pos) /\ ps[1] = p

Unanswered(d) ==
    /\ Spelled(channel[d].out, Greeting[d]) /\ Empty(channel[d].in)
    /\ ~host.approved[d] /\ ~ready[d]
Answered(d) ==
    /\ Empty(channel[d].out) /\ Spelled(channel[d].in, [Reply[d] EXCEPT !.ok = host.approved[d]])
    /\ ~ready[d]
Finished(d) ==
    Empty(channel[d].out) /\ Empty(channel[d].in) /\ (ready[d] => host.approved[d])

ChannelAgreed(d) ==
    /\ ~Begun(d) \/ bus.state # "connected" =>
          channel[d] = ClosedChannel /\ ~ready[d] /\ ~host.approved[d]
    /\ Underway(d) \/ channel[d].open => d \in bus.offers
    /\ Underway(d) => ~ready[d]
    /\ Underway(d) /\ boot.pc \in {"await gpadl", "open", "await open"} =>
          ~channel[d].open /\ ~host.approved[d]
          /\ Empty(channel[d].out) /\ Empty(channel[d].in)
    /\ Underway(d) /\ boot.pc \in {"open", "await open"} => host.gpadl[d] = channel[d].id
    /\ Underway(d) /\ boot.pc = "greet" =>
          channel[d].open /\ Empty(channel[d].out) /\ Empty(channel[d].in) /\ ~host.approved[d]
    /\ Underway(d) /\ boot.pc = "await reply" =>
          channel[d].open /\ (Unanswered(d) \/ Answered(d))
    /\ channel[d].open => host.opened[d] = channel[d].id /\ host.gpadl[d] = channel[d].id
    /\ channel[d].open /\ person.reports[d] = 0 => Unanswered(d) \/ Answered(d) \/ Finished(d)
    /\ ready[d] \/ host.approved[d] => channel[d].open
    /\ ready[d] => host.approved[d]

BootInv ==
    /\ BusTypes /\ MessagesOK /\ OffersAreLast /\ Negotiating /\ VersionAgreed
    /\ \A d \in DeviceSet : ChannelAgreed(d)

LEMMA DeviceNames ==
    /\ DeviceSet = {"keyboard", "mouse"} /\ Len(Devices) = 2
    /\ Devices[1] = "keyboard" /\ Devices[2] = "mouse"
    /\ "keyboard" \in DeviceSet /\ "mouse" \in DeviceSet
<1>1. Devices = <<"keyboard", "mouse">>
  BY InputAssumption
<1>2. Len(Devices) = 2 /\ Devices[1] = "keyboard" /\ Devices[2] = "mouse"
  BY <1>1
<1>3. DeviceSet = {"keyboard", "mouse"}
  <2>1. 1 .. 2 = {1, 2}
    OBVIOUS
  <2>2. QED
    BY <1>2, <2>1 DEF DeviceSet
<1>4. QED
  BY <1>2, <1>3

LEMMA CurrentDevice ==
    ASSUME boot.index \in 1 .. 2
    PROVE  /\ Device \in DeviceSet /\ Order(Device) = boot.index
           /\ \A d \in DeviceSet : Order(d) \in 1 .. 2 /\ (Order(d) = boot.index => d = Device)
<1>1. boot.index = 1 \/ boot.index = 2
  OBVIOUS
<1>2. QED
  BY <1>1, DeviceNames DEF Device, Order

LEMMA HostFields ==
    ASSUME HostSound
    PROVE  /\ IsSeq(host.inbox) /\ IsSeq(host.outbox)
           /\ host.gpadl \in [DeviceSet -> Nat] /\ host.opened \in [DeviceSet -> Nat]
           /\ host.approved \in [DeviceSet -> BOOLEAN] /\ host.version \in Nat
  BY DeviceNames DEF HostSound, Hosts, IsSeq

LEMMA BusFields ==
    ASSUME BusSound
    PROVE  /\ bus.state \in {"connecting", "connected", "failed"} /\ bus.version \in Nat
           /\ bus.next_id \in Nat
  BY DEF BusSound, Buses

LEMMA ChannelFields ==
    ASSUME NEW c, ChannelSound(c)
    PROVE  c.open \in BOOLEAN /\ c.id \in Nat /\ RingSound(c.in) /\ RingSound(c.out)
  BY DEF ChannelSound, Channels, RingSound

LEMMA ClosedSound == RingSound(hyperv_ring_initialize) /\ ChannelSound(ClosedChannel)
                     /\ Empty(hyperv_ring_initialize)
                     /\ ClosedChannel.open = FALSE /\ ClosedChannel.id = 0
                     /\ ClosedChannel.in = hyperv_ring_initialize
                     /\ ClosedChannel.out = hyperv_ring_initialize
<1>1. hyperv_ring_initialize \in Rings({NoUnit})
  BY HvRingAssumption DEF hyperv_ring_initialize, Rings, DescriptorUnits, TrailerUnits
<1>2. ClosedChannel \in Channels({NoUnit})
  BY <1>1 DEF ClosedChannel, Channels
<1>3. QED
  BY <1>1, <1>2 DEF RingSound, ChannelSound, Empty, hyperv_ring_initialize, ClosedChannel

(* A post leaves the rest of the host alone.                                *)
LEMMA PostFacts ==
    ASSUME HostSound, NEW m, post_message(m)
    PROVE  /\ HostSound'
           /\ host'.inbox = Append(host.inbox, m)
           /\ host'.outbox = host.outbox /\ host'.version = host.version
           /\ host'.gpadl = host.gpadl /\ host'.opened = host.opened
           /\ host'.approved = host.approved /\ faults' = faults
<1>1. PICK old : host \in Hosts(old)
  BY DEF HostSound
<1> DEFINE ms == old \cup {m}
<1>2. host \in Hosts(ms)
  BY <1>1 DEF Hosts
<1>3. Append(host.inbox, m) \in Seq(ms)
  BY <1>2 DEF Hosts
<1>4. host' = [host EXCEPT !.inbox = Append(host.inbox, m)] /\ faults' = faults
  BY <1>2 DEF post_message, Hosts
<1> HIDE DEF ms
<1>5. /\ host' \in Hosts(ms)
      /\ host'.inbox = Append(host.inbox, m)
      /\ host'.outbox = host.outbox /\ host'.version = host.version
      /\ host'.gpadl = host.gpadl /\ host'.opened = host.opened
      /\ host'.approved = host.approved
  BY <1>2, <1>3, <1>4 DEF Hosts
<1>6. QED
  BY <1>4, <1>5 DEF HostSound

LEMMA FaultFacts ==
    ASSUME faults \in 0 .. Faults, Fault
    PROVE  faults' \in 0 .. Faults
  BY InputAssumption DEF Fault

(* What is known about messages when the opening of a device goes on.       *)
LEMMA MessagesMove ==
    ASSUME NEW in, NEW out, NEW sl,
           Messages(in, out, sl, Ids, BegunDevices, host.gpadl, host.opened),
           \A d \in DeviceSet : Begun(d) =>
              /\ Begun(d)' /\ channel'[d].id = channel[d].id
              /\ host'.gpadl[d] \in {host.gpadl[d], channel[d].id}
              /\ host'.opened[d] \in {host.opened[d], channel[d].id}
    PROVE  Messages(in, out, sl, Ids', BegunDevices', host'.gpadl, host'.opened)
<1> DEFINE i2 == Ids'
           b2 == BegunDevices'
<1>1. BegunDevices \subseteq b2
  BY DEF BegunDevices
<1>2. ASSUME NEW d \in BegunDevices
      PROVE  /\ i2[d] = Ids[d]
             /\ host'.gpadl[d] \in {host.gpadl[d], Ids[d]}
             /\ host'.opened[d] \in {host.opened[d], Ids[d]}
  <2>1. d \in DeviceSet /\ Begun(d)
    BY DEF BegunDevices
  <2>2. Ids[d] = channel[d].id /\ i2[d] = channel'[d].id
    BY <2>1 DEF Ids
  <2>3. QED
    BY <2>1, <2>2
<1> HIDE DEF i2, b2
<1>3. Messages(in, out, sl, i2, b2, host'.gpadl, host'.opened)
  BY <1>1, <1>2, MessagesStay
<1>4. QED
  BY <1>3 DEF i2, b2

(* The channel of a device that an action leaves alone.                     *)
Rests(d) ==
    /\ channel'[d] = channel[d] /\ ready'[d] = ready[d]
    /\ host'.approved[d] = host.approved[d]
    /\ host'.gpadl[d] \in {host.gpadl[d], channel[d].id}
    /\ host'.opened[d] \in {host.opened[d], channel[d].id}
    /\ d \in bus.offers => d \in bus'.offers
    /\ person'.reports[d] = 0 => person.reports[d] = 0
    /\ Underway(d)' => Underway(d) /\ boot'.pc = boot.pc
    /\ Begun(d) /\ bus.state = "connected" => Begun(d)' /\ bus'.state = "connected"

LEMMA ChannelRests ==
    ASSUME NEW d \in DeviceSet, ChannelAgreed(d), Rests(d)
    PROVE  ChannelAgreed(d)'
<1>1. Unanswered(d)' <=> Unanswered(d)
  BY DEF Rests, Unanswered
<1>2. Answered(d)' <=> Answered(d)
  BY DEF Rests, Answered
<1>3. Finished(d)' <=> Finished(d)
  BY DEF Rests, Finished
<1>4. QED
  BY <1>1, <1>2, <1>3 DEF Rests, ChannelAgreed

LEMMA GotoFacts ==
    ASSUME BootSound, NEW pc \in VersionPcs \cup OfferPcs \cup DevicePcs \cup {"done"}, Goto(pc),
           pc \in DevicePcs => boot.index \in 1 .. 2,
           pc \in VersionPcs => boot.index <= Len(Versions)
    PROVE  BootSound' /\ boot'.pc = pc /\ boot'.index = boot.index
<1>1. boot' = [boot EXCEPT !.pc = pc]
  BY DEF Goto
<1>2. /\ boot' \in [pc : VersionPcs \cup OfferPcs \cup DevicePcs \cup {"done"}, index : Nat \ {0}]
      /\ boot'.pc = pc /\ boot'.index = boot.index
  BY <1>1 DEF BootSound
<1>3. QED
  BY <1>2 DEF BootSound

AtDevice == boot.pc \in DevicePcs

LEMMA NextDeviceFacts ==
    ASSUME BootSound, AtDevice, NextDevice
    PROVE  /\ BootSound' /\ boot'.pc \in {"device", "done"}
           /\ \A d \in DeviceSet : (Begun(d) => Begun(d)') /\ ~Underway(d)'
           /\ \A d \in DeviceSet : d = Device => Begun(d)'
<1>1. boot.index \in 1 .. 2 /\ Len(Devices) = 2
  BY DeviceNames DEF BootSound, AtDevice
<1>2. CASE boot.index = 1
  <2>1. boot' = [pc |-> "device", index |-> 2]
    BY <1>1, <1>2 DEF NextDevice
  <2>2. boot'.pc = "device" /\ boot'.index = 2
    BY <2>1
  <2>3. BootSound'
    <3>1. boot' \in [pc : VersionPcs \cup OfferPcs \cup DevicePcs \cup {"done"}, index : Nat \ {0}]
      BY <2>1 DEF DevicePcs
    <3>2. boot'.pc \notin VersionPcs /\ boot'.index \in 1 .. 2
      BY <2>2 DEF VersionPcs
    <3>3. QED
      BY <3>1, <3>2 DEF BootSound, VersionPcs, OfferPcs, DevicePcs
  <2>5. Order(Device) = 1 /\ \A d \in DeviceSet : Order(d) \in 1 .. 2
    BY <1>1, <1>2, CurrentDevice
  <2>6. ASSUME NEW d \in DeviceSet, Order(d) = 1 PROVE Begun(d)'
    BY <2>2, <2>6 DEF Begun, DevicePcs, Order
  <2>7. ASSUME NEW d \in DeviceSet, Begun(d) PROVE Begun(d)'
    <3>1. boot.pc # "done"
      BY DEF AtDevice, DevicePcs
    <3>2. Order(d) < boot.index \/ Order(d) = boot.index
      BY <2>7, <3>1 DEF Begun
    <3>3. Order(d) = 1
      BY <2>5, <3>2, <1>2
    <3>4. QED
      BY <2>6, <3>3
  <2>8. \A d : ~Underway(d)'
    BY <2>2 DEF Underway
  <2>9. QED
    BY <2>2, <2>3, <2>5, <2>6, <2>7, <2>8
<1>3. CASE boot.index = 2
  <2>1. boot' = [boot EXCEPT !.pc = "done"]
    BY <1>1, <1>3 DEF NextDevice
  <2>2. boot'.pc = "done" /\ BootSound'
    BY <2>1 DEF BootSound, DevicePcs, VersionPcs
  <2>3. QED
    BY <2>2 DEF Begun, Underway, DevicePcs
<1>4. QED
  BY <1>1, <1>2, <1>3

LEMMA BootParts ==
    ASSUME BootInv
    PROVE  /\ BootSound /\ BusSound /\ HostSound /\ ChannelsSound
           /\ ready \in [DeviceSet -> BOOLEAN] /\ faults \in 0 .. Faults
           /\ MessagesOK /\ OffersAreLast /\ Negotiating /\ VersionAgreed
           /\ \A d \in DeviceSet : ChannelAgreed(d) /\ ChannelSound(channel[d])
           /\ IsSeq(host.inbox) /\ IsSeq(host.outbox)
  BY HostFields DEF BootInv, BusTypes, ChannelsSound

LEMMA NotBegun ==
    /\ boot.pc \in VersionPcs \cup OfferPcs => \A d \in DeviceSet : ~Begun(d) /\ ~Underway(d)
    /\ boot'.pc \in VersionPcs \cup OfferPcs => \A d \in DeviceSet : ~Begun(d)' /\ ~Underway(d)'
    /\ boot'.pc = "device" /\ boot'.index = 1 => \A d \in DeviceSet : ~Begun(d)' /\ ~Underway(d)'
    /\ boot'.pc = "done" => \A d \in DeviceSet : Begun(d)' /\ ~Underway(d)'
<1>1. ASSUME boot.pc \in VersionPcs \cup OfferPcs, NEW d \in DeviceSet PROVE ~Begun(d) /\ ~Underway(d)
  <2>1. boot.pc # "done" /\ boot.pc \notin DevicePcs
    BY <1>1 DEF VersionPcs, OfferPcs, DevicePcs
  <2>2. QED
    BY <2>1 DEF Begun, Underway
<1>2. ASSUME boot'.pc \in VersionPcs \cup OfferPcs, NEW d \in DeviceSet
      PROVE  ~Begun(d)' /\ ~Underway(d)'
  <2>1. boot'.pc # "done" /\ boot'.pc \notin DevicePcs
    BY <1>2 DEF VersionPcs, OfferPcs, DevicePcs
  <2>2. QED
    BY <2>1 DEF Begun, Underway, DevicePcs
<1>3. ASSUME boot'.pc = "device", boot'.index = 1, NEW d \in DeviceSet
      PROVE  ~Begun(d)' /\ ~Underway(d)'
  <2>1. ~(Order(d) < 1)
    BY DEF Order
  <2>2. QED
    BY <1>3, <2>1 DEF Begun, Underway, Order
<1>4. ASSUME boot'.pc = "done", NEW d \in DeviceSet PROVE Begun(d)' /\ ~Underway(d)'
  BY <1>4 DEF Begun, Underway, DevicePcs
<1>5. QED
  BY <1>1, <1>2, <1>3, <1>4

KeepsBegun ==
    \A d \in DeviceSet : Begun(d) => Begun(d)' /\ channel'[d].id = channel[d].id

LEMMA StillTraffic ==
    ASSUME BootInv, host' = host, slot' = slot, KeepsBegun
    PROVE  /\ HostSound' /\ MessagesOK' /\ OffersAreLast'
           /\ VersionSettled' <=> VersionSettled
<1>1. MessagesOK /\ OffersAreLast /\ HostSound
  BY BootParts
<1>2. Messages(host.inbox, host.outbox, slot, Ids', BegunDevices', host'.gpadl, host'.opened)
  BY <1>1, MessagesMove DEF MessagesOK, KeepsBegun
<1>3. QED
  BY <1>1, <1>2 DEF MessagesOK, OffersAreLast, VersionSettled, HostSound

LEMMA ConsumedTraffic ==
    ASSUME BootInv, host' = host, slot' = NoMessage, KeepsBegun
    PROVE  /\ HostSound' /\ MessagesOK' /\ OffersAreLast'
           /\ VersionSettled => VersionSettled'
           /\ OnlyVersions(host.inbox, host.outbox, slot) =>
                 OnlyVersions(host'.inbox, host'.outbox, slot')
<1>1. MessagesOK /\ OffersAreLast /\ HostSound
  BY BootParts
<1>2. Messages(host.inbox, host.outbox, slot, Ids', BegunDevices', host'.gpadl, host'.opened)
  BY <1>1, MessagesMove DEF MessagesOK, KeepsBegun
<1> DEFINE i2 == Ids'
           b2 == BegunDevices'
<1>3. /\ Messages(host.inbox, host.outbox, NoMessage, i2, b2, host'.gpadl, host'.opened)
      /\ OffersLast(host.inbox, host.outbox, NoMessage)
      /\ Settled(host.inbox, host.outbox, slot) => Settled(host.inbox, host.outbox, NoMessage)
      /\ OnlyVersions(host.inbox, host.outbox, slot) =>
            OnlyVersions(host.inbox, host.outbox, NoMessage)
  <2> HIDE DEF i2, b2
  <2>1. Messages(host.inbox, host.outbox, slot, i2, b2, host'.gpadl, host'.opened)
    BY <1>2 DEF i2, b2
  <2>2. QED
    BY <1>1, <2>1, ConsumeTraffic DEF OffersAreLast
<1>4. QED
  BY <1>1, <1>3 DEF MessagesOK, OffersAreLast, VersionSettled, HostSound

LEMMA PostedTraffic ==
    ASSUME BootInv, NEW m, post_message(m), slot' = slot, KeepsBegun,
           RequestOK(m, Ids', BegunDevices'), AboutVersion(m) => m.type = "contact",
           AboutVersion(m) => OnlyVersions(host.inbox, host.outbox, slot)
    PROVE  /\ HostSound' /\ MessagesOK' /\ OffersAreLast'
           /\ VersionSettled' <=> VersionSettled /\ ~AboutVersion(m)
           /\ OnlyVersions(host.inbox, host.outbox, slot) /\ m.type = "contact" =>
                 /\ OnlyVersions(host'.inbox, host'.outbox, slot')
                 /\ LastIsAbout(host'.inbox, host'.outbox, slot', host'.version, m.version)
<1>1. MessagesOK /\ OffersAreLast /\ HostSound /\ IsSeq(host.inbox)
  BY BootParts
<1>2. /\ HostSound'
      /\ host'.inbox = Append(host.inbox, m)
      /\ host'.outbox = host.outbox /\ host'.version = host.version
      /\ host'.gpadl = host.gpadl /\ host'.opened = host.opened
      /\ host'.approved = host.approved /\ faults' = faults
  BY <1>1, PostFacts
<1>3. Messages(host.inbox, host.outbox, slot, Ids', BegunDevices', host'.gpadl, host'.opened)
  BY <1>1, <1>2, MessagesMove DEF MessagesOK, KeepsBegun
<1> DEFINE i2 == Ids'
           b2 == BegunDevices'
<1>4. Messages(host'.inbox, host.outbox, slot, i2, b2, host'.gpadl, host'.opened)
  <2>1. RequestOK(m, i2, b2)
        /\ Messages(host.inbox, host.outbox, slot, i2, b2, host'.gpadl, host'.opened)
    BY <1>3
  <2> HIDE DEF i2, b2
  <2>2. QED
    BY <1>1, <1>2, <2>1, PostMessages
<1>5. /\ OffersLast(Append(host.inbox, m), host.outbox, slot)
      /\ Settled(Append(host.inbox, m), host.outbox, slot)
            <=> Settled(host.inbox, host.outbox, slot) /\ ~AboutVersion(m)
      /\ OnlyVersions(host.inbox, host.outbox, slot) /\ m.type = "contact" =>
            /\ OnlyVersions(Append(host.inbox, m), host.outbox, slot)
            /\ \A agreed : LastIsAbout(Append(host.inbox, m), host.outbox, slot, agreed, m.version)
  BY <1>1, PostTraffic DEF OffersAreLast
<1>6. QED
  BY <1>2, <1>4, <1>5 DEF MessagesOK, OffersAreLast, VersionSettled

LEMMA DevicePhase ==
    ASSUME BootInv, AtDevice
    PROVE  /\ bus.state = "connected" /\ boot.index \in 1 .. 2
           /\ Device \in DeviceSet /\ ChannelAgreed(Device)
           /\ boot.pc # "device" => Underway(Device)
           /\ \A d \in DeviceSet : d # Device => ~Underway(d)
<1>1. BootSound /\ BusSound /\ Negotiating /\ VersionAgreed
  BY BootParts
<1>2. boot.pc \notin VersionPcs /\ boot.pc # "done"
  BY DEF AtDevice, DevicePcs, VersionPcs
<1>3. bus.state = "connected"
  BY <1>1, <1>2, BusFields DEF Negotiating, VersionAgreed
<1>4. boot.index \in 1 .. 2
  BY <1>1 DEF BootSound, AtDevice
<1>5. QED
  BY <1>3, <1>4, CurrentDevice, BootParts DEF Underway, AtDevice

(* What is left to show of a step that opens the channels.                  *)
LEMMA DeviceStep ==
    ASSUME BootInv, AtDevice, BootSound', boot'.pc \in DevicePcs \cup {"done"},
           BusSound', bus'.state = bus.state, bus'.offers = bus.offers, bus'.version = bus.version,
           HostSound', host'.version = host.version, ChannelsSound',
           ready' \in [DeviceSet -> BOOLEAN], faults' \in 0 .. Faults,
           MessagesOK', OffersAreLast', VersionSettled => VersionSettled',
           \A d \in DeviceSet : ChannelAgreed(d)'
    PROVE  BootInv'
<1>1. bus.state = "connected" /\ VersionAgreed
  BY DevicePhase, BootParts
<1>2. boot'.pc \notin VersionPcs /\ boot'.pc \notin OfferPcs
  BY DEF DevicePcs, VersionPcs, OfferPcs
<1>3. Negotiating' /\ VersionAgreed'
  BY <1>1, <1>2 DEF Negotiating, VersionAgreed, VersionPcs, OfferPcs
<1>4. BusTypes'
  BY DEF BusTypes
<1>5. QED
  BY <1>3, <1>4 DEF BootInv

-----------------------------------------------------------------------------
(* Boot: enabling hypercalls, the version, the offers.                     *)

(* The channels while no opening has begun.                                 *)
LEMMA EarlyChannels ==
    ASSUME BootInv, boot.pc \in VersionPcs \cup OfferPcs,
           channel' = channel, ready' = ready,
           \A d \in DeviceSet : /\ host'.approved[d] = host.approved[d]
                                /\ host'.gpadl[d] = host.gpadl[d]
                                /\ host'.opened[d] = host.opened[d]
                                /\ ~Underway(d)',
           person' = person, bus.offers \subseteq bus'.offers
    PROVE  /\ KeepsBegun /\ \A d \in DeviceSet : ChannelAgreed(d)'
           /\ ChannelsSound' /\ ready' \in [DeviceSet -> BOOLEAN]
<1>1. \A d \in DeviceSet : ~Begun(d) /\ ~Underway(d)
  BY NotBegun
<1>2. ASSUME NEW d \in DeviceSet PROVE ChannelAgreed(d)'
  <2>1. ChannelAgreed(d)
    BY BootParts
  <2>2. Rests(d)
    BY <1>1 DEF Rests
  <2>3. QED
    BY <2>1, <2>2, ChannelRests
<1>3. ChannelsSound /\ ready \in [DeviceSet -> BOOLEAN]
  BY BootParts
<1>4. ChannelsSound'
  BY <1>3 DEF ChannelsSound
<1>5. QED
  BY <1>1, <1>2, <1>3, <1>4 DEF KeepsBegun

LEMMA EnableKeeps ==
    ASSUME BootInv, EnableHypercalls, person' = person
    PROVE  BootInv'
<1>1. /\ boot.pc = "enable" /\ channel' = channel /\ ready' = ready /\ slot' = slot /\ host' = host
  BY DEF EnableHypercalls
<1>2. boot.pc \in VersionPcs \cup OfferPcs
  BY <1>1 DEF VersionPcs
<1>3. /\ BootSound /\ BusSound /\ Negotiating /\ VersionAgreed /\ faults \in 0 .. Faults
      /\ boot.index <= Len(Versions) /\ bus.state # "connected" /\ bus.state = "connecting"
      /\ bus.offers = {} /\ OnlyVersions(host.inbox, host.outbox, slot)
  <2>1. BootSound /\ BusSound /\ Negotiating /\ VersionAgreed /\ faults \in 0 .. Faults
    BY BootParts
  <2>2. boot.index <= Len(Versions)
    BY <1>1, <2>1 DEF BootSound, VersionPcs
  <2>3. bus.state # "connected" /\ bus.state # "failed"
    BY <1>1, <2>1 DEF VersionAgreed, VersionPcs
  <2>4. bus.state = "connecting"
    BY <2>1, <2>3, BusFields
  <2>5. QED
    BY <2>1, <2>2, <2>3, <2>4 DEF Negotiating
<1>4. CASE Goto("contact") /\ bus' = bus /\ faults' = faults
  <2>1. BootSound' /\ boot'.pc = "contact"
    BY <1>3, <1>4, GotoFacts DEF VersionPcs, DevicePcs
  <2>2. boot'.pc \in VersionPcs \cup OfferPcs
    BY <2>1 DEF VersionPcs
  <2>3. /\ KeepsBegun /\ \A d \in DeviceSet : ChannelAgreed(d)'
        /\ ChannelsSound' /\ ready' \in [DeviceSet -> BOOLEAN]
    BY <1>1, <1>2, <1>4, <2>2, NotBegun, EarlyChannels
  <2>4. HostSound' /\ MessagesOK' /\ OffersAreLast'
    BY <1>1, <2>3, StillTraffic
  <2>5. Negotiating'
    BY <1>1, <1>3, <1>4, <2>1 DEF Negotiating, VersionPcs
  <2>6. VersionAgreed'
    BY <1>3, <1>4, <2>1 DEF VersionAgreed, VersionPcs, OfferPcs
  <2>7. BusTypes'
    BY <1>3, <1>4, <2>1, <2>3, <2>4 DEF BusTypes, BusSound
  <2>8. QED
    BY <2>3, <2>4, <2>5, <2>6, <2>7 DEF BootInv
<1>5. CASE Fault /\ Goto("done") /\ bus' = [bus EXCEPT !.state = "failed"]
  <2>1. BootSound' /\ boot'.pc = "done"
    BY <1>3, <1>5, GotoFacts DEF VersionPcs, DevicePcs
  <2>2. BusSound' /\ bus'.state = "failed" /\ bus'.offers = bus.offers
    BY <1>3, <1>5 DEF BusSound, Buses
  <2>3. /\ KeepsBegun /\ \A d \in DeviceSet : ChannelAgreed(d)'
        /\ ChannelsSound' /\ ready' \in [DeviceSet -> BOOLEAN]
    BY <1>1, <1>2, <2>1, <2>2, NotBegun, EarlyChannels
  <2>4. HostSound' /\ MessagesOK' /\ OffersAreLast'
    BY <1>1, <2>3, StillTraffic
  <2>5. Negotiating'
    BY <2>2 DEF Negotiating
  <2>6. VersionAgreed'
    BY <1>3, <2>1, <2>2 DEF VersionAgreed, VersionPcs, OfferPcs
  <2>7. BusTypes'
    BY <1>3, <1>5, <2>1, <2>2, <2>3, <2>4, FaultFacts DEF BusTypes
  <2>8. QED
    BY <2>3, <2>4, <2>5, <2>6, <2>7 DEF BootInv
<1>6. QED
  BY <1>4, <1>5 DEF EnableHypercalls

LEMMA Connecting ==
    ASSUME BootInv, boot.pc \in VersionPcs
    PROVE  /\ BootSound /\ BusSound /\ faults \in 0 .. Faults
           /\ boot.index <= Len(Versions) /\ boot.index \in Nat \ {0}
           /\ bus.state = "connecting" /\ bus.offers = {}
           /\ OnlyVersions(host.inbox, host.outbox, slot)
           /\ boot.pc = "await version" =>
                 LastIsAbout(host.inbox, host.outbox, slot, host.version, Versions[boot.index])
           /\ boot.pc \in VersionPcs \cup OfferPcs
           /\ Versions[boot.index] \in Nat /\ Len(Versions) \in Nat
<1>1. BootSound /\ BusSound /\ Negotiating /\ VersionAgreed /\ faults \in 0 .. Faults
  BY BootParts
<1>2. boot.index <= Len(Versions) /\ boot.index \in Nat \ {0}
  BY <1>1 DEF BootSound
<1>3. bus.state # "connected" /\ bus.state # "failed"
  BY <1>1 DEF VersionAgreed, VersionPcs
<1>4. bus.state = "connecting"
  BY <1>1, <1>3, BusFields
<1>5. Versions[boot.index] \in Nat /\ Len(Versions) \in Nat
  BY <1>2, InputAssumption
<1>6. QED
  BY <1>1, <1>2, <1>4, <1>5 DEF Negotiating

LEMMA BootRecord ==
    ASSUME NEW pc \in VersionPcs \cup OfferPcs \cup DevicePcs \cup {"done"}, NEW n \in Nat \ {0},
           boot' = [pc |-> pc, index |-> n],
           pc \in DevicePcs => n \in 1 .. 2, pc \in VersionPcs => n <= Len(Versions)
    PROVE  BootSound' /\ boot'.pc = pc /\ boot'.index = n
<1>1. boot' \in [pc : VersionPcs \cup OfferPcs \cup DevicePcs \cup {"done"}, index : Nat \ {0}]
  OBVIOUS
<1>2. QED
  BY <1>1 DEF BootSound, VersionPcs, OfferPcs, DevicePcs

(* The next version, or the end of the bus when there is none.              *)
LEMMA NextVersionKeeps ==
    ASSUME BootInv, boot.pc \in VersionPcs, NextVersion, channel' = channel, ready' = ready,
           person' = person, host' = host, slot' = slot \/ slot' = NoMessage,
           faults' \in 0 .. Faults
    PROVE  BootInv'
<1>1. /\ BootSound /\ BusSound
      /\ boot.index <= Len(Versions) /\ boot.index \in Nat \ {0} /\ Len(Versions) \in Nat
      /\ bus.state = "connecting" /\ bus.offers = {}
      /\ OnlyVersions(host.inbox, host.outbox, slot)
      /\ boot.pc \in VersionPcs \cup OfferPcs
  BY Connecting
<1>2. ASSUME KeepsBegun
      PROVE  /\ HostSound' /\ MessagesOK' /\ OffersAreLast'
             /\ OnlyVersions(host'.inbox, host'.outbox, slot')
  BY <1>1, <1>2, StillTraffic, ConsumedTraffic
<1>3. CASE boot' = [pc |-> "contact", index |-> boot.index + 1] /\ bus' = bus
           /\ boot.index < Len(Versions)
  <2> DEFINE n == boot.index + 1
  <2>1. n \in Nat \ {0} /\ n <= Len(Versions) /\ boot' = [pc |-> "contact", index |-> n]
    BY <1>1, <1>3
  <2>2. "contact" \in VersionPcs /\ "contact" \notin DevicePcs
    BY DEF VersionPcs, DevicePcs
  <2>3. BootSound' /\ boot'.pc = "contact"
    <3> HIDE DEF n
    <3>1. QED
      BY <2>1, <2>2, BootRecord
  <2>4. boot'.pc \in VersionPcs \cup OfferPcs
    BY <2>3 DEF VersionPcs
  <2>5. /\ KeepsBegun /\ \A d \in DeviceSet : ChannelAgreed(d)'
        /\ ChannelsSound' /\ ready' \in [DeviceSet -> BOOLEAN]
    BY <1>1, <1>3, <2>4, NotBegun, EarlyChannels
  <2>6. Negotiating'
    BY <1>1, <1>2, <1>3, <2>3, <2>5 DEF Negotiating, VersionPcs
  <2>7. VersionAgreed'
    BY <1>1, <1>3, <2>3 DEF VersionAgreed, VersionPcs, OfferPcs
  <2>8. BusTypes'
    BY <1>1, <1>2, <1>3, <2>3, <2>5 DEF BusTypes, BusSound
  <2>9. QED
    BY <1>2, <2>5, <2>6, <2>7, <2>8 DEF BootInv
<1>4. CASE Goto("done") /\ bus' = [bus EXCEPT !.state = "failed"]
  <2>1. BootSound' /\ boot'.pc = "done"
    BY <1>1, <1>4, GotoFacts DEF VersionPcs, DevicePcs
  <2>2. BusSound' /\ bus'.state = "failed" /\ bus'.offers = bus.offers
    BY <1>1, <1>4 DEF BusSound, Buses
  <2>3. /\ KeepsBegun /\ \A d \in DeviceSet : ChannelAgreed(d)'
        /\ ChannelsSound' /\ ready' \in [DeviceSet -> BOOLEAN]
    BY <1>1, <2>1, <2>2, NotBegun, EarlyChannels
  <2>4. Negotiating'
    BY <2>2 DEF Negotiating
  <2>5. VersionAgreed'
    BY <1>1, <2>1, <2>2 DEF VersionAgreed, VersionPcs, OfferPcs
  <2>6. BusTypes'
    BY <1>1, <1>2, <2>1, <2>2, <2>3 DEF BusTypes
  <2>7. QED
    BY <1>2, <2>3, <2>4, <2>5, <2>6 DEF BootInv
<1>5. QED
  BY <1>3, <1>4 DEF NextVersion

LEMMA ContactKeeps ==
    ASSUME BootInv, InitiateContact, person' = person
    PROVE  BootInv'
<1>1. boot.pc = "contact" /\ channel' = channel /\ ready' = ready /\ slot' = slot
  BY DEF InitiateContact
<1>2. boot.pc \in VersionPcs
  BY <1>1 DEF VersionPcs
<1>3. /\ BootSound /\ BusSound /\ faults \in 0 .. Faults
      /\ boot.index <= Len(Versions)
      /\ bus.state = "connecting" /\ bus.offers = {}
      /\ OnlyVersions(host.inbox, host.outbox, slot)
      /\ boot.pc \in VersionPcs \cup OfferPcs /\ Versions[boot.index] \in Nat
  BY <1>2, Connecting
<1>4. CASE Fault /\ NextVersion /\ host' = host
  BY <1>1, <1>2, <1>3, <1>4, NextVersionKeeps, FaultFacts
<1> DEFINE v == Versions[boot.index]
           m == [type |-> "contact", version |-> v]
<1>5. CASE post_message(m) /\ Goto("await version") /\ bus' = bus
  <2>1. BootSound' /\ boot'.pc = "await version" /\ boot'.index = boot.index
    BY <1>3, <1>5, GotoFacts DEF VersionPcs, DevicePcs
  <2>2. boot'.pc \in VersionPcs \cup OfferPcs
    BY <2>1 DEF VersionPcs
  <2>3. /\ host'.gpadl = host.gpadl /\ host'.opened = host.opened
        /\ host'.approved = host.approved /\ faults' = faults
    BY <1>5, PostFacts, BootParts
  <2>4. /\ KeepsBegun /\ \A d \in DeviceSet : ChannelAgreed(d)'
        /\ ChannelsSound' /\ ready' \in [DeviceSet -> BOOLEAN]
    BY <1>1, <1>3, <1>5, <2>2, <2>3, NotBegun, EarlyChannels
  <2>5. m.type = "contact" /\ m.version = v
    OBVIOUS
  <2> HIDE DEF m
  <2>6. \A i, b : RequestOK(m, i, b)
    BY <2>5, <1>3 DEF RequestOK
  <2>7. AboutVersion(m)
    BY <2>5 DEF AboutVersion
  <2>8. /\ HostSound' /\ MessagesOK' /\ OffersAreLast' /\ ~VersionSettled'
        /\ OnlyVersions(host'.inbox, host'.outbox, slot')
        /\ LastIsAbout(host'.inbox, host'.outbox, slot', host'.version, v)
    <3> DEFINE i2 == Ids'
               b2 == BegunDevices'
    <3>1. RequestOK(m, i2, b2)
      <4> HIDE DEF i2, b2
      <4>1. QED
        BY <2>6
    <3>2. QED
      BY <1>1, <1>3, <1>5, <2>4, <2>5, <3>1, <2>7, PostedTraffic
  <2>9. Negotiating'
    BY <1>3, <1>5, <2>1, <2>8 DEF Negotiating, VersionPcs
  <2>10. VersionAgreed'
    BY <1>3, <1>5, <2>1, <2>8 DEF VersionAgreed, VersionPcs, OfferPcs
  <2>11. BusTypes'
    BY <1>3, <1>5, <2>1, <2>3, <2>4, <2>8 DEF BusTypes, BusSound
  <2>12. QED
    BY <2>4, <2>8, <2>9, <2>10, <2>11 DEF BootInv
<1>6. QED
  BY <1>4, <1>5 DEF InitiateContact

LEMMA VersionKeeps ==
    ASSUME BootInv, AwaitVersion, person' = person
    PROVE  BootInv'
<1>1. boot.pc = "await version" /\ channel' = channel /\ ready' = ready /\ host' = host
  BY DEF AwaitVersion
<1>2. boot.pc \in VersionPcs
  BY <1>1 DEF VersionPcs
<1>3. /\ BootSound /\ BusSound /\ faults \in 0 .. Faults
      /\ bus.state = "connecting" /\ bus.offers = {}
      /\ OnlyVersions(host.inbox, host.outbox, slot)
      /\ LastIsAbout(host.inbox, host.outbox, slot, host.version, Versions[boot.index])
      /\ boot.pc \in VersionPcs \cup OfferPcs /\ Versions[boot.index] \in Nat
  BY <1>1, <1>2, Connecting
<1>4. CASE TimedOut /\ NextVersion
  BY <1>1, <1>2, <1>3, <1>4, NextVersionKeeps, FaultFacts DEF TimedOut
<1>5. CASE Consumed /\ faults' = faults /\ NextVersion
  BY <1>1, <1>2, <1>3, <1>5, NextVersionKeeps DEF Consumed
<1>6. CASE /\ slot.type = "version" /\ slot.supported /\ Consumed /\ faults' = faults
           /\ bus' = [bus EXCEPT !.state = "connected", !.version = Versions[boot.index]]
           /\ Goto("request offers")
  <2> DEFINE v == Versions[boot.index]
  <2>1. BootSound' /\ boot'.pc = "request offers"
    BY <1>3, <1>6, GotoFacts DEF VersionPcs, OfferPcs, DevicePcs
  <2>2. boot'.pc \in VersionPcs \cup OfferPcs
    BY <2>1 DEF OfferPcs
  <2>3. BusSound' /\ bus'.state = "connected" /\ bus'.version = v /\ bus'.offers = bus.offers
    <3>1. v \in Nat /\ bus' = [bus EXCEPT !.state = "connected", !.version = v]
      BY <1>3, <1>6
    <3> HIDE DEF v
    <3>2. PICK offers : bus \in Buses(offers)
      BY <1>3 DEF BusSound
    <3>3. bus' \in Buses(offers) /\ bus'.state = "connected" /\ bus'.version = v
          /\ bus'.offers = bus.offers
      BY <3>1, <3>2 DEF Buses
    <3>4. QED
      BY <3>3 DEF BusSound
  <2>4. /\ KeepsBegun /\ \A d \in DeviceSet : ChannelAgreed(d)'
        /\ ChannelsSound' /\ ready' \in [DeviceSet -> BOOLEAN]
    BY <1>1, <1>3, <2>2, <2>3, NotBegun, EarlyChannels
  <2>5. HostSound' /\ MessagesOK' /\ OffersAreLast'
    BY <1>1, <1>6, <2>4, ConsumedTraffic DEF Consumed
  <2>6. ASSUME VersionSettled' PROVE host'.version = bus'.version
    <3>1. IsSeq(host.inbox) /\ IsSeq(host.outbox)
      BY BootParts
    <3>2. NoVersion(host.inbox) /\ NoVersion(host.outbox)
      BY <2>6, <1>1 DEF VersionSettled, Settled
    <3>3. \A i \in 1 .. Len(host.inbox) : FALSE
      BY <1>3, <3>2 DEF OnlyVersions, NoVersion, AboutVersion
    <3>4. \A i \in 1 .. Len(host.outbox) : FALSE
      BY <1>3, <3>2 DEF OnlyVersions, NoVersion, AboutVersion
    <3>5. \A n \in Nat : (\A i \in 1 .. n : FALSE) => n = 0
      <4>1. ASSUME NEW n \in Nat, \A i \in 1 .. n : FALSE, n # 0 PROVE FALSE
        <5>1. n \in 1 .. n
          BY <4>1
        <5>2. QED
          BY <4>1, <5>1
      <4>2. QED
        BY <4>1
    <3>6. host.inbox = <<>> /\ host.outbox = <<>>
      BY <3>1, <3>3, <3>4, <3>5, SeqFacts
    <3>7. QED
      BY <1>1, <1>3, <1>6, <2>3, <3>6 DEF LastIsAbout
  <2>7. Negotiating'
    BY <2>3 DEF Negotiating
  <2>8. VersionAgreed'
    BY <1>3, <2>1, <2>3, <2>6 DEF VersionAgreed, VersionPcs
  <2>9. BusTypes'
    BY <1>3, <1>6, <2>1, <2>3, <2>4, <2>5 DEF BusTypes
  <2>10. QED
    BY <2>4, <2>5, <2>7, <2>8, <2>9 DEF BootInv
<1>7. QED
  BY <1>4, <1>5, <1>6 DEF AwaitVersion

LEMMA OfferPhase ==
    ASSUME BootInv, boot.pc \in OfferPcs
    PROVE  /\ BootSound /\ BusSound /\ faults \in 0 .. Faults /\ VersionAgreed
           /\ bus.state = "connected" /\ boot.pc \in VersionPcs \cup OfferPcs
           /\ VersionSettled => host.version = bus.version
<1>1. BootSound /\ BusSound /\ Negotiating /\ VersionAgreed /\ faults \in 0 .. Faults
  BY BootParts
<1>2. boot.pc \notin VersionPcs /\ boot.pc # "done"
  BY DEF OfferPcs, VersionPcs
<1>3. bus.state = "connected"
  BY <1>1, <1>2, BusFields DEF Negotiating, VersionAgreed
<1>4. QED
  BY <1>1, <1>3 DEF VersionAgreed

LEMMA ToDevicesKeeps ==
    ASSUME BootInv, boot.pc \in OfferPcs, ToDevices, bus' = bus, channel' = channel,
           ready' = ready, person' = person, host' = host, slot' = slot \/ slot' = NoMessage,
           faults' \in 0 .. Faults
    PROVE  BootInv'
<1>1. /\ BootSound /\ BusSound /\ VersionAgreed
      /\ bus.state = "connected" /\ boot.pc \in VersionPcs \cup OfferPcs
  BY OfferPhase
<1>2. BootSound' /\ boot'.pc = "device" /\ boot'.index = 1
  <2>1. boot' = [pc |-> "device", index |-> 1]
    BY DEF ToDevices
  <2>2. "device" \in DevicePcs /\ "device" \notin VersionPcs /\ 1 \in 1 .. 2
    BY DEF DevicePcs, VersionPcs
  <2>3. QED
    BY <2>1, <2>2, BootRecord
<1>3. /\ KeepsBegun /\ \A d \in DeviceSet : ChannelAgreed(d)'
      /\ ChannelsSound' /\ ready' \in [DeviceSet -> BOOLEAN]
  BY <1>1, <1>2, NotBegun, EarlyChannels
<1>4. HostSound' /\ MessagesOK' /\ OffersAreLast' /\ (VersionSettled => VersionSettled')
  BY <1>3, StillTraffic, ConsumedTraffic
<1>5. Negotiating'
  BY <1>1 DEF Negotiating
<1>6. VersionAgreed'
  BY <1>1, <1>2, <1>4 DEF VersionAgreed, VersionPcs, OfferPcs
<1>7. BusTypes'
  BY <1>1, <1>2, <1>3, <1>4 DEF BusTypes, BusSound
<1>8. QED
  BY <1>3, <1>4, <1>5, <1>6, <1>7 DEF BootInv

LEMMA RequestKeeps ==
    ASSUME BootInv, vmbus_request_offers, person' = person
    PROVE  BootInv'
<1>1. /\ boot.pc = "request offers" /\ bus' = bus /\ channel' = channel /\ ready' = ready
      /\ slot' = slot
  BY DEF vmbus_request_offers
<1>2. boot.pc \in OfferPcs
  BY <1>1 DEF OfferPcs
<1>3. /\ BootSound /\ BusSound /\ faults \in 0 .. Faults /\ VersionAgreed
      /\ bus.state = "connected" /\ boot.pc \in VersionPcs \cup OfferPcs
      /\ VersionSettled => host.version = bus.version
  BY <1>2, OfferPhase
<1>4. CASE Fault /\ ToDevices /\ host' = host
  BY <1>1, <1>2, <1>3, <1>4, ToDevicesKeeps, FaultFacts
<1> DEFINE m == [type |-> "request offers"]
<1>5. CASE post_message(m) /\ Goto("await offers")
  <2>1. BootSound' /\ boot'.pc = "await offers"
    BY <1>3, <1>5, GotoFacts DEF VersionPcs, OfferPcs, DevicePcs
  <2>2. boot'.pc \in VersionPcs \cup OfferPcs
    BY <2>1 DEF OfferPcs
  <2>3. /\ host'.gpadl = host.gpadl /\ host'.opened = host.opened
        /\ host'.approved = host.approved /\ faults' = faults /\ host'.version = host.version
    BY <1>5, PostFacts, BootParts
  <2>4. /\ KeepsBegun /\ \A d \in DeviceSet : ChannelAgreed(d)'
        /\ ChannelsSound' /\ ready' \in [DeviceSet -> BOOLEAN]
    BY <1>1, <1>3, <2>2, <2>3, NotBegun, EarlyChannels
  <2>5. m.type = "request offers"
    OBVIOUS
  <2> HIDE DEF m
  <2>6. \A i, b : RequestOK(m, i, b)
    BY <2>5 DEF RequestOK
  <2>7. ~AboutVersion(m)
    BY <2>5 DEF AboutVersion
  <2>8. HostSound' /\ MessagesOK' /\ OffersAreLast' /\ (VersionSettled' <=> VersionSettled)
    <3> DEFINE i2 == Ids'
               b2 == BegunDevices'
    <3>1. RequestOK(m, i2, b2)
      <4> HIDE DEF i2, b2
      <4>1. QED
        BY <2>6
    <3>2. QED
      BY <1>1, <1>5, <2>4, <3>1, <2>7, PostedTraffic
  <2>9. Negotiating'
    BY <1>1, <1>3 DEF Negotiating
  <2>10. VersionAgreed'
    BY <1>1, <1>3, <2>1, <2>3, <2>8 DEF VersionAgreed, VersionPcs, OfferPcs
  <2>11. BusTypes'
    BY <1>1, <1>3, <2>1, <2>3, <2>4, <2>8 DEF BusTypes, BusSound
  <2>12. QED
    BY <2>4, <2>8, <2>9, <2>10, <2>11 DEF BootInv
<1>6. QED
  BY <1>4, <1>5 DEF vmbus_request_offers

LEMMA OffersKeeps ==
    ASSUME BootInv, AwaitOffers, person' = person
    PROVE  BootInv'
<1>1. boot.pc = "await offers" /\ channel' = channel /\ ready' = ready /\ host' = host
  BY DEF AwaitOffers
<1>2. boot.pc \in OfferPcs
  BY <1>1 DEF OfferPcs
<1>3. /\ BootSound /\ BusSound /\ faults \in 0 .. Faults /\ VersionAgreed
      /\ bus.state = "connected" /\ boot.pc \in VersionPcs \cup OfferPcs
      /\ VersionSettled => host.version = bus.version
  BY <1>2, OfferPhase
<1>4. CASE TimedOut /\ ToDevices /\ bus' = bus
  BY <1>1, <1>2, <1>3, <1>4, ToDevicesKeeps, FaultFacts DEF TimedOut
<1>5. CASE Consumed /\ ToDevices /\ bus' = bus /\ faults' = faults
  BY <1>1, <1>2, <1>3, <1>5, ToDevicesKeeps DEF Consumed
<1>6. CASE /\ slot.type = "offer" /\ Consumed /\ bus' = [bus EXCEPT !.offers = @ \cup {slot.device}]
           /\ boot' = boot /\ faults' = faults
  <2> DEFINE more == bus.offers \cup {slot.device}
  <2>1. /\ BusSound' /\ bus'.state = bus.state /\ bus'.version = bus.version
        /\ bus'.offers = more
    <3>1. PICK offers : bus \in Buses(offers)
      BY <1>3 DEF BusSound
    <3> DEFINE all == offers \cup {slot.device}
    <3>2. bus \in Buses(all) /\ more \in SUBSET all
      BY <3>1 DEF Buses
    <3>3. bus' = [bus EXCEPT !.offers = more]
      BY <3>1, <1>6 DEF Buses
    <3> HIDE DEF more, all
    <3>4. bus' \in Buses(all) /\ bus'.state = bus.state /\ bus'.version = bus.version
          /\ bus'.offers = more
      BY <3>2, <3>3 DEF Buses
    <3>5. QED
      BY <3>4 DEF BusSound
  <2>2. boot'.pc \in VersionPcs \cup OfferPcs /\ BootSound'
    BY <1>3, <1>6 DEF BootSound, VersionPcs, OfferPcs, DevicePcs
  <2>3. /\ KeepsBegun /\ \A d \in DeviceSet : ChannelAgreed(d)'
        /\ ChannelsSound' /\ ready' \in [DeviceSet -> BOOLEAN]
    BY <1>1, <1>3, <2>1, <2>2, NotBegun, EarlyChannels
  <2>4. HostSound' /\ MessagesOK' /\ OffersAreLast' /\ (VersionSettled => VersionSettled')
    BY <1>1, <1>6, <2>3, ConsumedTraffic DEF Consumed
  <2>5. ~AboutVersion(slot)
    BY <1>6 DEF AboutVersion
  <2>6. VersionSettled' => VersionSettled
    BY <1>1, <2>5 DEF VersionSettled, Settled
  <2>7. slot.device \in DeviceSet => VersionSettled
    <3>1. OffersAreLast
      BY BootParts
    <3>2. QED
      BY <1>6, <2>5, <3>1 DEF OffersAreLast, OffersLast, IsDeviceOffer, VersionSettled, Settled
  <2>8. Negotiating'
    BY <1>3, <2>1 DEF Negotiating
  <2>9. VersionAgreed'
    <3>1. bus'.offers \cap DeviceSet # {} => VersionSettled /\ host.version = bus.version
      BY <1>3, <2>1, <2>7 DEF VersionAgreed
    <3>2. bus'.state = "connected" /\ boot'.pc \notin VersionPcs
      BY <1>1, <1>3, <1>6, <2>1 DEF VersionPcs
    <3>3. DeviceSet' = DeviceSet
      BY DEF DeviceSet
    <3>4. QED
      BY <1>1, <1>3, <2>1, <2>4, <2>6, <3>1, <3>2, <3>3 DEF VersionAgreed, VersionPcs
  <2>10. BusTypes'
    BY <1>3, <1>6, <2>1, <2>2, <2>3, <2>4 DEF BusTypes
  <2>11. QED
    BY <2>3, <2>4, <2>8, <2>9, <2>10 DEF BootInv
<1>7. QED
  BY <1>4, <1>5, <1>6 DEF AwaitOffers

-----------------------------------------------------------------------------
(* Boot: opening the channels.                                             *)

(* A step that goes on to the next device.                                  *)
LEMMA NextKeeps ==
    ASSUME BootInv, AtDevice, NextDevice, bus' = bus, channel' = channel, ready' = ready,
           person' = person, host' = host, slot' = slot \/ slot' = NoMessage,
           faults' \in 0 .. Faults
    PROVE  BootInv'
<1>1. BootSound /\ BusSound /\ ChannelsSound /\ ready \in [DeviceSet -> BOOLEAN]
  BY BootParts
<1>2. /\ BootSound' /\ boot'.pc \in {"device", "done"}
      /\ \A d \in DeviceSet : (Begun(d) => Begun(d)') /\ ~Underway(d)'
  BY <1>1, NextDeviceFacts
<1>3. KeepsBegun
  BY <1>2 DEF KeepsBegun
<1>4. HostSound' /\ MessagesOK' /\ OffersAreLast' /\ (VersionSettled => VersionSettled')
  BY <1>3, StillTraffic, ConsumedTraffic
<1>5. ASSUME NEW d \in DeviceSet PROVE ChannelAgreed(d)'
  <2>1. ChannelAgreed(d)
    BY BootParts
  <2>2. Rests(d)
    BY <1>2 DEF Rests
  <2>3. QED
    BY <2>1, <2>2, ChannelRests
<1>6. boot'.pc \in DevicePcs \cup {"done"}
  BY <1>2 DEF DevicePcs
<1>7. BusSound' /\ ChannelsSound'
  BY <1>1 DEF BusSound, ChannelsSound
<1>8. QED
  BY <1>1, <1>2, <1>4, <1>5, <1>6, <1>7, DeviceStep

LEMMA NoDeviceKeeps ==
    ASSUME BootInv, NoDevice, person' = person
    PROVE  BootInv'
<1>1. AtDevice
  BY DEF NoDevice, AtDevice, DevicePcs
<1>2. faults \in 0 .. Faults
  BY BootParts
<1>3. faults' \in 0 .. Faults
  BY <1>2, FaultFacts DEF NoDevice
<1>4. QED
  BY <1>1, <1>3, NextKeeps DEF NoDevice

LEMMA GoDevice ==
    ASSUME BootSound, AtDevice, NEW pc \in DevicePcs \ {"device"}, Goto(pc)
    PROVE  /\ BootSound' /\ boot'.pc = pc /\ boot'.index = boot.index
           /\ \A d \in DeviceSet : /\ Begun(d) => Begun(d)'
                                   /\ Underway(d)' => d = Device
                                   /\ d = Device => Begun(d)' /\ Underway(d)'
<1>1. boot.index \in 1 .. 2 /\ boot.pc # "done"
  BY DEF BootSound, AtDevice, DevicePcs
<1>2. pc \notin VersionPcs
  BY DEF VersionPcs, DevicePcs
<1>3. BootSound' /\ boot'.pc = pc /\ boot'.index = boot.index
  BY <1>1, <1>2, GotoFacts
<1>4. /\ Device \in DeviceSet /\ Order(Device) = boot.index
      /\ \A d \in DeviceSet : Order(d) \in 1 .. 2 /\ (Order(d) = boot.index => d = Device)
  BY <1>1, CurrentDevice
<1>5. ASSUME NEW d \in DeviceSet PROVE Underway(d)' <=> d = Device
  <2>1. Underway(d)' <=> boot'.index = Order(d)
    BY <1>3 DEF Underway, DevicePcs, Order
  <2>2. QED
    BY <2>1, <1>3, <1>4
<1>6. ASSUME NEW d \in DeviceSet PROVE Begun(d)' <=> Order(d) < boot.index \/ Order(d) = boot.index
  <2>1. boot'.pc \in DevicePcs /\ boot'.pc # "device" /\ boot'.pc # "done"
    BY <1>3 DEF DevicePcs
  <2>2. QED
    BY <2>1, <1>3 DEF Begun, DevicePcs, Order
<1>7. ASSUME NEW d \in DeviceSet, Begun(d) PROVE Begun(d)'
  <2>1. Order(d) < boot.index \/ Order(d) = boot.index
    BY <1>1, <1>7 DEF Begun
  <2>2. QED
    BY <1>6, <2>1
<1>8. ASSUME NEW d \in DeviceSet, d = Device PROVE Begun(d)'
  BY <1>4, <1>6, <1>8
<1>9. QED
  BY <1>3, <1>5, <1>7, <1>8

LEMMA ChannelSet ==
    ASSUME ChannelsSound, NEW e \in DeviceSet, NEW c, ChannelSound(c),
           channel' = [channel EXCEPT ![e] = c]
    PROVE  /\ ChannelsSound' /\ channel'[e] = c
           /\ \A d \in DeviceSet : d # e => channel'[d] = channel[d]
<1>1. channel = [d \in DeviceSet |-> channel[d]]
  BY DEF ChannelsSound
<1>2. channel'[e] = c /\ \A d \in DeviceSet : d # e => channel'[d] = channel[d]
  BY <1>1
<1>3. channel' = [d \in DeviceSet |-> channel'[d]]
  BY <1>1
<1>4. \A d \in DeviceSet : ChannelSound(channel'[d])
  BY <1>2 DEF ChannelsSound
<1>5. QED
  BY <1>2, <1>3, <1>4 DEF ChannelsSound, DeviceSet

(* The devices an action on the current one leaves alone.                   *)
LEMMA OthersRest ==
    ASSUME BootInv, NEW e \in DeviceSet,
           \A d \in DeviceSet : /\ Begun(d) => Begun(d)'
                                /\ Underway(d)' => d = e,
           \A d \in DeviceSet : d # e =>
               /\ channel'[d] = channel[d] /\ ready'[d] = ready[d]
               /\ host'.approved[d] = host.approved[d]
               /\ host'.gpadl[d] = host.gpadl[d] /\ host'.opened[d] = host.opened[d],
           person' = person, bus'.state = bus.state, bus'.offers = bus.offers
    PROVE  \A d \in DeviceSet : d # e => ChannelAgreed(d)'
<1>1. ASSUME NEW d \in DeviceSet, d # e PROVE ChannelAgreed(d)'
  <2>1. ChannelAgreed(d)
    BY BootParts
  <2>2. Rests(d)
    BY <1>1 DEF Rests
  <2>3. QED
    BY <2>1, <2>2, ChannelRests
<1>2. QED
  BY <1>1

LEMMA GpadlKeeps ==
    ASSUME BootInv, CreateGpadl, person' = person
    PROVE  BootInv'
<1>1. boot.pc = "device" /\ Device \in bus.offers /\ ready' = ready /\ slot' = slot
  BY DEF CreateGpadl
<1>2. AtDevice
  BY <1>1 DEF AtDevice, DevicePcs
<1>3. /\ BootSound /\ BusSound /\ HostSound /\ ChannelsSound /\ ready \in [DeviceSet -> BOOLEAN]
      /\ faults \in 0 .. Faults
  BY BootParts
<1>4. /\ bus.state = "connected" /\ boot.index \in 1 .. 2
      /\ Device \in DeviceSet /\ ChannelAgreed(Device)
  BY <1>2, DevicePhase
<1>5. PICK e \in DeviceSet : e = Device
  BY <1>4
<1>6. ChannelAgreed(e) /\ Order(e) = boot.index
  BY <1>4, <1>5, CurrentDevice
<1>7. ~Begun(e)
  BY <1>1, <1>4, <1>6 DEF Begun
<1>8. ~ready[e] /\ ~host.approved[e]
  BY <1>6, <1>7 DEF ChannelAgreed
<1> DEFINE n == bus.next_id
           c == [ClosedChannel EXCEPT !.id = n]
           m == [type |-> "gpadl", device |-> e, id |-> n]
<1>9. n \in Nat
  BY <1>3, BusFields
<1>10. ChannelSound(c) /\ ~c.open /\ c.id = n /\ Empty(c.in) /\ Empty(c.out)
  <2>1. PICK units : ClosedChannel \in Channels(units)
    BY ClosedSound DEF ChannelSound
  <2> HIDE DEF n
  <2>2. /\ c \in Channels(units) /\ c.open = ClosedChannel.open /\ c.id = n
        /\ c.in = ClosedChannel.in /\ c.out = ClosedChannel.out
    BY <1>9, <2>1 DEF Channels
  <2>3. QED
    BY <2>2, ClosedSound DEF ChannelSound
<1>11. channel' = [channel EXCEPT ![e] = c]
  BY <1>5 DEF CreateGpadl
<1>12. /\ ChannelsSound' /\ channel'[e] = c
       /\ \A d \in DeviceSet : d # e => channel'[d] = channel[d]
  <2> HIDE DEF c
  <2>1. QED
    BY <1>3, <1>10, <1>11, ChannelSet
<1>13. /\ BusSound' /\ bus'.state = bus.state /\ bus'.offers = bus.offers
       /\ bus'.version = bus.version
  <2>1. PICK offers : bus \in Buses(offers)
    BY <1>3 DEF BusSound
  <2> DEFINE n2 == n + 1
  <2>2. n2 \in Nat /\ bus' = [bus EXCEPT !.next_id = n2]
    <3>1. bus' = [bus EXCEPT !.next_id = @ + 1]
      BY DEF CreateGpadl
    <3>2. bus' = [bus EXCEPT !.next_id = bus.next_id + 1]
      BY <2>1, <3>1 DEF Buses
    <3>3. QED
      BY <1>9, <3>2
  <2> HIDE DEF n2
  <2>3. bus' \in Buses(offers) /\ bus'.state = bus.state /\ bus'.offers = bus.offers
        /\ bus'.version = bus.version
    BY <2>1, <2>2 DEF Buses
  <2>4. QED
    BY <2>3 DEF BusSound
<1> HIDE DEF c, n
<1>14. CASE post_message(m) /\ Goto("await gpadl")
  <2>1. "await gpadl" \in DevicePcs \ {"device"}
    BY DEF DevicePcs
  <2>2. /\ BootSound' /\ boot'.pc = "await gpadl"
        /\ \A d \in DeviceSet : /\ Begun(d) => Begun(d)'
                                /\ Underway(d)' => d = e
                                /\ d = e => Begun(d)' /\ Underway(d)'
    BY <1>2, <1>3, <1>5, <1>14, <2>1, GoDevice
  <2>3. KeepsBegun
    BY <2>2, <1>7, <1>12 DEF KeepsBegun
  <2>4. m.type = "gpadl" /\ m.device = e /\ m.id = n
    OBVIOUS
  <2> HIDE DEF m
  <2>5. /\ host'.gpadl = host.gpadl /\ host'.opened = host.opened
        /\ host'.approved = host.approved /\ faults' = faults /\ host'.version = host.version
    BY <1>3, <1>14, PostFacts
  <2>6. HostSound' /\ MessagesOK' /\ OffersAreLast' /\ (VersionSettled => VersionSettled')
    <3> DEFINE i2 == Ids'
               b2 == BegunDevices'
    <3>1. i2[e] = n /\ e \in b2
      BY <1>10, <1>12, <2>2 DEF Ids, BegunDevices
    <3>2. RequestOK(m, i2, b2)
      <4> HIDE DEF i2, b2
      <4>1. QED
        BY <2>4, <3>1 DEF RequestOK
    <3>3. ~AboutVersion(m)
      BY <2>4 DEF AboutVersion
    <3>4. QED
      BY <1>1, <1>14, <2>3, <3>2, <3>3, PostedTraffic
  <2>7. ChannelAgreed(e)'
    BY <1>1, <1>4, <1>5, <1>8, <1>10, <1>12, <1>13, <2>2, <2>5 DEF ChannelAgreed, Empty
  <2>8. \A d \in DeviceSet : ChannelAgreed(d)'
    BY <1>1, <1>12, <1>13, <2>2, <2>5, <2>7, OthersRest
  <2>9. boot'.pc \in DevicePcs \cup {"done"}
    BY <2>1, <2>2
  <2>10. QED
    BY <1>1, <1>2, <1>3, <1>12, <1>13, <2>2, <2>5, <2>6, <2>8, <2>9, DeviceStep
<1>15. CASE Fault /\ NextDevice /\ host' = host
  <2>1. /\ BootSound' /\ boot'.pc \in {"device", "done"}
        /\ \A d \in DeviceSet : /\ Begun(d) => Begun(d)'
                                /\ ~Underway(d)'
                                /\ d = e => Begun(d)'
    BY <1>2, <1>3, <1>5, <1>15, NextDeviceFacts
  <2>2. KeepsBegun
    BY <2>1, <1>7, <1>12 DEF KeepsBegun
  <2>3. HostSound' /\ MessagesOK' /\ OffersAreLast' /\ (VersionSettled => VersionSettled')
    BY <1>1, <1>15, <2>2, StillTraffic
  <2>4. ChannelAgreed(e)'
    BY <1>1, <1>4, <1>8, <1>10, <1>12, <1>13, <1>15, <2>1 DEF ChannelAgreed, Empty
  <2>5. \A d \in DeviceSet : ChannelAgreed(d)'
    BY <1>1, <1>12, <1>13, <1>15, <2>1, <2>4, OthersRest
  <2>6. boot'.pc \in DevicePcs \cup {"done"}
    BY <2>1 DEF DevicePcs
  <2>7. QED
    BY <1>1, <1>2, <1>3, <1>12, <1>13, <1>15, <2>1, <2>3, <2>5, <2>6, DeviceStep, FaultFacts
<1>16. QED
  <2>1. CreateGpadl => \/ post_message(m) /\ Goto("await gpadl")
                       \/ Fault /\ NextDevice /\ host' = host
    BY <1>5 DEF CreateGpadl, n
  <2>2. QED
    BY <2>1, <1>14, <1>15

(* A wait for an answer: news is skipped, a refusal or another answer ends  *)
(* the opening, and so does the spin limit.                                 *)
LEMMA WaitKeeps ==
    ASSUME BootInv, AtDevice, person' = person, NEW type,
           \/ Skip
           \/ /\ \/ Fits /\ ~IsAnswer(type) /\ Consumed /\ UNCHANGED faults
                 \/ Refused
                 \/ TimedOut
              /\ NextDevice
              /\ UNCHANGED <<bus, channel, ready, host>>
    PROVE  BootInv'
<1>1. /\ BootSound /\ BusSound /\ HostSound /\ ChannelsSound /\ ready \in [DeviceSet -> BOOLEAN]
      /\ faults \in 0 .. Faults
  BY BootParts
<1>2. CASE Skip
  <2>1. /\ slot' = NoMessage /\ bus' = bus /\ channel' = channel /\ ready' = ready
        /\ boot' = boot /\ host' = host /\ faults' = faults
    BY <1>2 DEF Skip, Consumed
  <2>2. \A d \in DeviceSet : (Begun(d)' <=> Begun(d)) /\ (Underway(d)' <=> Underway(d))
    BY <2>1 DEF Begun, Underway, DevicePcs, Order
  <2>3. KeepsBegun
    BY <2>1, <2>2 DEF KeepsBegun
  <2>4. HostSound' /\ MessagesOK' /\ OffersAreLast' /\ (VersionSettled => VersionSettled')
    BY <2>1, <2>3, ConsumedTraffic
  <2>5. ASSUME NEW d \in DeviceSet PROVE ChannelAgreed(d)'
    <3>1. ChannelAgreed(d)
      BY BootParts
    <3>2. Rests(d)
      BY <2>1, <2>2 DEF Rests
    <3>3. QED
      BY <3>1, <3>2, ChannelRests
  <2>6. BootSound' /\ BusSound' /\ ChannelsSound'
    BY <1>1, <2>1 DEF BootSound, BusSound, ChannelsSound, VersionPcs, OfferPcs, DevicePcs
  <2>7. boot'.pc \in DevicePcs \cup {"done"}
    BY <2>1 DEF AtDevice
  <2>8. QED
    BY <1>1, <2>1, <2>4, <2>5, <2>6, <2>7, DeviceStep
<1>3. CASE NextDevice /\ UNCHANGED <<bus, channel, ready, host>>
           /\ (\/ Fits /\ ~IsAnswer(type) /\ Consumed /\ UNCHANGED faults
               \/ Refused
               \/ TimedOut)
  <2>1. slot' = slot \/ slot' = NoMessage
    BY <1>3 DEF Consumed, Refused, TimedOut
  <2>2. faults' \in 0 .. Faults
    BY <1>1, <1>3, FaultFacts DEF Refused, TimedOut
  <2>3. QED
    BY <1>3, <2>1, <2>2, NextKeeps
<1>4. QED
  BY <1>2, <1>3

LEMMA FirstPacket ==
    ASSUME NEW r, RingSound(r), Empty(r), NEW p, p.units \in Nat, PacketUnits(p) < RingUnits
    PROVE  RingSound(hyperv_ring_write(r, p)) /\ Spelled(hyperv_ring_write(r, p), p)
<1> DEFINE s == hyperv_ring_write(r, p)
           ps == [i \in {1} |-> p]
           pos == [i \in {0} |-> 0]
<1>1. Spells(r, 0, 0, ps, pos)
  BY EmptySpells DEF Empty
<1>2. PacketUnits(p) \in Nat /\ RingUnits \in Nat
  BY Units, RingFields
<1>3. HasSpace(r, p)
  <2>1. ring_used(r) = 0
    BY RingFields DEF ring_used, Empty
  <2>2. QED
    BY <1>2, <2>1 DEF HasSpace
<1>4. ps[0 + 1] = p /\ \A i \in 0 + 1 .. 0 : ps[i] = ps[i]
  OBVIOUS
<1> HIDE DEF s, ps, pos
<1>5. \E pos2 : Spells(s, 0, 0 + 1, ps, pos2)
  BY <1>1, <1>3, <1>4, WriteSpells DEF s
<1>6. RingSound(s)
  BY <1>3, WriteUnits DEF Wrote, s
<1>7. QED
  BY <1>4, <1>5, <1>6 DEF Spelled, s

LEMMA OnlyPacket ==
    ASSUME NEW r, RingSound(r), NEW p, Spelled(r, p)
    PROVE  /\ PacketAt(r) = p /\ p.units \in Nat
           /\ \A c \in Nat : p.units <= c => ReadStatus(r, c) = "OK"
           /\ LET s == [r EXCEPT !.read = AfterPacket(r.read, p)]
              IN  RingSound(s) /\ Empty(s)
<1>1. PICK ps, pos : Spells(r, 0, 1, ps, pos) /\ ps[1] = p
  BY DEF Spelled
<1>2. PICK lo \in Nat, hi \in Nat : lo = 0 /\ hi = 1 /\ lo < hi /\ hi = lo + 1
  OBVIOUS
<1> DEFINE s == [r EXCEPT !.read = AfterPacket(r.read, p)]
<1>3. /\ PacketAt(r) = p /\ p.units \in Nat
      /\ \A c \in Nat : p.units <= c => ReadStatus(r, c) = "OK"
      /\ RingSound(s) /\ \E pos2 : Spells(s, hi, hi, ps, pos2)
  <2>1. Spells(r, lo, hi, ps, pos) /\ ps[lo + 1] = p
    BY <1>1, <1>2
  <2>0. lo < hi
    BY <1>2
  <2>2. /\ PacketAt(r) = ps[lo + 1] /\ ps[lo + 1].units \in Nat
        /\ \A c \in Nat : ps[lo + 1].units <= c => ReadStatus(r, c) = "OK"
    BY <2>0, <2>1, ReadSpells
  <2>3. LET z == [r EXCEPT !.read = AfterPacket(r.read, ps[lo + 1])]
        IN  RingSound(z) /\ \E pos2 : Spells(z, lo + 1, hi, ps, pos2)
    BY <2>0, <2>1, ReadSpells
  <2>4. QED
    BY <1>2, <2>1, <2>2, <2>3
<1> HIDE DEF s
<1>4. Empty(s)
  BY <1>2, <1>3, NothingToRead DEF Empty
<1>5. QED
  BY <1>3, <1>4 DEF s

LEMMA CurrentIs ==
    ASSUME BootInv, AtDevice, boot.pc # "device"
    PROVE  \E e \in DeviceSet : e = Device /\ ChannelAgreed(e) /\ Underway(e) /\ Begun(e)
<1>1. Device \in DeviceSet /\ ChannelAgreed(Device) /\ Underway(Device) /\ boot.index \in 1 .. 2
  BY DevicePhase
<1>2. Order(Device) = boot.index
  BY <1>1, CurrentDevice
<1>3. Begun(Device)
  BY <1>2 DEF Begun, AtDevice
<1>4. QED
  BY <1>1, <1>3

LEMMA AwaitGpadlKeeps ==
    ASSUME BootInv, AwaitGpadl, person' = person
    PROVE  BootInv'
<1>1. boot.pc = "await gpadl"
  BY DEF AwaitGpadl
<1>2. AtDevice /\ boot.pc # "device"
  BY <1>1 DEF AtDevice, DevicePcs
<1>3. CASE /\ IsAnswer("gpadl created") /\ Consumed /\ Goto("open") /\ channel' = channel
           /\ bus' = bus /\ ready' = ready /\ host' = host /\ faults' = faults
  <2>1. /\ BootSound /\ BusSound /\ HostSound /\ ChannelsSound /\ ready \in [DeviceSet -> BOOLEAN]
        /\ faults \in 0 .. Faults /\ MessagesOK /\ bus.state = "connected"
    BY <1>2, BootParts, DevicePhase
  <2>2. PICK e \in DeviceSet : e = Device /\ ChannelAgreed(e) /\ Underway(e) /\ Begun(e)
    BY <1>2, CurrentIs
  <2>3. "open" \in DevicePcs \ {"device"}
    BY DEF DevicePcs
  <2>4. /\ BootSound' /\ boot'.pc = "open"
        /\ \A d \in DeviceSet : /\ Begun(d) => Begun(d)'
                                /\ Underway(d)' => d = e
                                /\ d = e => Begun(d)' /\ Underway(d)'
    BY <1>2, <1>3, <2>1, <2>2, <2>3, GoDevice
  <2>5. KeepsBegun
    BY <1>3, <2>4 DEF KeepsBegun
  <2>6. HostSound' /\ MessagesOK' /\ OffersAreLast' /\ (VersionSettled => VersionSettled')
    BY <1>3, <2>5, ConsumedTraffic DEF Consumed
  <2>7. host.gpadl[e] = channel[e].id
    <3>1. slot.type = "gpadl created" /\ slot.device = e /\ slot.ok
      BY <1>3, <2>2 DEF IsAnswer
    <3>2. slot # NoMessage
      <4>1. NoMessage.type = "none"
        BY DEF NoMessage
      <4>2. QED
        BY <3>1, <4>1
    <3>3. AnswerOK(slot, Ids, BegunDevices, host.gpadl, host.opened)
      BY <2>1, <3>2 DEF MessagesOK, Messages
    <3>4. Ids[e] = channel[e].id
      BY DEF Ids
    <3>5. QED
      BY <3>1, <3>3, <3>4 DEF AnswerOK
  <2>8. /\ ~channel[e].open /\ ~host.approved[e] /\ Empty(channel[e].out) /\ Empty(channel[e].in)
        /\ e \in bus.offers /\ ~ready[e]
    BY <1>1, <2>2 DEF ChannelAgreed
  <2>9. ChannelAgreed(e)'
    BY <1>3, <2>1, <2>4, <2>7, <2>8 DEF ChannelAgreed, Empty
  <2>10. \A d \in DeviceSet : ChannelAgreed(d)'
    BY <1>3, <2>4, <2>9, OthersRest
  <2>11. boot'.pc \in DevicePcs \cup {"done"} /\ BusSound' /\ ChannelsSound'
    BY <1>3, <2>1, <2>3, <2>4 DEF BusSound, ChannelsSound
  <2>12. QED
    BY <1>2, <1>3, <2>1, <2>4, <2>6, <2>10, <2>11, DeviceStep
<1>4. QED
  BY <1>2, <1>3, WaitKeeps DEF AwaitGpadl, AwaitAnswer

LEMMA OpenKeeps ==
    ASSUME BootInv, OpenChannel, person' = person
    PROVE  BootInv'
<1>1. /\ boot.pc = "open" /\ bus' = bus /\ channel' = channel /\ ready' = ready /\ slot' = slot
  BY DEF OpenChannel
<1>2. AtDevice /\ boot.pc # "device"
  BY <1>1 DEF AtDevice, DevicePcs
<1>3. /\ BootSound /\ BusSound /\ HostSound /\ ChannelsSound /\ ready \in [DeviceSet -> BOOLEAN]
      /\ faults \in 0 .. Faults /\ bus.state = "connected"
  BY <1>2, BootParts, DevicePhase
<1>4. CASE Fault /\ NextDevice /\ host' = host
  BY <1>1, <1>2, <1>3, <1>4, NextKeeps, FaultFacts
<1>5. PICK e \in DeviceSet : e = Device /\ ChannelAgreed(e) /\ Underway(e) /\ Begun(e)
  BY <1>2, CurrentIs
<1> DEFINE m == [type |-> "open", device |-> e, id |-> channel[e].id]
<1>6. CASE post_message(m) /\ Goto("await open")
  <2>1. "await open" \in DevicePcs \ {"device"}
    BY DEF DevicePcs
  <2>2. /\ BootSound' /\ boot'.pc = "await open"
        /\ \A d \in DeviceSet : /\ Begun(d) => Begun(d)'
                                /\ Underway(d)' => d = e
                                /\ d = e => Begun(d)' /\ Underway(d)'
    BY <1>2, <1>3, <1>5, <1>6, <2>1, GoDevice
  <2>3. KeepsBegun
    BY <1>1, <2>2 DEF KeepsBegun
  <2>4. m.type = "open" /\ m.device = e /\ m.id = channel[e].id
    OBVIOUS
  <2> HIDE DEF m
  <2>5. /\ host'.gpadl = host.gpadl /\ host'.opened = host.opened
        /\ host'.approved = host.approved /\ faults' = faults /\ host'.version = host.version
    BY <1>3, <1>6, PostFacts
  <2>6. HostSound' /\ MessagesOK' /\ OffersAreLast' /\ (VersionSettled => VersionSettled')
    <3> DEFINE i2 == Ids'
               b2 == BegunDevices'
    <3>1. i2[e] = channel[e].id /\ e \in b2
      BY <1>1, <2>2 DEF Ids, BegunDevices
    <3>2. RequestOK(m, i2, b2)
      <4> HIDE DEF i2, b2
      <4>1. QED
        BY <2>4, <3>1 DEF RequestOK
    <3>3. ~AboutVersion(m)
      BY <2>4 DEF AboutVersion
    <3>4. QED
      BY <1>1, <1>6, <2>3, <3>2, <3>3, PostedTraffic
  <2>7. /\ ~channel[e].open /\ ~host.approved[e] /\ Empty(channel[e].out) /\ Empty(channel[e].in)
        /\ e \in bus.offers /\ ~ready[e] /\ host.gpadl[e] = channel[e].id
    BY <1>1, <1>5 DEF ChannelAgreed
  <2>8. ChannelAgreed(e)'
    BY <1>1, <1>3, <2>2, <2>5, <2>7 DEF ChannelAgreed, Empty
  <2>9. \A d \in DeviceSet : ChannelAgreed(d)'
    BY <1>1, <2>2, <2>5, <2>8, OthersRest
  <2>10. boot'.pc \in DevicePcs \cup {"done"} /\ BusSound' /\ ChannelsSound'
    BY <1>1, <1>3, <2>1, <2>2 DEF BusSound, ChannelsSound
  <2>11. QED
    BY <1>1, <1>2, <1>3, <2>2, <2>5, <2>6, <2>9, <2>10, DeviceStep
<1>7. QED
  <2>1. OpenChannel => \/ post_message(m) /\ Goto("await open")
                       \/ Fault /\ NextDevice /\ host' = host
    BY <1>5 DEF OpenChannel
  <2>2. QED
    BY <2>1, <1>4, <1>6

LEMMA RingsGrow ==
    ASSUME NEW S, NEW T, NEW r \in Rings(S)
    PROVE  r \in Rings(S \cup T) /\ r \in Rings(T \cup S)
  BY DEF Rings

LEMMA WithOpen ==
    ASSUME NEW c, ChannelSound(c), NEW o \in BOOLEAN, NEW c2, c2 = [c EXCEPT !.open = o]
    PROVE  ChannelSound(c2) /\ c2.open = o /\ c2.id = c.id /\ c2.out = c.out /\ c2.in = c.in
<1>1. PICK units : c \in Channels(units)
  BY DEF ChannelSound
<1>2. c2 \in Channels(units) /\ c2.open = o /\ c2.id = c.id /\ c2.out = c.out /\ c2.in = c.in
  BY <1>1 DEF Channels
<1>3. QED
  BY <1>2 DEF ChannelSound

NewRings(c, c2, r, s) == c2 = [c EXCEPT !.out = r, !.in = s]

LEMMA WithRings ==
    ASSUME NEW c, ChannelSound(c), NEW r, RingSound(r), NEW s, RingSound(s),
           NEW c2, NewRings(c, c2, r, s)
    PROVE  ChannelSound(c2) /\ c2.open = c.open /\ c2.id = c.id /\ c2.out = r /\ c2.in = s
<1>1. PICK A : c \in Channels(A)
  BY DEF ChannelSound
<1>2. PICK B : r \in Rings(B)
  BY DEF RingSound
<1>3. PICK C : s \in Rings(C)
  BY DEF RingSound
<1>4. r \in Rings(B \cup C) /\ s \in Rings(B \cup C)
  BY <1>2, <1>3, RingsGrow
<1>5. c2 \in Channels(B \cup C) /\ c2.open = c.open /\ c2.id = c.id /\ c2.out = r /\ c2.in = s
  BY <1>1, <1>4 DEF Channels, NewRings
<1>6. QED
  BY <1>5 DEF ChannelSound

LEMMA WithOut ==
    ASSUME NEW c, ChannelSound(c), NEW r, RingSound(r), NEW c2, c2 = [c EXCEPT !.out = r]
    PROVE  ChannelSound(c2) /\ c2.open = c.open /\ c2.id = c.id /\ c2.out = r /\ c2.in = c.in
<1>1. PICK A : c \in Channels(A)
  BY DEF ChannelSound
<1>2. PICK B : r \in Rings(B)
  BY DEF RingSound
<1>3. c.in \in Rings(A)
  BY <1>1 DEF Channels
<1>4. r \in Rings(A \cup B) /\ c.in \in Rings(A \cup B)
  BY <1>2, <1>3, RingsGrow
<1>5. c2 \in Channels(A \cup B) /\ c2.open = c.open /\ c2.id = c.id /\ c2.out = r /\ c2.in = c.in
  BY <1>1, <1>4 DEF Channels
<1>6. QED
  BY <1>5 DEF ChannelSound

LEMMA WithIn ==
    ASSUME NEW c, ChannelSound(c), NEW r, RingSound(r), NEW c2, c2 = [c EXCEPT !.in = r]
    PROVE  ChannelSound(c2) /\ c2.open = c.open /\ c2.id = c.id /\ c2.in = r /\ c2.out = c.out
<1>1. PICK A : c \in Channels(A)
  BY DEF ChannelSound
<1>2. PICK B : r \in Rings(B)
  BY DEF RingSound
<1>3. c.out \in Rings(A)
  BY <1>1 DEF Channels
<1>4. r \in Rings(A \cup B) /\ c.out \in Rings(A \cup B)
  BY <1>2, <1>3, RingsGrow
<1>5. c2 \in Channels(A \cup B) /\ c2.open = c.open /\ c2.id = c.id /\ c2.in = r /\ c2.out = c.out
  BY <1>1, <1>4 DEF Channels
<1>6. QED
  BY <1>5 DEF ChannelSound

LEMMA AwaitOpenKeeps ==
    ASSUME BootInv, AwaitOpen, person' = person
    PROVE  BootInv'
<1>1. boot.pc = "await open"
  BY DEF AwaitOpen
<1>2. AtDevice /\ boot.pc # "device"
  BY <1>1 DEF AtDevice, DevicePcs
<1>3. CASE /\ IsAnswer("open result") /\ Consumed /\ Goto("greet")
           /\ channel' = [channel EXCEPT ![Device].open = TRUE]
           /\ bus' = bus /\ ready' = ready /\ host' = host /\ faults' = faults
  <2>1. /\ BootSound /\ BusSound /\ HostSound /\ ChannelsSound /\ ready \in [DeviceSet -> BOOLEAN]
        /\ faults \in 0 .. Faults /\ MessagesOK /\ bus.state = "connected"
    BY <1>2, BootParts, DevicePhase
  <2>2. PICK e \in DeviceSet : e = Device /\ ChannelAgreed(e) /\ Underway(e) /\ Begun(e)
    BY <1>2, CurrentIs
  <2>3. "greet" \in DevicePcs \ {"device"}
    BY DEF DevicePcs
  <2>4. /\ BootSound' /\ boot'.pc = "greet"
        /\ \A d \in DeviceSet : /\ Begun(d) => Begun(d)'
                                /\ Underway(d)' => d = e
                                /\ d = e => Begun(d)' /\ Underway(d)'
    BY <1>2, <1>3, <2>1, <2>2, <2>3, GoDevice
  <2> DEFINE c == [channel[e] EXCEPT !.open = TRUE]
  <2>5. channel' = [channel EXCEPT ![e] = c]
    BY <1>3, <2>1, <2>2 DEF ChannelsSound
  <2>6. ChannelSound(channel[e])
    BY <2>1 DEF ChannelsSound
  <2> DEFINE old == channel[e]
  <2>d. c = [old EXCEPT !.open = TRUE] /\ ChannelSound(old)
    BY <2>6
  <2> HIDE DEF c, old
  <2>7. ChannelSound(c) /\ c.open = TRUE /\ c.id = old.id /\ c.out = old.out /\ c.in = old.in
    BY <2>d, WithOpen
  <2> USE DEF old
  <2>8. /\ ChannelsSound' /\ channel'[e] = c
        /\ \A d \in DeviceSet : d # e => channel'[d] = channel[d]
    BY <2>1, <2>5, <2>7, ChannelSet
  <2>9. KeepsBegun
    BY <1>3, <2>4, <2>7, <2>8 DEF KeepsBegun
  <2>10. HostSound' /\ MessagesOK' /\ OffersAreLast' /\ (VersionSettled => VersionSettled')
    BY <1>3, <2>9, ConsumedTraffic DEF Consumed
  <2>11. host.opened[e] = channel[e].id
    <3>1. slot.type = "open result" /\ slot.device = e /\ slot.ok
      BY <1>3, <2>2 DEF IsAnswer
    <3>2. slot # NoMessage
      <4>1. NoMessage.type = "none"
        BY DEF NoMessage
      <4>2. QED
        BY <3>1, <4>1
    <3>3. AnswerOK(slot, Ids, BegunDevices, host.gpadl, host.opened)
      BY <2>1, <3>2 DEF MessagesOK, Messages
    <3>4. Ids[e] = channel[e].id
      BY DEF Ids
    <3>5. QED
      BY <3>1, <3>3, <3>4 DEF AnswerOK
  <2>12. /\ ~host.approved[e] /\ Empty(channel[e].out) /\ Empty(channel[e].in)
         /\ e \in bus.offers /\ ~ready[e] /\ host.gpadl[e] = channel[e].id
    BY <1>1, <2>2 DEF ChannelAgreed
  <2>13. Finished(e)'
    BY <1>3, <2>7, <2>8, <2>12 DEF Finished, Empty
  <2>14. ChannelAgreed(e)'
    BY <1>3, <2>1, <2>4, <2>7, <2>8, <2>11, <2>12, <2>13 DEF ChannelAgreed, Empty
  <2>15. \A d \in DeviceSet : ChannelAgreed(d)'
    BY <1>3, <2>4, <2>8, <2>14, OthersRest
  <2>16. boot'.pc \in DevicePcs \cup {"done"} /\ BusSound'
    BY <1>3, <2>1, <2>3, <2>4 DEF BusSound
  <2>17. QED
    BY <1>2, <1>3, <2>1, <2>4, <2>8, <2>10, <2>15, <2>16, DeviceStep
<1>4. QED
  BY <1>2, <1>3, WaitKeeps DEF AwaitOpen, AwaitAnswer

LEMMA GreetKeeps ==
    ASSUME BootInv, Greet, person' = person
    PROVE  BootInv'
<1>1. boot.pc = "greet" /\ bus' = bus /\ ready' = ready /\ slot' = slot /\ host' = host
  BY DEF Greet
<1>2. AtDevice /\ boot.pc # "device"
  BY <1>1 DEF AtDevice, DevicePcs
<1>3. /\ BootSound /\ BusSound /\ HostSound /\ ChannelsSound /\ ready \in [DeviceSet -> BOOLEAN]
      /\ faults \in 0 .. Faults /\ bus.state = "connected"
  BY <1>2, BootParts, DevicePhase
<1>4. PICK e \in DeviceSet : e = Device /\ ChannelAgreed(e) /\ Underway(e) /\ Begun(e)
  BY <1>2, CurrentIs
<1>5. /\ channel[e].open /\ Empty(channel[e].out) /\ Empty(channel[e].in) /\ ~host.approved[e]
      /\ ~ready[e] /\ e \in bus.offers
      /\ host.opened[e] = channel[e].id /\ host.gpadl[e] = channel[e].id
  BY <1>1, <1>4 DEF ChannelAgreed
<1> DEFINE old == channel[e]
           r == hyperv_ring_write(old.out, Greeting[e])
           c == [old EXCEPT !.out = r]
<1>6. channel' = [channel EXCEPT ![e] = c]
  <2>1. channel' = [channel EXCEPT ![e].out = hyperv_ring_write(@, Greeting[e])]
    BY <1>4 DEF Greet
  <2>2. QED
    BY <1>3, <2>1 DEF ChannelsSound
<1>7. RingSound(r) /\ Spelled(r, Greeting[e])
  <2>1. RingSound(old.out) /\ Empty(old.out)
    BY <1>3, <1>5, ChannelFields DEF ChannelsSound
  <2>2. Greeting[e].units \in Nat /\ PacketUnits(Greeting[e]) < RingUnits
    BY InputAssumption, DeviceNames
  <2>3. QED
    BY <2>1, <2>2, FirstPacket
<1>8. ChannelSound(old)
  BY <1>3 DEF ChannelsSound
<1> HIDE DEF r
<1>9. c = [old EXCEPT !.out = r]
  OBVIOUS
<1> HIDE DEF c, old
<1>10. ChannelSound(c) /\ c.open = old.open /\ c.id = old.id /\ c.out = r /\ c.in = old.in
  BY <1>7, <1>8, <1>9, WithOut
<1> USE DEF old
<1>11. /\ ChannelsSound' /\ channel'[e] = c
       /\ \A d \in DeviceSet : d # e => channel'[d] = channel[d]
  BY <1>3, <1>6, <1>10, ChannelSet
<1>12. Unanswered(e)'
  <2>1. Spelled(channel'[e].out, Greeting[e])
    BY <1>7, <1>10, <1>11
  <2>2. Empty(channel'[e].in) /\ ~host'.approved[e] /\ ~ready'[e]
    BY <1>1, <1>5, <1>10, <1>11
  <2>3. QED
    BY <2>1, <2>2 DEF Unanswered, Empty, Spelled
<1>13. /\ BootSound' /\ boot'.pc \in DevicePcs \cup {"done"} /\ faults' \in 0 .. Faults
       /\ \A d \in DeviceSet : /\ Begun(d) => Begun(d)'
                               /\ Underway(d)' => d = e /\ boot'.pc = "await reply"
                               /\ d = e => Begun(d)'
  <2>1. CASE Goto("await reply") /\ UNCHANGED faults
    <3>1. "await reply" \in DevicePcs \ {"device"}
      BY DEF DevicePcs
    <3>2. QED
      BY <1>2, <1>3, <1>4, <2>1, <3>1, GoDevice
  <2>2. CASE Fault /\ NextDevice
    <3>1. faults' \in 0 .. Faults
      BY <1>3, <2>2, FaultFacts
    <3>2. /\ BootSound' /\ boot'.pc \in {"device", "done"}
          /\ \A d \in DeviceSet : (Begun(d) => Begun(d)') /\ ~Underway(d)' /\ (d = e => Begun(d)')
      BY <1>2, <1>3, <1>4, <2>2, NextDeviceFacts
    <3>3. QED
      BY <3>1, <3>2 DEF DevicePcs
  <2>3. QED
    BY <2>1, <2>2 DEF Greet
<1>14. KeepsBegun
  BY <1>10, <1>11, <1>13 DEF KeepsBegun
<1>15. HostSound' /\ MessagesOK' /\ OffersAreLast' /\ (VersionSettled => VersionSettled')
  BY <1>1, <1>14, StillTraffic
<1>16. ChannelAgreed(e)'
  BY <1>1, <1>3, <1>5, <1>10, <1>11, <1>12, <1>13 DEF ChannelAgreed
<1>17. \A d \in DeviceSet : ChannelAgreed(d)'
  BY <1>1, <1>11, <1>13, <1>16, OthersRest
<1>18. BusSound'
  BY <1>1, <1>3 DEF BusSound
<1>19. QED
  BY <1>1, <1>2, <1>3, <1>11, <1>13, <1>15, <1>17, <1>18, DeviceStep

LEMMA ReplyPacket ==
    ASSUME NEW e \in DeviceSet, NEW ok \in BOOLEAN
    PROVE  LET p == [Reply[e] EXCEPT !.ok = ok]
           IN  /\ p.kind = "reply" /\ p.ok = ok /\ p.units = Reply[e].units /\ p.units \in Nat
               /\ PacketUnits(p) < RingUnits
<1> DEFINE p == [Reply[e] EXCEPT !.ok = ok]
<1>1. /\ Reply[e] \in [kind : {"reply"}, units : Nat, n : {0}, ok : BOOLEAN]
      /\ PacketUnits(Reply[e]) < RingUnits
  BY InputAssumption, DeviceNames
<1>2. p.kind = "reply" /\ p.ok = ok /\ p.units = Reply[e].units /\ p.units \in Nat
  BY <1>1
<1> HIDE DEF p
<1>3. PacketUnits(p) < RingUnits
  BY <1>1, <1>2 DEF PacketUnits
<1>4. QED
  BY <1>2, <1>3 DEF p

LEMMA EmptyRead ==
    ASSUME NEW r, RingSound(r), Empty(r), NEW c
    PROVE  ReadStatus(r, c) = "WOULD_BLOCK"
<1>1. ring_used(r) = 0
  BY RingFields DEF Empty, ring_used
<1>2. QED
  BY <1>1 DEF ReadStatus

LEMMA AwaitReplyKeeps ==
    ASSUME BootInv, AwaitReply, person' = person
    PROVE  BootInv'
<1>1. boot.pc = "await reply" /\ bus' = bus /\ slot' = slot /\ host' = host /\ NextDevice
  BY DEF AwaitReply
<1>2. AtDevice /\ boot.pc # "device"
  BY <1>1 DEF AtDevice, DevicePcs
<1>3. /\ BootSound /\ BusSound /\ HostSound /\ ChannelsSound /\ ready \in [DeviceSet -> BOOLEAN]
      /\ faults \in 0 .. Faults /\ bus.state = "connected"
  BY <1>2, BootParts, DevicePhase
<1>4. PICK e \in DeviceSet : e = Device /\ ChannelAgreed(e) /\ Underway(e) /\ Begun(e)
  BY <1>2, CurrentIs
<1>5. /\ channel[e].open /\ ~ready[e] /\ e \in bus.offers
      /\ host.opened[e] = channel[e].id /\ host.gpadl[e] = channel[e].id
      /\ Unanswered(e) \/ Answered(e)
  BY <1>1, <1>4 DEF ChannelAgreed
<1> DEFINE old == channel[e]
           in == old.in
           status == ReadStatus(in, Reply[e].units)
           at == PacketAt(in)
<1>6. /\ ChannelSound(old) /\ RingSound(in)
  BY <1>3, ChannelFields DEF ChannelsSound
<1>7. /\ status = "OK" =>
            /\ channel' = [channel EXCEPT ![e].in.read = AfterPacket(in.read, at)]
            /\ ready' = [ready EXCEPT ![e] = at.kind = "reply" /\ at.ok]
            /\ faults' = faults
      /\ status # "OK" =>
            /\ status = "WOULD_BLOCK" => Fault
            /\ status # "WOULD_BLOCK" => faults' = faults
            /\ channel' = channel /\ ready' = ready
  BY <1>4 DEF AwaitReply
<1>8. CASE status # "OK"
  <2>1. faults' \in 0 .. Faults
    BY <1>3, <1>7, <1>8, FaultFacts
  <2>2. QED
    BY <1>1, <1>2, <1>7, <1>8, <2>1, NextKeeps
<1>9. CASE status = "OK"
  <2>1. Answered(e)
    <3>1. Unanswered(e) => status = "WOULD_BLOCK"
      BY <1>6, EmptyRead DEF Unanswered
    <3>2. QED
      BY <1>5, <1>9, <3>1
  <2> DEFINE p == [Reply[e] EXCEPT !.ok = host.approved[e]]
             s == [in EXCEPT !.read = AfterPacket(in.read, p)]
             c == [old EXCEPT !.in = s]
  <2>2. Spelled(in, p) /\ Empty(old.out)
    BY <2>1 DEF Answered
  <2>3. host.approved[e] \in BOOLEAN
    BY <1>3, HostFields
  <2>4. p.kind = "reply" /\ p.ok = host.approved[e]
    BY <2>3, ReplyPacket
  <2>5. at = p /\ RingSound(s) /\ Empty(s)
    <3> HIDE DEF p, in
    <3>1. QED
      BY <1>6, <2>2, OnlyPacket
  <2>6. channel' = [channel EXCEPT ![e] = c]
    <3>1. channel' = [channel EXCEPT ![e].in.read = AfterPacket(in.read, p)]
      BY <1>7, <1>9, <2>5
    <3> HIDE DEF p
    <3>2. QED
      BY <1>3, <3>1 DEF ChannelsSound
  <2>7. ready' = [ready EXCEPT ![e] = host.approved[e]]
    <3> HIDE DEF p, in
    <3>1. (at.kind = "reply" /\ at.ok) = host.approved[e]
      BY <2>3, <2>4, <2>5
    <3>2. ready' = [ready EXCEPT ![e] = at.kind = "reply" /\ at.ok]
      BY <1>7, <1>9
    <3>3. QED
      BY <3>1, <3>2
  <2>8. ready' \in [DeviceSet -> BOOLEAN] /\ (ready'[e] <=> host.approved[e])
        /\ \A d \in DeviceSet : d # e => ready'[d] = ready[d]
    BY <1>3, <2>3, <2>7
  <2> HIDE DEF s, p, in
  <2>9. c = [old EXCEPT !.in = s]
    OBVIOUS
  <2> HIDE DEF c, old
  <2>10. ChannelSound(c) /\ c.open = old.open /\ c.id = old.id /\ c.in = s /\ c.out = old.out
    BY <1>6, <2>5, <2>9, WithIn
  <2> USE DEF old
  <2>11. /\ ChannelsSound' /\ channel'[e] = c
         /\ \A d \in DeviceSet : d # e => channel'[d] = channel[d]
    BY <1>3, <2>6, <2>10, ChannelSet
  <2>12. /\ BootSound' /\ boot'.pc \in {"device", "done"}
         /\ \A d \in DeviceSet : (Begun(d) => Begun(d)') /\ ~Underway(d)' /\ (d = e => Begun(d)')
    BY <1>1, <1>2, <1>3, <1>4, NextDeviceFacts
  <2>13. KeepsBegun
    BY <2>10, <2>11, <2>12 DEF KeepsBegun
  <2>14. HostSound' /\ MessagesOK' /\ OffersAreLast' /\ (VersionSettled => VersionSettled')
    BY <1>1, <2>13, StillTraffic
  <2>15. Finished(e)'
    <3>1. Empty(channel'[e].out) /\ Empty(channel'[e].in)
      BY <2>2, <2>5, <2>10, <2>11
    <3>2. ready'[e] => host'.approved[e]
      BY <1>1, <2>8
    <3>3. QED
      BY <3>1, <3>2 DEF Finished, Empty
  <2>16. ChannelAgreed(e)'
    <3>1. channel'[e].open /\ channel'[e].id = channel[e].id /\ (ready'[e] => host'.approved[e])
      BY <1>1, <1>5, <2>8, <2>10, <2>11
    <3>2. QED
      BY <1>1, <1>3, <1>5, <2>12, <2>15, <3>1 DEF ChannelAgreed
  <2>17. \A d \in DeviceSet : ChannelAgreed(d)'
    BY <1>1, <2>8, <2>11, <2>12, <2>16, OthersRest
  <2>18. BusSound' /\ boot'.pc \in DevicePcs \cup {"done"} /\ faults' \in 0 .. Faults
    BY <1>1, <1>3, <1>7, <1>9, <2>12 DEF BusSound, DevicePcs
  <2>19. QED
    BY <1>1, <1>2, <1>3, <2>8, <2>11, <2>12, <2>14, <2>17, <2>18, DeviceStep
<1>10. QED
  BY <1>8, <1>9

-----------------------------------------------------------------------------
(* Boot: what the host does.                                               *)

(* What is left to show of a step of the host.                              *)
LEMMA HostStep ==
    ASSUME BootInv, bus' = bus, ready' = ready, boot' = boot, HostSound', ChannelsSound',
           faults' \in 0 .. Faults, MessagesOK', OffersAreLast',
           VersionSettled' => VersionSettled /\ host'.version = host.version,
           VersionSettled => VersionSettled' /\ host'.version = host.version,
           OnlyVersions(host.inbox, host.outbox, slot) /\ bus.state = "connecting" =>
              OnlyVersions(host'.inbox, host'.outbox, slot'),
           OnlyVersions(host.inbox, host.outbox, slot) /\ bus.state = "connecting" =>
              \A v : LastIsAbout(host.inbox, host.outbox, slot, host.version, v) =>
                     LastIsAbout(host'.inbox, host'.outbox, slot', host'.version, v),
           \A d \in DeviceSet : ChannelAgreed(d)'
    PROVE  BootInv'
<1>1. /\ BootSound /\ BusSound /\ ready \in [DeviceSet -> BOOLEAN] /\ VersionAgreed /\ Negotiating
  BY BootParts
<1>2. BootSound' /\ BusSound' /\ ready' \in [DeviceSet -> BOOLEAN]
  BY <1>1 DEF BootSound, BusSound, VersionPcs, OfferPcs, DevicePcs
<1>3. Negotiating'
  BY <1>1 DEF Negotiating, VersionPcs
<1>4. VersionAgreed'
  BY <1>1 DEF VersionAgreed, VersionPcs, OfferPcs
<1>5. BusTypes'
  BY <1>2 DEF BusTypes
<1>6. QED
  BY <1>3, <1>4, <1>5 DEF BootInv

Granted ==
    \A d \in DeviceSet : /\ host'.gpadl[d] \in {host.gpadl[d], channel[d].id}
                         /\ host'.opened[d] \in {host.opened[d], channel[d].id}

(* An answer leaves the channels alone, whatever it grants.                 *)
LEMMA HostRests ==
    ASSUME BootInv, bus' = bus, ready' = ready, boot' = boot, channel' = channel,
           person' = person, host'.approved = host.approved, Granted
    PROVE  /\ ChannelsSound' /\ \A d \in DeviceSet : ChannelAgreed(d)'
           /\ \A in, out, sl : Messages(in, out, sl, Ids, BegunDevices, host.gpadl, host.opened) =>
                 Messages(in, out, sl, Ids', BegunDevices', host'.gpadl, host'.opened)
<1>1. \A d \in DeviceSet : (Begun(d)' <=> Begun(d)) /\ (Underway(d)' <=> Underway(d))
  BY DEF Begun, Underway, DevicePcs, Order
<1>2. ASSUME NEW d \in DeviceSet PROVE ChannelAgreed(d)'
  <2>1. ChannelAgreed(d)
    BY BootParts
  <2>2. Rests(d)
    BY <1>1 DEF Rests, Granted
  <2>3. QED
    BY <2>1, <2>2, ChannelRests
<1>3. ChannelsSound'
  BY BootParts DEF ChannelsSound
<1>4. \A d \in DeviceSet : Begun(d) =>
         /\ Begun(d)' /\ channel'[d].id = channel[d].id
         /\ host'.gpadl[d] \in {host.gpadl[d], channel[d].id}
         /\ host'.opened[d] \in {host.opened[d], channel[d].id}
  BY <1>1 DEF Granted
<1>5. QED
  BY <1>2, <1>3, <1>4, MessagesMove

LEMMA HostRecord ==
    ASSUME HostSound, NEW v \in Nat, NEW in, IsSeq(in), NEW out, IsSeq(out),
           NEW g \in [DeviceSet -> Nat], NEW o \in [DeviceSet -> Nat],
           NEW a \in [DeviceSet -> BOOLEAN], NEW news \in Int,
           host' = [version |-> v, inbox |-> in, outbox |-> out, offered |-> host.offered,
                    news |-> news, gpadl |-> g, opened |-> o, approved |-> a]
    PROVE  /\ HostSound' /\ host'.version = v /\ host'.inbox = in /\ host'.outbox = out
           /\ host'.gpadl = g /\ host'.opened = o /\ host'.approved = a
<1>1. PICK old : host \in Hosts(old)
  BY DEF HostSound
<1>2. PICK S : in \in Seq(S)
  BY DEF IsSeq
<1>3. PICK T : out \in Seq(T)
  BY DEF IsSeq
<1> DEFINE U == S \cup T
<1>4. in \in Seq(U) /\ out \in Seq(U)
  BY <1>2, <1>3
<1>5. host.offered \in SUBSET {"keyboard", "mouse"}
  BY <1>1 DEF Hosts
<1> HIDE DEF U
<1>6. host' \in Hosts(U)
  BY <1>4, <1>5, DeviceNames DEF Hosts
<1>7. QED
  BY <1>6 DEF HostSound

LEMMA HostTypes ==
    ASSUME HostSound
    PROVE  /\ host = [version |-> host.version, inbox |-> host.inbox, outbox |-> host.outbox,
                      offered |-> host.offered, news |-> host.news, gpadl |-> host.gpadl,
                      opened |-> host.opened, approved |-> host.approved]
           /\ host.news \in Int /\ host.offered \subseteq {"keyboard", "mouse"}
<1>1. PICK old : host \in Hosts(old)
  BY DEF HostSound
<1>2. QED
  BY <1>1 DEF Hosts

LEMMA HostDeliversKeeps ==
    ASSUME BootInv, HostDelivers, person' = person
    PROVE  BootInv'
<1>1. /\ slot = NoMessage /\ host.outbox # <<>> /\ slot' = Head(host.outbox)
      /\ host' = [host EXCEPT !.outbox = Tail(host.outbox)]
      /\ bus' = bus /\ channel' = channel /\ ready' = ready /\ boot' = boot /\ faults' = faults
  <2>1. HostSound
    BY BootParts
  <2>2. QED
    BY <2>1, HostTypes DEF HostDelivers
<1>2. /\ HostSound /\ faults \in 0 .. Faults /\ MessagesOK /\ OffersAreLast
      /\ IsSeq(host.inbox) /\ IsSeq(host.outbox)
  BY BootParts
<1> DEFINE rest == Tail(host.outbox)
<1>3. IsSeq(rest)
  BY <1>1, <1>2, TailFacts
<1>4. /\ HostSound' /\ host'.version = host.version /\ host'.inbox = host.inbox
      /\ host'.outbox = rest /\ host'.gpadl = host.gpadl /\ host'.opened = host.opened
      /\ host'.approved = host.approved
  <2> HIDE DEF rest
  <2>1. host' = [version |-> host.version, inbox |-> host.inbox, outbox |-> rest,
                 offered |-> host.offered, news |-> host.news, gpadl |-> host.gpadl,
                 opened |-> host.opened, approved |-> host.approved]
    BY <1>1, <1>2, HostTypes DEF rest
  <2>2. /\ host.version \in Nat /\ host.gpadl \in [DeviceSet -> Nat] /\ host.news \in Int
        /\ host.opened \in [DeviceSet -> Nat] /\ host.approved \in [DeviceSet -> BOOLEAN]
    BY <1>2, HostFields, HostTypes
  <2>3. QED
    BY <1>2, <1>3, <2>1, <2>2, HostRecord
<1>5. Granted
  BY <1>4 DEF Granted
<1>6. /\ ChannelsSound' /\ \A d \in DeviceSet : ChannelAgreed(d)'
      /\ Messages(host.inbox, host.outbox, slot, Ids', BegunDevices', host'.gpadl, host'.opened)
  BY <1>1, <1>2, <1>4, <1>5, HostRests DEF MessagesOK
<1> DEFINE i2 == Ids'
           b2 == BegunDevices'
           in == host.inbox
           out == host.outbox
           sl == Head(host.outbox)
           g == host'.gpadl
           o == host'.opened
<1>7. /\ IsSeq(out) /\ out # <<>> /\ Messages(in, out, NoMessage, i2, b2, g, o)
      /\ OffersLast(in, out, NoMessage)
  BY <1>1, <1>2, <1>6 DEF OffersAreLast
<1>8. /\ Messages(in, rest, sl, i2, b2, g, o) /\ OffersLast(in, rest, sl)
      /\ Settled(in, rest, sl) <=> Settled(in, out, NoMessage)
      /\ OnlyVersions(in, out, NoMessage) =>
            /\ OnlyVersions(in, rest, sl)
            /\ \A agreed, v : LastIsAbout(in, out, NoMessage, agreed, v) =>
                  LastIsAbout(in, rest, sl, agreed, v)
  <2> DEFINE all == out
  <2>1. rest = Tail(all) /\ sl = Head(all)
    OBVIOUS
  <2> HIDE DEF i2, b2, in, all, g, o
  <2>2. QED
    BY <1>7, DeliverTraffic
<1>9. MessagesOK'
  BY <1>1, <1>4, <1>8 DEF MessagesOK
<1>10. OffersAreLast' /\ (VersionSettled' <=> VersionSettled)
  BY <1>1, <1>4, <1>8 DEF OffersAreLast, VersionSettled
<1>11. QED
  BY <1>1, <1>2, <1>4, <1>6, <1>8, <1>9, <1>10, HostStep

LEMMA HostNewsKeeps ==
    ASSUME BootInv, HostNews, person' = person
    PROVE  BootInv'
<1>1. /\ bus.state = "connected" /\ slot' = slot
      /\ bus' = bus /\ channel' = channel /\ ready' = ready /\ boot' = boot /\ faults' = faults
  BY DEF HostNews
<1>2. /\ HostSound /\ faults \in 0 .. Faults /\ MessagesOK /\ OffersAreLast
      /\ IsSeq(host.inbox) /\ IsSeq(host.outbox)
  BY BootParts
<1>3. PICK m \in {[type |-> "offer", device |-> "other"], [type |-> "rescind"]} :
         host' = [host EXCEPT !.news = @ - 1, !.outbox = Append(@, m)]
  BY DEF HostNews
<1>4. m.type \in {"offer", "rescind"} /\ (m.type = "offer" => m.device = "other")
  OBVIOUS
<1> DEFINE out2 == Append(host.outbox, m)
           add == <<m>>
           n == host.news - 1
<1>5. out2 = host.outbox \o add /\ IsSeq(add) /\ IsSeq(out2) /\ Len(add) = 1 /\ add[1] = m
  <2>1. PICK S : host.outbox \in Seq(S)
    BY <1>2 DEF IsSeq
  <2>2. out2 = host.outbox \o add
    BY <2>1
  <2>3. add \in Seq({m}) /\ Len(add) = 1 /\ add[1] = m
    OBVIOUS
  <2>4. IsSeq(add) /\ IsSeq(out2)
    BY <1>2, <2>3, AppendFacts DEF IsSeq
  <2>5. QED
    BY <2>2, <2>3, <2>4
<1>6. /\ HostSound' /\ host'.version = host.version /\ host'.inbox = host.inbox
      /\ host'.outbox = out2 /\ host'.gpadl = host.gpadl /\ host'.opened = host.opened
      /\ host'.approved = host.approved
  <2>1. host' = [host EXCEPT !.news = host.news - 1, !.outbox = Append(host.outbox, m)]
    BY <1>2, <1>3, HostTypes
  <2>2. /\ host.version \in Nat /\ host.gpadl \in [DeviceSet -> Nat] /\ n \in Int
        /\ host.opened \in [DeviceSet -> Nat] /\ host.approved \in [DeviceSet -> BOOLEAN]
    BY <1>2, HostFields, HostTypes
  <2>3. host' = [host EXCEPT !.news = n, !.outbox = out2]
    BY <2>1
  <2> HIDE DEF n, out2
  <2>4. host' = [version |-> host.version, inbox |-> host.inbox, outbox |-> out2,
                 offered |-> host.offered, news |-> n, gpadl |-> host.gpadl,
                 opened |-> host.opened, approved |-> host.approved]
    BY <1>2, <2>3, HostTypes
  <2>5. QED
    BY <1>2, <1>5, <2>2, <2>4, HostRecord
<1> HIDE DEF out2, add
<1>7. Granted
  BY <1>6 DEF Granted
<1>8. /\ ChannelsSound' /\ \A d \in DeviceSet : ChannelAgreed(d)'
      /\ Messages(host.inbox, host.outbox, slot, Ids', BegunDevices', host'.gpadl, host'.opened)
  BY <1>1, <1>2, <1>6, <1>7, HostRests DEF MessagesOK
<1> DEFINE i2 == Ids'
           b2 == BegunDevices'
<1>9. Messages(host.inbox, out2, slot, i2, b2, host'.gpadl, host'.opened)
  <2>1. AnswerOK(m, i2, b2, host'.gpadl, host'.opened)
    <3> HIDE DEF i2, b2
    <3>1. QED
      BY <1>4 DEF AnswerOK
  <2>2. \A i \in 1 .. Len(add) : AnswerOK(add[i], i2, b2, host'.gpadl, host'.opened)
    BY <1>5, <2>1
  <2> DEFINE in == host.inbox
             out == host.outbox
             g == host'.gpadl
             o == host'.opened
  <2>3. Messages(in, out, slot, i2, b2, g, o) /\ IsSeq(out)
    BY <1>2, <1>8
  <2> HIDE DEF i2, b2, in, out, g, o
  <2>4. Messages(in, out \o add, slot, i2, b2, g, o)
    BY <1>5, <2>2, <2>3, AddedMessages DEF g, o
  <2>5. QED
    BY <1>5, <2>4 DEF in, out, g, o
<1>10. MessagesOK'
  BY <1>1, <1>6, <1>9 DEF MessagesOK
<1>11. OffersAreLast' /\ (VersionSettled' <=> VersionSettled)
  <2>1. NoVersion(add)
    BY <1>4, <1>5 DEF NoVersion, AboutVersion
  <2>2. \A i \in 1 .. Len(add) : ~IsDeviceOffer(add[i])
    BY <1>4, <1>5, DeviceNames DEF IsDeviceOffer
  <2>3. /\ OffersLast(host.inbox, host.outbox \o add, slot)
        /\ Settled(host.inbox, host.outbox \o add, slot) <=>
              Settled(host.inbox, host.outbox, slot)
    BY <1>2, <1>5, <2>1, <2>2, AddedTraffic DEF OffersAreLast
  <2>4. QED
    BY <1>1, <1>5, <1>6, <2>3 DEF OffersAreLast, VersionSettled
<1>12. QED
  BY <1>1, <1>2, <1>6, <1>8, <1>10, <1>11, HostStep

Updates(in, out, v, g, o) ==
    host' = [host EXCEPT !.inbox = in, !.outbox = out, !.version = v, !.gpadl = g, !.opened = o]

LEMMA AnsweringHost ==
    ASSUME HostSound, NEW v \in Nat, NEW in, IsSeq(in), NEW out, IsSeq(out),
           NEW g \in [DeviceSet -> Nat], NEW o \in [DeviceSet -> Nat],
           Updates(in, out, v, g, o)
    PROVE  /\ HostSound' /\ host'.version = v /\ host'.inbox = in /\ host'.outbox = out
           /\ host'.gpadl = g /\ host'.opened = o /\ host'.approved = host.approved
<1>1. host.news \in Int /\ host.approved \in [DeviceSet -> BOOLEAN]
  BY HostFields, HostTypes
<1> DEFINE news == host.news
           a == host.approved
<1>2. host' = [version |-> v, inbox |-> in, outbox |-> out, offered |-> host.offered,
               news |-> news, gpadl |-> g, opened |-> o, approved |-> a]
  BY HostTypes DEF Updates
<1>3. news \in Int /\ a \in [DeviceSet -> BOOLEAN]
  BY <1>1
<1> HIDE DEF news, a
<1>4. /\ HostSound' /\ host'.version = v /\ host'.inbox = in /\ host'.outbox = out
      /\ host'.gpadl = g /\ host'.opened = o /\ host'.approved = a
  BY <1>2, <1>3, HostRecord
<1>5. QED
  BY <1>4 DEF a

(* The host takes a request: what its answer has to be.                     *)
GrantedBy(g, o) ==
    \A d \in DeviceSet : /\ g[d] \in {host.gpadl[d], channel[d].id}
                         /\ o[d] \in {host.opened[d], channel[d].id}
AnswersOK(add, ids, begun, g, o) ==
    \A i \in 1 .. Len(add) : AnswerOK(add[i], ids, begun, g, o)
RightAnswer(m, add, v) ==
    /\ m.type = "contact" =>
          \E answer : /\ add = <<answer>> /\ answer.type = "version"
                      /\ answer.supported => v = m.version
    /\ m.type # "contact" => NoVersion(add) /\ v = host.version
    /\ m.type \notin {"contact", "request offers"} =>
          \A i \in 1 .. Len(add) : ~IsDeviceOffer(add[i])
Takes(m, add, v, g, o) ==
    /\ host.inbox # <<>> /\ m = Head(host.inbox)
    /\ Updates(Tail(host.inbox), host.outbox \o add, v, g, o)

LEMMA AnswerKeeps ==
    ASSUME BootInv, person' = person, slot' = slot,
           bus' = bus, channel' = channel, ready' = ready, boot' = boot, faults' \in 0 .. Faults,
           NEW m, NEW add, IsSeq(add), NEW v \in Nat, NEW g \in [DeviceSet -> Nat],
           NEW o \in [DeviceSet -> Nat], Takes(m, add, v, g, o), GrantedBy(g, o),
           AnswersOK(add, Ids', BegunDevices', g, o), RightAnswer(m, add, v)
    PROVE  BootInv'
<1>1. /\ HostSound /\ faults \in 0 .. Faults /\ MessagesOK /\ OffersAreLast /\ Negotiating
      /\ IsSeq(host.inbox) /\ IsSeq(host.outbox)
  BY BootParts
<1> DEFINE in == host.inbox
           out == host.outbox
           in2 == Tail(in)
           out2 == out \o add
<1>8. in # <<>> /\ m = Head(in)
  BY DEF Takes
<1>2. IsSeq(in) /\ IsSeq(out) /\ IsSeq(in2) /\ IsSeq(out2) /\ OffersLast(in, out, slot)
  BY <1>1, <1>8, TailFacts, ConcatFacts DEF OffersAreLast
<1>3. /\ HostSound' /\ host'.version = v /\ host'.inbox = in2 /\ host'.outbox = out2
      /\ host'.gpadl = g /\ host'.opened = o /\ host'.approved = host.approved
  <2>1. Updates(in2, out2, v, g, o)
    BY DEF Takes
  <2> HIDE DEF in2, out2
  <2>2. QED
    BY <1>1, <1>2, <2>1, AnsweringHost
<1>4. Granted
  BY <1>3 DEF Granted, GrantedBy
<1>5. /\ ChannelsSound' /\ \A d \in DeviceSet : ChannelAgreed(d)'
      /\ Messages(in, out, slot, Ids', BegunDevices', g, o)
  BY <1>1, <1>3, <1>4, HostRests DEF MessagesOK
<1> DEFINE i2 == Ids'
           b2 == BegunDevices'
<1>6. \A i \in 1 .. Len(add) : AnswerOK(add[i], i2, b2, g, o)
  BY DEF AnswersOK
<1>7. Messages(in, out, slot, i2, b2, g, o)
  BY <1>5
<1> HIDE DEF i2, b2, in, out
<1>9. /\ OffersLast(in2, out, slot)
      /\ m.type = "request offers" => NoVersion(in2)
      /\ Settled(in, out, slot) => Settled(in2, out, slot)
      /\ ~AboutVersion(m) => (Settled(in2, out, slot) => Settled(in, out, slot))
      /\ Messages(in2, out, slot, i2, b2, g, o) /\ RequestOK(m, i2, b2)
  BY <1>2, <1>7, <1>8, TakenRequest
<1>10. Messages(in2, out2, slot, i2, b2, g, o)
  BY <1>2, <1>6, <1>9, AddedMessages
<1>11. MessagesOK'
  BY <1>3, <1>10 DEF MessagesOK, i2, b2
<1>12. /\ OffersLast(in2, out2, slot)
       /\ Settled(in2, out2, slot) => Settled(in, out, slot) /\ v = host.version
       /\ Settled(in, out, slot) => Settled(in2, out2, slot) /\ v = host.version
       /\ bus.state = "connecting" /\ OnlyVersions(in, out, slot) =>
             /\ OnlyVersions(in2, out2, slot)
             /\ \A w : LastIsAbout(in, out, slot, host.version, w) =>
                       LastIsAbout(in2, out2, slot, v, w)
  <2>1. CASE m.type = "contact"
    <3>1. PICK answer : /\ add = <<answer>> /\ answer.type = "version"
                        /\ answer.supported => v = m.version
      BY <2>1 DEF RightAnswer
    <3>2. /\ OffersLast(in2, out2, slot)
          /\ ~Settled(in2, out2, slot) /\ ~Settled(in, out, slot)
          /\ OnlyVersions(in, out, slot) =>
                /\ OnlyVersions(in2, out2, slot)
                /\ \A agreed, agreed2, w :
                      /\ LastIsAbout(in, out, slot, agreed, w)
                      /\ answer.supported => agreed2 = m.version
                      => LastIsAbout(in2, out2, slot, agreed2, w)
      BY <1>2, <1>8, <2>1, <3>1, VersionAnswered
    <3>3. QED
      BY <3>1, <3>2
  <2>2. CASE m.type # "contact"
    <3>1. NoVersion(add) /\ v = host.version
      BY <2>2 DEF RightAnswer
    <3>2. m.type \in {"request offers", "gpadl", "open"}
      BY <1>9, <2>2 DEF RequestOK
    <3>3. ~AboutVersion(m)
      BY <3>2 DEF AboutVersion
    <3>4. NoVersion(in2) \/ \A i \in 1 .. Len(add) : ~IsDeviceOffer(add[i])
      BY <1>9, <2>2 DEF RightAnswer
    <3>5. /\ OffersLast(in2, out2, slot)
          /\ Settled(in2, out2, slot) <=> Settled(in2, out, slot)
      BY <1>2, <1>9, <3>1, <3>4, AddedTraffic
    <3>6. ~OnlyVersions(in, out, slot)
      <4>1. 1 \in 1 .. Len(in) /\ m = in[1]
        BY <1>2, <1>8, SeqFacts
      <4>2. QED
        BY <2>2, <4>1 DEF OnlyVersions
    <3>7. QED
      BY <1>9, <3>1, <3>3, <3>5, <3>6
  <2>3. QED
    BY <2>1, <2>2
<1>13. OffersAreLast' /\ (VersionSettled' => VersionSettled /\ host'.version = host.version)
       /\ (VersionSettled => VersionSettled' /\ host'.version = host.version)
  BY <1>3, <1>12 DEF OffersAreLast, VersionSettled, in, out
<1>14. QED
  BY <1>1, <1>3, <1>5, <1>11, <1>12, <1>13, HostStep DEF in, out

LEMMA SingleAnswer ==
    ASSUME NEW a, NEW add, add = <<a>>
    PROVE  IsSeq(add) /\ Len(add) = 1 /\ \A i \in 1 .. Len(add) : add[i] = a
<1>1. add \in Seq({a}) /\ Len(add) = 1 /\ add[1] = a
  OBVIOUS
<1>2. IsSeq(add)
  BY <1>1 DEF IsSeq
<1>3. \A i \in 1 .. 1 : i = 1
  OBVIOUS
<1>4. QED
  BY <1>1, <1>2, <1>3

LEMMA WithLast ==
    ASSUME NEW M, NEW n \in Nat, NEW f \in [1 .. n -> M], NEW last
    PROVE  /\ IsSeq(f \o <<last>>)
           /\ \A i \in 1 .. Len(f \o <<last>>) : (f \o <<last>>)[i] \in M \cup {last}
<1> DEFINE N == M \cup {last}
<1>1. f \in [1 .. n -> N] /\ last \in N
  OBVIOUS
<1> HIDE DEF N
<1>2. f \in Seq(N)
  BY <1>1, SeqDef
<1>3. <<last>> \in Seq(N)
  BY <1>1
<1>4. f \o <<last>> \in Seq(N)
  BY <1>2, <1>3
<1>5. QED
  BY <1>4 DEF IsSeq, N

LEMMA OffersMade ==
    ASSUME NEW S, S \subseteq {"keyboard", "mouse"},
           NEW add, add = Offers(S) \o <<[type |-> "all offers delivered"]>>
    PROVE  /\ IsSeq(add)
           /\ \A i \in 1 .. Len(add) : add[i].type \in {"offer", "all offers delivered"}
<1>1. Cardinality(S) \in Nat
  <2>1. IsFiniteSet({"keyboard"} \cup {"mouse"})
    BY FS_Singleton, FS_AddElement
  <2>2. S \in SUBSET ({"keyboard"} \cup {"mouse"})
    OBVIOUS
  <2>3. IsFiniteSet(S)
    BY <2>1, <2>2, FS_Subset
  <2>4. QED
    BY <2>3, FS_CardinalityType
<1> DEFINE n == Cardinality(S)
           D == {SelectSeq(Devices, LAMBDA d : d \in S)[i] : i \in 1 .. n}
           M == [type : {"offer"}, device : D]
           last == [type |-> "all offers delivered"]
<1>2. Offers(S) \in [1 .. n -> M]
  BY DEF Offers
<1>3. last.type = "all offers delivered"
  OBVIOUS
<1> HIDE DEF D
<1>4. \A m \in M : m.type = "offer"
  OBVIOUS
<1>5. n \in Nat /\ add = Offers(S) \o <<last>>
  BY <1>1
<1> HIDE DEF n, M, last
<1>6. IsSeq(add) /\ \A i \in 1 .. Len(add) : add[i] \in M \cup {last}
  <2>1. n \in Nat
    BY <1>5
  <2>2. /\ IsSeq(Offers(S) \o <<last>>)
        /\ \A i \in 1 .. Len(Offers(S) \o <<last>>) :
              (Offers(S) \o <<last>>)[i] \in M \cup {last}
    BY <1>2, <2>1, WithLast, Zenon
  <2>3. add = Offers(S) \o <<last>>
    BY <1>5
  <2>4. QED
    BY <2>2, <2>3, Zenon
<1>7. QED
  BY <1>3, <1>4, <1>6

LEMMA HostAnswersKeeps ==
    ASSUME BootInv, HostAnswers, person' = person
    PROVE  BootInv'
<1>1. /\ host.inbox # <<>>
      /\ bus' = bus /\ channel' = channel /\ ready' = ready /\ boot' = boot /\ slot' = slot
  BY DEF HostAnswers
<1>2. /\ HostSound /\ faults \in 0 .. Faults /\ MessagesOK /\ OffersAreLast
      /\ IsSeq(host.inbox) /\ IsSeq(host.outbox)
  BY BootParts
<1>3. /\ host.version \in Nat /\ host.gpadl \in [DeviceSet -> Nat]
      /\ host.opened \in [DeviceSet -> Nat] /\ host.offered \subseteq {"keyboard", "mouse"}
  BY <1>2, HostFields, HostTypes
<1> DEFINE m == Head(host.inbox)
<1>4. PICK ok \in BOOLEAN :
         /\ IF ok THEN UNCHANGED faults ELSE Fault /\ m.type \in {"gpadl", "open"}
         /\ host' =
               [host EXCEPT
                   !.inbox = Tail(@),
                   !.outbox = @ \o Answer(m, ok),
                   !.version = IF m.type = "contact" /\ m.version \in HostVersions
                               THEN m.version ELSE @,
                   !.gpadl = IF m.type = "gpadl" /\ ok THEN [@ EXCEPT ![m.device] = m.id] ELSE @,
                   !.opened = IF m.type = "open" /\ ok THEN [@ EXCEPT ![m.device] = m.id] ELSE @]
  BY DEF HostAnswers
<1>5. faults' \in 0 .. Faults
  BY <1>2, <1>4, FaultFacts
<1> DEFINE add == Answer(m, ok)
           v == IF m.type = "contact" /\ m.version \in HostVersions THEN m.version ELSE host.version
           g == IF m.type = "gpadl" /\ ok THEN [host.gpadl EXCEPT ![m.device] = m.id] ELSE host.gpadl
           o == IF m.type = "open" /\ ok THEN [host.opened EXCEPT ![m.device] = m.id] ELSE host.opened
<1>6. Takes(m, add, v, g, o)
  <2>1. host' = [host EXCEPT !.inbox = Tail(host.inbox), !.outbox = host.outbox \o add,
                             !.version = v, !.gpadl = g, !.opened = o]
    BY <1>2, <1>4, HostTypes
  <2>2. QED
    BY <1>1, <2>1 DEF Takes, Updates
<1>7. /\ m.type \in {"contact", "request offers", "gpadl", "open"}
      /\ m.type = "contact" => m.version \in Nat
      /\ m.type \in {"gpadl", "open"} =>
            m.device \in DeviceSet /\ Begun(m.device) /\ m.id = channel[m.device].id
  <2>1. 1 \in 1 .. Len(host.inbox) /\ m = host.inbox[1]
    BY <1>1, <1>2, SeqFacts
  <2>2. RequestOK(m, Ids, BegunDevices)
    BY <1>2, <2>1 DEF MessagesOK, Messages
  <2> HIDE DEF m
  <2>3. QED
    BY <2>2 DEF RequestOK, BegunDevices, Ids
<1>8. \A d \in DeviceSet : channel[d].id \in Nat
  BY BootParts, ChannelFields
<1> DEFINE w == m.device
           id == m.id
<1> HIDE DEF m
<1>9. /\ v \in Nat /\ g \in [DeviceSet -> Nat] /\ o \in [DeviceSet -> Nat]
      /\ m.type = "gpadl" /\ ok => g[w] = id
      /\ m.type = "open" /\ ok => o[w] = id
  BY <1>3, <1>7, <1>8
<1>10. GrantedBy(g, o)
  BY <1>3, <1>7 DEF GrantedBy
<1> DEFINE i2 == Ids'
           b2 == BegunDevices'
<1>11. m.type \in {"gpadl", "open"} => w \in b2 /\ id = i2[w]
  <2>1. \A d \in DeviceSet : Begun(d)' <=> Begun(d)
    BY <1>1 DEF Begun, DevicePcs, Order
  <2>2. QED
    BY <1>1, <1>7, <2>1 DEF Ids, BegunDevices
<1>12. m.type # "contact" => v = host.version
  OBVIOUS
<1>13. m.type = "contact" =>
          add = <<[type |-> "version", supported |-> m.version \in HostVersions]>>
  BY DEF Answer
<1>14. m.type = "request offers" => add = Offers(host.offered) \o <<[type |-> "all offers delivered"]>>
  BY DEF Answer
<1>15. m.type = "gpadl" => add = <<[type |-> "gpadl created", device |-> w, id |-> id, ok |-> ok]>>
  BY DEF Answer
<1>16. m.type = "open" => add = <<[type |-> "open result", device |-> w, id |-> id, ok |-> ok]>>
  BY DEF Answer
<1>17. m.type = "contact" /\ m.version \in HostVersions => v = m.version
  OBVIOUS
<1> HIDE DEF add, v, g, o, i2, b2, w, id
<1>18. IsSeq(add) /\ AnswersOK(add, i2, b2, g, o) /\ RightAnswer(m, add, v)
  <2>1. CASE m.type = "contact"
    <3> DEFINE a == [type |-> "version", supported |-> m.version \in HostVersions]
    <3>1. a.type = "version" /\ (a.supported => v = m.version)
      BY <1>17, <2>1
    <3>2. add = <<a>>
      BY <1>13, <2>1
    <3> HIDE DEF a
    <3>3. IsSeq(add) /\ \A i \in 1 .. Len(add) : add[i] = a
      BY <3>2, SingleAnswer
    <3>4. AnswerOK(a, i2, b2, g, o)
      BY <3>1 DEF AnswerOK
    <3>5. QED
      BY <2>1, <3>1, <3>2, <3>3, <3>4 DEF AnswersOK, RightAnswer
  <2>2. CASE m.type = "request offers"
    <3>1. /\ IsSeq(add)
          /\ \A i \in 1 .. Len(add) : add[i].type \in {"offer", "all offers delivered"}
      BY <1>3, <1>14, <2>2, OffersMade
    <3>2. ASSUME NEW i \in 1 .. Len(add)
          PROVE  AnswerOK(add[i], i2, b2, g, o) /\ ~AboutVersion(add[i])
      BY <3>1 DEF AnswerOK, AboutVersion
    <3>3. QED
      BY <1>12, <2>2, <3>1, <3>2 DEF AnswersOK, RightAnswer, NoVersion
  <2>3. CASE m.type = "gpadl"
    <3> DEFINE a == [type |-> "gpadl created", device |-> w, id |-> id, ok |-> ok]
    <3>1. a.type = "gpadl created" /\ a.device = w /\ a.id = id /\ a.ok = ok
      OBVIOUS
    <3>2. add = <<a>>
      BY <1>15, <2>3
    <3> HIDE DEF a
    <3>3. IsSeq(add) /\ \A i \in 1 .. Len(add) : add[i] = a
      BY <3>2, SingleAnswer
    <3>4. AnswerOK(a, i2, b2, g, o)
      BY <1>9, <1>11, <2>3, <3>1 DEF AnswerOK
    <3>5. ~AboutVersion(a) /\ ~IsDeviceOffer(a)
      BY <3>1 DEF AboutVersion, IsDeviceOffer
    <3>6. QED
      BY <1>12, <2>3, <3>3, <3>4, <3>5 DEF AnswersOK, RightAnswer, NoVersion
  <2>4. CASE m.type = "open"
    <3> DEFINE a == [type |-> "open result", device |-> w, id |-> id, ok |-> ok]
    <3>1. a.type = "open result" /\ a.device = w /\ a.id = id /\ a.ok = ok
      OBVIOUS
    <3>2. add = <<a>>
      BY <1>16, <2>4
    <3> HIDE DEF a
    <3>3. IsSeq(add) /\ \A i \in 1 .. Len(add) : add[i] = a
      BY <3>2, SingleAnswer
    <3>4. AnswerOK(a, i2, b2, g, o)
      BY <1>9, <1>11, <2>4, <3>1 DEF AnswerOK
    <3>5. ~AboutVersion(a) /\ ~IsDeviceOffer(a)
      BY <3>1 DEF AboutVersion, IsDeviceOffer
    <3>6. QED
      BY <1>12, <2>4, <3>3, <3>4, <3>5 DEF AnswersOK, RightAnswer, NoVersion
  <2>5. QED
    BY <1>7, <2>1, <2>2, <2>3, <2>4
<1>19. AnswersOK(add, Ids', BegunDevices', g, o)
  BY <1>18 DEF i2, b2
<1>20. QED
  BY <1>1, <1>5, <1>6, <1>9, <1>10, <1>18, <1>19, AnswerKeeps

LEMMA HostRepliesKeeps ==
    ASSUME BootInv, HostReplies, person' = person, person.reports \in [DeviceSet -> {0}]
    PROVE  BootInv'
<1>1. bus' = bus /\ ready' = ready /\ boot' = boot /\ slot' = slot
  BY DEF HostReplies
<1>2. PICK e \in DeviceSet, ok \in BOOLEAN :
         /\ channel[e].open /\ ~host.approved[e]
         /\ ReadStatus(channel[e].out, RingUnits) = "OK"
         /\ IF ok THEN UNCHANGED faults ELSE Fault
         /\ host' = [host EXCEPT !.approved[e] = ok]
         /\ channel' = [channel EXCEPT
                ![e].out.read = AfterPacket(channel[e].out.read, PacketAt(channel[e].out)),
                ![e].in = hyperv_ring_write(@, [Reply[e] EXCEPT !.ok = ok])]
  BY DEF HostReplies
<1>3. /\ HostSound /\ ChannelsSound /\ ready \in [DeviceSet -> BOOLEAN]
      /\ faults \in 0 .. Faults /\ MessagesOK /\ OffersAreLast /\ ChannelAgreed(e)
      /\ IsSeq(host.inbox) /\ IsSeq(host.outbox) /\ ChannelSound(channel[e])
  BY BootParts
<1> DEFINE old == channel[e]
           p == [Reply[e] EXCEPT !.ok = ok]
           at == PacketAt(old.out)
           r == [old.out EXCEPT !.read = AfterPacket(old.out.read, at)]
           s == hyperv_ring_write(old.in, p)
           c == [old EXCEPT !.out = r, !.in = s]
<1>4. channel' = [channel EXCEPT ![e] = c]
  BY <1>2, <1>3 DEF ChannelsSound
<1>5. RingSound(old.in) /\ RingSound(old.out)
  BY <1>3, ChannelFields
<1>6. Unanswered(e)
  <2>1. Unanswered(e) \/ Answered(e) \/ Finished(e)
    BY <1>2, <1>3 DEF ChannelAgreed
  <2>2. Answered(e) \/ Finished(e) => ReadStatus(old.out, RingUnits) = "WOULD_BLOCK"
    BY <1>5, EmptyRead DEF Answered, Finished
  <2>3. QED
    BY <1>2, <2>1, <2>2
<1>7. at = Greeting[e] /\ RingSound(r) /\ Empty(r)
  <2>1. Spelled(old.out, Greeting[e])
    BY <1>6 DEF Unanswered
  <2> DEFINE q == old.out
  <2>2. RingSound(q) /\ Spelled(q, Greeting[e])
    BY <1>5, <2>1
  <2> HIDE DEF q
  <2>3. /\ PacketAt(q) = Greeting[e]
        /\ RingSound([q EXCEPT !.read = AfterPacket(q.read, Greeting[e])])
        /\ Empty([q EXCEPT !.read = AfterPacket(q.read, Greeting[e])])
    BY <2>2, OnlyPacket
  <2>4. QED
    BY <2>3 DEF q
<1>8. RingSound(s) /\ Spelled(s, p)
  <2>1. p.units \in Nat /\ PacketUnits(p) < RingUnits
    BY ReplyPacket
  <2>2. Empty(old.in)
    BY <1>6 DEF Unanswered
  <2> HIDE DEF p, old
  <2>3. QED
    BY <1>5, <2>1, <2>2, FirstPacket
<1> HIDE DEF r, s
<1>9. NewRings(old, c, r, s) /\ ChannelSound(old)
  BY <1>3 DEF NewRings
<1> HIDE DEF c, old
<1>10. ChannelSound(c) /\ c.open = old.open /\ c.id = old.id /\ c.out = r /\ c.in = s
  <2>1. RingSound(r) /\ RingSound(s)
    BY <1>7, <1>8
  <2>2. QED
    BY <1>9, <2>1, WithRings
<1> USE DEF old
<1>11. /\ ChannelsSound' /\ channel'[e] = c
       /\ \A d \in DeviceSet : d # e => channel'[d] = channel[d]
  BY <1>3, <1>4, <1>10, ChannelSet
<1> DEFINE a == [host.approved EXCEPT ![e] = ok]
<1>12. a \in [DeviceSet -> BOOLEAN] /\ a[e] = ok
       /\ \A d \in DeviceSet : d # e => a[d] = host.approved[d]
  BY <1>3, HostFields
<1>13. /\ HostSound' /\ host'.version = host.version /\ host'.inbox = host.inbox
       /\ host'.outbox = host.outbox /\ host'.gpadl = host.gpadl /\ host'.opened = host.opened
       /\ host'.approved = a
  <2>1. host' = [host EXCEPT !.approved = a]
    BY <1>2, <1>3, HostTypes
  <2> HIDE DEF a
  <2>2. /\ host.version \in Nat /\ host.gpadl \in [DeviceSet -> Nat] /\ host.news \in Int
        /\ host.opened \in [DeviceSet -> Nat]
    BY <1>3, HostFields, HostTypes
  <2>3. host' = [version |-> host.version, inbox |-> host.inbox, outbox |-> host.outbox,
                 offered |-> host.offered, news |-> host.news, gpadl |-> host.gpadl,
                 opened |-> host.opened, approved |-> a]
    BY <1>3, <2>1, HostTypes
  <2>4. QED
    BY <1>3, <1>12, <2>2, <2>3, HostRecord
<1> HIDE DEF a
<1>14. \A d \in DeviceSet : (Begun(d)' <=> Begun(d)) /\ (Underway(d)' <=> Underway(d))
  BY <1>1 DEF Begun, Underway, DevicePcs, Order
<1>15. Answered(e)'
  <2>1. Empty(channel'[e].out) /\ Spelled(channel'[e].in, p)
    BY <1>7, <1>8, <1>10, <1>11
  <2>2. p = [Reply[e] EXCEPT !.ok = host'.approved[e]]
    BY <1>12, <1>13
  <2>3. ~ready'[e]
    BY <1>1, <1>6 DEF Unanswered
  <2> HIDE DEF p
  <2>4. QED
    BY <2>1, <2>2, <2>3 DEF Answered, Empty, Spelled
<1>16. ChannelAgreed(e)'
  <2>1. /\ old.open /\ ~ready[e] /\ e \in bus.offers
        /\ host.opened[e] = channel[e].id /\ host.gpadl[e] = channel[e].id
        /\ Begun(e) /\ bus.state = "connected"
        /\ Underway(e) => boot.pc = "await reply"
    <3>1. ~ClosedChannel.open
      BY ClosedSound
    <3>2. Underway(e) => boot.pc \in {"await gpadl", "open", "await open", "greet", "await reply"}
      BY DEF Underway, DevicePcs
    <3>3. ~Empty(old.out)
      BY <1>2, <1>5, EmptyRead
    <3>4. QED
      BY <1>2, <1>3, <1>6, <3>1, <3>2, <3>3 DEF ChannelAgreed, Unanswered
  <2>2. channel'[e].open /\ channel'[e].id = channel[e].id
    BY <1>10, <1>11, <2>1
  <2>3. /\ Begun(e)' /\ bus'.state = "connected" /\ e \in bus'.offers /\ ~ready'[e]
        /\ Underway(e)' => boot'.pc = "await reply"
        /\ host'.opened[e] = channel'[e].id /\ host'.gpadl[e] = channel'[e].id
    BY <1>1, <1>13, <1>14, <2>1, <2>2
  <2>4. QED
    BY <1>15, <2>2, <2>3 DEF ChannelAgreed
<1>17. ASSUME NEW d \in DeviceSet, d # e PROVE ChannelAgreed(d)'
  <2>1. ChannelAgreed(d)
    BY BootParts
  <2>2. Rests(d)
    BY <1>1, <1>11, <1>12, <1>13, <1>14, <1>17 DEF Rests
  <2>3. QED
    BY <2>1, <2>2, ChannelRests
<1>18. KeepsBegun
  BY <1>10, <1>11, <1>14 DEF KeepsBegun
<1>19. Messages(host.inbox, host.outbox, slot, Ids', BegunDevices', host'.gpadl, host'.opened)
  BY <1>3, <1>13, <1>18, MessagesMove DEF MessagesOK, KeepsBegun
<1>20. MessagesOK' /\ OffersAreLast' /\ (VersionSettled' <=> VersionSettled)
  BY <1>1, <1>3, <1>13, <1>19 DEF MessagesOK, OffersAreLast, VersionSettled
<1>21. faults' \in 0 .. Faults
  BY <1>2, <1>3, FaultFacts
<1>22. QED
  BY <1>1, <1>3, <1>11, <1>13, <1>16, <1>17, <1>20, <1>21, HostStep

-----------------------------------------------------------------------------
(* Boot: together, and what comes after it.                                *)

LEMMA BootStart == Init => BootInv
<1> SUFFICES ASSUME Init PROVE BootInv
  OBVIOUS
<1>1. /\ bus = [state |-> "connecting", version |-> 0, offers |-> {}, next_id |-> 1]
      /\ channel = [d \in DeviceSet |-> ClosedChannel] /\ ready = [d \in DeviceSet |-> FALSE]
      /\ boot = [pc |-> "enable", index |-> 1] /\ slot = NoMessage /\ faults = Faults
  BY DEF Init, BusInit
<1>2. PICK offered \in OfferSets :
         host = [version |-> 0, inbox |-> <<>>, outbox |-> <<>>, offered |-> offered, news |-> 1,
                 gpadl |-> [d \in DeviceSet |-> 0], opened |-> [d \in DeviceSet |-> 0],
                 approved |-> [d \in DeviceSet |-> FALSE]]
  BY DEF Init, BusInit
<1>3. BootSound
  BY <1>1, InputAssumption DEF BootSound, VersionPcs, OfferPcs, DevicePcs
<1>4. BusSound
  BY <1>1 DEF BusSound, Buses
<1>5. HostSound
  <2>1. offered \in SUBSET {"keyboard", "mouse"} /\ <<>> \in Seq({})
    BY InputAssumption
  <2>2. host \in Hosts({})
    BY <1>2, <2>1, DeviceNames DEF Hosts
  <2>3. QED
    BY <2>2 DEF HostSound
<1>6. ChannelsSound
  BY <1>1, ClosedSound DEF ChannelsSound
<1>7. BusTypes
  BY <1>1, <1>3, <1>4, <1>5, <1>6, InputAssumption DEF BusTypes
<1>8. host.inbox = <<>> /\ host.outbox = <<>> /\ Len(host.inbox) = 0 /\ Len(host.outbox) = 0
  BY <1>2
<1>9. slot.type = "none"
  BY <1>1 DEF NoMessage
<1>10. MessagesOK
  BY <1>1, <1>8 DEF MessagesOK, Messages
<1>11. OffersAreLast /\ OnlyVersions(host.inbox, host.outbox, slot)
  BY <1>8, <1>9 DEF OffersAreLast, OffersLast, OnlyVersions, IsDeviceOffer, NoVersion
<1>12. Negotiating /\ VersionAgreed
  BY <1>1, <1>11 DEF Negotiating, VersionAgreed, VersionPcs, OfferPcs
<1>13. ASSUME NEW d \in DeviceSet PROVE ChannelAgreed(d)
  <2>1. channel[d] = ClosedChannel /\ ~ready[d] /\ ~host.approved[d] /\ ~channel[d].open
    BY <1>1, <1>2, ClosedSound
  <2>2. ~Underway(d)
    BY <1>1 DEF Underway, DevicePcs
  <2>3. QED
    BY <2>1, <2>2 DEF ChannelAgreed
<1>14. QED
  BY <1>7, <1>10, <1>11, <1>12, <1>13 DEF BootInv

LEMMA GuestKeeps ==
    ASSUME BootInv, GuestBoots, person' = person
    PROVE  BootInv'
  BY EnableKeeps, ContactKeeps, VersionKeeps, RequestKeeps, OffersKeeps, NoDeviceKeeps, GpadlKeeps,
     AwaitGpadlKeeps, OpenKeeps, AwaitOpenKeeps, GreetKeeps, AwaitReplyKeeps DEF GuestBoots

LEMMA HostKeeps ==
    ASSUME BootInv, HostBoots, person' = person, person.reports \in [DeviceSet -> {0}]
    PROVE  BootInv'
  BY HostAnswersKeeps, HostNewsKeeps, HostDeliversKeeps, HostRepliesKeeps DEF HostBoots

(* A step that leaves the bus alone.                                        *)
LEMMA BusStep ==
    ASSUME BootInv, bus' = bus, boot' = boot, slot' = slot, host' = host, ChannelsSound',
           faults' \in 0 .. Faults, ready' \in [DeviceSet -> BOOLEAN],
           \A d \in DeviceSet : channel'[d].id = channel[d].id,
           \A d \in DeviceSet : ChannelAgreed(d)'
    PROVE  BootInv'
<1>1. /\ BootSound /\ BusSound /\ VersionAgreed /\ Negotiating
  BY BootParts
<1>2. BootSound' /\ BusSound'
  BY <1>1 DEF BootSound, BusSound, VersionPcs, OfferPcs, DevicePcs
<1>3. \A d \in DeviceSet : Begun(d)' <=> Begun(d)
  BY DEF Begun, DevicePcs, Order
<1>4. KeepsBegun
  BY <1>3 DEF KeepsBegun
<1>5. HostSound' /\ MessagesOK' /\ OffersAreLast' /\ (VersionSettled' <=> VersionSettled)
  BY <1>4, StillTraffic
<1>6. Negotiating'
  BY <1>1 DEF Negotiating, VersionPcs
<1>7. VersionAgreed'
  BY <1>1, <1>5 DEF VersionAgreed, VersionPcs, OfferPcs
<1>8. BusTypes'
  BY <1>2, <1>5 DEF BusTypes
<1>9. QED
  BY <1>5, <1>6, <1>7, <1>8 DEF BootInv

(* A step that may give up a device or lose the host's good will, not more. *)
LEMMA QuietStep ==
    ASSUME BootInv, bus' = bus, boot' = boot, slot' = slot, host' = host, channel' = channel,
           faults' \in 0 .. Faults, ready' \in [DeviceSet -> BOOLEAN],
           \A d \in DeviceSet : ready'[d] => ready[d],
           \A d \in DeviceSet : person'.reports[d] = 0 => person.reports[d] = 0
    PROVE  BootInv'
<1>1. \A d \in DeviceSet : (Begun(d)' <=> Begun(d)) /\ (Underway(d)' <=> Underway(d))
  BY DEF Begun, Underway, DevicePcs, Order
<1>2. ASSUME NEW d \in DeviceSet PROVE ChannelAgreed(d)'
  <2>1. ChannelAgreed(d)
    BY BootParts
  <2>2. Unanswered(d) => Unanswered(d)'
    BY DEF Unanswered, Empty, Spelled
  <2>3. Answered(d) => Answered(d)'
    BY DEF Answered, Empty, Spelled
  <2>4. Finished(d) => Finished(d)'
    BY DEF Finished, Empty
  <2>5. QED
    BY <1>1, <2>1, <2>2, <2>3, <2>4 DEF ChannelAgreed, Empty
<1>3. ChannelsSound'
  BY BootParts DEF ChannelsSound
<1>4. QED
  BY <1>2, <1>3, BusStep

(* The ring of a device in use moves on.                                    *)
LEMMA RingStep ==
    ASSUME BootInv, boot.pc = "done",
           bus' = bus, boot' = boot, slot' = slot, host' = host, ready' = ready, faults' = faults,
           NEW e \in DeviceSet, channel[e].open, NEW r, RingSound(r),
           channel' = [channel EXCEPT ![e].in = r],
           person'.reports[e] # 0,
           \A d \in DeviceSet : person'.reports[d] = 0 => person.reports[d] = 0
    PROVE  /\ BootInv' /\ channel'[e].in = r /\ channel'[e].open
           /\ \A d \in DeviceSet : d # e => channel'[d] = channel[d]
<1> DEFINE old == channel[e]
           c == [old EXCEPT !.in = r]
<1>1. /\ ChannelsSound /\ ready \in [DeviceSet -> BOOLEAN] /\ faults \in 0 .. Faults
      /\ ChannelSound(old)
  BY BootParts
<1>2. channel' = [channel EXCEPT ![e] = c]
  BY <1>1 DEF ChannelsSound
<1>3. c = [old EXCEPT !.in = r]
  OBVIOUS
<1> HIDE DEF c, old
<1>4. ChannelSound(c) /\ c.open = old.open /\ c.id = old.id /\ c.in = r /\ c.out = old.out
  BY <1>1, <1>3, WithIn
<1>5. /\ ChannelsSound' /\ channel'[e] = c
      /\ \A d \in DeviceSet : d # e => channel'[d] = channel[d]
  BY <1>1, <1>2, <1>4, ChannelSet
<1>6. \A d \in DeviceSet : Begun(d)' /\ Begun(d) /\ ~Underway(d) /\ ~Underway(d)'
  BY DEF Begun, Underway, DevicePcs
<1>7. ChannelAgreed(e)'
  <2>1. ChannelAgreed(e) /\ ~ClosedChannel.open /\ old.open
    BY BootParts, ClosedSound DEF old
  <2>2. /\ bus.state = "connected" /\ e \in bus.offers
        /\ host.opened[e] = channel[e].id /\ host.gpadl[e] = channel[e].id
        /\ ready[e] => host.approved[e]
    BY <2>1 DEF ChannelAgreed, old
  <2>3. channel'[e].open /\ channel'[e].id = channel[e].id
    BY <1>4, <1>5, <2>1 DEF old
  <2>4. QED
    BY <1>6, <2>2, <2>3 DEF ChannelAgreed
<1>8. ASSUME NEW d \in DeviceSet, d # e PROVE ChannelAgreed(d)'
  <2>1. ChannelAgreed(d)
    BY BootParts
  <2>2. Rests(d)
    BY <1>5, <1>6, <1>8 DEF Rests
  <2>3. QED
    BY <2>1, <2>2, ChannelRests
<1>9. \A d \in DeviceSet : channel'[d].id = channel[d].id
  BY <1>4, <1>5 DEF old
<1>10. BootInv'
  BY <1>1, <1>5, <1>7, <1>8, <1>9, BusStep
<1>11. QED
  BY <1>4, <1>5, <1>10 DEF old

-----------------------------------------------------------------------------
(* What every step keeps, wherever the ticks fall.                         *)

(* The packets the host writes, and a ring that holds units of such ones    *)
(* only: what is read at a stale index is still a packet.                   *)
TypedPacket(p) == p.units \in Nat /\ (p.kind = "report" => p.report \in MouseReports)
TypedUnit(u) == u = NoUnit \/ TypedPacket(u[1])
TypedRing(r) == \A i \in 0 .. RingUnits - 1 : TypedUnit(r.data[i])
TypedRings == \A d \in {"keyboard", "mouse"} : TypedRing(channel[d].in)

Serving == {"copy", "publish", "handle"}
IsFrame(s) == \E S : s \in [pc : S, device : S, packet : S, index : S]
FrameSound(s) ==
    /\ IsFrame(s)
    /\ s.pc \in {"status", "data", "poll", "pop"} \cup Serving
    /\ s.pc # "pop" => s.device \in {"keyboard", "mouse"}
    /\ s.pc \in {"status", "data"} => platform = "ps2"
    /\ s.pc \in {"poll"} \cup Serving => platform = "hyperv"
    /\ s.pc = "data" => output.full /\ output.device = s.device
    /\ s.pc \in Serving =>
          /\ TypedPacket(s.packet) /\ s.index \in 0 .. RingUnits - 1
          /\ person.reports[s.device] > 0 /\ channel[s.device].open
StackSound ==
    /\ IsSeq(stack) /\ Len(stack) <= 2
    /\ Len(stack) = 2 => stack[1].pc \in TickPoints
    /\ stack # <<>> => Ps2Ready \/ HyperVReady
    /\ \A i \in 1 .. Len(stack) : FrameSound(stack[i])

(* What is on its way over the wires.                                       *)
MouseBytes == [sync : BOOLEAN, value : Int, left : BOOLEAN, overflow : BOOLEAN]
WireSound ==
    /\ \E S : bytes \in [{"keyboard", "mouse"} -> Seq(S)]
    /\ bytes["mouse"] \in Seq(MouseBytes)
    /\ \E S : output \in [full : BOOLEAN, device : {"keyboard", "mouse"}, byte : S]
    /\ output.device = "mouse" => output.byte \in MouseBytes
    /\ platform = "ps2" =>
          \E S : mouse \in [packet : Seq(MouseBytes), left : S] /\ Len(mouse.packet) < 3

(* How far the commands of the script have brought the controller.          *)
Controllers ==
    [configuration : SUBSET {"keyboard irq", "mouse irq", "translate"},
     read : SUBSET {"keyboard irq", "mouse irq", "translate"},
     keyboard : {"enabled", "disabled"}, set : {1, 2}, mouse : {"off", "streaming"},
     selecting : BOOLEAN]
KeyboardOn == {"keyboard irq"}
BothOn == {"keyboard irq", "mouse irq"}
SetupAt(n, c) ==
    /\ n \in 4 .. 10 => c.configuration = {} /\ c.read = {}
    /\ n \in 11 .. 14 => c.configuration = KeyboardOn /\ c.read = KeyboardOn
    /\ n \in 15 .. 17 => c.configuration = BothOn
    /\ n \in 7 .. 17 => c.keyboard = "enabled"
    /\ n = 8 => c.selecting
    /\ n \in 9 .. 17 => c.set = 2
    /\ n = 17 => c.mouse = "streaming"
SetupSound ==
    /\ setup \in [command : 0 .. 17, attempts : Nat, controller : Controllers]
    /\ SetupAt(setup.command, setup.controller)

PersonSound ==
    person \in [held : SUBSET Keys, caps : BOOLEAN, halved : BOOLEAN, repeated : BOOLEAN,
                reports : [{"keyboard", "mouse"} -> Nat]]
NothingYet ==
    platform = "hyperv" /\ boot.pc # "done" => person.reports \in [{"keyboard", "mouse"} -> {0}]

(* The two ports of the PS/2 controller are read together.                  *)
PortsReadTogether == "ps2" \in Platforms => "data" \notin TickPoints

StepInv ==
    /\ platform \in Platforms /\ platform \in {"ps2", "hyperv"}
    /\ BootInv /\ TypedRings /\ StackSound /\ WireSound /\ SetupSound /\ PersonSound /\ NothingYet
    /\ QueueSound(queue)

LEMMA PersonFields ==
    ASSUME PersonSound
    PROVE  /\ person.held \subseteq Keys /\ person.caps \in BOOLEAN
           /\ person.halved \in BOOLEAN /\ person.repeated \in BOOLEAN
           /\ person.reports \in [{"keyboard", "mouse"} -> Nat]
           /\ \A d \in DeviceSet : person.reports[d] \in Nat
  BY DeviceNames DEF PersonSound

LEMMA CountedFacts ==
    ASSUME PersonSound, NEW e \in DeviceSet, NEW held, held \subseteq Keys,
           NEW caps \in BOOLEAN, NEW half \in BOOLEAN,
           NEW repeated \in BOOLEAN, NEW n, n = person.reports[e] + 1,
           person' = [held |-> held, caps |-> caps, halved |-> half, repeated |-> repeated,
                      reports |-> [person.reports EXCEPT ![e] = n]]
    PROVE  /\ PersonSound' /\ person'.held = held /\ person'.caps = caps /\ person'.halved = half
           /\ person'.repeated = repeated
           /\ person'.reports[e] = n /\ n \in Nat /\ n > 0
           /\ \A d \in DeviceSet : d # e => person'.reports[d] = person.reports[d]
<1> DEFINE rs == [person.reports EXCEPT ![e] = n]
<1>1. person.reports \in [{"keyboard", "mouse"} -> Nat] /\ e \in {"keyboard", "mouse"}
  BY PersonFields, DeviceNames
<1>2. n \in Nat /\ n > 0
  BY <1>1
<1>3. /\ rs \in [{"keyboard", "mouse"} -> Nat] /\ rs[e] = n
      /\ \A d \in {"keyboard", "mouse"} : d # e => rs[d] = person.reports[d]
  BY <1>1, <1>2
<1>4. person' = [held |-> held, caps |-> caps, halved |-> half, repeated |-> repeated, reports |-> rs]
  OBVIOUS
<1> HIDE DEF rs
<1>5. PersonSound' /\ person'.held = held /\ person'.caps = caps
      /\ person'.halved = half /\ person'.repeated = repeated /\ person'.reports = rs
  BY <1>3, <1>4 DEF PersonSound
<1>6. QED
  BY <1>2, <1>3, <1>5, DeviceNames

-----------------------------------------------------------------------------
(* The commands of the PS/2 script.                                        *)

LEMMA ScriptLength == Len(Script) = 16
  BY DEF Script

LEMMA ScriptNames ==
    /\ Script[1].does = "disable keyboard" /\ Script[2].does = "read configuration"
    /\ Script[3].does = "write keyboard off" /\ Script[4].does = "self test"
    /\ Script[5].does = "test keyboard port" /\ Script[6].does = "enable keyboard"
    /\ Script[7].does = "scan code set" /\ Script[8].does = "set 2"
    /\ Script[9].does = "report keys" /\ Script[10].does = "write keyboard on"
    /\ Script[11].does = "enable mouse" /\ Script[12].does = "test mouse port"
    /\ Script[13].does = "read configuration" /\ Script[14].does = "write mouse on"
    /\ Script[15].does = "defaults" /\ Script[16].does = "report moves"
  BY DEF Script, Command

(* What a command leaves of the controller c.                               *)
Leaves(c, does, d) ==
    /\ d \in Controllers
    /\ does = "write keyboard off" => d.configuration = {} /\ d.read = {}
    /\ does = "write keyboard on" =>
          d.configuration = c.read \cup {"keyboard irq"} /\ d.read = c.read \cup {"keyboard irq"}
    /\ does = "write mouse on" => d.configuration = c.read \cup {"mouse irq"}
    /\ does \notin {"write keyboard off", "write keyboard on", "write mouse on"} =>
          d.configuration = c.configuration /\ d.read \in {c.read, c.configuration}
    /\ does = "enable keyboard" => d.keyboard = "enabled"
    /\ does \notin {"enable keyboard", "disable keyboard"} => d.keyboard = c.keyboard
    /\ does = "scan code set" => d.selecting
    /\ does = "set 2" /\ c.selecting => d.set = 2
    /\ does # "set 2" => d.set = c.set
    /\ does = "report moves" => d.mouse = "streaming"

LEMMA ObeyedLeaves ==
    ASSUME NEW c \in Controllers, NEW does
    PROVE  Leaves(c, does, Obeyed(c, does))
<1>1. CASE does = "disable keyboard"
  BY <1>1 DEF Leaves, Obeyed, Controllers
<1>2. CASE does = "enable keyboard"
  BY <1>2 DEF Leaves, Obeyed, Controllers
<1>3. CASE does = "read configuration"
  BY <1>3 DEF Leaves, Obeyed, Controllers
<1>4. CASE does = "write keyboard off"
  BY <1>4 DEF Leaves, Obeyed, Controllers
<1>5. CASE does = "write keyboard on"
  BY <1>5 DEF Leaves, Obeyed, Controllers
<1>6. CASE does = "write mouse on"
  BY <1>6 DEF Leaves, Obeyed, Controllers
<1>7. CASE does = "scan code set"
  BY <1>7 DEF Leaves, Obeyed, Controllers
<1>8. CASE does = "set 2"
  BY <1>8 DEF Leaves, Obeyed, Controllers
<1>9. CASE does = "report moves"
  BY <1>9 DEF Leaves, Obeyed, Controllers
<1>10. CASE does \notin {"disable keyboard", "enable keyboard", "read configuration",
                         "write keyboard off", "write keyboard on",
                          "write mouse on", "scan code set", "set 2", "report moves"}
  BY <1>10 DEF Leaves, Obeyed, Controllers
<1>11. QED
  BY <1>1, <1>2, <1>3, <1>4, <1>5, <1>6, <1>7, <1>8, <1>9, <1>10

LEMMA ScriptSteps ==
    ASSUME NEW n \in 1 .. 16, NEW c \in Controllers, SetupAt(n, c)
    PROVE  /\ Obeyed(c, Script[n].does) \in Controllers
           /\ SetupAt(n + 1, Obeyed(c, Script[n].does))
<1> DEFINE d == Obeyed(c, Script[n].does)
<1>21. Leaves(c, Script[n].does, d)
  BY ObeyedLeaves
<1> HIDE DEF d
<1>19. {} \cup {"keyboard irq"} = KeyboardOn /\ KeyboardOn \cup {"mouse irq"} = BothOn
  BY DEF KeyboardOn, BothOn
<1>20. SUFFICES d \in Controllers /\ SetupAt(n + 1, d)
  BY DEF d
<1>1. CASE n = 1
  <2>1. Leaves(c, "disable keyboard", d)
    BY <1>21, <1>1, ScriptNames
  <2>2. QED
    BY <1>1, <2>1 DEF Leaves, SetupAt
<1>2. CASE n = 2
  <2>1. Leaves(c, "read configuration", d)
    BY <1>21, <1>2, ScriptNames
  <2>2. QED
    BY <1>2, <2>1 DEF Leaves, SetupAt
<1>3. CASE n = 3
  <2>1. Leaves(c, "write keyboard off", d)
    BY <1>21, <1>3, ScriptNames
  <2>2. QED
    BY <1>3, <2>1 DEF Leaves, SetupAt
<1>4. CASE n = 4
  <2>1. Leaves(c, "self test", d)
    BY <1>21, <1>4, ScriptNames
  <2>2. QED
    BY <1>4, <2>1 DEF Leaves, SetupAt
<1>5. CASE n = 5
  <2>1. Leaves(c, "test keyboard port", d)
    BY <1>21, <1>5, ScriptNames
  <2>2. QED
    BY <1>5, <2>1 DEF Leaves, SetupAt
<1>6. CASE n = 6
  <2>1. Leaves(c, "enable keyboard", d)
    BY <1>21, <1>6, ScriptNames
  <2>2. QED
    BY <1>6, <2>1 DEF Leaves, SetupAt
<1>7. CASE n = 7
  <2>1. Leaves(c, "scan code set", d)
    BY <1>21, <1>7, ScriptNames
  <2>2. QED
    BY <1>7, <2>1 DEF Leaves, SetupAt
<1>8. CASE n = 8
  <2>1. Leaves(c, "set 2", d)
    BY <1>21, <1>8, ScriptNames
  <2>2. QED
    BY <1>8, <2>1 DEF Leaves, SetupAt
<1>9. CASE n = 9
  <2>1. Leaves(c, "report keys", d)
    BY <1>21, <1>9, ScriptNames
  <2>2. QED
    BY <1>9, <2>1 DEF Leaves, SetupAt
<1>10. CASE n = 10
  <2>1. Leaves(c, "write keyboard on", d)
    BY <1>21, <1>10, ScriptNames
  <2>2. QED
    <3>1. c.read = {} /\ c.keyboard = "enabled" /\ c.set = 2
      BY <1>10 DEF SetupAt
    <3>2. /\ d.configuration = c.read \cup {"keyboard irq"} /\ d.read = c.read \cup {"keyboard irq"}
          /\ d \in Controllers /\ d.keyboard = c.keyboard /\ d.set = c.set
      BY <2>1 DEF Leaves
    <3>3. d.configuration = KeyboardOn /\ d.read = KeyboardOn
      BY <1>19, <3>1, <3>2
    <3>4. d \in Controllers /\ d.keyboard = "enabled" /\ d.set = 2
      BY <3>1, <3>2
    <3>5. QED
      BY <1>10, <3>3, <3>4 DEF SetupAt
<1>11. CASE n = 11
  <2>1. Leaves(c, "enable mouse", d)
    BY <1>21, <1>11, ScriptNames
  <2>2. QED
    BY <1>11, <2>1 DEF Leaves, SetupAt
<1>12. CASE n = 12
  <2>1. Leaves(c, "test mouse port", d)
    BY <1>21, <1>12, ScriptNames
  <2>2. QED
    BY <1>12, <2>1 DEF Leaves, SetupAt
<1>13. CASE n = 13
  <2>1. Leaves(c, "read configuration", d)
    BY <1>21, <1>13, ScriptNames
  <2>2. QED
    BY <1>13, <2>1 DEF Leaves, SetupAt
<1>14. CASE n = 14
  <2>1. Leaves(c, "write mouse on", d)
    BY <1>21, <1>14, ScriptNames
  <2>2. QED
    <3>1. c.read = KeyboardOn /\ c.keyboard = "enabled" /\ c.set = 2
      BY <1>14 DEF SetupAt
    <3>2. /\ d.configuration = c.read \cup {"mouse irq"}
          /\ d \in Controllers /\ d.keyboard = c.keyboard /\ d.set = c.set
      BY <2>1 DEF Leaves
    <3>3. d.configuration = BothOn
      BY <1>19, <3>1, <3>2
    <3>4. d \in Controllers /\ d.keyboard = "enabled" /\ d.set = 2
      BY <3>1, <3>2
    <3>5. QED
      BY <1>14, <3>3, <3>4 DEF SetupAt
<1>15. CASE n = 15
  <2>1. Leaves(c, "defaults", d)
    BY <1>21, <1>15, ScriptNames
  <2>2. QED
    BY <1>15, <2>1 DEF Leaves, SetupAt
<1>16. CASE n = 16
  <2>1. Leaves(c, "report moves", d)
    BY <1>21, <1>16, ScriptNames
  <2>2. QED
    BY <1>16, <2>1 DEF Leaves, SetupAt
<1>17. n \in {1, 2, 3, 4, 5, 6, 7, 8, 9, 10, 11, 12, 13, 14, 15, 16}
  OBVIOUS
<1>18. QED
  BY <1>1, <1>2, <1>3, <1>4, <1>5, <1>6, <1>7, <1>8, <1>9, <1>10, <1>11, <1>12, <1>13, <1>14,
     <1>15, <1>16, <1>17

-----------------------------------------------------------------------------
(* The steps under way.                                                    *)

LEMMA NowFacts ==
    ASSUME IsSeq(stack), stack # <<>>, NEW s, Now(s)
    PROVE  /\ IsSeq(stack') /\ Len(stack') = Len(stack) /\ stack' # <<>>
           /\ Len(stack) \in Nat \ {0} /\ stack'[Len(stack)] = s
           /\ \A i \in 1 .. Len(stack) - 1 : stack'[i] = stack[i]
<1>1. PICK S : stack \in Seq(S)
  BY DEF IsSeq
<1> DEFINE T == S \cup {s}
           n == Len(stack)
<1>2. stack \in Seq(T) /\ s \in T /\ n \in 1 .. Len(stack) /\ n \in Nat \ {0}
  BY <1>1
<1>3. stack' = [stack EXCEPT ![n] = s]
  BY DEF Now
<1> HIDE DEF T
<1>4. /\ stack' \in Seq(T) /\ Len(stack') = Len(stack)
      /\ stack'[n] = s /\ \A i \in 1 .. n - 1 : stack'[i] = stack[i]
  BY <1>2, <1>3
<1>5. IsSeq(stack')
  BY <1>4 DEF IsSeq
<1>6. QED
  BY <1>2, <1>4, <1>5

LEMMA StepIsFrame ==
    ASSUME NEW pc, NEW d, NEW s, s = Step(pc, d)
    PROVE  /\ IsFrame(s) /\ s.pc = pc /\ s.device = d /\ s.index = 0
           /\ s.packet = NoPacket /\ TypedPacket(NoPacket)
<1>1. TypedPacket(NoPacket)
  BY DEF TypedPacket, NoPacket
<1>2. PICK S : S = {pc, d, NoPacket, 0}
  OBVIOUS
<1> HIDE DEF NoPacket
<1>3. s \in [pc : S, device : S, packet : S, index : S]
  BY <1>2 DEF Step
<1>4. s.pc = pc /\ s.device = d /\ s.index = 0 /\ s.packet = NoPacket
  BY DEF Step
<1>5. QED
  BY <1>1, <1>3, <1>4 DEF IsFrame

(* A step that goes on, or that found a packet.                             *)
GoesTo(s, t, pc) == s = [t EXCEPT !.pc = pc]
GoesWith(s, t, pc, p) == s = [t EXCEPT !.pc = pc, !.packet = p]
Holds(s, t, p, i) == s = [t EXCEPT !.packet = p, !.index = i]

LEMMA FrameWith ==
    ASSUME NEW t, IsFrame(t), NEW pc, NEW p, NEW i, NEW s
    PROVE  /\ GoesTo(s, t, pc) => /\ IsFrame(s) /\ s.pc = pc /\ s.device = t.device
                                  /\ s.packet = t.packet /\ s.index = t.index
           /\ GoesWith(s, t, pc, p) => /\ IsFrame(s) /\ s.pc = pc /\ s.device = t.device
                                       /\ s.packet = p /\ s.index = t.index
           /\ Holds(s, t, p, i) => /\ IsFrame(s) /\ s.pc = t.pc /\ s.device = t.device
                                   /\ s.packet = p /\ s.index = i
<1>1. PICK S : t \in [pc : S, device : S, packet : S, index : S]
  BY DEF IsFrame
<1>2. PICK T : T = S \cup {pc, p, i}
  OBVIOUS
<1>3. t \in [pc : T, device : T, packet : T, index : T] /\ pc \in T /\ p \in T /\ i \in T
  BY <1>1, <1>2
<1>4. ASSUME GoesTo(s, t, pc)
      PROVE  /\ s \in [pc : T, device : T, packet : T, index : T]
             /\ s.pc = pc /\ s.device = t.device /\ s.packet = t.packet /\ s.index = t.index
  BY <1>3, <1>4 DEF GoesTo
<1>5. ASSUME GoesWith(s, t, pc, p)
      PROVE  /\ s \in [pc : T, device : T, packet : T, index : T]
             /\ s.pc = pc /\ s.device = t.device /\ s.packet = p /\ s.index = t.index
  BY <1>3, <1>5 DEF GoesWith
<1>6. ASSUME Holds(s, t, p, i)
      PROVE  /\ s \in [pc : T, device : T, packet : T, index : T]
             /\ s.pc = t.pc /\ s.device = t.device /\ s.packet = p /\ s.index = i
  BY <1>3, <1>6 DEF Holds
<1>7. QED
  BY <1>4, <1>5, <1>6 DEF IsFrame

FramesStay ==
    /\ platform' = platform
    /\ \A d \in {"keyboard", "mouse"} : /\ person.reports[d] > 0 => person'.reports[d] > 0
                                        /\ channel[d].open => channel'[d].open
    /\ Ps2Ready \/ HyperVReady => (Ps2Ready \/ HyperVReady)'

LEMMA FrameStays ==
    ASSUME NEW s, FrameSound(s), FramesStay, s.pc = "data" => output' = output
    PROVE  FrameSound(s)'
  BY DEF FrameSound, FramesStay, Serving

LEMMA StackRests ==
    ASSUME StackSound, stack' = stack, FramesStay, output.full => output' = output
    PROVE  StackSound'
<1>1. ASSUME NEW i \in 1 .. Len(stack) PROVE FrameSound(stack[i])'
  <2>1. PICK s : s = stack[i] /\ s = stack'[i]
    OBVIOUS
  <2>2. FrameSound(s)
    BY <2>1 DEF StackSound
  <2>3. FrameSound(s)'
    BY <2>2, FrameStays DEF FrameSound
  <2>4. QED
    BY <2>1, <2>3 DEF FrameSound, Serving
<1>2. \A i \in 1 .. Len(stack') : FrameSound(stack[i])'
  BY <1>1
<1>3. QED
  BY <1>2 DEF StackSound, FramesStay

LEMMA TopFrame ==
    ASSUME StackSound, stack # <<>>
    PROVE  /\ FrameSound(Top) /\ Len(stack) \in 1 .. 2 /\ IsSeq(stack)
           /\ Ps2Ready \/ HyperVReady
<1>1. Len(stack) \in Nat /\ Len(stack) # 0 /\ IsSeq(stack) /\ Len(stack) <= 2
  BY SeqFacts DEF StackSound
<1> DEFINE n == Len(stack)
<1>2. n \in 1 .. n /\ n \in 1 .. 2
  <2>1. n \in Nat /\ n # 0 /\ n <= 2
    BY <1>1
  <2> HIDE DEF n
  <2>2. QED
    BY <2>1
<1>3. FrameSound(stack[Len(stack)]) /\ (Ps2Ready \/ HyperVReady)
  BY <1>2 DEF StackSound
<1>4. QED
  BY <1>1, <1>2, <1>3 DEF Top

(* Only the step on top may be between its two ports.                       *)
LEMMA StackNow ==
    ASSUME StackSound, platform \in Platforms, PortsReadTogether, stack # <<>>, FramesStay,
           NEW s, Now(s), FrameSound(s)'
    PROVE  StackSound'
<1>1. Len(stack) \in 1 .. 2 /\ IsSeq(stack) /\ (Ps2Ready \/ HyperVReady)
  BY TopFrame
<1>2. /\ IsSeq(stack') /\ Len(stack') = Len(stack) /\ stack' # <<>>
      /\ stack'[Len(stack)] = s
      /\ \A i \in 1 .. Len(stack) - 1 : stack'[i] = stack[i]
  BY <1>1, NowFacts
<1>3. ASSUME NEW i \in 1 .. Len(stack') PROVE FrameSound(stack[i])'
  <2>1. CASE i = Len(stack)
    BY <1>2, <2>1 DEF FrameSound, Serving
  <2>2. CASE i # Len(stack)
    <3>1. i = 1 /\ Len(stack) = 2 /\ stack'[i] = stack[i]
      BY <1>1, <1>2, <2>2
    <3>2. PICK t : t = stack[i] /\ t = stack'[i]
      BY <3>1
    <3>3. FrameSound(t) /\ t.pc \in TickPoints
      BY <3>1, <3>2 DEF StackSound
    <3>4. t.pc # "data"
      BY <3>3 DEF FrameSound, PortsReadTogether
    <3>5. FrameSound(t)'
      BY <3>3, <3>4, FrameStays
    <3>6. QED
      BY <3>2, <3>5 DEF FrameSound, Serving
  <2>3. QED
    BY <2>1, <2>2
<1>4. Len(stack') = 2 => stack'[1].pc \in TickPoints
  <2>1. Len(stack) = 2 => 1 \in 1 .. Len(stack) - 1
    OBVIOUS
  <2>2. QED
    BY <1>2, <2>1 DEF StackSound
<1>5. (Ps2Ready \/ HyperVReady)' /\ Len(stack') <= 2
  BY <1>1, <1>2 DEF FramesStay
<1>6. QED
  BY <1>2, <1>3, <1>4, <1>5 DEF StackSound

LEMMA PollFrame ==
    ASSUME platform \in {"ps2", "hyperv"}, platform' = platform, NEW d, NEW s,
           s = After(d) \/ s = FirstPoll
    PROVE  FrameSound(s)'
<1>0. IsFrame(s)
  <2>1. PICK pc, e : s = Step(pc, e)
    BY DEF After, FirstPoll
  <2>2. QED
    BY <2>1, StepIsFrame
<1>1. \/ s.pc = "pop"
      \/ /\ s.device \in {"keyboard", "mouse"}
         /\ s.pc = IF platform = "ps2" THEN "status" ELSE "poll"
  BY DEF After, FirstPoll, Step
<1>2. QED
  BY <1>1, <1>0 DEF FrameSound, Serving

-----------------------------------------------------------------------------
(* The actions of the step that leave the devices alone.                   *)

QueueMoves ==
    \/ queue' = queue
    \/ Pushed(queue, queue', TRUE)
    \/ queue.count > 0 /\ queue' = input_queue_pop(queue)

LEMMA StepParts ==
    ASSUME StepInv
    PROVE  /\ platform \in Platforms /\ platform \in {"ps2", "hyperv"}
           /\ BootInv /\ TypedRings /\ StackSound /\ WireSound /\ SetupSound /\ PersonSound
           /\ NothingYet /\ QueueSound(queue)
           /\ ready \in [DeviceSet -> BOOLEAN] /\ faults \in 0 .. Faults
  BY BootParts DEF StepInv

(* A step that changes the steps under way only, or the queue too.          *)
LEMMA OnlyTheStep ==
    ASSUME StepInv, UNCHANGED <<busVars, platform, setup, mouse, person, bytes, output>>,
           QueueSound(queue'), StackSound'
    PROVE  StepInv'
<1>1. /\ platform \in Platforms /\ platform \in {"ps2", "hyperv"}
      /\ BootInv /\ TypedRings /\ WireSound /\ SetupSound /\ PersonSound /\ NothingYet
      /\ ready \in [DeviceSet -> BOOLEAN] /\ faults \in 0 .. Faults
  BY StepParts
<1>2. /\ bus' = bus /\ boot' = boot /\ slot' = slot /\ host' = host /\ channel' = channel
      /\ faults' = faults /\ ready' = ready
  BY DEF busVars
<1>3. BootInv'
  BY <1>1, <1>2, QuietStep
<1>4. TypedRings' /\ NothingYet' /\ PersonSound' /\ SetupSound'
  BY <1>1, <1>2 DEF TypedRings, NothingYet, PersonSound, SetupSound, TypedRing
<1>5. WireSound'
  BY <1>1 DEF WireSound
<1>6. QED
  BY <1>1, <1>3, <1>4, <1>5 DEF StepInv

LEMMA StaysPut ==
    ASSUME UNCHANGED <<busVars, platform, setup, person>>
    PROVE  FramesStay
  BY DEF FramesStay, busVars, Ps2Ready, HyperVReady

LEMMA StartStepKeeps ==
    ASSUME StepInv, StartStep
    PROVE  StepInv' /\ QueueMoves
<1>1. /\ UNCHANGED <<busVars, platform, setup, mouse, person, bytes, output>> /\ queue' = queue
      /\ stack' = <<FirstPoll>> /\ (Ps2Ready \/ HyperVReady)
  BY DEF StartStep
<1>2. PICK s : s = FirstPoll
  OBVIOUS
<1>3. FrameSound(s)'
  BY <1>1, <1>2, StepParts, PollFrame
<1>4. IsSeq(stack') /\ Len(stack') = 1 /\ \A i \in 1 .. Len(stack') : stack'[i] = s
  BY <1>1, <1>2, SingleAnswer
<1>5. (Ps2Ready \/ HyperVReady)'
  BY <1>1, StaysPut DEF FramesStay
<1>6. \A i \in 1 .. Len(stack') : FrameSound(stack[i])'
  BY <1>3, <1>4 DEF FrameSound, Serving
<1>7. StackSound'
  BY <1>4, <1>5, <1>6 DEF StackSound
<1>8. QED
  BY <1>1, <1>7, StepParts, OnlyTheStep DEF QueueMoves

LEMMA TickKeeps ==
    ASSUME StepInv, runtime_tick
    PROVE  StepInv' /\ QueueMoves
<1>1. /\ UNCHANGED <<busVars, platform, setup, mouse, person, bytes, output>> /\ queue' = queue
      /\ stack' = Append(stack, FirstPoll) /\ Len(stack) = 1 /\ Top.pc \in TickPoints
  BY DEF runtime_tick
<1>2. PICK s : s = FirstPoll
  OBVIOUS
<1>3. FrameSound(s)'
  BY <1>1, <1>2, StepParts, PollFrame
<1>4. StackSound /\ IsSeq(stack) /\ stack # <<>>
  <2>1. StackSound /\ IsSeq(stack)
    BY StepParts DEF StackSound
  <2>2. stack = <<>> <=> Len(stack) = 0
    BY <2>1, SeqFacts
  <2>3. QED
    BY <1>1, <2>1, <2>2
<1>5. IsSeq(stack') /\ Len(stack') = 2 /\ stack'[1] = stack[1] /\ stack'[2] = s
  <2>1. 1 \in 1 .. Len(stack) /\ Len(stack) + 1 = 2
    BY <1>1
  <2>2. /\ IsSeq(Append(stack, s)) /\ Len(Append(stack, s)) = Len(stack) + 1
        /\ \A i \in 1 .. Len(stack) : Append(stack, s)[i] = stack[i]
        /\ Append(stack, s)[Len(stack) + 1] = s
    BY <1>4, AppendFacts
  <2>3. stack' = Append(stack, s)
    BY <1>1, <1>2
  <2>4. QED
    BY <2>1, <2>2, <2>3
<1>6. PICK t : t = stack[1] /\ FrameSound(t) /\ t.pc \in TickPoints
  BY <1>1, <1>4, TopFrame DEF Top
<1>7. FrameSound(t)'
  BY <1>1, <1>6, StaysPut, FrameStays
<1>8. \A i \in 1 .. Len(stack') : FrameSound(stack[i])'
  <2>1. \A i \in 1 .. Len(stack') : i = 1 \/ i = 2
    BY <1>5
  <2>2. FrameSound(stack[1])'
    BY <1>5, <1>6, <1>7 DEF FrameSound, Serving
  <2>3. FrameSound(stack[2])'
    BY <1>3, <1>5 DEF FrameSound, Serving
  <2>4. QED
    BY <2>1, <2>2, <2>3
<1>9. (Ps2Ready \/ HyperVReady)'
  BY <1>1, <1>4, TopFrame, StaysPut DEF FramesStay
<1>10. StackSound'
  BY <1>5, <1>6, <1>8, <1>9 DEF StackSound
<1>11. QED
  BY <1>1, <1>10, StepParts, OnlyTheStep DEF QueueMoves

LEMMA ReadStatusKeeps ==
    ASSUME StepInv, PortsReadTogether, ReadStatusPort
    PROVE  StepInv' /\ QueueMoves
<1>1. /\ UNCHANGED <<busVars, platform, setup, mouse, person, bytes, output>> /\ queue' = queue
      /\ stack # <<>> /\ Top.pc = "status"
      /\ Now(IF output.full /\ output.device = Top.device THEN Step("data", Top.device)
             ELSE After(Top.device))
  BY DEF ReadStatusPort, At
<1>2. StackSound /\ FrameSound(Top) /\ platform \in Platforms /\ platform \in {"ps2", "hyperv"}
  BY <1>1, StepParts, TopFrame
<1>3. PICK d : d = Top.device
  OBVIOUS
<1>4. PICK s : /\ Now(s)
               /\ \/ s = After(d)
                  \/ s = Step("data", d) /\ output.full /\ output.device = d
  BY <1>1, <1>3
<1>5. FrameSound(s)'
  <2>1. CASE s = After(d)
    BY <1>1, <1>2, <2>1, PollFrame
  <2>2. CASE s = Step("data", d) /\ output.full /\ output.device = d
    <3>1. s.pc = "data" /\ s.device = d /\ IsFrame(s)
      BY <2>2, StepIsFrame
    <3>2. d \in {"keyboard", "mouse"} /\ platform = "ps2"
      BY <1>1, <1>2, <1>3 DEF FrameSound
    <3>3. QED
      BY <1>1, <2>2, <3>1, <3>2 DEF FrameSound, Serving
  <2>3. QED
    BY <1>4, <2>1, <2>2
<1>6. FramesStay
  BY <1>1, StaysPut
<1>7. StackSound'
  BY <1>1, <1>2, <1>4, <1>5, <1>6, StackNow
<1>8. QED
  BY <1>1, <1>7, StepParts, OnlyTheStep DEF QueueMoves

LEMMA CopyKeeps ==
    ASSUME StepInv, PortsReadTogether, CopyPacket
    PROVE  StepInv' /\ QueueMoves
<1>1. /\ UNCHANGED <<busVars, platform, setup, mouse, person, bytes, output>> /\ queue' = queue
      /\ stack # <<>> /\ Top.pc = "copy"
  BY DEF CopyPacket, At
<1>2. StackSound /\ FrameSound(Top) /\ platform \in Platforms
  BY <1>1, StepParts, TopFrame
<1>3. PICK t : t = Top /\ FrameSound(t) /\ t.pc = "copy"
  BY <1>1, <1>2
<1>4. PICK p \in {t.packet, NoPacket} : Now([t EXCEPT !.pc = "publish", !.packet = p])
  <2>1. CopyPacket => \E in :
           Now([Top EXCEPT !.pc = "publish",
                           !.packet = IF IsWhole(in, Top.index, Top.packet) THEN @ ELSE NoPacket])
    BY DEF CopyPacket
  <2>2. PICK in :
           Now([t EXCEPT !.pc = "publish",
                         !.packet = IF IsWhole(in, t.index, t.packet) THEN @ ELSE NoPacket])
    BY <1>3, <2>1
  <2>3. CASE IsWhole(in, t.index, t.packet)
    BY <2>2, <2>3
  <2>4. CASE ~IsWhole(in, t.index, t.packet)
    BY <2>2, <2>4
  <2>5. QED
    BY <2>3, <2>4
<1>9. PICK s : s = [t EXCEPT !.pc = "publish", !.packet = p] /\ Now(s)
  BY <1>4
<1>5. FrameSound(s)'
  <2>1. IsFrame(t) /\ TypedPacket(NoPacket)
    BY <1>3, StepIsFrame DEF FrameSound
  <2>2. IsFrame(s) /\ s.pc = "publish" /\ s.device = t.device /\ s.packet = p /\ s.index = t.index
    <3>1. GoesWith(s, t, "publish", p)
      BY <1>9 DEF GoesWith
    <3>2. QED
      BY <2>1, <3>1, FrameWith
  <2>3. TypedPacket(p)
    BY <1>3, <2>1 DEF FrameSound, Serving
  <2>4. /\ t.device \in {"keyboard", "mouse"} /\ platform = "hyperv" /\ t.index \in 0 .. RingUnits - 1
        /\ person.reports[t.device] > 0 /\ channel[t.device].open
    BY <1>3 DEF FrameSound, Serving
  <2>5. person' = person /\ channel' = channel /\ platform' = platform
    BY <1>1 DEF busVars
  <2>6. QED
    BY <2>2, <2>3, <2>4, <2>5 DEF FrameSound, Serving
<1>6. FramesStay
  BY <1>1, StaysPut
<1>7. StackSound'
  BY <1>1, <1>2, <1>9, <1>5, <1>6, StackNow
<1>8. QED
  BY <1>1, <1>7, StepParts, OnlyTheStep DEF QueueMoves

LEMMA TakeEventKeeps ==
    ASSUME StepInv, TakeEvent
    PROVE  StepInv' /\ QueueMoves
<1>1. /\ UNCHANGED <<busVars, platform, setup, mouse, person, bytes, output>>
      /\ stack # <<>> /\ FramesStay
  BY StaysPut DEF TakeEvent, At
<1>2. StackSound /\ QueueSound(queue)
  BY StepParts
<1>3. CASE queue.count > 0 /\ queue' = input_queue_pop(queue) /\ stack' = stack
  <2>1. QueueSound(queue')
    BY <1>2, <1>3, PopFacts
  <2>2. StackSound'
    BY <1>1, <1>2, <1>3, StackRests
  <2>3. QED
    BY <1>1, <1>3, <2>1, <2>2, OnlyTheStep DEF QueueMoves
<1>4. CASE queue.count = 0 /\ stack' = SubSeq(stack, 1, Len(stack) - 1) /\ queue' = queue
  <2>1. IsSeq(stack) /\ Len(stack) \in 1 .. 2 /\ (Ps2Ready \/ HyperVReady)
    BY <1>1, <1>2, TopFrame
  <2>2. PICK S : stack \in Seq(S)
    BY <2>1 DEF IsSeq
  <2>3. CASE Len(stack) = 1
    <3>1. stack' = <<>>
      BY <1>4, <2>2, <2>3
    <3>2. IsSeq(stack') /\ Len(stack') = 0
      BY <3>1 DEF IsSeq
    <3>3. QED
      BY <1>1, <1>2, <1>4, <3>1, <3>2, OnlyTheStep DEF StackSound, QueueMoves
  <2>4. CASE Len(stack) = 2
    <3>1. stack' = SubSeq(stack, 1, 1) /\ 1 \in 1 .. Len(stack)
      BY <1>4, <2>4
    <3>2. PICK t : t = stack[1] /\ FrameSound(t)
      BY <1>2, <3>1 DEF StackSound
    <3>3. IsSeq(stack') /\ Len(stack') = 1 /\ \A i \in 1 .. Len(stack') : stack'[i] = t
      <4>1. PICK u : u = SubSeq(stack, 1, 1)
        OBVIOUS
      <4>2. u \in Seq(S) /\ Len(u) = 1 /\ u[1] = stack[1]
        BY <2>2, <2>4, <4>1
      <4>3. QED
        BY <3>1, <3>2, <4>1, <4>2 DEF IsSeq
    <3>4. FrameSound(t)'
      BY <1>1, <3>2, FrameStays
    <3>5. \A i \in 1 .. Len(stack') : FrameSound(stack[i])'
      BY <3>3, <3>4 DEF FrameSound, Serving
    <3>6. (Ps2Ready \/ HyperVReady)'
      BY <1>1, <2>1 DEF FramesStay
    <3>7. StackSound'
      BY <3>3, <3>5, <3>6 DEF StackSound
    <3>8. QED
      BY <1>1, <1>2, <1>4, <3>7, OnlyTheStep DEF QueueMoves
  <2>5. QED
    BY <2>1, <2>3, <2>4
<1>5. QED
  BY <1>3, <1>4 DEF TakeEvent

-----------------------------------------------------------------------------
(* The PS/2 side.                                                          *)

(* A step in which only bytes, events and the steps under way move.         *)
LEMMA WireStep ==
    ASSUME StepInv, UNCHANGED <<busVars, platform, setup, person>>,
           WireSound', QueueSound(queue'), StackSound'
    PROVE  StepInv'
<1>1. /\ platform \in Platforms /\ platform \in {"ps2", "hyperv"}
      /\ BootInv /\ TypedRings /\ SetupSound /\ PersonSound /\ NothingYet
      /\ ready \in [DeviceSet -> BOOLEAN] /\ faults \in 0 .. Faults
  BY StepParts
<1>2. /\ bus' = bus /\ boot' = boot /\ slot' = slot /\ host' = host /\ channel' = channel
      /\ faults' = faults /\ ready' = ready
  BY DEF busVars
<1>3. BootInv'
  BY <1>1, <1>2, QuietStep
<1>4. TypedRings' /\ NothingYet' /\ PersonSound' /\ SetupSound'
  BY <1>1, <1>2 DEF TypedRings, NothingYet, PersonSound, SetupSound, TypedRing
<1>5. QED
  BY <1>1, <1>3, <1>4 DEF StepInv

LEMMA LoadKeeps ==
    ASSUME StepInv, ControllerLoads
    PROVE  StepInv' /\ QueueMoves
<1>1. /\ UNCHANGED <<busVars, platform, setup, mouse, queue, person, stack>> /\ ~output.full
  BY DEF ControllerLoads
<1>2. PICK d \in {"keyboard", "mouse"} :
         /\ bytes[d] # <<>>
         /\ output' = [full |-> TRUE, device |-> d, byte |-> Head(bytes[d])]
         /\ bytes' = [bytes EXCEPT ![d] = Tail(@)]
  BY DeviceNames DEF ControllerLoads
<1>3. WireSound /\ StackSound /\ QueueSound(queue)
  BY StepParts
<1>4. StackSound'
  BY <1>1, <1>3, StaysPut, StackRests
<1>5. PICK S : bytes \in [{"keyboard", "mouse"} -> Seq(S)]
  BY <1>3 DEF WireSound
<1>6. bytes["mouse"] \in Seq(MouseBytes)
  BY <1>3 DEF WireSound
<1>7. bytes[d] \in Seq(S) /\ Tail(bytes[d]) \in Seq(S) /\ Head(bytes[d]) \in S
  BY <1>2, <1>5
<1>8. d = "mouse" => Tail(bytes[d]) \in Seq(MouseBytes) /\ Head(bytes[d]) \in MouseBytes
  BY <1>2, <1>6
<1>9. bytes' \in [{"keyboard", "mouse"} -> Seq(S)]
  BY <1>2, <1>5, <1>7
<1>10. bytes'["mouse"] \in Seq(MouseBytes)
  BY <1>2, <1>5, <1>6, <1>8
<1>11. /\ output' \in [full : BOOLEAN, device : {"keyboard", "mouse"}, byte : S]
       /\ output'.device = "mouse" => output'.byte \in MouseBytes
  BY <1>2, <1>7, <1>8
<1>12. platform' = "ps2" =>
          \E T : mouse' \in [packet : Seq(MouseBytes), left : T] /\ Len(mouse'.packet) < 3
  BY <1>1, <1>3 DEF WireSound
<1>13. WireSound'
  <2>1. \E T : bytes' \in [{"keyboard", "mouse"} -> Seq(T)]
    BY <1>9
  <2>2. \E T : output' \in [full : BOOLEAN, device : {"keyboard", "mouse"}, byte : T]
    BY <1>11
  <2>3. QED
    BY <1>10, <1>11, <1>12, <2>1, <2>2 DEF WireSound, MouseBytes
<1>14. QED
  BY <1>1, <1>3, <1>4, <1>13, WireStep DEF QueueMoves

LEMMA CommandKeeps ==
    ASSUME StepInv, Ps2Command
    PROVE  StepInv' /\ QueueMoves
<1>1. /\ UNCHANGED <<bus, channel, ready, boot, slot, host>>
      /\ UNCHANGED <<platform, mouse, queue, person, bytes, output, stack>>
      /\ platform = "ps2" /\ setup.command \in 1 .. 16
  BY ScriptLength DEF Ps2Command
<1>2. /\ platform \in Platforms /\ platform \in {"ps2", "hyperv"}
      /\ BootInv /\ TypedRings /\ StackSound /\ WireSound /\ SetupSound /\ PersonSound
      /\ NothingYet /\ QueueSound(queue)
      /\ ready \in [DeviceSet -> BOOLEAN] /\ faults \in 0 .. Faults
  BY StepParts
<1>3. PICK n \in 1 .. 16, c \in Controllers : /\ n = setup.command /\ c = setup.controller
                                             /\ SetupAt(n, c) /\ setup.attempts \in Nat
  BY <1>1, <1>2 DEF SetupSound
<1>4. /\ faults' \in 0 .. Faults
      /\ \/ setup' = [command |-> n + 1, attempts |-> 0, controller |-> Obeyed(c, Script[n].does)]
         \/ setup' = [setup EXCEPT !.command = 0]
         \/ setup' = [setup EXCEPT !.attempts = @ + 1,
                                   !.command = IF setup.attempts = 2 THEN 0 ELSE @]
  BY <1>2, <1>3, FaultFacts DEF Ps2Command
<1>5. SetupSound'
  <2>1. CASE setup' = [command |-> n + 1, attempts |-> 0, controller |-> Obeyed(c, Script[n].does)]
    <3>1. PICK d \in Controllers : d = Obeyed(c, Script[n].does) /\ SetupAt(n + 1, d)
      BY <1>3, ScriptSteps
    <3>2. setup' = [command |-> n + 1, attempts |-> 0, controller |-> d] /\ n + 1 \in 0 .. 17
      BY <2>1, <3>1
    <3>3. QED
      BY <3>1, <3>2 DEF SetupSound
  <2>2. CASE setup' = [setup EXCEPT !.command = 0]
    <3>1. /\ setup' \in [command : 0 .. 17, attempts : Nat, controller : Controllers]
          /\ setup'.command = 0
      BY <1>2, <2>2 DEF SetupSound
    <3>2. QED
      BY <3>1 DEF SetupSound, SetupAt
  <2>3. CASE setup' = [setup EXCEPT !.attempts = @ + 1,
                                    !.command = IF setup.attempts = 2 THEN 0 ELSE @]
    <3>1. PICK a \in Nat, m \in {0, n} : setup' = [setup EXCEPT !.attempts = a, !.command = m]
      <4>1. PICK a \in Nat : a = setup.attempts + 1
        BY <1>3
      <4>2. PICK m \in {0, n} : m = IF setup.attempts = 2 THEN 0 ELSE setup.command
        BY <1>3
      <4>3. setup' = [setup EXCEPT !.attempts = a, !.command = m]
        BY <1>2, <2>3, <4>1, <4>2 DEF SetupSound
      <4>4. QED
        BY <4>3
    <3>2. m \in 0 .. 17
      OBVIOUS
    <3>3. /\ setup' \in [command : 0 .. 17, attempts : Nat, controller : Controllers]
          /\ setup'.command = m /\ setup'.controller = c
      BY <1>2, <1>3, <3>1, <3>2 DEF SetupSound
    <3>4. SetupAt(m, c)
      BY <1>3 DEF SetupAt
    <3>5. QED
      BY <3>3, <3>4 DEF SetupSound
  <2>4. QED
    BY <1>4, <2>1, <2>2, <2>3
<1>6. BootInv'
  BY <1>1, <1>2, <1>4, QuietStep
<1>7. stack = <<>>
  <2>1. ~Ps2Ready /\ ~HyperVReady
    BY <1>1, ScriptLength DEF Ps2Ready, HyperVReady
  <2>2. QED
    BY <1>2, <2>1 DEF StackSound
<1>8. StackSound'
  <2>1. stack' = <<>> /\ Len(stack') = 0 /\ IsSeq(stack')
    BY <1>1, <1>2, <1>7 DEF StackSound
  <2>2. QED
    BY <2>1 DEF StackSound
<1>9. TypedRings' /\ NothingYet' /\ PersonSound'
  BY <1>1, <1>2 DEF TypedRings, NothingYet, PersonSound, TypedRing
<1>10. WireSound'
  BY <1>1, <1>2 DEF WireSound
<1>11. QED
  BY <1>1, <1>2, <1>5, <1>6, <1>8, <1>9, <1>10 DEF StepInv, QueueMoves

(* What a byte of the keyboard adds to the queue.                           *)
LEMMA KeyByteFacts ==
    ASSUME NEW k, NEW q, QueueSound(q), NEW byte
    PROVE  Pushed(q, ps2_keyboard_handle_byte(k, q, byte).queue, TRUE)
<1> DEFINE d == Decoded(k, byte)
           e == [kind |-> "key", key |-> byte, flags |-> Flags(d.keyboard, k.break, d.repeat)]
           new == ps2_keyboard_handle_byte(k, q, byte).queue
<1>1. new = q \/ new = input_queue_push(q, e).queue
  BY DEF ps2_keyboard_handle_byte, input_emit_key
<1>2. Pushed(q, q, TRUE)
  BY PushedNone
<1>3. Honest(e, TRUE)
  BY DEF Honest
<1> HIDE DEF e, new
<1>4. Pushed(q, input_queue_push(q, e).queue, TRUE)
  BY <1>3, PushFacts
<1>5. Pushed(q, new, TRUE)
  BY <1>1, <1>2, <1>4
<1>6. QED
  BY <1>5 DEF new

(* A mouse that has fewer than three bytes of a packet.                     *)
MouseSound(m) == \E S : m \in [packet : Seq(MouseBytes), left : S] /\ Len(m.packet) < 3

LEMMA MouseByteFacts ==
    ASSUME NEW m, MouseSound(m), NEW q, QueueSound(q), NEW byte \in MouseBytes, NEW b
    PROVE  /\ MouseSound(ps2_mouse_handle_byte(m, q, byte).mouse)
           /\ Pushed(q, ps2_mouse_handle_byte(m, q, byte).queue, b)
<1>1. PICK S : m \in [packet : Seq(MouseBytes), left : S] /\ Len(m.packet) < 3
  BY DEF MouseSound
<1>2. PICK packet : packet = Append(m.packet, byte)
  OBVIOUS
<1>3. packet \in Seq(MouseBytes) /\ Len(packet) = Len(m.packet) + 1 /\ Len(packet) \in 1 .. 3
  BY <1>1, <1>2
<1>4. PICK r : r = ps2_mouse_handle_byte(m, q, byte)
  OBVIOUS
<1>5. CASE m.packet = <<>> /\ ~byte.sync
  <2>1. r.mouse = m /\ r.queue = q
    BY <1>4, <1>5 DEF ps2_mouse_handle_byte
  <2>2. QED
    BY <1>4, <2>1, PushedNone
<1>6. CASE (m.packet # <<>> \/ byte.sync) /\ Len(packet) < 3
  <2>1. r.mouse = [m EXCEPT !.packet = packet] /\ r.queue = q
    BY <1>2, <1>4, <1>6 DEF ps2_mouse_handle_byte
  <2>2. r.mouse \in [packet : Seq(MouseBytes), left : S] /\ r.mouse.packet = packet
    BY <1>1, <1>3, <2>1
  <2>3. MouseSound(r.mouse)
    BY <1>6, <2>2 DEF MouseSound
  <2>4. QED
    BY <1>4, <2>1, <2>3, PushedNone
<1>7. CASE (m.packet # <<>> \/ byte.sync) /\ ~(Len(packet) < 3)
  <2>1. PICK a \in MouseBytes, x \in MouseBytes, y \in MouseBytes :
           a = packet[1] /\ x = packet[2] /\ y = packet[3]
    BY <1>3, <1>7
  <2>2. PICK dx \in Int, dy \in Int : /\ dx = IF a.overflow THEN 0 ELSE x.value
                                      /\ dy = IF a.overflow THEN 0 ELSE -y.value
    BY DEF MouseBytes
  <2>3. /\ r.mouse = [packet |-> <<>>, left |-> a.left]
        /\ r.queue = MoveAndButton(q, dx, dy, m.left, a.left).queue
    BY <1>2, <1>4, <1>7, <2>1, <2>2 DEF ps2_mouse_handle_byte
  <2>4. MouseSound(r.mouse)
    <3>1. <<>> \in Seq(MouseBytes) /\ Len(<<>>) < 3
      OBVIOUS
    <3>2. PICK l : l = a.left
      OBVIOUS
    <3>3. r.mouse \in [packet : Seq(MouseBytes), left : {l}] /\ Len(r.mouse.packet) < 3
      BY <2>3, <3>1, <3>2
    <3>4. QED
      BY <3>3 DEF MouseSound
  <2>5. Pushed(q, r.queue, b)
    BY <2>3, MoveAndButtonFacts
  <2>6. QED
    BY <1>4, <2>4, <2>5
<1>8. QED
  BY <1>5, <1>6, <1>7

LEMMA ReadDataKeeps ==
    ASSUME StepInv, PortsReadTogether, ReadDataPort
    PROVE  StepInv' /\ QueueMoves
<1>1. /\ UNCHANGED <<busVars, platform, setup, person, bytes>>
      /\ stack # <<>> /\ Top.pc = "data" /\ output' = [output EXCEPT !.full = FALSE]
      /\ Now(After(Top.device))
  BY DEF ReadDataPort, At
<1>2. /\ StackSound /\ FrameSound(Top) /\ platform \in Platforms /\ platform \in {"ps2", "hyperv"}
      /\ WireSound /\ QueueSound(queue)
  BY <1>1, StepParts, TopFrame
<1>3. platform = "ps2" /\ output.device = Top.device /\ Top.device \in {"keyboard", "mouse"}
  BY <1>1, <1>2 DEF FrameSound
<1>4. PICK s : s = After(Top.device)
  OBVIOUS
<1>5. Now(s) /\ FrameSound(s)'
  BY <1>1, <1>2, <1>4, PollFrame
<1>6. StackSound'
  BY <1>1, <1>2, <1>5, StaysPut, StackNow
<1>7. MouseSound(mouse)
  BY <1>2, <1>3 DEF WireSound, MouseSound
<1>8. MouseSound(mouse') /\ Pushed(queue, queue', TRUE)
  <2>1. CASE Top.device = "keyboard"
    <3>1. queue' = ps2_keyboard_handle_byte(keyboard, queue, output.byte).queue /\ mouse' = mouse
      BY <2>1 DEF ReadDataPort
    <3>2. QED
      BY <1>2, <1>7, <3>1, KeyByteFacts
  <2>2. CASE Top.device = "mouse"
    <3>1. /\ queue' = ps2_mouse_handle_byte(mouse, queue, output.byte).queue
          /\ mouse' = ps2_mouse_handle_byte(mouse, queue, output.byte).mouse
      BY <2>2 DEF ReadDataPort
    <3>2. output.byte \in MouseBytes
      BY <1>2, <1>3, <2>2 DEF WireSound
    <3>3. QED
      BY <1>2, <1>7, <3>1, <3>2, MouseByteFacts
  <2>3. QED
    BY <1>3, <2>1, <2>2
<1>9. QueueSound(queue')
  BY <1>8 DEF Pushed
<1>10. WireSound'
  <2>1. PICK S : output \in [full : BOOLEAN, device : {"keyboard", "mouse"}, byte : S]
    BY <1>2 DEF WireSound
  <2>2. /\ output' \in [full : BOOLEAN, device : {"keyboard", "mouse"}, byte : S]
        /\ output'.device = output.device /\ output'.byte = output.byte
    BY <1>1, <2>1
  <2>3. \E T : output' \in [full : BOOLEAN, device : {"keyboard", "mouse"}, byte : T]
    BY <2>2
  <2>4. output'.device = "mouse" => output'.byte \in MouseBytes
    BY <1>2, <2>2 DEF WireSound
  <2>5. \E T : mouse' \in [packet : Seq(MouseBytes), left : T] /\ Len(mouse'.packet) < 3
    BY <1>8 DEF MouseSound
  <2>6. /\ \E T : bytes' \in [{"keyboard", "mouse"} -> Seq(T)]
        /\ bytes'["mouse"] \in Seq(MouseBytes)
    BY <1>1, <1>2 DEF WireSound
  <2>7. QED
    BY <2>3, <2>4, <2>5, <2>6 DEF WireSound, MouseBytes
<1>11. QED
  BY <1>1, <1>6, <1>8, <1>9, <1>10, WireStep DEF QueueMoves

-----------------------------------------------------------------------------
(* The Hyper-V side.                                                       *)

LEMMA ReadyFacts ==
    ASSUME BootInv, boot.pc = "done", NEW d \in DeviceSet
    PROVE  /\ ChannelSound(channel[d]) /\ RingSound(channel[d].in)
           /\ ready[d] => channel[d].open
           /\ ready[d] /\ person.reports[d] = 0 =>
                 ReadStatus(channel[d].in, RingUnits) = "WOULD_BLOCK"
           /\ host.approved[d] => channel[d].open
<1>1. ChannelSound(channel[d]) /\ RingSound(channel[d].in) /\ ChannelAgreed(d)
  BY BootParts, ChannelFields
<1>2. ready[d] => channel[d].open
  BY <1>1 DEF ChannelAgreed
<1>4. host.approved[d] => channel[d].open
  BY <1>1 DEF ChannelAgreed
<1>3. ASSUME ready[d], person.reports[d] = 0
      PROVE  ReadStatus(channel[d].in, RingUnits) = "WOULD_BLOCK"
  <2>1. Empty(channel[d].in)
    BY <1>1, <1>2, <1>3 DEF ChannelAgreed, Unanswered, Answered, Finished
  <2>2. QED
    BY <1>1, <2>1, EmptyRead
<1>5. QED
  BY <1>1, <1>2, <1>3, <1>4

(* What is read is a packet the host wrote.                                 *)
LEMMA ReadPacket ==
    ASSUME NEW r, RingSound(r), TypedRing(r), NEW c, ReadStatus(r, c) = "OK"
    PROVE  TypedPacket(PacketAt(r)) /\ r.read \in 0 .. RingUnits - 1
<1>1. r.read \in 0 .. RingUnits - 1
  BY RingFields
<1>2. r.data[r.read] # NoUnit
  BY DEF ReadStatus
<1>3. TypedUnit(r.data[r.read])
  BY <1>1 DEF TypedRing
<1>4. QED
  BY <1>1, <1>2, <1>3 DEF TypedUnit, PacketAt

(* A step that may give up a device, and changes nothing the host sees.     *)
LEMMA DriverStep ==
    ASSUME StepInv, UNCHANGED <<bus, channel, boot, slot, host>>,
           UNCHANGED <<platform, setup, person, bytes, output>>,
           platform = "hyperv", faults' \in 0 .. Faults, ready' \in [DeviceSet -> BOOLEAN],
           \A d \in DeviceSet : ready'[d] => ready[d],
           QueueSound(queue'), StackSound'
    PROVE  StepInv'
<1>1. /\ platform \in Platforms /\ platform \in {"ps2", "hyperv"}
      /\ BootInv /\ TypedRings /\ WireSound /\ SetupSound /\ PersonSound /\ NothingYet
  BY StepParts
<1>3. BootInv'
  BY <1>1, QuietStep
<1>4. TypedRings' /\ NothingYet' /\ PersonSound' /\ SetupSound'
  BY <1>1 DEF TypedRings, NothingYet, PersonSound, SetupSound, TypedRing
<1>5. WireSound'
  BY <1>1 DEF WireSound
<1>6. QED
  BY <1>1, <1>3, <1>4, <1>5 DEF StepInv

LEMMA DriverStays ==
    ASSUME UNCHANGED <<channel, boot, platform, setup, person>>
    PROVE  FramesStay
  BY DEF FramesStay, Ps2Ready, HyperVReady

LEMMA PollKeeps ==
    ASSUME StepInv, PortsReadTogether, HyperVPoll
    PROVE  StepInv' /\ QueueMoves
<1>1. /\ UNCHANGED <<bus, channel, boot, slot, host, faults>>
      /\ UNCHANGED <<platform, setup, mouse, queue, person, bytes, output>>
      /\ stack # <<>> /\ Top.pc = "poll"
  BY DEF HyperVPoll, At
<1>2. /\ StackSound /\ FrameSound(Top) /\ platform \in Platforms /\ platform \in {"ps2", "hyperv"}
      /\ BootInv /\ TypedRings /\ QueueSound(queue) /\ (Ps2Ready \/ HyperVReady) /\ PersonSound
      /\ ready \in [DeviceSet -> BOOLEAN] /\ faults \in 0 .. Faults
  BY <1>1, StepParts, TopFrame
<1>3. PICK d \in {"keyboard", "mouse"} : d = Top.device
  BY <1>1, <1>2 DEF FrameSound
<1>4. platform = "hyperv" /\ boot.pc = "done" /\ d \in DeviceSet
  BY <1>1, <1>2, DeviceNames DEF FrameSound, Ps2Ready, HyperVReady
<1>5. PICK in : in = channel[d].in
  OBVIOUS
<1>6. RingSound(in) /\ TypedRing(in) /\ (ready[d] => channel[d].open)
      /\ (ready[d] /\ person.reports[d] = 0 => ReadStatus(in, RingUnits) = "WOULD_BLOCK")
  BY <1>2, <1>4, <1>5, ReadyFacts DEF TypedRings
<1>7. PICK s : Now(s) /\ FrameSound(s)'
  <2>1. CASE ready[d] /\ ReadStatus(in, RingUnits) = "OK"
    <3>1. Now([Step("copy", d) EXCEPT !.packet = PacketAt(in), !.index = in.read])
      BY <1>3, <1>5, <2>1 DEF HyperVPoll
    <3>2. PICK t : t = Step("copy", d)
      OBVIOUS
    <3>3. PICK s : s = [t EXCEPT !.packet = PacketAt(in), !.index = in.read] /\ Now(s)
      BY <3>1, <3>2
    <3>4. IsFrame(t) /\ t.pc = "copy" /\ t.device = d
      BY <3>2, StepIsFrame
    <3>5. Holds(s, t, PacketAt(in), in.read)
      BY <3>3 DEF Holds
    <3>6. IsFrame(s) /\ s.pc = "copy" /\ s.device = d /\ s.packet = PacketAt(in) /\ s.index = in.read
      BY <3>4, <3>5, FrameWith
    <3>7. TypedPacket(s.packet) /\ s.index \in 0 .. RingUnits - 1
      BY <1>6, <2>1, <3>6, ReadPacket
    <3>8. person.reports[d] > 0 /\ channel[d].open
      <4>1. person.reports[d] # 0 /\ channel[d].open
        BY <1>6, <2>1
      <4>2. person.reports[d] \in Nat
        BY <1>2, <1>4, PersonFields
      <4>3. QED
        BY <4>1, <4>2
    <3>9. FrameSound(s)'
      BY <1>1, <1>4, <3>6, <3>7, <3>8 DEF FrameSound, Serving
    <3>10. QED
      BY <3>3, <3>9
  <2>2. CASE ~(ready[d] /\ ReadStatus(in, RingUnits) = "OK")
    <3>1. Now(After(d))
      BY <1>3, <1>5, <2>2 DEF HyperVPoll
    <3>2. PICK s : s = After(d) /\ Now(s)
      BY <3>1
    <3>3. FrameSound(s)'
      BY <1>1, <1>2, <3>2, PollFrame
    <3>4. QED
      BY <3>2, <3>3
  <2>3. QED
    BY <2>1, <2>2
<1>8. StackSound'
  BY <1>1, <1>2, <1>7, DriverStays, StackNow
<1>9. ready' \in [DeviceSet -> BOOLEAN] /\ \A e \in DeviceSet : ready'[e] => ready[e]
  <2>1. PICK b \in BOOLEAN : ready' = ready \/ ready' = [ready EXCEPT ![d] = @ /\ b]
    BY <1>3 DEF HyperVPoll
  <2>2. QED
    BY <1>2, <1>4, <2>1
<1>10. QED
  BY <1>1, <1>2, <1>4, <1>8, <1>9, DriverStep DEF QueueMoves

(* The ring of a device moves on, after boot.                               *)
LEMMA RingMoves ==
    ASSUME StepInv, platform = "hyperv", boot.pc = "done",
           UNCHANGED <<bus, ready, boot, slot, host, faults>>,
           UNCHANGED <<platform, setup, mouse, bytes, output>>,
           NEW e \in DeviceSet, channel[e].open, NEW r, RingSound(r), TypedRing(r),
           channel' = [channel EXCEPT ![e].in = r],
           PersonSound', person'.reports[e] # 0,
           \A d \in DeviceSet : person'.reports[d] = 0 => person.reports[d] = 0
    PROVE  FramesStay /\ (StackSound' /\ QueueSound(queue') => StepInv')
<1>1. /\ platform \in Platforms /\ platform \in {"ps2", "hyperv"}
      /\ BootInv /\ TypedRings /\ WireSound /\ SetupSound /\ PersonSound /\ NothingYet
  BY StepParts
<1>2. /\ BootInv' /\ channel'[e].in = r /\ channel'[e].open
      /\ \A d \in DeviceSet : d # e => channel'[d] = channel[d]
  BY <1>1, RingStep
<1>3. \A d \in {"keyboard", "mouse"} : TypedRing(channel'[d].in)
  BY <1>1, <1>2, DeviceNames DEF TypedRings
<1>4. TypedRings'
  BY <1>3 DEF TypedRings, TypedRing
<1>5. FramesStay
  <2>1. \A d \in {"keyboard", "mouse"} : person.reports[d] \in Nat /\ person'.reports[d] \in Nat
    <3>1. \A d \in DeviceSet : person.reports[d] \in Nat
      BY <1>1, PersonFields
    <3>2. person'.reports \in [{"keyboard", "mouse"} -> Nat]
      BY DEF PersonSound
    <3>3. QED
      BY <3>1, <3>2, DeviceNames
  <2>2. \A d \in {"keyboard", "mouse"} : person.reports[d] > 0 => person'.reports[d] > 0
    BY <2>1, DeviceNames
  <2>3. \A d \in {"keyboard", "mouse"} : channel[d].open => channel'[d].open
    BY <1>2, DeviceNames
  <2>4. QED
    BY <2>2, <2>3 DEF FramesStay, Ps2Ready, HyperVReady
<1>6. NothingYet' /\ SetupSound'
  BY <1>1 DEF NothingYet, SetupSound
<1>7. WireSound'
  BY <1>1 DEF WireSound
<1>8. QED
  BY <1>1, <1>2, <1>4, <1>5, <1>6, <1>7 DEF StepInv

LEMMA PublishKeeps ==
    ASSUME StepInv, PortsReadTogether, PublishRead
    PROVE  StepInv' /\ QueueMoves
<1>1. /\ UNCHANGED <<bus, ready, boot, slot, host, faults>>
      /\ UNCHANGED <<platform, setup, mouse, queue, person, bytes, output>>
      /\ stack # <<>> /\ Top.pc = "publish"
      /\ channel' = [channel EXCEPT ![Top.device].in.read = AfterPacket(Top.index, Top.packet)]
      /\ Now([Top EXCEPT !.pc = "handle"])
  BY DEF PublishRead, At
<1>2. /\ StackSound /\ FrameSound(Top) /\ platform \in Platforms /\ BootInv /\ TypedRings
      /\ QueueSound(queue) /\ (Ps2Ready \/ HyperVReady) /\ PersonSound
  BY <1>1, StepParts, TopFrame
<1>3. PICK t : t = Top /\ FrameSound(t) /\ t.pc = "publish"
  BY <1>1, <1>2
<1>4. /\ t.device \in {"keyboard", "mouse"} /\ platform = "hyperv" /\ IsFrame(t)
      /\ TypedPacket(t.packet) /\ t.index \in 0 .. RingUnits - 1
      /\ person.reports[t.device] > 0 /\ channel[t.device].open
  BY <1>3 DEF FrameSound, Serving
<1>5. PICK d \in DeviceSet : d = t.device
  BY <1>4, DeviceNames
<1>6. boot.pc = "done"
  BY <1>2, <1>4 DEF Ps2Ready, HyperVReady
<1>7. PICK a \in 0 .. RingUnits - 1 : a = AfterPacket(t.index, t.packet)
  <2>1. PacketUnits(t.packet) \in Nat
    BY <1>4, Units DEF TypedPacket
  <2>2. RingUnits \in Nat \ {0}
    BY HvRingAssumption DEF DescriptorUnits, TrailerUnits
  <2>3. t.index + PacketUnits(t.packet) \in Nat
    BY <1>4, <2>1, <2>2
  <2>4. (t.index + PacketUnits(t.packet)) % RingUnits \in 0 .. RingUnits - 1
    BY <2>2, <2>3
  <2>5. QED
    BY <2>4 DEF AfterPacket, ring_advance
<1>8. PICK old : old = channel[d].in
  OBVIOUS
<1>9. PICK r : r = [old EXCEPT !.read = a]
  OBVIOUS
<1>10. RingSound(old) /\ TypedRing(old)
  BY <1>2, <1>4, <1>5, <1>6, <1>8, ReadyFacts DEF TypedRings
<1>11. RingSound(r) /\ r.data = old.data
  <2>1. PICK units : old \in Rings(units)
    BY <1>10 DEF RingSound
  <2>2. r \in Rings(units) /\ r.data = old.data
    BY <1>9, <2>1 DEF Rings
  <2>3. QED
    BY <2>2 DEF RingSound
<1>12. TypedRing(r)
  BY <1>10, <1>11 DEF TypedRing
<1>13. channel' = [channel EXCEPT ![d].in = r]
  <2>1. channel' = [channel EXCEPT ![d].in.read = a]
    BY <1>1, <1>3, <1>5, <1>7
  <2>2. channel = [x \in DeviceSet |-> channel[x]] /\ ChannelSound(channel[d])
    BY <1>2, BootParts DEF ChannelsSound
  <2>3. QED
    BY <1>8, <1>9, <2>1, <2>2
<1>14. person'.reports[d] # 0
  <2>1. person.reports[d] > 0 /\ person.reports[d] \in Nat
    BY <1>2, <1>4, <1>5, PersonFields
  <2>2. QED
    BY <1>1, <2>1
<1>15. PersonSound'
  BY <1>1, <1>2 DEF PersonSound
<1>16. FramesStay /\ (StackSound' /\ QueueSound(queue') => StepInv')
  BY <1>1, <1>4, <1>5, <1>6, <1>11, <1>12, <1>13, <1>14, <1>15, RingMoves
<1>17. PICK s : Now(s) /\ GoesTo(s, t, "handle")
  BY <1>1, <1>3 DEF GoesTo
<1>18. IsFrame(s) /\ s.pc = "handle" /\ s.device = t.device /\ s.packet = t.packet /\ s.index = t.index
  BY <1>4, <1>17, FrameWith
<1>19. FrameSound(s)'
  <2>1. person'.reports[t.device] > 0 /\ channel'[t.device].open /\ platform' = "hyperv"
    BY <1>1, <1>4, <1>16 DEF FramesStay
  <2>2. QED
    BY <1>4, <1>18, <2>1 DEF FrameSound, Serving
<1>20. StackSound'
  BY <1>1, <1>2, <1>16, <1>17, <1>19, StackNow
<1>21. QED
  BY <1>1, <1>2, <1>16, <1>20 DEF QueueMoves

(* What a packet adds to the queue.                                         *)
LEMMA OutcomeFacts ==
    ASSUME NEW p, TypedPacket(p), QueueSound(queue), NEW r \in Outcomes(p),
           NEW b, p.kind = "event" => b
    PROVE  Pushed(queue, r.queue, b) /\ (r.status = "IO" => faults > 0)
<1>1. CASE p.kind = "event"
  <2>1. r = hyperv_keyboard_handle_event(keyboard, queue, p)
    BY <1>1 DEF Outcomes
  <2>2. \/ r.queue = queue /\ r.status \in {"INVALID_ARGUMENT", "NOT_SUPPORTED"}
        \/ \E flags : /\ r.queue = input_emit_key(queue, p.key, flags).queue
                      /\ r.status = input_emit_key(queue, p.key, flags).status
    BY <2>1 DEF hyperv_keyboard_handle_event
  <2>3. CASE r.queue = queue /\ r.status \in {"INVALID_ARGUMENT", "NOT_SUPPORTED"}
    BY <2>3, PushedNone
  <2>4. CASE \E flags : /\ r.queue = input_emit_key(queue, p.key, flags).queue
                        /\ r.status = input_emit_key(queue, p.key, flags).status
    <3>1. PICK flags : /\ r.queue = input_emit_key(queue, p.key, flags).queue
                       /\ r.status = input_emit_key(queue, p.key, flags).status
      BY <2>4
    <3>2. PICK e : e = [kind |-> "key", key |-> p.key, flags |-> flags]
      OBVIOUS
    <3>3. r.queue = input_queue_push(queue, e).queue /\ r.status = input_queue_push(queue, e).status
      BY <3>1, <3>2 DEF input_emit_key
    <3>4. Honest(e, b)
      BY <1>1 DEF Honest
    <3>5. r.status # "IO"
      BY <3>3 DEF input_queue_push
    <3>6. QED
      BY <3>3, <3>4, <3>5, PushFacts
  <2>5. QED
    BY <2>2, <2>3, <2>4
<1>2. CASE p.kind = "report"
  <2>1. r = hyperv_mouse_handle_report(mouse, queue, p.report)
    BY <1>2 DEF Outcomes
  <2>2. PICK x \in Nat, y \in Nat : x = p.report.x /\ y = p.report.y
    BY <1>2, InputAssumption DEF TypedPacket
  <2>3. PICK dx \in Int, dy \in Int :
           dx = Scaled(x, Width) - queue.x /\ dy = Scaled(y, Height) - queue.y
    <3>1. queue.x \in 0 .. Width - 1 /\ queue.y \in 0 .. Height - 1
      BY QueueFields
    <3>2. ASSUME NEW v \in Nat, NEW size \in Nat \ {0} PROVE Scaled(v, size) \in Int
      <4>1. PICK m \in Nat \ {0} : m = LogicalMaximum
        BY InputAssumption
      <4>2. PICK w \in Nat : w = IF v > m THEN m ELSE v
        OBVIOUS
      <4>3. w * (size - 1) \in Int
        OBVIOUS
      <4>4. (w * (size - 1)) \div m \in Int
        BY <4>3
      <4>5. QED
        BY <4>1, <4>2, <4>4 DEF Scaled
    <3>3. Scaled(x, Width) \in Int /\ Scaled(y, Height) \in Int
      BY <3>2, InputQueueAssumption
    <3>4. queue.x \in Int /\ queue.y \in Int
      BY <3>1
    <3>5. QED
      BY <3>3, <3>4
  <2>4. PICK m : m = MoveAndButton(queue, dx, dy, mouse.left, p.report.left)
    OBVIOUS
  <2>5. r.queue = m.queue /\ r.status = m.status
    BY <2>1, <2>2, <2>3, <2>4 DEF hyperv_mouse_handle_report
  <2>6. Pushed(queue, m.queue, b)
    BY <2>4, MoveAndButtonFacts
  <2>7. m.status # "IO"
    BY <2>4 DEF MoveAndButton, input_emit_pointer_move, input_emit_pointer_button, input_queue_push
  <2>8. QED
    BY <2>5, <2>6, <2>7
<1>3. CASE p.kind \notin {"event", "report"}
  <2>1. r.queue = queue /\ r.status \in Acknowledged \cup {"NOT_SUPPORTED"}
    BY <1>3 DEF Outcomes
  <2>2. r.status = "IO" => faults > 0
    BY <2>1 DEF Acknowledged
  <2>3. QED
    BY <2>1, <2>2, PushedNone
<1>4. QED
  BY <1>1, <1>2, <1>3

LEMMA HandleKeeps ==
    ASSUME StepInv, PortsReadTogether, HandlePacket
    PROVE  StepInv' /\ QueueMoves
<1>1. /\ UNCHANGED <<bus, channel, boot, slot, host>>
      /\ UNCHANGED <<platform, setup, person, bytes, output>>
      /\ stack # <<>> /\ Top.pc = "handle"
  BY DEF HandlePacket, At
<1>2. /\ StackSound /\ FrameSound(Top) /\ platform \in Platforms /\ platform \in {"ps2", "hyperv"}
      /\ QueueSound(queue) /\ ready \in [DeviceSet -> BOOLEAN] /\ faults \in 0 .. Faults
  BY <1>1, StepParts, TopFrame
<1>3. PICK p, d : p = Top.packet /\ d = Top.device
  OBVIOUS
<1>4. /\ d \in DeviceSet /\ d \in {"keyboard", "mouse"} /\ platform = "hyperv" /\ TypedPacket(p)
  BY <1>1, <1>2, <1>3, DeviceNames DEF FrameSound, Serving
<1>5. PICK r \in Outcomes(p) :
         /\ queue' = r.queue
         /\ faults' = IF r.status = "IO" THEN faults - 1 ELSE faults
         /\ ready' = [ready EXCEPT ![d] = @ /\ r.status \in {"OK", "NOT_SUPPORTED"}]
         /\ Now(IF r.status = "OK" THEN Step("poll", d) ELSE After(d))
  BY <1>3 DEF HandlePacket
<1>6. Pushed(queue, queue', TRUE) /\ (r.status = "IO" => faults > 0)
  BY <1>2, <1>4, <1>5, OutcomeFacts
<1>7. faults' \in 0 .. Faults
  BY <1>2, <1>5, <1>6, InputAssumption
<1>8. ready' \in [DeviceSet -> BOOLEAN] /\ \A e \in DeviceSet : ready'[e] => ready[e]
  <2>1. PICK b \in BOOLEAN : ready' = [ready EXCEPT ![d] = @ /\ b]
    BY <1>5
  <2>2. QED
    BY <1>2, <1>4, <2>1
<1>9. PICK s : Now(s) /\ (s = Step("poll", d) \/ s = After(d))
  BY <1>5
<1>10. FrameSound(s)'
  <2>1. CASE s = Step("poll", d)
    <3>1. IsFrame(s) /\ s.pc = "poll" /\ s.device = d
      BY <2>1, StepIsFrame
    <3>2. QED
      BY <1>1, <1>4, <3>1 DEF FrameSound, Serving
  <2>2. CASE s = After(d)
    BY <1>1, <1>2, <2>2, PollFrame
  <2>3. QED
    BY <1>9, <2>1, <2>2
<1>11. StackSound'
  BY <1>1, <1>2, <1>9, <1>10, DriverStays, StackNow
<1>12. QueueSound(queue')
  BY <1>6 DEF Pushed
<1>13. QED
  BY <1>1, <1>4, <1>6, <1>7, <1>8, <1>11, <1>12, DriverStep DEF QueueMoves

-----------------------------------------------------------------------------
(* The person.                                                             *)

LEMMA WriteTyped ==
    ASSUME NEW old, RingSound(old), TypedRing(old), NEW p, TypedPacket(p),
           NEW r, r = hyperv_ring_write(old, p)
    PROVE  TypedRing(r)
<1>1. PICK units : old \in Rings(units)
  BY DEF RingSound
<1>2. PICK data : data = [i \in 0 .. RingUnits - 1 |->
                            IF (i - old.write) % RingUnits < PacketUnits(p)
                            THEN <<p, (i - old.write) % RingUnits>> ELSE old.data[i]]
  OBVIOUS
<1>3. r.data = data
  BY <1>1, <1>2 DEF hyperv_ring_write, ring_copy_in, Rings
<1>4. ASSUME NEW i \in 0 .. RingUnits - 1 PROVE TypedUnit(r.data[i])
  <2>1. TypedUnit(old.data[i])
    BY DEF TypedRing
  <2>2. PICK k : k = (i - old.write) % RingUnits
    OBVIOUS
  <2>3. r.data[i] = <<p, k>> \/ r.data[i] = old.data[i]
    BY <1>2, <1>3, <2>2
  <2>4. <<p, k>>[1] = p
    OBVIOUS
  <2>5. TypedUnit(<<p, k>>)
    BY <2>4 DEF TypedUnit
  <2>6. QED
    BY <2>1, <2>3, <2>5
<1>5. QED
  BY <1>4 DEF TypedRing

Uncounted ==
    /\ UNCHANGED <<bus, ready, boot, slot, host, faults>>
    /\ UNCHANGED <<platform, setup, keyboard, mouse, queue, output, handled, stack>>
CountedOn(d) ==
    /\ PersonSound' /\ person'.reports[d] # 0
    /\ \A e \in DeviceSet : person'.reports[e] = 0 => person.reports[e] = 0

LEMMA HostSendKeeps ==
    ASSUME StepInv, Uncounted, NEW d \in DeviceSet, NEW p, HostSends(d, p), TypedPacket(p),
           CountedOn(d)
    PROVE  StepInv'
<1>1. /\ platform = "hyperv" /\ boot.pc = "done" /\ host.approved[d] /\ HasSpace(channel[d].in, p)
      /\ channel' = [channel EXCEPT ![d].in = hyperv_ring_write(@, p)] /\ bytes' = bytes
  BY DEF HostSends, HyperVReady
<1>2. BootInv /\ TypedRings /\ QueueSound(queue) /\ StackSound
  BY StepParts
<1>3. PICK old : old = channel[d].in
  OBVIOUS
<1>4. RingSound(old) /\ TypedRing(old) /\ channel[d].open
  BY <1>1, <1>2, <1>3, ReadyFacts, DeviceNames DEF TypedRings
<1>5. PICK r : r = hyperv_ring_write(old, p)
  OBVIOUS
<1>6. RingSound(r)
  <2>1. p.units \in Nat
    BY DEF TypedPacket
  <2>2. Wrote(old, p, r)
    BY <1>1, <1>3, <1>4, <1>5, <2>1, WriteUnits
  <2>3. QED
    BY <2>2 DEF Wrote
<1>7. TypedRing(r)
  BY <1>4, <1>5, WriteTyped
<1>8. channel' = [channel EXCEPT ![d].in = r]
  <2>1. channel = [x \in DeviceSet |-> channel[x]] /\ ChannelSound(channel[d])
    BY <1>2, BootParts DEF ChannelsSound
  <2>2. QED
    BY <1>1, <1>3, <1>5, <2>1
<1>9. /\ PersonSound' /\ person'.reports[d] # 0
      /\ \A e \in DeviceSet : person'.reports[e] = 0 => person.reports[e] = 0
  BY DEF CountedOn
<1>10. /\ UNCHANGED <<bus, ready, boot, slot, host, faults>>
       /\ UNCHANGED <<platform, setup, mouse, bytes, output>> /\ stack' = stack /\ queue' = queue
  BY <1>1 DEF Uncounted
<1>11. FramesStay /\ (StackSound' /\ QueueSound(queue') => StepInv')
  BY <1>1, <1>4, <1>6, <1>7, <1>8, <1>9, <1>10, RingMoves
<1>12. StackSound'
  BY <1>2, <1>10, <1>11, StackRests
<1>13. QED
  BY <1>2, <1>10, <1>11, <1>12

LEMMA WireSendKeeps ==
    ASSUME StepInv, Uncounted, NEW d \in DeviceSet, NEW sent, IsSeq(sent), WireSends(d, sent),
           d = "mouse" => sent \in Seq(MouseBytes), CountedOn(d)
    PROVE  StepInv'
<1>1. /\ platform = "ps2" /\ bytes' = [bytes EXCEPT ![d] = @ \o sent] /\ channel' = channel
  BY DEF WireSends, Ps2Ready
<1>2. /\ UNCHANGED <<bus, ready, boot, slot, host, faults>>
      /\ UNCHANGED <<platform, setup, mouse, output>> /\ stack' = stack /\ queue' = queue
  BY DEF Uncounted
<1>3. /\ PersonSound'
      /\ \A e \in DeviceSet : person'.reports[e] = 0 => person.reports[e] = 0
  BY DEF CountedOn
<1>4. /\ platform \in Platforms /\ platform \in {"ps2", "hyperv"}
      /\ BootInv /\ TypedRings /\ StackSound /\ WireSound /\ SetupSound /\ PersonSound
      /\ QueueSound(queue)
      /\ ready \in [DeviceSet -> BOOLEAN] /\ faults \in 0 .. Faults
  BY StepParts
<1>5. BootInv'
  BY <1>1, <1>2, <1>3, <1>4, QuietStep
<1>6. FramesStay
  <2>1. \A e \in {"keyboard", "mouse"} : person.reports[e] \in Nat /\ person'.reports[e] \in Nat
    <3>1. \A e \in DeviceSet : person.reports[e] \in Nat
      BY <1>4, PersonFields
    <3>2. person'.reports \in [{"keyboard", "mouse"} -> Nat]
      BY <1>3 DEF PersonSound
    <3>3. QED
      BY <3>1, <3>2, DeviceNames
  <2>2. \A e \in {"keyboard", "mouse"} : person.reports[e] > 0 => person'.reports[e] > 0
    BY <1>3, <2>1, DeviceNames
  <2>3. QED
    BY <1>1, <1>2, <2>2 DEF FramesStay, Ps2Ready, HyperVReady
<1>7. StackSound'
  BY <1>2, <1>4, <1>6, StackRests
<1>8. WireSound'
  <2>1. PICK S : bytes \in [{"keyboard", "mouse"} -> Seq(S)]
    BY <1>4 DEF WireSound
  <2>2. PICK T : sent \in Seq(T)
    BY DEF IsSeq
  <2>3. PICK U : U = S \cup T
    OBVIOUS
  <2>4. bytes \in [{"keyboard", "mouse"} -> Seq(U)] /\ sent \in Seq(U)
    BY <2>1, <2>2, <2>3
  <2>5. d \in {"keyboard", "mouse"} /\ bytes["mouse"] \in Seq(MouseBytes)
    BY <1>4, DeviceNames DEF WireSound
  <2>6. bytes[d] \o sent \in Seq(U)
    BY <2>4, <2>5
  <2>7. d = "mouse" => bytes[d] \o sent \in Seq(MouseBytes)
    BY <2>5
  <2>8. PICK longer : longer = bytes[d] \o sent
    OBVIOUS
  <2>9. bytes' = [bytes EXCEPT ![d] = longer]
    BY <1>1, <2>8
  <2>10. bytes' \in [{"keyboard", "mouse"} -> Seq(U)]
    BY <2>4, <2>5, <2>6, <2>8, <2>9
  <2>11. bytes'["mouse"] \in Seq(MouseBytes)
    BY <2>4, <2>5, <2>7, <2>8, <2>9
  <2>12. \E W : bytes' \in [{"keyboard", "mouse"} -> Seq(W)]
    BY <2>10
  <2>13. /\ \E W : output' \in [full : BOOLEAN, device : {"keyboard", "mouse"}, byte : W]
         /\ output'.device = "mouse" => output'.byte \in MouseBytes
         /\ platform' = "ps2" =>
               \E W : mouse' \in [packet : Seq(MouseBytes), left : W] /\ Len(mouse'.packet) < 3
    BY <1>2, <1>4 DEF WireSound
  <2>14. QED
    BY <2>11, <2>12, <2>13 DEF WireSound, MouseBytes
<1>9. TypedRings' /\ SetupSound' /\ NothingYet'
  BY <1>1, <1>2, <1>4 DEF TypedRings, SetupSound, TypedRing, NothingYet
<1>10. QED
  BY <1>2, <1>3, <1>4, <1>5, <1>7, <1>8, <1>9 DEF StepInv

LEMMA KeyBytesAreSequences ==
    ASSUME NEW key
    PROVE  IsSeq(MakeBytes(key)) /\ IsSeq(BreakBytes(key))
<1> DEFINE S == {key, "12", "59", "58", "e0", "6b", "e1", "14", "77", "f0", "7c"}
<1>9. /\ <<LeftShift>> \in Seq(S) /\ <<RightShift>> \in Seq(S) /\ <<CapsLock>> \in Seq(S)
      /\ <<"e0", "6b">> \in Seq(S) /\ <<"e0", "12", "e0", "7c">> \in Seq(S) /\ <<key>> \in Seq(S)
  BY DEF LeftShift, RightShift, CapsLock
<1>10. <<"e1", "14", "77", "e1", "f0", "14", "f0", "77">> \in Seq(S)
  OBVIOUS
<1>11. \/ MakeBytes(key) \in {<<LeftShift>>, <<RightShift>>, <<CapsLock>>, <<key>>}
       \/ MakeBytes(key) = <<"e0", "6b">> \/ MakeBytes(key) = <<"e0", "12", "e0", "7c">>
       \/ MakeBytes(key) = <<"e1", "14", "77", "e1", "f0", "14", "f0", "77">>
  BY DEF MakeBytes
<1>1. MakeBytes(key) \in Seq(S)
  <2> HIDE DEF S
  <2>1. QED
    BY <1>9, <1>10, <1>11
<1>2. IsSeq(MakeBytes(key))
  BY <1>1 DEF IsSeq
<1>3. <<"f0">> \in Seq(S) /\ <<"e0", "f0", "6b">> \in Seq(S)
      /\ <<"e0", "f0", "7c", "e0", "f0", "12">> \in Seq(S)
  OBVIOUS
<1>4. PICK m : m = MakeBytes(key) /\ m \in Seq(S)
  BY <1>1
<1>5. \/ BreakBytes(key) = <<"e0", "f0", "6b">>
      \/ BreakBytes(key) = <<"e0", "f0", "7c", "e0", "f0", "12">>
      \/ BreakBytes(key) = <<"f0">> \o m
  BY <1>4 DEF BreakBytes
<1> HIDE DEF S
<1>6. <<"f0">> \o m \in Seq(S)
  BY <1>3, <1>4
<1>7. BreakBytes(key) \in Seq(S)
  BY <1>3, <1>5, <1>6
<1>8. QED
  BY <1>2, <1>7 DEF IsSeq

LEMMA KeyPacketTyped ==
    ASSUME NEW key, NEW released
    PROVE  TypedPacket(KeyPacket(key, released))
  BY DEF TypedPacket, KeyPacket

LEMMA MovePacketTyped ==
    ASSUME NEW left \in BOOLEAN, NEW overflow \in BOOLEAN, NEW dx \in Int, NEW dy \in Int
    PROVE  /\ MousePacket(left, overflow, dx, dy) \in Seq(MouseBytes)
           /\ IsSeq(MousePacket(left, overflow, dx, dy))
<1>4. HeaderByte(left, overflow) \in MouseBytes
  BY DEF HeaderByte, MouseBytes
<1>5. ASSUME NEW v \in Int PROVE MoveByte(v) \in MouseBytes
  <2>1. ASSUME NEW b, b \in BOOLEAN
        PROVE  [sync |-> b, value |-> v, left |-> FALSE, overflow |-> FALSE] \in MouseBytes
    BY <2>1 DEF MouseBytes
  <2>2. (v < 0) \in BOOLEAN
    OBVIOUS
  <2>3. QED
    BY <2>1, <2>2, Zenon DEF MoveByte
<1>1. PICK a \in MouseBytes, b \in MouseBytes, c \in MouseBytes :
         a = HeaderByte(left, overflow) /\ b = MoveByte(dx) /\ c = MoveByte(dy)
  BY <1>4, <1>5
<1>2. <<a, b, c>> \in Seq(MouseBytes)
  OBVIOUS
<1>3. QED
  BY <1>1, <1>2 DEF MousePacket, IsSeq

LEMMA CountedIsOn ==
    ASSUME PersonSound, NEW d \in DeviceSet, NEW held, held \subseteq Keys,
           NEW caps \in BOOLEAN, NEW half \in BOOLEAN,
           NEW repeated \in BOOLEAN,
           person' = [held |-> held, caps |-> caps, halved |-> half, repeated |-> repeated,
                      reports |-> [person.reports EXCEPT ![d] = person.reports[d] + 1]]
    PROVE  CountedOn(d)
<1>1. PICK n : n = person.reports[d] + 1
  OBVIOUS
<1>2. /\ PersonSound' /\ person'.reports[d] = n /\ n \in Nat /\ n > 0
      /\ \A e \in DeviceSet : e # d => person'.reports[e] = person.reports[e]
  BY <1>1, CountedFacts
<1>3. QED
  BY <1>2 DEF CountedOn

LEMMA PressKeeps ==
    ASSUME StepInv, PressKey
    PROVE  StepInv' /\ QueueMoves
<1>1. Uncounted /\ PersonSound
  BY StepParts DEF PressKey, Uncounted
<1>2. PICK key \in Keys :
         /\ person' = Counted("keyboard",
                [person EXCEPT !.held = IF key = "pause" THEN @ ELSE @ \cup {key},
                               !.caps = IF key = "caps" /\ key \notin person.held THEN ~@ ELSE @,
                               !.halved = @ /\ key \notin Shifts,
                               !.repeated = @ \/ key \in person.held])
         /\ WireSends("keyboard", MakeBytes(key)) \/ HostSends("keyboard", KeyPacket(key, FALSE))
  BY DEF PressKey
<1>3. CountedOn("keyboard")
  <2>1. PICK held : held = IF key = "pause" THEN person.held ELSE person.held \cup {key}
    OBVIOUS
  <2>2. PICK caps \in BOOLEAN :
           caps = IF key = "caps" /\ key \notin person.held THEN ~person.caps ELSE person.caps
    BY <1>1, PersonFields
  <2>3. PICK repeated \in BOOLEAN : repeated = (person.repeated \/ key \in person.held)
    BY <1>1, PersonFields
  <2>7. PICK half \in BOOLEAN : half = (person.halved /\ key \notin Shifts)
    BY <1>1, PersonFields
  <2>4. held \subseteq Keys
    BY <1>1, <2>1, PersonFields
  <2>5. person' = [held |-> held, caps |-> caps, halved |-> half, repeated |-> repeated,
                   reports |-> [person.reports EXCEPT !["keyboard"] = person.reports["keyboard"] + 1]]
    BY <1>1, <1>2, <2>1, <2>2, <2>3, <2>7 DEF Counted, PersonSound
  <2>6. QED
    BY <1>1, <2>4, <2>5, CountedIsOn, DeviceNames
<1>4. CASE WireSends("keyboard", MakeBytes(key))
  <2>1. IsSeq(MakeBytes(key)) /\ "keyboard" # "mouse" /\ "keyboard" \in DeviceSet
    BY KeyBytesAreSequences, DeviceNames
  <2>2. PICK sent : sent = MakeBytes(key)
    OBVIOUS
  <2>3. StepInv'
    BY <1>1, <1>3, <1>4, <2>1, <2>2, WireSendKeeps
  <2>4. QED
    BY <1>1, <2>3 DEF Uncounted, QueueMoves
<1>5. CASE HostSends("keyboard", KeyPacket(key, FALSE))
  <2>1. StepInv'
    BY <1>1, <1>3, <1>5, KeyPacketTyped, HostSendKeeps, DeviceNames
  <2>2. QED
    BY <1>1, <2>1 DEF Uncounted, QueueMoves
<1>6. QED
  BY <1>2, <1>4, <1>5

LEMMA ReleaseKeeps ==
    ASSUME StepInv, ReleaseKey
    PROVE  StepInv' /\ QueueMoves
<1>1. Uncounted /\ PersonSound
  BY StepParts DEF ReleaseKey, Uncounted
<1>2. PICK key \in person.held :
         /\ person' = Counted("keyboard",
                [person EXCEPT !.held = @ \ {key},
                               !.halved = IF key \in Shifts THEN Shifts \subseteq person.held ELSE @])
         /\ WireSends("keyboard", BreakBytes(key)) \/ HostSends("keyboard", KeyPacket(key, TRUE))
  BY DEF ReleaseKey
<1>3. CountedOn("keyboard")
  <2>1. PICK held : held = person.held \ {key}
    OBVIOUS
  <2>2. PICK caps \in BOOLEAN, repeated \in BOOLEAN : caps = person.caps /\ repeated = person.repeated
    BY <1>1, PersonFields
  <2>7. PICK half \in BOOLEAN :
           half = IF key \in Shifts THEN Shifts \subseteq person.held ELSE person.halved
    BY <1>1, PersonFields
  <2>4. held \subseteq Keys
    BY <1>1, <2>1, PersonFields
  <2>5. person' = [held |-> held, caps |-> caps, halved |-> half, repeated |-> repeated,
                   reports |-> [person.reports EXCEPT !["keyboard"] = person.reports["keyboard"] + 1]]
    BY <1>1, <1>2, <2>1, <2>2, <2>7 DEF Counted, PersonSound
  <2>6. QED
    BY <1>1, <2>4, <2>5, CountedIsOn, DeviceNames
<1>4. CASE WireSends("keyboard", BreakBytes(key))
  <2>1. IsSeq(BreakBytes(key)) /\ "keyboard" # "mouse" /\ "keyboard" \in DeviceSet
    BY KeyBytesAreSequences, DeviceNames
  <2>2. PICK sent : sent = BreakBytes(key)
    OBVIOUS
  <2>3. StepInv'
    BY <1>1, <1>3, <1>4, <2>1, <2>2, WireSendKeeps
  <2>4. QED
    BY <1>1, <2>3 DEF Uncounted, QueueMoves
<1>5. CASE HostSends("keyboard", KeyPacket(key, TRUE))
  <2>1. StepInv'
    BY <1>1, <1>3, <1>5, KeyPacketTyped, HostSendKeeps, DeviceNames
  <2>2. QED
    BY <1>1, <2>1 DEF Uncounted, QueueMoves
<1>6. QED
  BY <1>2, <1>4, <1>5

LEMMA MoveKeeps ==
    ASSUME StepInv, MoveMouse
    PROVE  StepInv' /\ QueueMoves
<1>1. Uncounted /\ PersonSound /\ "mouse" \in DeviceSet
  BY StepParts, DeviceNames DEF MoveMouse, Uncounted
<1>2. person' = Counted("mouse", person)
  BY DEF MoveMouse
<1>3. CountedOn("mouse")
  <2>5. PICK held : held = person.held
    OBVIOUS
  <2>1. PICK caps \in BOOLEAN, half \in BOOLEAN, repeated \in BOOLEAN :
           caps = person.caps /\ half = person.halved /\ repeated = person.repeated
    BY <1>1, PersonFields
  <2>2. held \subseteq Keys
    BY <1>1, <2>5, PersonFields
  <2>3. person' = [held |-> held, caps |-> caps, halved |-> half, repeated |-> repeated,
                   reports |-> [person.reports EXCEPT !["mouse"] = person.reports["mouse"] + 1]]
    BY <1>1, <1>2, <2>1, <2>5 DEF Counted, PersonSound
  <2>4. QED
    BY <1>1, <2>2, <2>3, CountedIsOn
<1>4. CASE \E r \in MouseReports, overflow \in BOOLEAN :
              WireSends("mouse", MousePacket(r.left, overflow, r.x - 1, r.y - 1))
  <2>1. PICK r \in MouseReports, overflow \in BOOLEAN :
           WireSends("mouse", MousePacket(r.left, overflow, r.x - 1, r.y - 1))
    BY <1>4
  <2>2. PICK left \in BOOLEAN, dx \in Int, dy \in Int : left = r.left /\ dx = r.x - 1 /\ dy = r.y - 1
    BY InputAssumption
  <2>3. PICK sent : sent = MousePacket(left, overflow, dx, dy)
    OBVIOUS
  <2>4. sent \in Seq(MouseBytes) /\ IsSeq(sent) /\ WireSends("mouse", sent)
    BY <2>1, <2>2, <2>3, MovePacketTyped
  <2>5. StepInv'
    BY <1>1, <1>3, <2>4, WireSendKeeps
  <2>6. QED
    BY <1>1, <2>5 DEF Uncounted, QueueMoves
<1>5. CASE \E p \in MousePackets : HostSends("mouse", p)
  <2>1. PICK p \in MousePackets : HostSends("mouse", p)
    BY <1>5
  <2>2. TypedPacket(p)
    BY DEF TypedPacket, MousePackets
  <2>3. StepInv'
    BY <1>1, <1>3, <2>1, <2>2, HostSendKeeps
  <2>4. QED
    BY <1>1, <2>3 DEF Uncounted, QueueMoves
<1>6. QED
  BY <1>4, <1>5 DEF MoveMouse

-----------------------------------------------------------------------------
(* Boot, as the steps see it.                                              *)

LEMMA TypedSet ==
    ASSUME ChannelsSound, TypedRings, NEW e \in DeviceSet, NEW c, TypedRing(c.in),
           channel' = [channel EXCEPT ![e] = c]
    PROVE  TypedRings'
<1>1. channel = [d \in DeviceSet |-> channel[d]]
  BY DEF ChannelsSound
<1>2. channel'[e] = c /\ \A d \in DeviceSet : d # e => channel'[d] = channel[d]
  BY <1>1
<1>3. \A d \in {"keyboard", "mouse"} : TypedRing(channel'[d].in)
  BY <1>2, DeviceNames DEF TypedRings
<1>4. QED
  BY <1>3 DEF TypedRings, TypedRing

LEMMA NewRingTyped == TypedRing(hyperv_ring_initialize)
  BY DEF TypedRing, TypedUnit, hyperv_ring_initialize

LEMMA GuestTyped ==
    ASSUME BootInv, TypedRings, GuestBoots
    PROVE  TypedRings' /\ boot.pc # "done"
<1>1. boot.pc # "done"
  BY DEF GuestBoots, EnableHypercalls, InitiateContact, AwaitVersion, vmbus_request_offers,
         AwaitOffers, NoDevice, CreateGpadl, AwaitGpadl, OpenChannel, AwaitOpen, Greet, AwaitReply
<1>2. ChannelsSound /\ BootSound
  BY BootParts
<1>3. ASSUME channel' = channel PROVE TypedRings'
  BY <1>3 DEF TypedRings, TypedRing
<1>4. ASSUME AtDevice PROVE Device \in DeviceSet
  BY <1>2, <1>4, CurrentDevice DEF BootSound, AtDevice
<1>5. ASSUME AwaitAnswer("gpadl created", Goto("open") /\ UNCHANGED channel)
      PROVE  channel' = channel
  BY <1>5 DEF AwaitAnswer, Skip
<1>6. CASE CreateGpadl
  <2>1. AtDevice
    BY <1>6 DEF CreateGpadl, AtDevice, DevicePcs
  <2>2. PICK e \in DeviceSet : e = Device
    BY <1>4, <2>1
  <2>3. PICK c : c = [ClosedChannel EXCEPT !.id = bus.next_id]
    OBVIOUS
  <2>4. channel' = [channel EXCEPT ![e] = c]
    BY <1>6, <2>2, <2>3 DEF CreateGpadl
  <2>5. c.in = hyperv_ring_initialize
    BY <2>3 DEF ClosedChannel
  <2>6. QED
    BY <1>1, <1>2, <2>4, <2>5, NewRingTyped, TypedSet
<1>7. CASE AwaitOpen
  <2>1. AtDevice
    BY <1>7 DEF AwaitOpen, AtDevice, DevicePcs
  <2>2. PICK e \in DeviceSet : e = Device
    BY <1>4, <2>1
  <2>3. channel' = channel \/ channel' = [channel EXCEPT ![e].open = TRUE]
    BY <1>7, <2>2 DEF AwaitOpen, AwaitAnswer, Skip
  <2>4. ASSUME channel' = [channel EXCEPT ![e].open = TRUE] PROVE TypedRings'
    <3>1. PICK old : old = channel[e] /\ ChannelSound(old)
      BY <1>2 DEF ChannelsSound
    <3>2. PICK c : c = [old EXCEPT !.open = TRUE]
      OBVIOUS
    <3>3. channel' = [channel EXCEPT ![e] = c]
      BY <1>2, <2>4, <3>1, <3>2 DEF ChannelsSound
    <3>4. c.in = old.in
      BY <3>1, <3>2 DEF ChannelSound, Channels
    <3>5. TypedRing(c.in)
      BY <3>1, <3>4, DeviceNames DEF TypedRings
    <3>6. QED
      BY <1>2, <3>3, <3>5, TypedSet
  <2>5. QED
    BY <1>1, <1>3, <2>3, <2>4
<1>8. CASE Greet
  <2>1. AtDevice
    BY <1>8 DEF Greet, AtDevice, DevicePcs
  <2>2. PICK e \in DeviceSet : e = Device
    BY <1>4, <2>1
  <2>3. PICK old : old = channel[e] /\ ChannelSound(old)
    BY <1>2 DEF ChannelsSound
  <2>4. PICK r : r = hyperv_ring_write(old.out, Greeting[e])
    OBVIOUS
  <2>5. PICK c : c = [old EXCEPT !.out = r]
    OBVIOUS
  <2>6. channel' = [channel EXCEPT ![e].out = r]
    BY <1>2, <1>8, <2>2, <2>3, <2>4 DEF Greet, ChannelsSound
  <2>7. channel' = [channel EXCEPT ![e] = c]
    BY <1>2, <2>3, <2>5, <2>6 DEF ChannelsSound
  <2>8. c.in = old.in
    BY <2>3, <2>5 DEF ChannelSound, Channels
  <2>9. TypedRing(c.in)
    BY <2>3, <2>8, DeviceNames DEF TypedRings
  <2>10. QED
    BY <1>1, <1>2, <2>7, <2>9, TypedSet
<1>9. CASE AwaitReply
  <2>1. AtDevice
    BY <1>9 DEF AwaitReply, AtDevice, DevicePcs
  <2>2. PICK e \in DeviceSet : e = Device
    BY <1>4, <2>1
  <2>3. PICK old : old = channel[e] /\ ChannelSound(old)
    BY <1>2 DEF ChannelsSound
  <2>4. PICK x : channel' = channel \/ channel' = [channel EXCEPT ![e].in.read = x]
    BY <1>9, <2>2 DEF AwaitReply
  <2>5. ASSUME channel' = [channel EXCEPT ![e].in.read = x] PROVE TypedRings'
    <3>1. PICK in : in = old.in /\ RingSound(in)
      BY <2>3, ChannelFields
    <3>2. PICK r : r = [in EXCEPT !.read = x]
      OBVIOUS
    <3>3. PICK c : c = [old EXCEPT !.in = r]
      OBVIOUS
    <3>4. channel' = [channel EXCEPT ![e] = c]
      BY <1>2, <2>3, <2>5, <3>1, <3>2, <3>3 DEF ChannelsSound
    <3>5. c.in = r
      BY <2>3, <3>3 DEF ChannelSound, Channels
    <3>6. r.data = in.data
      BY <3>1, <3>2 DEF RingSound, Rings
    <3>7. TypedRing(in)
      BY <2>3, <3>1, DeviceNames DEF TypedRings
    <3>8. TypedRing(c.in)
      BY <3>5, <3>6, <3>7 DEF TypedRing
    <3>9. QED
      BY <1>2, <3>4, <3>8, TypedSet
  <2>6. QED
    BY <1>1, <1>3, <2>4, <2>5
<1>10. \/ channel' = channel \/ CreateGpadl \/ AwaitOpen \/ Greet \/ AwaitReply
  BY <1>5 DEF GuestBoots, EnableHypercalls, InitiateContact, AwaitVersion, vmbus_request_offers,
              AwaitOffers, NoDevice, AwaitGpadl, OpenChannel
<1>11. QED
  BY <1>1, <1>3, <1>6, <1>7, <1>8, <1>9, <1>10

LEMMA HostTyped ==
    ASSUME BootInv, TypedRings, HostBoots
    PROVE  TypedRings'
<1>1. ChannelsSound
  BY BootParts
<1>2. CASE channel' = channel
  BY <1>2 DEF TypedRings, TypedRing
<1>3. CASE HostReplies
  <2>1. PICK e \in DeviceSet, ok \in BOOLEAN :
           channel' = [channel EXCEPT
                  ![e].out.read = AfterPacket(channel[e].out.read, PacketAt(channel[e].out)),
                  ![e].in = hyperv_ring_write(@, [Reply[e] EXCEPT !.ok = ok])]
    BY <1>3 DEF HostReplies
  <2>2. PICK old : old = channel[e] /\ ChannelSound(old)
    BY <1>1 DEF ChannelsSound
  <2>3. PICK p : p = [Reply[e] EXCEPT !.ok = ok]
    OBVIOUS
  <2>4. TypedPacket(p)
    BY <2>3, ReplyPacket DEF TypedPacket
  <2>5. PICK r : r = [old.out EXCEPT !.read = AfterPacket(old.out.read, PacketAt(old.out))]
    OBVIOUS
  <2>6. PICK s : s = hyperv_ring_write(old.in, p)
    OBVIOUS
  <2>7. PICK c : c = [old EXCEPT !.out = r, !.in = s]
    OBVIOUS
  <2>8. channel' = [channel EXCEPT ![e] = c]
    BY <1>1, <2>1, <2>2, <2>3, <2>5, <2>6, <2>7 DEF ChannelsSound
  <2>9. c.in = s
    BY <2>2, <2>7 DEF ChannelSound, Channels
  <2>10. RingSound(old.in) /\ TypedRing(old.in)
    BY <2>2, ChannelFields, DeviceNames DEF TypedRings
  <2>11. TypedRing(c.in)
    BY <2>4, <2>6, <2>9, <2>10, WriteTyped
  <2>12. QED
    BY <1>1, <2>8, <2>11, TypedSet
<1>4. QED
  BY <1>2, <1>3 DEF HostBoots, HostAnswers, HostNews, HostDelivers

LEMMA BootKeeps ==
    ASSUME StepInv, BootHyperV \/ ServeHyperV
    PROVE  StepInv' /\ QueueMoves
<1>1. platform = "hyperv" /\ UNCHANGED inputVars /\ (GuestBoots \/ (boot.pc # "done" /\ HostBoots))
  BY DEF BootHyperV, ServeHyperV
<1>2. UNCHANGED <<platform, setup, mouse, queue, person, bytes, output, stack>>
  BY <1>1 DEF inputVars
<1>3. /\ platform \in Platforms /\ platform \in {"ps2", "hyperv"}
      /\ BootInv /\ TypedRings /\ StackSound /\ WireSound /\ SetupSound /\ PersonSound
      /\ NothingYet /\ QueueSound(queue)
  BY StepParts
<1>4. boot.pc # "done" /\ TypedRings'
  BY <1>1, <1>3, GuestTyped, HostTyped
<1>5. person.reports \in [DeviceSet -> {0}]
  BY <1>1, <1>3, <1>4, DeviceNames DEF NothingYet
<1>6. BootInv'
  BY <1>1, <1>2, <1>3, <1>5, GuestKeeps, HostKeeps
<1>7. NothingYet'
  BY <1>2, <1>5, DeviceNames DEF NothingYet
<1>8. stack = <<>>
  BY <1>1, <1>3, <1>4 DEF StackSound, Ps2Ready, HyperVReady
<1>9. StackSound'
  <2>1. stack' = <<>> /\ Len(stack') = 0 /\ IsSeq(stack')
    BY <1>2, <1>3, <1>8 DEF StackSound
  <2>2. QED
    BY <2>1 DEF StackSound
<1>10. SetupSound' /\ PersonSound'
  BY <1>2, <1>3 DEF SetupSound, PersonSound
<1>11. WireSound'
  BY <1>2, <1>3 DEF WireSound
<1>12. QED
  BY <1>2, <1>3, <1>4, <1>6, <1>7, <1>9, <1>10, <1>11 DEF StepInv, QueueMoves

LEMMA StepStart == Init => StepInv
<1> SUFFICES ASSUME Init PROVE StepInv
  OBVIOUS
<1>1. BootInv
  BY BootStart
<1>2. platform \in Platforms /\ platform \in {"ps2", "hyperv"}
  BY InputAssumption DEF Init
<1>3. TypedRings
  <2>1. \A d \in DeviceSet : channel[d] = ClosedChannel
    BY DEF Init, BusInit
  <2>2. ClosedChannel.in = hyperv_ring_initialize
    BY ClosedSound
  <2>3. QED
    BY <2>1, <2>2, NewRingTyped, DeviceNames DEF TypedRings
<1>4. StackSound
  <2>1. stack = <<>> /\ Len(stack) = 0 /\ stack \in Seq({})
    BY DEF Init
  <2>2. QED
    BY <2>1 DEF StackSound, IsSeq
<1>5. WireSound
  <2>1. /\ bytes = [d \in {"keyboard", "mouse"} |-> <<>>]
        /\ output = [full |-> FALSE, device |-> "keyboard", byte |-> "none"]
        /\ platform = "ps2" => mouse = [packet |-> <<>>, left |-> FALSE]
    BY DeviceNames DEF Init, ps2_mouse_initialize
  <2>2. bytes \in [{"keyboard", "mouse"} -> Seq({})] /\ bytes["mouse"] \in Seq(MouseBytes)
    BY <2>1
  <2>3. /\ output \in [full : BOOLEAN, device : {"keyboard", "mouse"}, byte : {"none"}]
        /\ output.device # "mouse"
    BY <2>1
  <2>4. platform = "ps2" => mouse \in [packet : Seq(MouseBytes), left : BOOLEAN] /\ Len(mouse.packet) < 3
    <3> SUFFICES ASSUME platform = "ps2"
                 PROVE  mouse \in [packet : Seq(MouseBytes), left : BOOLEAN] /\ Len(mouse.packet) < 3
      OBVIOUS
    <3>5. <<>> \in Seq(MouseBytes) /\ Len(<<>>) = 0
      OBVIOUS
    <3>1. PICK e \in Seq(MouseBytes) : e = <<>> /\ Len(e) = 0
      BY <3>5
    <3>2. PICK left \in BOOLEAN : left = FALSE
      OBVIOUS
    <3>3. mouse = [packet |-> e, left |-> left]
      BY <2>1, <3>1, <3>2
    <3>6. mouse.packet = e /\ mouse \in [packet : Seq(MouseBytes), left : BOOLEAN]
      BY <3>3
    <3>4. QED
      BY <3>1, <3>6
  <2>5. QED
    BY <2>2, <2>3, <2>4 DEF WireSound
<1>6. SetupSound
  <2>1. PICK c \in PowerOnControllers : setup = [command |-> 1, attempts |-> 0, controller |-> c]
    BY DEF Init
  <2>2. c \in Controllers
    BY DEF PowerOnControllers, Controllers
  <2>3. setup \in [command : 0 .. 17, attempts : Nat, controller : Controllers] /\ setup.command = 1
    BY <2>1, <2>2
  <2>4. QED
    BY <2>3 DEF SetupSound, SetupAt
<1>7. PersonSound /\ NothingYet
  <2>1. person = [held |-> {}, caps |-> FALSE, halved |-> FALSE, repeated |-> FALSE,
                  reports |-> [d \in {"keyboard", "mouse"} |-> 0]]
    BY DeviceNames DEF Init
  <2>2. QED
    BY <2>1 DEF PersonSound, NothingYet
<1>8. QueueSound(queue)
  <2>1. queue = input_queue_initialize
    BY DEF Init
  <2>2. input_queue_initialize \in Queues({NoEvent})
    BY InputQueueAssumption DEF input_queue_initialize, Queues
  <2>3. QED
    BY <2>1, <2>2 DEF QueueSound
<1>9. QED
  BY <1>1, <1>2, <1>3, <1>4, <1>5, <1>6, <1>7, <1>8 DEF StepInv

LEMMA StutterKeeps ==
    ASSUME StepInv, UNCHANGED vars
    PROVE  StepInv' /\ QueueMoves
<1>1. UNCHANGED <<busVars, platform, setup, mouse, person, bytes, output, queue, stack>>
  BY DEF vars, inputVars
<1>2. StackSound /\ QueueSound(queue)
  BY StepParts
<1>3. StackSound'
  BY <1>1, <1>2, StaysPut, StackRests
<1>4. QED
  BY <1>1, <1>2, <1>3, OnlyTheStep DEF QueueMoves

(* The inductive step.                                                      *)
LEMMA NextKeepsStep ==
    ASSUME PortsReadTogether, StepInv, [Next]_vars
    PROVE  StepInv' /\ QueueMoves
<1>1. CASE Next
  BY <1>1, CommandKeeps, BootKeeps, PressKeeps, ReleaseKeeps, MoveKeeps, LoadKeeps, TickKeeps,
     StartStepKeeps, ReadStatusKeeps, ReadDataKeeps, PollKeeps, CopyKeeps, PublishKeeps,
     HandleKeeps, TakeEventKeeps DEF Next, RunStep
<1>2. CASE UNCHANGED vars
  BY <1>2, StutterKeeps
<1>3. QED
  BY <1>1, <1>2

-----------------------------------------------------------------------------
(* Theorems.                                                               *)

LEMMA SetUpHolds ==
    ASSUME StepInv
    PROVE  DevicesSetUp
<1>1. /\ BootInv /\ StackSound /\ SetupSound /\ QueueSound(queue) /\ faults \in 0 .. Faults
  BY StepParts
<1>2. \A d \in DeviceSet : channel[d].in.read \in 0 .. RingUnits - 1
                           /\ channel[d].in.write \in 0 .. RingUnits - 1
  <2>1. \A d \in DeviceSet : RingSound(channel[d].in)
    BY <1>1, BootParts, ChannelFields
  <2>2. QED
    BY <2>1, RingFields
<1>3. TypeOK
  BY <1>1, <1>2, QueueFields DEF TypeOK, StackSound
<1>4. OpenChannelAgreed
  <2>1. VersionAgreed /\ \A d \in DeviceSet : ChannelAgreed(d)
    BY <1>1, BootParts
  <2>2. ASSUME NEW d \in DeviceSet, channel[d].open
        PROVE  /\ host.opened[d] = channel[d].id /\ host.gpadl[d] = channel[d].id
               /\ bus.version = host.version
    <3>1. /\ host.opened[d] = channel[d].id /\ host.gpadl[d] = channel[d].id /\ d \in bus.offers
      BY <2>1, <2>2 DEF ChannelAgreed
    <3>2. QED
      BY <2>1, <3>1 DEF VersionAgreed
  <2>3. QED
    BY <2>2 DEF OpenChannelAgreed
<1>5. ReadyDeviceApproved
  BY <1>1, BootParts DEF ReadyDeviceApproved, ChannelAgreed
<1>6. ControllerConfigured
  <2>1. ASSUME Ps2Ready
        PROVE  /\ setup.controller.configuration = BothOn
               /\ setup.controller.keyboard = "enabled" /\ setup.controller.set = 2
               /\ setup.controller.mouse = "streaming"
    <3>1. setup.command = 17
      BY <1>1, <2>1, ScriptLength DEF SetupSound, Ps2Ready
    <3>2. QED
      BY <1>1, <3>1 DEF SetupSound, SetupAt
  <2>2. QED
    BY <2>1 DEF ControllerConfigured, BothOn
<1>7. QED
  BY <1>3, <1>4, <1>5, <1>6 DEF DevicesSetUp

(* Whatever the firmware left and whatever fails or comes late while the    *)
(* devices are set up (vmbus.c, input.c, keyboard.c, mouse.c): indices stay *)
(* inside their buffers, an open channel is open at the host on the memory  *)
(* and in the version of this opening, a device that is polled has been     *)
(* accepted, and a PS/2 controller in use is configured as it should be.    *)
THEOREM Devices_are_set_up == PortsReadTogether => (Spec => []DevicesSetUp)
<1> SUFFICES ASSUME PortsReadTogether PROVE Spec => []DevicesSetUp
  OBVIOUS
<1>1. Init => StepInv
  BY StepStart
<1>2. StepInv /\ [Next]_vars => StepInv'
  BY NextKeepsStep
<1>3. StepInv => DevicesSetUp
  BY SetUpHolds
<1>4. QED
  BY <1>1, <1>2, <1>3, PTL DEF Spec

LEMMA QueuedSequence ==
    ASSUME NEW q, QueueSound(q)
    PROVE  /\ IsSeq(Queued(q)) /\ Len(Queued(q)) = q.count /\ q.count \in Nat
<1>1. q.count \in Nat
  BY QueueFields
<1>2. PICK S : S = {q.slots[(q.head + i - 1) % Capacity] : i \in 1 .. q.count}
  OBVIOUS
<1>3. Queued(q) \in [1 .. q.count -> S]
  BY <1>2 DEF Queued
<1>4. Queued(q) \in Seq(S)
  BY <1>1, <1>3
<1>5. Len(Queued(q)) = q.count
  BY <1>1, <1>3, <1>4
<1>6. QED
  BY <1>1, <1>4, <1>5 DEF IsSeq

(* input_queue_push and input_queue_pop: no event is lost, changed or put   *)
(* before another once the queue has taken it, wherever the buffer wraps    *)
(* and while ticks run steps inside steps.                                  *)
LEMMA QueueMovesInOrder ==
    ASSUME StepInv, QueueMoves, StepInv'
    PROVE  \/ /\ Len(Queued(queue)') >= Len(Queued(queue))
              /\ SubSeq(Queued(queue)', 1, Len(Queued(queue))) = Queued(queue)
           \/ queue.count > 0 /\ Queued(queue)' = Tail(Queued(queue))
<1>1. QueueSound(queue) /\ QueueSound(queue')
  BY DEF StepInv, QueueSound, Queues
<1>2. PICK q, r, a, b : q = queue /\ r = queue' /\ a = Queued(q) /\ b = Queued(r)
  OBVIOUS
<1>3. /\ IsSeq(a) /\ Len(a) = q.count /\ q.count \in Nat
      /\ IsSeq(b) /\ Len(b) = r.count /\ r.count \in Nat
  BY <1>1, <1>2, QueuedSequence
<1>4. a = Queued(queue) /\ b = Queued(queue)'
  BY <1>2 DEF Queued
<1>5. CASE queue' = queue \/ Pushed(queue, queue', TRUE)
  <2>1. q.count <= r.count /\ \A i \in 1 .. q.count : b[i] = a[i]
    <3>1. CASE queue' = queue
      BY <1>2, <1>3, <3>1
    <3>2. CASE Pushed(queue, queue', TRUE)
      <4>1. Pushed(q, r, TRUE)
        BY <1>2, <3>2
      <4>2. QED
        BY <1>2, <4>1 DEF Pushed
    <3>3. QED
      BY <1>5, <3>1, <3>2
  <2>2. PICK S : a \in Seq(S)
    BY <1>3 DEF IsSeq
  <2>3. PICK T : b \in Seq(T)
    BY <1>3 DEF IsSeq
  <2>4. /\ SubSeq(b, 1, q.count) \in Seq(T) /\ Len(SubSeq(b, 1, q.count)) = q.count
        /\ \A i \in 1 .. q.count : SubSeq(b, 1, q.count)[i] = b[i]
    BY <1>3, <2>1, <2>3
  <2>5. SubSeq(b, 1, q.count) = a
    BY <1>3, <2>1, <2>2, <2>4, SeqEqual
  <2>6. QED
    BY <1>3, <1>4, <2>1, <2>5
<1>6. CASE queue.count > 0 /\ queue' = input_queue_pop(queue)
  <2>1. r.count = q.count - 1 /\ \A i \in 1 .. q.count - 1 : b[i] = a[i + 1]
    BY <1>1, <1>2, <1>6, PopFacts
  <2>2. a # <<>>
    BY <1>2, <1>3, <1>6, SeqFacts
  <2>3. /\ IsSeq(Tail(a)) /\ Len(Tail(a)) = Len(a) - 1
        /\ \A i \in 1 .. Len(a) - 1 : Tail(a)[i] = a[i + 1]
    BY <1>3, <2>2, TailFacts
  <2>4. Tail(a) = b
    <3>1. PICK S : Tail(a) \in Seq(S)
      BY <2>3 DEF IsSeq
    <3>2. PICK T : b \in Seq(T)
      BY <1>3 DEF IsSeq
    <3>3. QED
      BY <1>3, <2>1, <2>3, <3>1, <3>2, SeqEqual
  <2>5. QED
    BY <1>4, <1>6, <2>4
<1>7. QED
  BY <1>5, <1>6 DEF QueueMoves

(* The event queue is first in, first out, for every capacity: what it has  *)
(* taken leaves it in the order it came, also where the buffer wraps, when  *)
(* it is full, and while a tick runs one step inside another.               *)
THEOREM Queue_is_fifo == PortsReadTogether => (Spec => QueueIsFifo)
<1> SUFFICES ASSUME PortsReadTogether PROVE Spec => QueueIsFifo
  OBVIOUS
<1>1. Init => StepInv
  BY StepStart
<1>2. StepInv /\ [Next]_vars => StepInv'
  BY NextKeepsStep
<1>3. StepInv /\ StepInv' /\ [Next]_vars =>
        [\/ /\ Len(Queued(queue)') >= Len(Queued(queue))
            /\ SubSeq(Queued(queue)', 1, Len(Queued(queue))) = Queued(queue)
         \/ queue.count > 0 /\ Queued(queue)' = Tail(Queued(queue))]_vars
  BY NextKeepsStep, QueueMovesInOrder
<1>4. QED
  BY <1>1, <1>2, <1>3, PTL DEF Spec, QueueIsFifo

-----------------------------------------------------------------------------
(* Bytes of the keyboard: what the driver makes of those on their way.      *)

Struck(k, byte) == ps2_keyboard_handle_byte(k, input_queue_initialize, byte).keyboard
(* The byte is taken for a key that repeats.                                *)
Again(k, byte) ==
    /\ k.pause = 0 /\ byte \notin {"e0", "f0", "e1"} /\ IsMapped(byte, k.extended)
    /\ ~k.break /\ <<k.extended, byte>> \in k.down

LEMMA StruckFacts ==
    ASSUME NEW k, NEW q, QueueSound(q), NEW byte, NEW b, Again(k, byte) => b
    PROVE  /\ ps2_keyboard_handle_byte(k, q, byte).keyboard = Struck(k, byte)
           /\ Pushed(q, ps2_keyboard_handle_byte(k, q, byte).queue, b)
<1>1. ps2_keyboard_handle_byte(k, q, byte).keyboard = Struck(k, byte)
  BY DEF ps2_keyboard_handle_byte, Struck
<1> DEFINE d == Decoded(k, byte)
           e == [kind |-> "key", key |-> byte, flags |-> Flags(d.keyboard, k.break, d.repeat)]
           new == ps2_keyboard_handle_byte(k, q, byte).queue
           Key == k.pause = 0 /\ byte \notin {"e0", "f0", "e1"} /\ IsMapped(byte, k.extended)
<1>2. CASE ~Key
  <2>1. new = q
    BY <1>2 DEF ps2_keyboard_handle_byte
  <2>2. QED
    BY <1>1, <2>1, PushedNone
<1>3. CASE Key
  <2>1. new = input_queue_push(q, e).queue
    BY <1>3 DEF ps2_keyboard_handle_byte, input_emit_key
  <2>2. "repeat" \in e.flags => d.repeat
    BY DEF Flags
  <2>3. d.repeat => Again(k, byte)
    BY <1>3 DEF Decoded, Again
  <2>4. Honest(e, b)
    <3> HIDE DEF d, e
    <3>1. QED
      BY <2>2, <2>3 DEF Honest
  <2> HIDE DEF e, new
  <2>5. Pushed(q, input_queue_push(q, e).queue, b)
    BY <2>4, PushFacts
  <2>6. QED
    BY <1>1, <2>1, <2>5 DEF new
<1>4. QED
  BY <1>2, <1>3

(* A keyboard as a record, and what each kind of byte makes of it.          *)
Board(pause, extended, break, down, caps) ==
    [pause |-> pause, extended |-> extended, break |-> break, down |-> down, caps |-> caps]

LEMMA BoardFields ==
    ASSUME NEW n, NEW x, NEW r, NEW d, NEW c, NEW k, k = Board(n, x, r, d, c)
    PROVE  k.pause = n /\ k.extended = x /\ k.break = r /\ k.down = d /\ k.caps = c
  BY DEF Board

LEMMA StrikePrefix ==
    ASSUME NEW x \in BOOLEAN, NEW r \in BOOLEAN, NEW d, NEW c
    PROVE  /\ Struck(Board(0, x, r, d, c), "e0") = Board(0, TRUE, r, d, c)
           /\ Struck(Board(0, x, r, d, c), "f0") = Board(0, x, TRUE, d, c)
           /\ Struck(Board(0, x, r, d, c), "e1") = Board(7, FALSE, FALSE, d, c)
           /\ ~Again(Board(0, x, r, d, c), "e0") /\ ~Again(Board(0, x, r, d, c), "f0")
           /\ ~Again(Board(0, x, r, d, c), "e1")
  BY DEF Struck, ps2_keyboard_handle_byte, Prefixed, Board, Again

LEMMA StrikePause ==
    ASSUME NEW n \in 1 .. 7, NEW d, NEW c, NEW y
    PROVE  /\ Struck(Board(n, FALSE, FALSE, d, c), y) = Board(n - 1, FALSE, FALSE, d, c)
           /\ ~Again(Board(n, FALSE, FALSE, d, c), y)
<1>1. PICK k : k = Board(n, FALSE, FALSE, d, c)
  OBVIOUS
<1>2. k.pause = n /\ n # 0
  BY <1>1 DEF Board
<1>3. Struck(k, y) = [k EXCEPT !.pause = @ - 1]
  BY <1>2 DEF Struck, ps2_keyboard_handle_byte
<1>4. PICK j : j = k.pause - 1
  OBVIOUS
<1>5. Struck(k, y) = [k EXCEPT !.pause = j]
  BY <1>3, <1>4
<1>6. j = n - 1
  BY <1>2, <1>4
<1>7. [k EXCEPT !.pause = j] = Board(j, FALSE, FALSE, d, c)
  <2>1. ASSUME NEW x, NEW r, NEW i, NEW u, u = Board(i, x, r, d, c)
        PROVE  [u EXCEPT !.pause = j] = Board(j, x, r, d, c)
    BY <2>1 DEF Board
  <2>2. QED
    BY <1>1, <2>1
<1>8. ~Again(k, y)
  BY <1>2 DEF Again
<1>9. QED
  BY <1>1, <1>5, <1>6, <1>7, <1>8

LEMMA StrikeUnmapped ==
    ASSUME NEW x \in BOOLEAN, NEW r \in BOOLEAN, NEW d, NEW c, NEW y,
           y \notin {"e0", "f0", "e1"}, ~IsMapped(y, x)
    PROVE  /\ Struck(Board(0, x, r, d, c), y) = Board(0, FALSE, FALSE, d, c)
           /\ ~Again(Board(0, x, r, d, c), y)
  BY DEF Struck, ps2_keyboard_handle_byte, Unsupported, Board, Again

LEMMA StrikeMake ==
    ASSUME NEW x \in BOOLEAN, NEW d, NEW c, NEW y, y \notin {"e0", "f0", "e1"}, IsMapped(y, x),
           NEW c2, c2 = IF y = CapsLock /\ ~x /\ <<x, y>> \notin d THEN ~c ELSE c
    PROVE  /\ Struck(Board(0, x, FALSE, d, c), y) = Board(0, FALSE, FALSE, d \cup {<<x, y>>}, c2)
           /\ Again(Board(0, x, FALSE, d, c), y) => <<x, y>> \in d
  BY DEF Struck, ps2_keyboard_handle_byte, Decoded, Board, Again

LEMMA StrikeBreak ==
    ASSUME NEW x \in BOOLEAN, NEW d, NEW c, NEW y, y \notin {"e0", "f0", "e1"}, IsMapped(y, x)
    PROVE  /\ Struck(Board(0, x, TRUE, d, c), y) = Board(0, FALSE, FALSE, d \ {<<x, y>>}, c)
           /\ ~Again(Board(0, x, TRUE, d, c), y)
  BY DEF Struck, ps2_keyboard_handle_byte, Decoded, Board, Again

(* The bytes s take a keyboard from k to m, and repeat a key only if b.     *)
Runs(k, s, m, b) ==
    /\ IsSeq(s)
    /\ \E ks : /\ ks[0] = k /\ ks[Len(s)] = m
               /\ \A i \in 1 .. Len(s) : /\ ks[i] = Struck(ks[i - 1], s[i])
                                         /\ Again(ks[i - 1], s[i]) => b

LEMMA RunsNone ==
    ASSUME NEW k, NEW b
    PROVE  Runs(k, <<>>, k, b)
<1>1. IsSeq(<<>>) /\ Len(<<>>) = 0
  <2>1. <<>> \in Seq({})
    OBVIOUS
  <2>2. QED
    BY <2>1 DEF IsSeq
<1>2. PICK ks : ks = [i \in {0} |-> k]
  OBVIOUS
<1>3. ks[0] = k
  BY <1>2
<1>4. QED
  BY <1>1, <1>3 DEF Runs

LEMMA RunsEnd ==
    ASSUME NEW k, NEW m, NEW b, Runs(k, <<>>, m, b)
    PROVE  m = k
  BY DEF Runs

LEMMA RunsMore ==
    ASSUME NEW k, NEW s, NEW m, NEW b, NEW c, Runs(k, s, m, b), b => c
    PROVE  Runs(k, s, m, c)
  BY DEF Runs

LEMMA RunsHead ==
    ASSUME NEW k, NEW s, NEW m, NEW b, Runs(k, s, m, b), s # <<>>
    PROVE  Runs(Struck(k, Head(s)), Tail(s), m, b) /\ (Again(k, Head(s)) => b)
<1>1. IsSeq(s)
  BY DEF Runs
<1>2. PICK ks : /\ ks[0] = k /\ ks[Len(s)] = m
                /\ \A i \in 1 .. Len(s) : /\ ks[i] = Struck(ks[i - 1], s[i])
                                          /\ Again(ks[i - 1], s[i]) => b
  BY DEF Runs
<1>3. /\ IsSeq(Tail(s)) /\ Len(Tail(s)) = Len(s) - 1 /\ Len(s) \in Nat \ {0}
      /\ \A i \in 1 .. Len(s) - 1 : Tail(s)[i] = s[i + 1]
  BY <1>1, TailFacts
<1>4. PICK n, t : n = Len(s) /\ t = Tail(s)
  OBVIOUS
<1>5. Head(s) = s[1]
  BY <1>1, SeqFacts
<1>6. /\ n \in Nat \ {0} /\ Len(t) = n - 1 /\ \A i \in 1 .. n - 1 : t[i] = s[i + 1]
      /\ ks[0] = k /\ ks[n] = m
      /\ \A i \in 1 .. n : ks[i] = Struck(ks[i - 1], s[i]) /\ (Again(ks[i - 1], s[i]) => b)
  BY <1>2, <1>3, <1>4
<1>7. ks[1] = Struck(k, s[1]) /\ (Again(k, s[1]) => b)
  <2>1. 1 \in 1 .. n /\ 1 - 1 = 0
    BY <1>6
  <2>2. QED
    BY <1>6, <2>1
<1>8. PICK ls : ls = [i \in 0 .. n - 1 |-> ks[i + 1]]
  OBVIOUS
<1>9. \A i \in 0 .. n - 1 : ls[i] = ks[i + 1]
  BY <1>8
<1>10. ls[0] = ks[1] /\ ls[n - 1] = m
  <2>1. 0 \in 0 .. n - 1 /\ n - 1 \in 0 .. n - 1 /\ 0 + 1 = 1 /\ (n - 1) + 1 = n
    BY <1>6
  <2>2. QED
    BY <1>6, <1>9, <2>1
<1>11. ASSUME NEW i \in 1 .. n - 1
       PROVE  ls[i] = Struck(ls[i - 1], t[i]) /\ (Again(ls[i - 1], t[i]) => b)
  <2>1. i \in 0 .. n - 1 /\ i - 1 \in 0 .. n - 1 /\ i + 1 \in 1 .. n /\ (i - 1) + 1 = i /\ (i + 1) - 1 = i
    BY <1>6
  <2>2. ls[i] = ks[i + 1] /\ ls[i - 1] = ks[i] /\ t[i] = s[i + 1]
    BY <1>6, <1>9, <2>1
  <2>3. ks[i + 1] = Struck(ks[i], s[i + 1]) /\ (Again(ks[i], s[i + 1]) => b)
    BY <1>6, <2>1
  <2>4. QED
    BY <2>2, <2>3
<1>12. Runs(Struck(k, s[1]), t, m, b)
  BY <1>3, <1>4, <1>6, <1>7, <1>10, <1>11 DEF Runs
<1>13. QED
  BY <1>4, <1>5, <1>7, <1>12

LEMMA RunsConcat ==
    ASSUME NEW k, NEW s, NEW m, NEW t, NEW z, NEW b, Runs(k, s, m, b), Runs(m, t, z, b)
    PROVE  Runs(k, s \o t, z, b)
<1>1. IsSeq(s) /\ IsSeq(t)
  BY DEF Runs
<1>2. PICK ks : /\ ks[0] = k /\ ks[Len(s)] = m
                /\ \A i \in 1 .. Len(s) : /\ ks[i] = Struck(ks[i - 1], s[i])
                                          /\ Again(ks[i - 1], s[i]) => b
  BY DEF Runs
<1>3. PICK ls : /\ ls[0] = m /\ ls[Len(t)] = z
                /\ \A i \in 1 .. Len(t) : /\ ls[i] = Struck(ls[i - 1], t[i])
                                          /\ Again(ls[i - 1], t[i]) => b
  BY DEF Runs
<1>4. PICK u, n, l : u = s \o t /\ n = Len(s) /\ l = Len(t)
  OBVIOUS
<1>5. /\ IsSeq(u) /\ Len(u) = n + l /\ n \in Nat /\ l \in Nat
      /\ \A i \in 1 .. n : u[i] = s[i]
      /\ \A i \in 1 .. l : u[n + i] = t[i]
  BY <1>1, <1>4, ConcatFacts, SeqFacts
<1>6. PICK js : js = [i \in 0 .. n + l |-> IF i <= n THEN ks[i] ELSE ls[i - n]]
  OBVIOUS
<1>7. /\ \A i \in 0 .. n : js[i] = ks[i]
      /\ \A i \in 1 .. l : js[n + i] = ls[i]
  <2>1. ASSUME NEW i \in 1 .. l PROVE js[n + i] = ls[i]
    <3>1. n + i \in 0 .. n + l /\ ~(n + i <= n) /\ (n + i) - n = i
      BY <1>5
    <3>2. QED
      BY <1>6, <3>1
  <2>2. ASSUME NEW i \in 0 .. n PROVE js[i] = ks[i]
    BY <1>5, <1>6
  <2>3. QED
    BY <2>1, <2>2
<1>8. js[0] = k /\ js[n] = m /\ js[n + l] = z
  <2>1. js[0] = k /\ js[n] = m
    BY <1>2, <1>4, <1>5, <1>7
  <2>2. CASE l = 0
    BY <1>3, <1>4, <1>5, <2>1, <2>2
  <2>3. CASE l # 0
    BY <1>3, <1>4, <1>5, <1>7, <2>1, <2>3
  <2>4. QED
    BY <2>1, <2>2, <2>3
<1>9. ASSUME NEW i \in 1 .. n + l
      PROVE  js[i] = Struck(js[i - 1], u[i]) /\ (Again(js[i - 1], u[i]) => b)
  <2>1. CASE i \in 1 .. n
    <3>1. i - 1 \in 0 .. n /\ i \in 0 .. n
      BY <1>5, <2>1
    <3>2. QED
      BY <1>2, <1>4, <1>5, <1>7, <2>1, <3>1
  <2>2. CASE i \notin 1 .. n
    <3>1. PICK j \in 1 .. l : i = n + j
      <4>1. i - n \in 1 .. l /\ i = n + (i - n)
        BY <1>5, <2>2
      <4>2. QED
        BY <4>1
    <3>2. js[i] = ls[j] /\ u[i] = t[j]
      BY <1>5, <1>7, <3>1
    <3>3. js[i - 1] = ls[j - 1]
      <4>1. CASE j = 1
        <5>1. i - 1 = n /\ j - 1 = 0
          BY <1>5, <3>1, <4>1
        <5>2. QED
          BY <1>3, <1>8, <5>1
      <4>2. CASE j # 1
        <5>1. j - 1 \in 1 .. l /\ i - 1 = n + (j - 1)
          BY <1>5, <3>1, <4>2
        <5>2. QED
          BY <1>7, <5>1
      <4>3. QED
        BY <4>1, <4>2
    <3>4. ls[j] = Struck(ls[j - 1], t[j]) /\ (Again(ls[j - 1], t[j]) => b)
      BY <1>3, <1>4
    <3>5. QED
      BY <3>2, <3>3, <3>4
  <2>3. QED
    BY <2>1, <2>2
<1>10. Runs(k, u, z, b)
  BY <1>5, <1>8, <1>9 DEF Runs
<1>11. QED
  BY <1>4, <1>10

(* The states after each of a few bytes.                                    *)
LEMMA RunsStates ==
    ASSUME NEW k, NEW s, IsSeq(s), NEW ms, NEW b, ms[1] = k,
           \A i \in 1 .. Len(s) : /\ ms[i + 1] = Struck(ms[i], s[i])
                                  /\ Again(ms[i], s[i]) => b
    PROVE  Runs(k, s, ms[Len(s) + 1], b)
<1>1. PICK n : n = Len(s)
  OBVIOUS
<1>2. n \in Nat
  BY <1>1, SeqFacts
<1>3. PICK ks : ks = [i \in 0 .. n |-> ms[i + 1]]
  OBVIOUS
<1>4. ks[0] = k /\ ks[n] = ms[n + 1]
  BY <1>2, <1>3
<1>5. ASSUME NEW i \in 1 .. n
      PROVE  ks[i] = Struck(ks[i - 1], s[i]) /\ (Again(ks[i - 1], s[i]) => b)
  <2>1. i \in 0 .. n /\ i - 1 \in 0 .. n /\ (i - 1) + 1 = i
    BY <1>2
  <2>2. ks[i] = ms[i + 1] /\ ks[i - 1] = ms[i]
    BY <1>3, <2>1
  <2>3. QED
    BY <1>1, <2>2
<1>6. QED
  BY <1>1, <1>4, <1>5 DEF Runs

LEMMA RunsOne ==
    ASSUME NEW k, NEW x, NEW b, Again(k, x) => b
    PROVE  Runs(k, <<x>>, Struck(k, x), b)
<1>1. PICK s : s = <<x>>
  OBVIOUS
<1>2. IsSeq(s) /\ Len(s) = 1 /\ \A i \in 1 .. Len(s) : s[i] = x
  BY <1>1, SingleAnswer
<1>3. PICK m : m = Struck(k, x)
  OBVIOUS
<1>4. PICK ms : ms = <<k, m>>
  OBVIOUS
<1>5. ms[1] = k /\ ms[2] = m
  BY <1>4
<1>6. \A i \in 1 .. Len(s) : ms[i + 1] = Struck(ms[i], s[i]) /\ (Again(ms[i], s[i]) => b)
  <2>1. \A i \in 1 .. Len(s) : i = 1 /\ i + 1 = 2 /\ s[i] = x
    BY <1>2
  <2>2. QED
    BY <1>3, <1>5, <2>1
<1>7. Runs(k, s, ms[Len(s) + 1], b)
  BY <1>2, <1>5, <1>6, RunsStates
<1>8. Len(s) + 1 = 2
  BY <1>2
<1>9. QED
  BY <1>1, <1>3, <1>5, <1>7, <1>8

(* The code of a key that has one, and what the driver's table of keys says *)
(* when it agrees with the keys held.                                       *)
Scan(key) ==
    CASE key = "shift_l" -> LeftShift
      [] key = "shift_r" -> RightShift
      [] key = "caps"    -> CapsLock
      [] key = "arrow"   -> "6b"
      [] OTHER           -> key
Code(key) == <<key = "arrow", Scan(key)>>
Coded == (Keys \cup Shifts) \ ({"pause", "print"} \cup Unmapped)
Follows(d, held) ==
    /\ <<FALSE, LeftControl>> \notin d
    /\ \A key \in Coded : Code(key) \in d <=> key \in held
Agree(k, held, caps) == \E d : k = Board(0, FALSE, FALSE, d, caps) /\ Follows(d, held)

LEMMA CodeFacts ==
    ASSUME NEW key \in Coded
    PROVE  /\ Scan(key) \notin {"e0", "f0", "e1"} /\ IsMapped(Scan(key), key = "arrow")
           /\ Code(key) # <<FALSE, LeftControl>>
           /\ Scan(key) = CapsLock <=> key = "caps"
           /\ \A other \in Coded : Code(other) = Code(key) => other = key
<1>1. \A k \in Coded : k \notin {"e0", "f0", "e1", LeftShift, RightShift, LeftControl, CapsLock,
                                 "pause", "print", "unknown", "77"}
  BY InputAssumption DEF Coded, Shifts, LeftShift, RightShift, LeftControl, CapsLock, Unmapped
<1>2. \A k \in Coded : /\ k = "shift_l" => Scan(k) = "12"
                       /\ k = "shift_r" => Scan(k) = "59"
                       /\ k = "caps" => Scan(k) = "58"
                       /\ k = "arrow" => Scan(k) = "6b"
                       /\ k \notin {"shift_l", "shift_r", "caps", "arrow"} => Scan(k) = k
  BY DEF Scan, LeftShift, RightShift, CapsLock
<1>3. \A k \in Coded : k \notin {"e0", "f0", "e1", "12", "59", "14", "58",
                                 "pause", "print", "unknown", "77"}
  BY <1>1 DEF LeftShift, RightShift, LeftControl, CapsLock
<1>4. /\ Scan(key) \notin {"e0", "f0", "e1", "14"}
      /\ Scan(key) = "58" <=> key = "caps"
  BY <1>2, <1>3
<1>5. IsMapped(Scan(key), key = "arrow")
  <2>1. CASE key = "arrow"
    BY <1>2, <2>1 DEF IsMapped
  <2>2. CASE key # "arrow"
    BY <1>2, <1>3, <2>2 DEF IsMapped, Unmapped
  <2>3. QED
    BY <2>1, <2>2
<1>6. Code(key) # <<FALSE, LeftControl>>
  BY <1>4 DEF Code, LeftControl
<1>7. ASSUME NEW other \in Coded, Code(other) = Code(key) PROVE other = key
  <2>1. Scan(other) = Scan(key) /\ (other = "arrow" <=> key = "arrow")
    BY <1>7 DEF Code
  <2>2. QED
    BY <1>2, <1>3, <2>1
<1>8. QED
  BY <1>4, <1>5, <1>6, <1>7 DEF CapsLock

LEMMA FollowsMoves ==
    ASSUME NEW d, NEW held, Follows(d, held), NEW key
    PROVE  /\ key \in Coded => /\ Follows(d \cup {Code(key)}, held \cup {key})
                               /\ Follows(d \ {Code(key)}, held \ {key})
           /\ key \notin Coded => Follows(d, held \cup {key}) /\ Follows(d, held \ {key})
<1>1. CASE key \in Coded
  <2>1. /\ Code(key) # <<FALSE, LeftControl>>
        /\ \A other \in Coded : Code(other) = Code(key) => other = key
    BY <1>1, CodeFacts
  <2>2. \A other \in Coded : other # key => Code(other) # Code(key)
    BY <2>1
  <2>3. QED
    BY <1>1, <2>1, <2>2 DEF Follows
<1>2. CASE key \notin Coded
  BY <1>2 DEF Follows
<1>3. QED
  BY <1>1, <1>2

(* The bytes of a key and what they make of a keyboard at rest.             *)
LEMMA KeyBytes ==
    ASSUME NEW key \in Coded
    PROVE  /\ MakeBytes(key) = IF key = "arrow" THEN <<"e0", Scan(key)>> ELSE <<Scan(key)>>
           /\ BreakBytes(key) = IF key = "arrow" THEN <<"e0", "f0", Scan(key)>>
                                ELSE <<"f0">> \o <<Scan(key)>>
<1>1. key # "pause" /\ key # "print"
  BY DEF Coded
<1>2. MakeBytes(key) = IF key = "arrow" THEN <<"e0", Scan(key)>> ELSE <<Scan(key)>>
  BY <1>1 DEF MakeBytes, Scan, LeftShift, RightShift, CapsLock
<1>3. CASE key = "arrow"
  BY <1>2, <1>3 DEF BreakBytes, Scan
<1>4. CASE key # "arrow"
  <2>1. MakeBytes(key) = <<Scan(key)>> /\ BreakBytes(key) = <<"f0">> \o MakeBytes(key)
    BY <1>1, <1>2, <1>4 DEF BreakBytes
  <2>2. QED
    BY <1>2, <1>4, <2>1
<1>5. QED
  BY <1>2, <1>3, <1>4

LEMMA TwoBytes ==
    ASSUME NEW k, NEW x, NEW y, NEW b, NEW l, l = Struck(k, x), NEW m, m = Struck(l, y),
           Again(k, x) => b, Again(l, y) => b
    PROVE  Runs(k, <<x, y>>, m, b)
<1>1. PICK s, ms : s = <<x, y>> /\ ms = <<k, l, m>>
  OBVIOUS
<1>2. IsSeq(s) /\ Len(s) = 2 /\ s[1] = x /\ s[2] = y
  <2>1. s \in Seq({x, y})
    BY <1>1
  <2>2. QED
    BY <1>1, <2>1 DEF IsSeq
<1>3. ms[1] = k /\ ms[2] = l /\ ms[3] = m
  BY <1>1
<1>4. \A i \in 1 .. Len(s) : ms[i + 1] = Struck(ms[i], s[i]) /\ (Again(ms[i], s[i]) => b)
  <2>1. \A i \in 1 .. Len(s) : (i = 1 /\ i + 1 = 2) \/ (i = 2 /\ i + 1 = 3)
    BY <1>2
  <2>2. QED
    BY <1>2, <1>3, <2>1
<1>5. Runs(k, s, ms[Len(s) + 1], b)
  BY <1>2, <1>3, <1>4, RunsStates
<1>6. Len(s) + 1 = 3
  BY <1>2
<1>7. QED
  BY <1>1, <1>3, <1>5, <1>6

LEMMA ThreeBytes ==
    ASSUME NEW k, NEW x, NEW y, NEW z, NEW b, NEW l, l = Struck(k, x), NEW m, m = Struck(l, y),
           NEW n, n = Struck(m, z), Again(k, x) => b, Again(l, y) => b, Again(m, z) => b
    PROVE  Runs(k, <<x, y, z>>, n, b)
<1>1. PICK s, ms : s = <<x, y, z>> /\ ms = <<k, l, m, n>>
  OBVIOUS
<1>2. IsSeq(s) /\ Len(s) = 3 /\ s[1] = x /\ s[2] = y /\ s[3] = z
  <2>1. s \in Seq({x, y, z})
    BY <1>1
  <2>2. QED
    BY <1>1, <2>1 DEF IsSeq
<1>3. ms[1] = k /\ ms[2] = l /\ ms[3] = m /\ ms[4] = n
  BY <1>1
<1>4. \A i \in 1 .. Len(s) : ms[i + 1] = Struck(ms[i], s[i]) /\ (Again(ms[i], s[i]) => b)
  <2>1. \A i \in 1 .. Len(s) : (i = 1 /\ i + 1 = 2) \/ (i = 2 /\ i + 1 = 3) \/ (i = 3 /\ i + 1 = 4)
    BY <1>2
  <2>2. QED
    BY <1>2, <1>3, <2>1
<1>5. Runs(k, s, ms[Len(s) + 1], b)
  BY <1>2, <1>3, <1>4, RunsStates
<1>6. Len(s) + 1 = 4
  BY <1>2
<1>7. QED
  BY <1>1, <1>3, <1>5, <1>6

LEMMA PauseRuns ==
    ASSUME NEW d, NEW c, NEW b
    PROVE  Runs(Board(0, FALSE, FALSE, d, c), MakeBytes("pause"), Board(0, FALSE, FALSE, d, c), b)
<1>1. PICK s : s = <<"e1", "14", "77", "e1", "f0", "14", "f0", "77">>
  OBVIOUS
<1>2. MakeBytes("pause") = s
  BY <1>1 DEF MakeBytes
<1>3. IsSeq(s) /\ Len(s) = 8 /\ s[1] = "e1"
  <2>1. s \in Seq({"e1", "14", "77", "f0"})
    BY <1>1
  <2>2. QED
    BY <1>1, <2>1 DEF IsSeq
<1>4. PICK k : k = Board(0, FALSE, FALSE, d, c)
  OBVIOUS
<1>5. PICK ms : ms = [i \in 1 .. 9 |-> IF i = 1 THEN k ELSE Board(9 - i, FALSE, FALSE, d, c)]
  OBVIOUS
<1>6. ms[1] = k /\ \A i \in 2 .. 9 : ms[i] = Board(9 - i, FALSE, FALSE, d, c)
  BY <1>5
<1>7. ms[9] = k
  <2>1. 9 \in 2 .. 9 /\ 9 - 9 = 0
    OBVIOUS
  <2>2. QED
    BY <1>4, <1>6, <2>1
<1>8. ASSUME NEW i \in 1 .. 8
      PROVE  ms[i + 1] = Struck(ms[i], s[i]) /\ (Again(ms[i], s[i]) => b)
  <2>1. CASE i = 1
    <3>1. Struck(k, "e1") = Board(7, FALSE, FALSE, d, c) /\ ~Again(k, "e1")
      BY <1>4, StrikePrefix
    <3>2. i + 1 = 2 /\ 2 \in 2 .. 9 /\ 9 - 2 = 7
      BY <2>1
    <3>3. QED
      BY <1>3, <1>6, <2>1, <3>1, <3>2
  <2>2. CASE i # 1
    <3>1. i \in 2 .. 9 /\ i + 1 \in 2 .. 9 /\ 9 - i \in 1 .. 7 /\ (9 - i) - 1 = 9 - (i + 1)
      BY <2>2
    <3>2. PICK n \in 1 .. 7 : n = 9 - i
      BY <3>1
    <3>3. ms[i] = Board(n, FALSE, FALSE, d, c) /\ ms[i + 1] = Board(n - 1, FALSE, FALSE, d, c)
      BY <1>6, <3>1, <3>2
    <3>4. QED
      BY <3>3, StrikePause
  <2>3. QED
    BY <2>1, <2>2
<1>9. Runs(k, s, ms[Len(s) + 1], b)
  BY <1>3, <1>6, <1>8, RunsStates
<1>10. Len(s) + 1 = 9
  BY <1>3
<1>11. QED
  BY <1>2, <1>4, <1>7, <1>9, <1>10

LEMMA PrintRuns ==
    ASSUME NEW d, NEW c, NEW b, NEW k, k = Board(0, FALSE, FALSE, d, c)
    PROVE  Runs(k, MakeBytes("print"), k, b) /\ Runs(k, BreakBytes("print"), k, b)
<1> DEFINE x == Board(0, TRUE, FALSE, d, c)
           y == Board(0, TRUE, TRUE, d, c)
<1>1. Struck(k, "e0") = x /\ ~Again(k, "e0") /\ Struck(x, "f0") = y /\ ~Again(x, "f0")
  BY StrikePrefix
<1>2. ASSUME NEW n \in {"12", "7c"}
      PROVE  Struck(x, n) = k /\ ~Again(x, n) /\ Struck(y, n) = k /\ ~Again(y, n)
  <2>1. n \notin {"e0", "f0", "e1"} /\ ~IsMapped(n, TRUE)
    BY DEF IsMapped
  <2>2. QED
    BY <2>1, StrikeUnmapped
<1> HIDE DEF x, y
<1>3. ASSUME NEW n \in {"12", "7c"}
      PROVE  Runs(k, <<"e0", n>>, k, b) /\ Runs(k, <<"e0", "f0", n>>, k, b)
  <2>1. PICK l, m : l = x /\ m = y
    OBVIOUS
  <2>2. /\ l = Struck(k, "e0") /\ k = Struck(l, n) /\ m = Struck(l, "f0") /\ k = Struck(m, n)
        /\ ~Again(k, "e0") /\ ~Again(l, n) /\ ~Again(l, "f0") /\ ~Again(m, n)
    BY <1>1, <1>2, <2>1
  <2>3. Runs(k, <<"e0", n>>, k, b)
    BY <2>2, TwoBytes
  <2>4. Runs(k, <<"e0", "f0", n>>, k, b)
    BY <2>2, ThreeBytes
  <2>5. QED
    BY <2>3, <2>4
<1>4. MakeBytes("print") = <<"e0", "12">> \o <<"e0", "7c">>
  BY DEF MakeBytes
<1>5. BreakBytes("print") = <<"e0", "f0", "7c">> \o <<"e0", "f0", "12">>
  BY DEF BreakBytes
<1>6. QED
  BY <1>3, <1>4, <1>5, RunsConcat

(* Pressing and releasing a key: its bytes lead from a keyboard that agrees *)
(* with what is held to one that agrees with what is held then.             *)
LEMMA CodedRuns ==
    ASSUME NEW key \in Coded, NEW d, NEW c \in BOOLEAN, NEW b,
           NEW k, k = Board(0, FALSE, FALSE, d, c)
    PROVE  /\ (Code(key) \in d => b) =>
                 Runs(k, MakeBytes(key),
                      Board(0, FALSE, FALSE, d \cup {Code(key)},
                            IF key = "caps" /\ Code(key) \notin d THEN ~c ELSE c), b)
           /\ Runs(k, BreakBytes(key), Board(0, FALSE, FALSE, d \ {Code(key)}, c), b)
<1>1. PICK y : y = Scan(key)
  OBVIOUS
<1>2. PICK x \in BOOLEAN : x = (key = "arrow")
  OBVIOUS
<1>3. /\ y \notin {"e0", "f0", "e1"} /\ IsMapped(y, x) /\ Code(key) = <<x, y>>
      /\ y = CapsLock <=> key = "caps"
  BY <1>1, <1>2, CodeFacts DEF Code
<1>4. PICK c2 : c2 = IF key = "caps" /\ Code(key) \notin d THEN ~c ELSE c
  OBVIOUS
<1>5. (IF y = CapsLock /\ ~x /\ <<x, y>> \notin d THEN ~c ELSE c) = c2
  BY <1>2, <1>3, <1>4
<1>6. PICK m, n : /\ m = Board(0, FALSE, FALSE, d \cup {<<x, y>>}, c2)
                  /\ n = Board(0, FALSE, FALSE, d \ {<<x, y>>}, c)
  OBVIOUS
<1>7. PICK l, g : l = Board(0, x, FALSE, d, c) /\ g = Board(0, x, TRUE, d, c)
  OBVIOUS
<1>8. /\ Struck(l, y) = m /\ (Again(l, y) => Code(key) \in d)
      /\ Struck(g, y) = n /\ ~Again(g, y)
      /\ Struck(l, "f0") = g /\ ~Again(l, "f0")
  <2>1. CASE x = TRUE
    <3>1. /\ l = Board(0, TRUE, FALSE, d, c) /\ g = Board(0, TRUE, TRUE, d, c)
          /\ IsMapped(y, TRUE) /\ Code(key) = <<TRUE, y>>
          /\ m = Board(0, FALSE, FALSE, d \cup {<<TRUE, y>>}, c2)
          /\ n = Board(0, FALSE, FALSE, d \ {<<TRUE, y>>}, c)
          /\ c2 = IF y = CapsLock /\ ~TRUE /\ <<TRUE, y>> \notin d THEN ~c ELSE c
      BY <1>3, <1>5, <1>6, <1>7, <2>1
    <3>2. /\ Struck(Board(0, TRUE, FALSE, d, c), y)
                = Board(0, FALSE, FALSE, d \cup {<<TRUE, y>>}, c2)
          /\ Again(Board(0, TRUE, FALSE, d, c), y) => <<TRUE, y>> \in d
      BY <1>3, <3>1 DEF Struck, ps2_keyboard_handle_byte, Decoded, Board, Again
    <3>3. /\ Struck(Board(0, TRUE, TRUE, d, c), y) = Board(0, FALSE, FALSE, d \ {<<TRUE, y>>}, c)
          /\ ~Again(Board(0, TRUE, TRUE, d, c), y)
      BY <1>3, <3>1, StrikeBreak
    <3>4. /\ Struck(Board(0, TRUE, FALSE, d, c), "f0") = Board(0, TRUE, TRUE, d, c)
          /\ ~Again(Board(0, TRUE, FALSE, d, c), "f0")
      BY DEF Struck, ps2_keyboard_handle_byte, Prefixed, Board, Again
    <3>5. QED
      BY <3>1, <3>2, <3>3, <3>4
  <2>2. CASE x = FALSE
    <3>1. /\ l = Board(0, FALSE, FALSE, d, c) /\ g = Board(0, FALSE, TRUE, d, c)
          /\ IsMapped(y, FALSE) /\ Code(key) = <<FALSE, y>>
          /\ m = Board(0, FALSE, FALSE, d \cup {<<FALSE, y>>}, c2)
          /\ n = Board(0, FALSE, FALSE, d \ {<<FALSE, y>>}, c)
          /\ c2 = IF y = CapsLock /\ ~FALSE /\ <<FALSE, y>> \notin d THEN ~c ELSE c
      BY <1>3, <1>5, <1>6, <1>7, <2>2
    <3>2. /\ Struck(Board(0, FALSE, FALSE, d, c), y)
                = Board(0, FALSE, FALSE, d \cup {<<FALSE, y>>}, c2)
          /\ Again(Board(0, FALSE, FALSE, d, c), y) => <<FALSE, y>> \in d
      BY <1>3, <3>1 DEF Struck, ps2_keyboard_handle_byte, Decoded, Board, Again
    <3>3. /\ Struck(Board(0, FALSE, TRUE, d, c), y) = Board(0, FALSE, FALSE, d \ {<<FALSE, y>>}, c)
          /\ ~Again(Board(0, FALSE, TRUE, d, c), y)
      BY <1>3, <3>1, StrikeBreak
    <3>4. /\ Struck(Board(0, FALSE, FALSE, d, c), "f0") = Board(0, FALSE, TRUE, d, c)
          /\ ~Again(Board(0, FALSE, FALSE, d, c), "f0")
      BY StrikePrefix
    <3>5. QED
      BY <3>1, <3>2, <3>3, <3>4
  <2>3. QED
    BY <1>2, <2>1, <2>2
<1>9. CASE key = "arrow"
  <2>1. MakeBytes(key) = <<"e0", y>> /\ BreakBytes(key) = <<"e0", "f0", y>>
    BY <1>1, <1>9, KeyBytes
  <2>2. Struck(k, "e0") = l /\ ~Again(k, "e0")
    <3>1. x = TRUE
      BY <1>2, <1>9
    <3>2. QED
      BY <1>7, <3>1, StrikePrefix
  <2>3. (Code(key) \in d => b) => Runs(k, <<"e0", y>>, m, b)
    BY <1>8, <2>2, TwoBytes
  <2>4. Runs(k, <<"e0", "f0", y>>, n, b)
    BY <1>8, <2>2, ThreeBytes
  <2>5. QED
    BY <1>3, <1>4, <1>6, <2>1, <2>3, <2>4
<1>10. CASE key # "arrow"
  <2>1. MakeBytes(key) = <<y>> /\ BreakBytes(key) = <<"f0">> \o <<y>>
    BY <1>1, <1>10, KeyBytes
  <2>2. k = l
    <3>1. x = FALSE
      BY <1>2, <1>10
    <3>2. QED
      BY <1>7, <3>1
  <2>3. (Code(key) \in d => b) => Runs(k, <<y>>, m, b)
    BY <1>8, <2>2, RunsOne
  <2>4. Runs(k, <<"f0">> \o <<y>>, n, b)
    <3>1. Runs(k, <<"f0">>, g, b)
      BY <1>8, <2>2, RunsOne
    <3>2. Runs(g, <<y>>, n, b)
      BY <1>8, RunsOne
    <3>3. QED
      BY <3>1, <3>2, RunsConcat
  <2>5. QED
    BY <1>3, <1>4, <1>6, <2>1, <2>3, <2>4
<1>11. QED
  BY <1>9, <1>10

LEMMA UnknownRuns ==
    ASSUME NEW key \in Unmapped, NEW d, NEW c, NEW b, NEW k, k = Board(0, FALSE, FALSE, d, c)
    PROVE  Runs(k, MakeBytes(key), k, b) /\ Runs(k, BreakBytes(key), k, b)
<1>1. MakeBytes(key) = <<key>> /\ BreakBytes(key) = <<"f0">> \o <<key>>
  BY DEF Unmapped, MakeBytes, BreakBytes
<1>2. key \notin {"e0", "f0", "e1"} /\ ~IsMapped(key, FALSE)
  BY DEF Unmapped, IsMapped
<1>3. Struck(k, key) = k /\ ~Again(k, key)
  BY <1>2, StrikeUnmapped
<1>4. PICK g : g = Board(0, FALSE, TRUE, d, c)
  OBVIOUS
<1>5. Struck(k, "f0") = g /\ ~Again(k, "f0")
  BY <1>4, StrikePrefix
<1>6. Struck(g, key) = k /\ ~Again(g, key)
  BY <1>2, <1>4, StrikeUnmapped
<1>7. Runs(k, <<key>>, k, b)
  <2>1. Runs(k, <<key>>, Struck(k, key), b)
    BY <1>3, RunsOne
  <2>2. QED
    BY <1>3, <2>1
<1>8. Runs(k, <<"f0">>, g, b)
  <2>1. Runs(k, <<"f0">>, Struck(k, "f0"), b)
    BY <1>5, RunsOne
  <2>2. QED
    BY <1>5, <2>1
<1>9. Runs(g, <<key>>, k, b)
  <2>1. Runs(g, <<key>>, Struck(g, key), b)
    BY <1>6, RunsOne
  <2>2. QED
    BY <1>6, <2>1
<1>10. QED
  BY <1>1, <1>7, <1>8, <1>9, RunsConcat

LEMMA PressAgrees ==
    ASSUME NEW m, NEW held, NEW caps \in BOOLEAN, Agree(m, held, caps), NEW key \in Keys,
           NEW b, key \in held => b
    PROVE  \E z : /\ Runs(m, MakeBytes(key), z, b)
                  /\ Agree(z, IF key = "pause" THEN held ELSE held \cup {key},
                           IF key = "caps" /\ key \notin held THEN ~caps ELSE caps)
<1>1. PICK d : m = Board(0, FALSE, FALSE, d, caps) /\ Follows(d, held)
  BY DEF Agree
<1>2. CASE key \in Coded
  <2>1. Code(key) \in d <=> key \in held
    BY <1>1, <1>2 DEF Follows
  <2>2. Follows(d \cup {Code(key)}, held \cup {key}) /\ key # "pause"
    BY <1>1, <1>2, FollowsMoves DEF Coded
  <2>3. PICK c2 : c2 = IF key = "caps" /\ key \notin held THEN ~caps ELSE caps
    OBVIOUS
  <2>4. (IF key = "caps" /\ Code(key) \notin d THEN ~caps ELSE caps) = c2
    BY <2>1, <2>3
  <2>5. PICK z : z = Board(0, FALSE, FALSE, d \cup {Code(key)}, c2)
    OBVIOUS
  <2>6. Runs(m, MakeBytes(key), z, b)
    BY <1>1, <1>2, <2>1, <2>4, <2>5, CodedRuns
  <2>7. Agree(z, held \cup {key}, c2)
    BY <2>2, <2>5 DEF Agree
  <2>8. QED
    BY <2>2, <2>3, <2>6, <2>7
<1>3. CASE key \notin Coded
  <2>1. key \in {"pause", "print"} \cup Unmapped /\ key # "caps"
    BY <1>3 DEF Coded, Unmapped
  <2>2. Runs(m, MakeBytes(key), m, b)
    <3>1. CASE key = "pause"
      BY <1>1, <3>1, PauseRuns
    <3>2. CASE key = "print"
      BY <1>1, <3>2, PrintRuns
    <3>3. CASE key \in Unmapped
      BY <1>1, <3>3, UnknownRuns
    <3>4. QED
      BY <2>1, <3>1, <3>2, <3>3
  <2>3. Follows(d, held \cup {key})
    BY <1>1, <1>3, FollowsMoves
  <2>4. Agree(m, held, caps) /\ Agree(m, held \cup {key}, caps)
    BY <1>1, <2>3 DEF Agree
  <2>5. QED
    BY <2>1, <2>2, <2>4
<1>4. QED
  BY <1>2, <1>3

LEMMA ReleaseAgrees ==
    ASSUME NEW m, NEW held, NEW caps \in BOOLEAN, Agree(m, held, caps), NEW key \in Keys,
           key # "pause", NEW b
    PROVE  \E z : Runs(m, BreakBytes(key), z, b) /\ Agree(z, held \ {key}, caps)
<1>1. PICK d : m = Board(0, FALSE, FALSE, d, caps) /\ Follows(d, held)
  BY DEF Agree
<1>2. CASE key \in Coded
  <2>1. Follows(d \ {Code(key)}, held \ {key})
    BY <1>1, <1>2, FollowsMoves
  <2>2. PICK z : z = Board(0, FALSE, FALSE, d \ {Code(key)}, caps)
    OBVIOUS
  <2>3. Runs(m, BreakBytes(key), z, b)
    BY <1>1, <1>2, <2>2, CodedRuns
  <2>4. QED
    BY <2>1, <2>2, <2>3 DEF Agree
<1>3. CASE key \notin Coded
  <2>1. key \in {"print"} \cup Unmapped
    BY <1>3 DEF Coded, Unmapped
  <2>2. Runs(m, BreakBytes(key), m, b)
    <3>1. CASE key = "print"
      BY <1>1, <3>1, PrintRuns
    <3>2. CASE key \in Unmapped
      BY <1>1, <3>2, UnknownRuns
    <3>3. QED
      BY <2>1, <3>1, <3>2
  <2>3. Follows(d, held \ {key})
    BY <1>1, <1>3, FollowsMoves
  <2>4. QED
    BY <1>1, <2>2, <2>3 DEF Agree
<1>4. QED
  BY <1>2, <1>3

-----------------------------------------------------------------------------
(* What the PS/2 driver will make of the bytes that are on their way: it    *)
(* will agree with the person.                                              *)

Loaded(o) == o.full /\ o.device = "keyboard"
Arrives(k, o, s, held, caps, repeated) ==
    \E m : /\ Agree(m, held, caps)
           /\ Loaded(o) => /\ Again(k, o.byte) => repeated
                           /\ Runs(Struck(k, o.byte), s, m, repeated)
           /\ ~Loaded(o) => Runs(k, s, m, repeated)

LEMMA ArrivesFirst ==
    ASSUME NEW o, ~Loaded(o), NEW repeated
    PROVE  Arrives(ps2_keyboard_initialize, o, <<>>, {}, FALSE, repeated)
<1>1. PICK k : k = ps2_keyboard_initialize
  OBVIOUS
<1>2. k = Board(0, FALSE, FALSE, {}, FALSE)
  BY <1>1 DEF Board, ps2_keyboard_initialize
<1>3. Follows({}, {})
  BY DEF Follows
<1>4. Agree(k, {}, FALSE)
  BY <1>2, <1>3 DEF Agree
<1>5. Runs(k, <<>>, k, repeated)
  BY RunsNone
<1>6. QED
  BY <1>1, <1>4, <1>5 DEF Arrives

(* The controller takes the next byte of the keyboard, or one of the mouse. *)
LEMMA ArrivesLoad ==
    ASSUME NEW k, NEW o, NEW s, NEW held, NEW caps, NEW repeated,
           Arrives(k, o, s, held, caps, repeated), ~o.full, NEW o2
    PROVE  /\ s # <<>> /\ Loaded(o2) /\ o2.byte = Head(s) =>
                 Arrives(k, o2, Tail(s), held, caps, repeated)
           /\ ~Loaded(o2) => Arrives(k, o2, s, held, caps, repeated)
<1>1. ~Loaded(o)
  BY DEF Loaded
<1>2. PICK m : Agree(m, held, caps) /\ Runs(k, s, m, repeated)
  BY <1>1 DEF Arrives
<1>3. CASE ~Loaded(o2)
  BY <1>2, <1>3 DEF Arrives
<1>4. CASE s # <<>> /\ Loaded(o2) /\ o2.byte = Head(s)
  <2>1. Runs(Struck(k, o2.byte), Tail(s), m, repeated) /\ (Again(k, o2.byte) => repeated)
    BY <1>2, <1>4, RunsHead
  <2>2. QED
    BY <1>2, <1>4, <2>1 DEF Arrives
<1>5. QED
  BY <1>3, <1>4

LEMMA ArrivesRead ==
    ASSUME NEW k, NEW o, NEW s, NEW held, NEW caps, NEW repeated,
           Arrives(k, o, s, held, caps, repeated), Loaded(o), NEW o2, ~Loaded(o2)
    PROVE  /\ Arrives(Struck(k, o.byte), o2, s, held, caps, repeated)
           /\ Again(k, o.byte) => repeated
  BY DEF Arrives

(* More bytes, which lead from agreement to agreement.                      *)
LEMMA ArrivesMore ==
    ASSUME NEW k, NEW o, NEW s, NEW held, NEW caps, NEW repeated, NEW t,
           Arrives(k, o, s, held, caps, repeated),
           NEW held2, NEW caps2, NEW repeated2, repeated => repeated2,
           \A m : Agree(m, held, caps) =>
              \E z : Runs(m, t, z, repeated2) /\ Agree(z, held2, caps2)
    PROVE  Arrives(k, o, s \o t, held2, caps2, repeated2)
<1>1. PICK m : /\ Agree(m, held, caps)
               /\ Loaded(o) => /\ Again(k, o.byte) => repeated
                               /\ Runs(Struck(k, o.byte), s, m, repeated)
               /\ ~Loaded(o) => Runs(k, s, m, repeated)
  BY DEF Arrives
<1>2. PICK z : Runs(m, t, z, repeated2) /\ Agree(z, held2, caps2)
  BY <1>1
<1>3. CASE Loaded(o)
  <2>1. Runs(Struck(k, o.byte), s \o t, z, repeated2)
    BY <1>1, <1>2, <1>3, RunsMore, RunsConcat
  <2>2. QED
    BY <1>1, <1>2, <1>3, <2>1 DEF Arrives
<1>4. CASE ~Loaded(o)
  <2>1. Runs(k, s \o t, z, repeated2)
    BY <1>1, <1>2, <1>4, RunsMore, RunsConcat
  <2>2. QED
    BY <1>2, <1>4, <2>1 DEF Arrives
<1>5. QED
  BY <1>3, <1>4

(* All that was sent has been decoded.                                      *)
LEMMA ArrivedAgrees ==
    ASSUME NEW k, NEW o, NEW held, NEW caps, NEW repeated, ~Loaded(o),
           Arrives(k, o, <<>>, held, caps, repeated)
    PROVE  /\ k.pause = 0 /\ ~k.break /\ ~k.extended
           /\ ShiftDown(k) <=> held \cap Shifts # {}
           /\ k.caps = caps /\ ~ControlDown(k)
<1>1. Agree(k, held, caps)
  BY RunsEnd DEF Arrives
<1>2. PICK d : k = Board(0, FALSE, FALSE, d, caps) /\ Follows(d, held)
  BY <1>1 DEF Agree
<1>3. k.pause = 0 /\ k.extended = FALSE /\ k.break = FALSE /\ k.down = d /\ k.caps = caps
  BY <1>2 DEF Board
<1>4. "shift_l" \in Coded /\ "shift_r" \in Coded
  BY DEF Coded, Shifts, Unmapped
<1>5. Code("shift_l") = <<FALSE, LeftShift>> /\ Code("shift_r") = <<FALSE, RightShift>>
  BY DEF Code, Scan
<1>6. /\ <<FALSE, LeftShift>> \in d <=> "shift_l" \in held
      /\ <<FALSE, RightShift>> \in d <=> "shift_r" \in held
      /\ <<FALSE, LeftControl>> \notin d
  BY <1>2, <1>4, <1>5 DEF Follows
<1>7. ShiftDown(k) <=> held \cap Shifts # {}
  BY <1>3, <1>6 DEF ShiftDown, Shifts
<1>8. ~ControlDown(k)
  BY <1>3, <1>6 DEF ControlDown
<1>9. QED
  BY <1>3, <1>7, <1>8

-----------------------------------------------------------------------------
(* The Hyper-V keyboard.                                                    *)

Keyed(k, p) == hyperv_keyboard_handle_event(k, input_queue_initialize, p).keyboard
Repeats(k, p) == ~p.e1 /\ p.key # "print" /\ ~p.released /\ p.key \in k.down

LEMMA KeyedFacts ==
    ASSUME NEW k, NEW q, QueueSound(q), NEW p, NEW b, Repeats(k, p) => b
    PROVE  /\ hyperv_keyboard_handle_event(k, q, p).keyboard = Keyed(k, p)
           /\ Pushed(q, hyperv_keyboard_handle_event(k, q, p).queue, b)
<1>1. hyperv_keyboard_handle_event(k, q, p).keyboard = Keyed(k, p)
  BY DEF hyperv_keyboard_handle_event, Keyed
<1>2. CASE p.e1 \/ p.key = "print"
  <2>1. hyperv_keyboard_handle_event(k, q, p).queue = q
    BY <1>2 DEF hyperv_keyboard_handle_event
  <2>2. QED
    BY <1>1, <2>1, PushedNone
<1>3. CASE ~p.e1 /\ p.key # "print"
  <2> DEFINE repeat == ~p.released /\ p.key \in k.down
             next == [down |-> IF p.released THEN k.down \ {p.key} ELSE k.down \cup {p.key},
                      shift |-> IF p.key \in {"shift_l", "shift_r"} THEN ~p.released ELSE k.shift,
                      caps |-> IF p.key = "caps" /\ ~p.released /\ ~repeat THEN ~k.caps ELSE k.caps]
             Says(f) == CASE f = "pressed" -> ~p.released
                          [] f = "repeat"  -> repeat
                          [] f = "shift"   -> next.shift
                          [] f = "caps"    -> next.caps
             all == {f \in {"pressed", "repeat", "shift", "caps"} : Says(f)}
  <2>0. /\ hyperv_keyboard_handle_event(k, q, p).queue = input_emit_key(q, p.key, all).queue
        /\ "repeat" \in all => ~p.released /\ p.key \in k.down
    <3>1. hyperv_keyboard_handle_event(k, q, p).queue = input_emit_key(q, p.key, all).queue
      BY <1>3 DEF hyperv_keyboard_handle_event
    <3>2. Says("repeat") => ~p.released /\ p.key \in k.down
      OBVIOUS
    <3>3. QED
      BY <3>1, <3>2
  <2>1. PICK flags :
           /\ hyperv_keyboard_handle_event(k, q, p).queue = input_emit_key(q, p.key, flags).queue
           /\ "repeat" \in flags => ~p.released /\ p.key \in k.down
    <3> HIDE DEF all
    <3>1. QED
      BY <2>0
  <2>2. PICK e : e = [kind |-> "key", key |-> p.key, flags |-> flags]
    OBVIOUS
  <2>3. hyperv_keyboard_handle_event(k, q, p).queue = input_queue_push(q, e).queue
    BY <2>1, <2>2 DEF input_emit_key
  <2>4. e.flags = flags
    BY <2>2
  <2>5. Honest(e, b)
    BY <1>3, <2>1, <2>4 DEF Honest, Repeats
  <2>6. QED
    BY <1>1, <2>3, <2>5, PushFacts
<1>4. QED
  BY <1>2, <1>3

(* The driver follows the person: one flag for both shift keys, clear when  *)
(* one of two was let go, and Print is not a key to it.                     *)
Keeps(k, held, caps, half) ==
    /\ k.shift <=> held \cap Shifts # {} /\ ~half
    /\ k.caps = caps /\ k.down = held \ {"print"}

(* A packet for a key pressed or let go, and what the person holds then.    *)
Pressing(p, key, held, caps, half, held2, caps2, half2) ==
    /\ caps \in BOOLEAN /\ half \in BOOLEAN /\ half2 \in BOOLEAN
    /\ p.key = key /\ ~p.released /\ p.e1 = (key = "pause")
    /\ held2 = IF key = "pause" THEN held ELSE held \cup {key}
    /\ caps2 = IF key = "caps" /\ key \notin held THEN ~caps ELSE caps
    /\ half2 <=> half /\ key \notin Shifts
Releasing(p, key, held, half, held2, half2) ==
    /\ half \in BOOLEAN /\ half2 \in BOOLEAN /\ key \in held /\ key # "pause"
    /\ p.key = key /\ p.released = TRUE /\ p.e1 = (key = "pause")
    /\ held2 = held \ {key}
    /\ half2 <=> (IF key \in Shifts THEN Shifts \subseteq held ELSE half)

LEMMA KeepsPress ==
    ASSUME NEW k, NEW held, NEW caps, NEW half, Keeps(k, held, caps, half), NEW key, NEW p,
           NEW held2, NEW caps2, NEW half2,
           Pressing(p, key, held, caps, half, held2, caps2, half2)
    PROVE  /\ Keeps(Keyed(k, p), held2, caps2, half2)
           /\ Repeats(k, p) => key \in held
<1> USE DEF Pressing
<1>1. Repeats(k, p) => key \in held
  BY DEF Repeats, Keeps
<1>2. CASE key = "pause"
  <2>1. Keyed(k, p) = k
    BY <1>2 DEF Keyed, hyperv_keyboard_handle_event
  <2>2. QED
    BY <1>1, <1>2, <2>1 DEF Keeps, Shifts
<1>3. CASE key = "print"
  <2>1. Keyed(k, p) = k
    BY <1>3 DEF Keyed, hyperv_keyboard_handle_event
  <2>2. QED
    BY <1>1, <1>3, <2>1 DEF Keeps, Shifts
<1>4. CASE key \notin {"pause", "print"}
  <2>1. PICK z : z = Keyed(k, p)
    OBVIOUS
  <2>2. /\ z.down = k.down \cup {key}
        /\ z.shift = IF key \in Shifts THEN TRUE ELSE k.shift
        /\ z.caps = IF key = "caps" /\ key \notin k.down THEN ~k.caps ELSE k.caps
    BY <1>4, <2>1 DEF Keyed, hyperv_keyboard_handle_event, Shifts
  <2>3. key \in k.down <=> key \in held
    BY <1>4 DEF Keeps
  <2>4. z.shift <=> (held \cup {key}) \cap Shifts # {} /\ ~half2
    <3>1. CASE key \in Shifts
      BY <2>2, <3>1
    <3>2. CASE key \notin Shifts
      BY <2>2, <3>2 DEF Keeps
    <3>3. QED
      BY <3>1, <3>2
  <2>5. z.down = (held \cup {key}) \ {"print"}
    BY <1>4, <2>2 DEF Keeps
  <2>6. z.caps = caps2
    BY <2>2, <2>3 DEF Keeps
  <2>7. QED
    BY <1>1, <1>4, <2>1, <2>4, <2>5, <2>6 DEF Keeps
<1>5. QED
  BY <1>2, <1>3, <1>4

LEMMA KeepsRelease ==
    ASSUME NEW k, NEW held, NEW caps, NEW half, Keeps(k, held, caps, half), NEW key, NEW p,
           NEW held2, NEW half2, Releasing(p, key, held, half, held2, half2)
    PROVE  /\ Keeps(Keyed(k, p), held2, caps, half2)
           /\ ~Repeats(k, p)
<1> USE DEF Releasing
<1>1. ~Repeats(k, p)
  BY DEF Repeats
<1>2. CASE key = "print"
  <2>1. Keyed(k, p) = k
    BY <1>2 DEF Keyed, hyperv_keyboard_handle_event
  <2>2. QED
    BY <1>1, <1>2, <2>1 DEF Keeps, Shifts
<1>3. CASE key # "print"
  <2>1. PICK z : z = Keyed(k, p)
    OBVIOUS
  <2>2. /\ z.down = k.down \ {key}
        /\ z.shift = IF key \in Shifts THEN FALSE ELSE k.shift
        /\ z.caps = k.caps
    BY <1>3, <2>1 DEF Keyed, hyperv_keyboard_handle_event, Shifts
  <2>3. z.shift <=> (held \ {key}) \cap Shifts # {} /\ ~half2
    <3>1. CASE key \in Shifts
      BY <2>2, <3>1 DEF Shifts
    <3>2. CASE key \notin Shifts
      BY <2>2, <3>2 DEF Keeps
    <3>3. QED
      BY <3>1, <3>2
  <2>4. z.down = (held \ {key}) \ {"print"}
    BY <2>2 DEF Keeps
  <2>5. QED
    BY <1>1, <2>1, <2>2, <2>3, <2>4 DEF Keeps
<1>4. QED
  BY <1>2, <1>3

-----------------------------------------------------------------------------
(* The way of a packet from the host to the driver.  Of r packets that were *)
(* sent to a device, h were handled; the rest is in the ring, except for    *)
(* one that the step f has taken from it.                                   *)

Working(f, d) == f.pc \in Serving /\ f.device = d
Taken(f, d, h) == IF f.pc = "handle" /\ f.device = d THEN h + 1 ELSE h
Packets(d, h, r, ps) ==
    \A i \in h + 1 .. r : ps[i].n = i /\ (ps[i].kind = "event" <=> d = "keyboard")
Line(d, f, h, r, ring, ps) ==
    /\ h \in Nat /\ r \in Nat /\ h <= r /\ Packets(d, h, r, ps)
    /\ Taken(f, d, h) <= r /\ \E pos : Spells(ring, Taken(f, d, h), r, ps, pos)
    /\ Working(f, d) => /\ h < r /\ f.packet = ps[h + 1]
                        /\ f.pc # "handle" => f.index = ring.read

(* What the packets still to be handled will make of the keyboard.          *)
Chain(ks, ps, h, r, k, held, caps, half, repeated) ==
    /\ ks[h] = k /\ Keeps(ks[r], held, caps, half)
    /\ \A i \in h + 1 .. r : /\ ks[i] = Keyed(ks[i - 1], ps[i])
                             /\ Repeats(ks[i - 1], ps[i]) => repeated
Service(d, f, h, r, ring, k, held, caps, half, repeated) ==
    \E ps : /\ Line(d, f, h, r, ring, ps)
            /\ d = "keyboard" => \E ks : Chain(ks, ps, h, r, k, held, caps, half, repeated)

LEMMA LineFacts ==
    ASSUME NEW d, NEW f, NEW h, NEW r, NEW ring, NEW ps, Line(d, f, h, r, ring, ps)
    PROVE  /\ h \in Nat /\ r \in Nat /\ h <= r /\ Taken(f, d, h) \in {h, h + 1}
           /\ ~Working(f, d) => Taken(f, d, h) = h
           /\ f.pc = "handle" /\ f.device = d => Taken(f, d, h) = h + 1
           /\ f.pc \in {"copy", "publish"} => Taken(f, d, h) = h
  BY DEF Line, Taken, Working, Serving

LEMMA LineStart ==
    ASSUME NEW d, NEW f, ~Working(f, d), NEW ring, RingSound(ring), ring.read = ring.write, NEW ps
    PROVE  Line(d, f, 0, 0, ring, ps)
<1>1. Taken(f, d, 0) = 0
  BY DEF Taken, Working, Serving
<1>2. Spells(ring, 0, 0, ps, [i \in {0} |-> 0])
  BY EmptySpells
<1>3. Packets(d, 0, 0, ps)
  BY DEF Packets
<1>4. QED
  BY <1>1, <1>2, <1>3 DEF Line

LEMMA LineOther ==
    ASSUME NEW d, NEW f, ~Working(f, d), NEW g, ~Working(g, d), NEW h, NEW r, NEW ring, NEW ps,
           Line(d, f, h, r, ring, ps)
    PROVE  Line(d, g, h, r, ring, ps)
<1>1. Taken(f, d, h) = h /\ Taken(g, d, h) = h
  BY DEF Taken, Working, Serving
<1>2. QED
  BY <1>1 DEF Line

LEMMA LineSend ==
    ASSUME NEW d, NEW f, NEW h, NEW r, NEW ring, NEW ps, Line(d, f, h, r, ring, ps),
           RingSound(ring), NEW p, p.units \in Nat, HasSpace(ring, p), p.n = r + 1,
           p.kind = "event" <=> d = "keyboard", NEW ps2, ps2[r + 1] = p,
           \A i \in h + 1 .. r : ps2[i] = ps[i]
    PROVE  Line(d, f, h, r + 1, hyperv_ring_write(ring, p), ps2)
<1>1. /\ h \in Nat /\ r \in Nat /\ h <= r /\ Packets(d, h, r, ps)
      /\ Taken(f, d, h) <= r
      /\ Working(f, d) => /\ h < r /\ f.packet = ps[h + 1]
                          /\ f.pc # "handle" => f.index = ring.read
  BY DEF Line
<1>2. PICK t \in Nat : t = Taken(f, d, h) /\ h <= t /\ t <= r
  BY <1>1 DEF Taken
<1>3. PICK pos : Spells(ring, t, r, ps, pos)
  BY <1>2 DEF Line
<1>4. PICK new : new = hyperv_ring_write(ring, p)
  OBVIOUS
<1>5. \A i \in t + 1 .. r : ps2[i] = ps[i]
  BY <1>1, <1>2
<1>6. \E pos2 : Spells(new, t, r + 1, ps2, pos2)
  BY <1>1, <1>2, <1>3, <1>4, <1>5, WriteSpells
<1>7. new.read = ring.read
  BY <1>4, WriteUnits DEF Wrote
<1>8. Packets(d, h, r + 1, ps2)
  <2>1. ASSUME NEW i \in h + 1 .. r + 1
        PROVE  ps2[i].n = i /\ (ps2[i].kind = "event" <=> d = "keyboard")
    <3>1. CASE i = r + 1
      BY <3>1
    <3>2. CASE i # r + 1
      <4>1. i \in h + 1 .. r
        BY <1>1, <3>2
      <4>2. QED
        BY <1>1, <4>1 DEF Packets
    <3>3. QED
      BY <3>1, <3>2
  <2>2. QED
    BY <2>1 DEF Packets
<1>9. Working(f, d) => /\ h < r + 1 /\ f.packet = ps2[h + 1]
                       /\ f.pc # "handle" => f.index = new.read
  BY <1>1, <1>7
<1>10. Line(d, f, h, r + 1, new, ps2)
  BY <1>1, <1>2, <1>6, <1>8, <1>9 DEF Line
<1>11. QED
  BY <1>4, <1>10

(* hyperv_ring_read: there is a packet exactly while one is not handled.    *)
LEMMA LinePoll ==
    ASSUME NEW d, NEW f, ~Working(f, d), NEW h, NEW r, NEW ring, NEW ps,
           Line(d, f, h, r, ring, ps), RingSound(ring)
    PROVE  /\ h = r => ReadStatus(ring, RingUnits) = "WOULD_BLOCK"
           /\ h < r => ReadStatus(ring, RingUnits) = "OK"
           /\ \A g : /\ h < r /\ g.pc = "copy" /\ g.device = d /\ g.packet = PacketAt(ring)
                     /\ g.index = ring.read
                     => Line(d, g, h, r, ring, ps)
<1>1. h \in Nat /\ r \in Nat /\ h <= r /\ Packets(d, h, r, ps) /\ Taken(f, d, h) = h
  BY LineFacts DEF Line
<1>2. PICK pos : Spells(ring, h, r, ps, pos)
  BY <1>1 DEF Line
<1>3. ASSUME h = r PROVE ReadStatus(ring, RingUnits) = "WOULD_BLOCK"
  BY <1>1, <1>2, <1>3, NothingToRead
<1>4. ASSUME h < r
      PROVE  /\ PacketAt(ring) = ps[h + 1] /\ ReadStatus(ring, RingUnits) = "OK"
  <2>1. /\ PacketAt(ring) = ps[h + 1] /\ ps[h + 1].units \in Nat
        /\ PacketUnits(ps[h + 1]) <= RingUnits - 1
        /\ \A c \in Nat : ps[h + 1].units <= c => ReadStatus(ring, c) = "OK"
    BY <1>1, <1>2, <1>4, ReadSpells
  <2>2. RingUnits \in Nat /\ PacketUnits(ps[h + 1]) = ps[h + 1].units + 3
    BY <2>1, RingFields, Units
  <2>3. QED
    BY <2>1, <2>2
<1>5. ASSUME NEW g, h < r, g.pc = "copy", g.device = d, g.packet = PacketAt(ring),
             g.index = ring.read
      PROVE  Line(d, g, h, r, ring, ps)
  <2>1. Taken(g, d, h) = h
    BY <1>5 DEF Taken
  <2>2. QED
    BY <1>1, <1>2, <1>4, <1>5, <2>1 DEF Line
<1>6. QED
  BY <1>1, <1>3, <1>4, <1>5

LEMMA LineCopy ==
    ASSUME NEW d, NEW f, f.pc = "copy", f.device = d, NEW h, NEW r, NEW ring, NEW ps,
           Line(d, f, h, r, ring, ps), RingSound(ring),
           NEW g, g.pc = "publish", g.device = d, g.packet = f.packet, g.index = f.index
    PROVE  IsWhole(ring, f.index, f.packet) /\ Line(d, g, h, r, ring, ps)
<1>1. /\ h \in Nat /\ r \in Nat /\ h < r /\ Packets(d, h, r, ps) /\ Taken(f, d, h) = h
      /\ f.packet = ps[h + 1] /\ f.index = ring.read
  BY LineFacts DEF Line, Working, Serving
<1>2. PICK pos : Spells(ring, h, r, ps, pos)
  BY <1>1 DEF Line
<1>3. IsWhole(ring, ring.read, ps[h + 1])
  BY <1>1, <1>2, ReadSpells
<1>4. Taken(g, d, h) = h
  BY DEF Taken
<1>5. QED
  BY <1>1, <1>2, <1>3, <1>4 DEF Line

LEMMA LinePublish ==
    ASSUME NEW d, NEW f, f.pc = "publish", f.device = d, NEW h, NEW r, NEW ring, NEW ps,
           Line(d, f, h, r, ring, ps), RingSound(ring),
           NEW g, g.pc = "handle", g.device = d, g.packet = f.packet,
           NEW new, new = [ring EXCEPT !.read = AfterPacket(f.index, f.packet)]
    PROVE  Line(d, g, h, r, new, ps)
<1>1. /\ h \in Nat /\ r \in Nat /\ h < r /\ Packets(d, h, r, ps) /\ Taken(f, d, h) = h
      /\ f.packet = ps[h + 1] /\ f.index = ring.read
  BY LineFacts DEF Line, Working, Serving
<1>2. PICK pos : Spells(ring, h, r, ps, pos)
  BY <1>1 DEF Line
<1>3. new = [ring EXCEPT !.read = AfterPacket(ring.read, ps[h + 1])]
  BY <1>1
<1>4. \E pos2 : Spells(new, h + 1, r, ps, pos2)
  <2>1. LET s == [ring EXCEPT !.read = AfterPacket(ring.read, ps[h + 1])]
        IN  RingSound(s) /\ \E pos2 : Spells(s, h + 1, r, ps, pos2)
    BY <1>1, <1>2, ReadSpells
  <2>2. QED
    BY <1>3, <2>1
<1>5. Taken(g, d, h) = h + 1
  BY DEF Taken
<1>6. QED
  BY <1>1, <1>4, <1>5 DEF Line

LEMMA LineHandle ==
    ASSUME NEW d, NEW f, f.pc = "handle", f.device = d, NEW h, NEW r, NEW ring, NEW ps,
           Line(d, f, h, r, ring, ps), NEW g, ~Working(g, d)
    PROVE  Line(d, g, h + 1, r, ring, ps)
<1>1. /\ h \in Nat /\ r \in Nat /\ h < r /\ Packets(d, h, r, ps) /\ Taken(f, d, h) = h + 1
  <2>1. Working(f, d)
    BY DEF Working, Serving
  <2>2. Taken(f, d, h) = h + 1
    BY DEF Taken
  <2>3. QED
    BY <2>1, <2>2 DEF Line
<1>2. \E pos : Spells(ring, h + 1, r, ps, pos)
  BY <1>1 DEF Line
<1>3. Taken(g, d, h + 1) = h + 1
  BY DEF Taken, Working, Serving
<1>4. Packets(d, h + 1, r, ps)
  BY <1>1 DEF Packets
<1>5. QED
  BY <1>1, <1>2, <1>3, <1>4 DEF Line

LEMMA ChainStart ==
    ASSUME NEW k, NEW held, NEW caps, NEW half, NEW repeated, NEW ps, Keeps(k, held, caps, half)
    PROVE  \E ks : Chain(ks, ps, 0, 0, k, held, caps, half, repeated)
<1>1. PICK ks : ks = [i \in {0} |-> k]
  OBVIOUS
<1>2. ks[0] = k
  BY <1>1
<1>3. Chain(ks, ps, 0, 0, k, held, caps, half, repeated)
  BY <1>2 DEF Chain
<1>4. QED
  BY <1>3

(* A packet that leads from what is held to what will be held.              *)
Leads(p, held, caps, half, held2, caps2, half2, repeated2) ==
    \A m : Keeps(m, held, caps, half) =>
              /\ Keeps(Keyed(m, p), held2, caps2, half2)
              /\ Repeats(m, p) => repeated2

Adds(ps2, ps, h, r, p) == ps2[r + 1] = p /\ \A i \in h + 1 .. r : ps2[i] = ps[i]

LEMMA ChainSend ==
    ASSUME NEW ks, NEW ps, NEW h \in Nat, NEW r \in Nat, h <= r, NEW k, NEW held, NEW caps, NEW half,
           NEW repeated, Chain(ks, ps, h, r, k, held, caps, half, repeated),
           NEW p, NEW held2, NEW caps2, NEW half2, NEW repeated2, repeated => repeated2,
           Leads(p, held, caps, half, held2, caps2, half2, repeated2),
           NEW ps2, Adds(ps2, ps, h, r, p)
    PROVE  \E ks2 : Chain(ks2, ps2, h, r + 1, k, held2, caps2, half2, repeated2)
<1>1. /\ ks[h] = k /\ Keeps(ks[r], held, caps, half)
      /\ \A i \in h + 1 .. r : /\ ks[i] = Keyed(ks[i - 1], ps[i])
                               /\ Repeats(ks[i - 1], ps[i]) => repeated
  BY DEF Chain
<1>2. PICK js : js = [i \in 0 .. r + 1 |-> IF i = r + 1 THEN Keyed(ks[r], p) ELSE ks[i]]
  OBVIOUS
<1>3. js[r + 1] = Keyed(ks[r], p) /\ \A i \in 0 .. r : js[i] = ks[i]
  BY <1>2
<1>4. ASSUME NEW i \in h + 1 .. r + 1
      PROVE  js[i] = Keyed(js[i - 1], ps2[i]) /\ (Repeats(js[i - 1], ps2[i]) => repeated2)
  <2>1. CASE i = r + 1
    <3>1. i - 1 = r /\ r \in 0 .. r
      BY <2>1
    <3>2. QED
      BY <1>1, <1>3, <2>1, <3>1 DEF Leads, Adds
  <2>2. CASE i # r + 1
    <3>1. i \in h + 1 .. r /\ i \in 0 .. r /\ i - 1 \in 0 .. r
      BY <2>2
    <3>2. QED
      BY <1>1, <1>3, <3>1 DEF Adds
  <2>3. QED
    BY <2>1, <2>2
<1>5. js[h] = k /\ Keeps(js[r + 1], held2, caps2, half2)
  BY <1>1, <1>3 DEF Leads
<1>6. Chain(js, ps2, h, r + 1, k, held2, caps2, half2, repeated2)
  BY <1>4, <1>5 DEF Chain
<1>7. QED
  BY <1>6

LEMMA ChainHandle ==
    ASSUME NEW ks, NEW ps, NEW h \in Nat, NEW r \in Nat, h < r, NEW k, NEW held, NEW caps, NEW half,
           NEW repeated, Chain(ks, ps, h, r, k, held, caps, half, repeated)
    PROVE  /\ Chain(ks, ps, h + 1, r, Keyed(k, ps[h + 1]), held, caps, half, repeated)
           /\ Repeats(k, ps[h + 1]) => repeated
<1>1. h + 1 \in h + 1 .. r /\ (h + 1) - 1 = h
  OBVIOUS
<1>2. ks[h + 1] = Keyed(k, ps[h + 1]) /\ (Repeats(k, ps[h + 1]) => repeated)
  BY <1>1 DEF Chain
<1>3. QED
  BY <1>2 DEF Chain

(* A report and a press of a key, as the device's service sees them.        *)
LEMMA ServiceSend ==
    ASSUME NEW d, NEW f, NEW h, NEW r, NEW ring, NEW k, NEW held, NEW caps, NEW half, NEW repeated,
           Service(d, f, h, r, ring, k, held, caps, half, repeated),
           RingSound(ring), NEW p, p.units \in Nat, HasSpace(ring, p), p.n = r + 1,
           p.kind = "event" <=> d = "keyboard",
           NEW held2, NEW caps2, NEW half2, NEW repeated2, repeated => repeated2,
           d = "keyboard" => Leads(p, held, caps, half, held2, caps2, half2, repeated2)
    PROVE  Service(d, f, h, r + 1, hyperv_ring_write(ring, p), k, held2, caps2, half2, repeated2)
<1>1. PICK ps : /\ Line(d, f, h, r, ring, ps)
                /\ d = "keyboard" => \E ks : Chain(ks, ps, h, r, k, held, caps, half, repeated)
  BY DEF Service
<1>2. h \in Nat /\ r \in Nat /\ h <= r
  BY <1>1 DEF Line
<1>3. PICK ps2 : ps2 = [i \in 0 .. r + 1 |-> IF i = r + 1 THEN p ELSE ps[i]]
  OBVIOUS
<1>4. ps2[r + 1] = p /\ \A i \in h + 1 .. r : ps2[i] = ps[i]
  BY <1>2, <1>3
<1>5. Line(d, f, h, r + 1, hyperv_ring_write(ring, p), ps2)
  BY <1>1, <1>4, LineSend
<1>6. ASSUME d = "keyboard"
      PROVE  \E ks2 : Chain(ks2, ps2, h, r + 1, k, held2, caps2, half2, repeated2)
  <2>1. PICK ks : Chain(ks, ps, h, r, k, held, caps, half, repeated)
    BY <1>1, <1>6
  <2>2. Leads(p, held, caps, half, held2, caps2, half2, repeated2)
    BY <1>6
  <2>3. Adds(ps2, ps, h, r, p)
    BY <1>4 DEF Adds
  <2>4. QED
    BY <1>2, <2>1, <2>2, <2>3, ChainSend
<1>7. QED
  BY <1>5, <1>6 DEF Service

-----------------------------------------------------------------------------
(* The devices as the steps under way see them.                             *)

Idle == Step("idle", "none")
Current == IF stack = <<>> THEN Idle ELSE Top

(* The Hyper-V devices that are in use, with the step f on top.             *)
Followed(f, rd, hd, rp, rings, k, held, caps, half, repeated) ==
    /\ f.pc \in Serving => rd[f.device]
    /\ \A d \in {"keyboard", "mouse"} :
          /\ rp[d] = 0 => hd[d] = 0
          /\ rd[d] /\ rp[d] # 0 => Service(d, f, hd[d], rp[d], rings[d].in, k, held, caps, half, repeated)
    /\ rp["keyboard"] = 0 => k = HyperVKeyboard /\ held = {} /\ caps = FALSE /\ half = FALSE
AllHonest(q, repeated) == \A i \in 1 .. q.count : Honest(Queued(q)[i], repeated)

Faith ==
    /\ "pause" \notin person.held /\ handled \in [{"keyboard", "mouse"} -> Nat]
    /\ AllHonest(queue, person.repeated)
    /\ platform = "ps2" => Arrives(keyboard, output, bytes["keyboard"], person.held, person.caps,
                                   person.repeated)
    /\ platform = "hyperv" => Followed(Current, ready, handled, person.reports, channel, keyboard,
                                       person.held, person.caps, person.halved, person.repeated)

(* Ticks fall between the polls of the devices and between events only, not *)
(* into the handling of what was read.                                      *)
TicksBetweenPolls == TickPoints \subseteq {"status", "poll", "pop"}

LEMMA ServiceOther ==
    ASSUME NEW d, NEW f, NEW g, f = g \/ (~Working(f, d) /\ ~Working(g, d)),
           NEW h, NEW r, NEW ring, NEW k, NEW held, NEW caps, NEW half, NEW repeated,
           Service(d, f, h, r, ring, k, held, caps, half, repeated),
           NEW k2, NEW held2, NEW caps2, NEW half2, NEW repeated2,
           d = "keyboard" => k2 = k /\ held2 = held /\ caps2 = caps /\ half2 = half /\ repeated2 = repeated
    PROVE  Service(d, g, h, r, ring, k2, held2, caps2, half2, repeated2)
<1>1. PICK ps : /\ Line(d, f, h, r, ring, ps)
                /\ d = "keyboard" => \E ks : Chain(ks, ps, h, r, k, held, caps, half, repeated)
  BY DEF Service
<1>2. Line(d, g, h, r, ring, ps)
  BY <1>1, LineOther
<1>3. QED
  BY <1>1, <1>2 DEF Service

(* A step that handles nothing, before and after; it may give up a device.  *)
LEMMA FollowedQuiet ==
    ASSUME NEW f, NEW g, f.pc \notin Serving, g.pc \notin Serving,
           NEW rd, NEW rd2, \A d \in {"keyboard", "mouse"} : rd2[d] => rd[d],
           NEW hd, NEW rp, NEW rings, NEW k, NEW held, NEW caps, NEW half, NEW repeated,
           Followed(f, rd, hd, rp, rings, k, held, caps, half, repeated)
    PROVE  Followed(g, rd2, hd, rp, rings, k, held, caps, half, repeated)
<1>1. ASSUME NEW d \in {"keyboard", "mouse"}, rd2[d], rp[d] # 0
      PROVE  Service(d, g, hd[d], rp[d], rings[d].in, k, held, caps, half, repeated)
  <2>1. ~Working(f, d) /\ ~Working(g, d)
    BY DEF Working
  <2>2. Service(d, f, hd[d], rp[d], rings[d].in, k, held, caps, half, repeated)
    BY <1>1 DEF Followed
  <2>3. QED
    BY <2>1, <2>2, ServiceOther
<1>2. QED
  BY <1>1 DEF Followed

LEMMA IdleFacts == Idle.pc = "idle" /\ "idle" \notin Serving
  BY DEF Idle, Step, Serving

LEMMA CurrentNow ==
    ASSUME StackSound, stack # <<>>, NEW s, Now(s)
    PROVE  Current = Top /\ Current' = s
<1>1. /\ IsSeq(stack') /\ Len(stack') = Len(stack) /\ stack' # <<>> /\ stack'[Len(stack)] = s
  BY NowFacts DEF StackSound
<1>2. QED
  BY <1>1 DEF Current, Top

(* What lies below the step on top handles nothing.                         *)
LEMMA BelowTop ==
    ASSUME StackSound, TicksBetweenPolls, NEW i \in 1 .. Len(stack), i # Len(stack)
    PROVE  stack[i].pc \notin Serving
<1>1. Len(stack) \in Nat /\ Len(stack) <= 2
  BY SeqFacts DEF StackSound
<1>2. i = 1 /\ Len(stack) = 2
  BY <1>1
<1>3. QED
  BY <1>2 DEF StackSound, TicksBetweenPolls, Serving

LEMMA TicksApart ==
    ASSUME TicksBetweenPolls
    PROVE  PortsReadTogether
  BY DEF TicksBetweenPolls, PortsReadTogether

(* Only the steps under way change, and no packet is being handled.         *)
LEMMA QuietFaith ==
    ASSUME Faith, UNCHANGED <<platform, keyboard, output, person, channel, ready, handled>>,
           bytes' = bytes, AllHonest(queue', person.repeated),
           NEW g, Current' = g,
           platform = "hyperv" => Current.pc \notin Serving /\ g.pc \notin Serving
    PROVE  Faith'
<1>1. PICK f : f = Current
  OBVIOUS
<1>2. ASSUME platform = "hyperv"
      PROVE  Followed(g, ready, handled, person.reports, channel, keyboard,
                      person.held, person.caps, person.halved, person.repeated)
  <2>1. Followed(f, ready, handled, person.reports, channel, keyboard,
                 person.held, person.caps, person.halved, person.repeated)
    BY <1>1, <1>2 DEF Faith
  <2>2. f.pc \notin Serving /\ g.pc \notin Serving
    BY <1>1, <1>2
  <2>3. QED
    BY <2>1, <2>2, FollowedQuiet
<1>3. QED
  BY <1>2 DEF Faith

LEMMA FirstPollFacts ==
    ASSUME NEW d, NEW s, s = After(d) \/ s = FirstPoll
    PROVE  s.pc \notin Serving
  BY DEF After, FirstPoll, Step, Serving

LEMMA StartStepFaith ==
    ASSUME StepInv, Faith, StartStep
    PROVE  Faith'
<1>1. /\ UNCHANGED <<busVars, platform, keyboard, output, bytes, person, queue, handled>>
      /\ stack = <<>> /\ stack' = <<FirstPoll>>
  BY DEF StartStep
<1>2. PICK s : s = FirstPoll
  OBVIOUS
<1>3. IsSeq(stack') /\ Len(stack') = 1 /\ stack'[1] = s
  BY <1>1, <1>2, SingleAnswer
<1>4. stack' # <<>>
  BY <1>3, SeqFacts
<1>5. Current' = s /\ Current = Idle
  BY <1>1, <1>3, <1>4 DEF Current, Top
<1>6. Current.pc \notin Serving /\ s.pc \notin Serving
  BY <1>2, <1>5, IdleFacts, FirstPollFacts
<1>7. AllHonest(queue', person.repeated) /\ channel' = channel /\ ready' = ready
  BY <1>1 DEF Faith, busVars
<1>8. QED
  BY <1>1, <1>5, <1>6, <1>7, QuietFaith

LEMMA TickFaith ==
    ASSUME StepInv, Faith, TicksBetweenPolls, runtime_tick
    PROVE  Faith'
<1>1. /\ UNCHANGED <<busVars, platform, keyboard, output, bytes, person, queue, handled>>
      /\ Len(stack) = 1 /\ Top.pc \in TickPoints /\ stack' = Append(stack, FirstPoll)
  BY DEF runtime_tick
<1>2. PICK s : s = FirstPoll
  OBVIOUS
<1>3. IsSeq(stack) /\ stack # <<>>
  <2>1. IsSeq(stack)
    BY StepParts DEF StackSound
  <2>2. QED
    BY <1>1, <2>1, SeqFacts
<1>4. IsSeq(stack') /\ Len(stack') = 2 /\ stack'[2] = s
  <2>1. /\ IsSeq(Append(stack, s)) /\ Len(Append(stack, s)) = Len(stack) + 1
        /\ Append(stack, s)[Len(stack) + 1] = s
    BY <1>3, AppendFacts
  <2>2. stack' = Append(stack, s) /\ Len(stack) + 1 = 2
    BY <1>1, <1>2
  <2>3. QED
    BY <2>1, <2>2
<1>5. stack' # <<>>
  BY <1>4, SeqFacts
<1>6. Current' = s /\ Current = Top
  BY <1>3, <1>4, <1>5 DEF Current, Top
<1>7. Current.pc \notin Serving /\ s.pc \notin Serving
  BY <1>1, <1>2, <1>6, FirstPollFacts DEF TicksBetweenPolls, Serving
<1>8. AllHonest(queue', person.repeated) /\ channel' = channel /\ ready' = ready
  BY <1>1 DEF Faith, busVars
<1>9. QED
  BY <1>1, <1>6, <1>7, <1>8, QuietFaith

LEMMA ReadStatusFaith ==
    ASSUME StepInv, Faith, ReadStatusPort
    PROVE  Faith'
<1>1. /\ UNCHANGED <<busVars, platform, keyboard, output, bytes, person, queue, handled>>
      /\ stack # <<>> /\ Top.pc = "status"
      /\ Now(IF output.full /\ output.device = Top.device THEN Step("data", Top.device)
             ELSE After(Top.device))
  BY DEF ReadStatusPort, At
<1>2. StackSound
  BY StepParts
<1>3. PICK s : Now(s) /\ (s = Step("data", Top.device) \/ s = After(Top.device))
  BY <1>1
<1>4. Current = Top /\ Current' = s
  BY <1>1, <1>2, <1>3, CurrentNow
<1>5. s.pc \notin Serving
  <2>1. CASE s = Step("data", Top.device)
    <3>1. s.pc = "data"
      BY <2>1, StepIsFrame
    <3>2. QED
      BY <3>1 DEF Serving
  <2>2. CASE s = After(Top.device)
    BY <2>2, FirstPollFacts
  <2>3. QED
    BY <1>3, <2>1, <2>2
<1>6. Current.pc \notin Serving
  BY <1>1, <1>4 DEF Serving
<1>7. AllHonest(queue', person.repeated) /\ channel' = channel /\ ready' = ready
  BY <1>1 DEF Faith, busVars
<1>8. QED
  BY <1>1, <1>4, <1>5, <1>6, <1>7, QuietFaith

-----------------------------------------------------------------------------
(* Events, bytes, and what happens before the devices are in use.           *)

LEMMA HonestPushed ==
    ASSUME NEW q, NEW r, NEW b, NEW b2, b => b2, QueueSound(q), AllHonest(q, b), Pushed(q, r, b2)
    PROVE  AllHonest(r, b2)
<1>1. q.count \in Nat /\ r.count \in Nat /\ q.count <= r.count
  BY QueueFields DEF Pushed
<1>2. ASSUME NEW i \in 1 .. r.count PROVE Honest(Queued(r)[i], b2)
  <2>1. CASE i <= q.count
    <3>1. i \in 1 .. q.count
      BY <1>1, <2>1
    <3>2. Queued(r)[i] = Queued(q)[i] /\ Honest(Queued(q)[i], b)
      BY <3>1 DEF Pushed, AllHonest
    <3>3. QED
      BY <3>2 DEF Honest
  <2>2. CASE ~(i <= q.count)
    <3>1. i \in q.count + 1 .. r.count
      BY <1>1, <2>2
    <3>2. QED
      BY <3>1 DEF Pushed
  <2>3. QED
    BY <2>1, <2>2
<1>3. QED
  BY <1>2 DEF AllHonest

LEMMA HonestLater ==
    ASSUME NEW q, NEW b, NEW b2, b => b2, QueueSound(q), AllHonest(q, b)
    PROVE  AllHonest(q, b2)
  BY HonestPushed, PushedNone

LEMMA HonestPopped ==
    ASSUME NEW q, NEW b, QueueSound(q), AllHonest(q, b), q.count > 0
    PROVE  AllHonest(input_queue_pop(q), b)
<1>1. PICK r : r = input_queue_pop(q)
  OBVIOUS
<1>2. r.count = q.count - 1 /\ \A i \in 1 .. q.count - 1 : Queued(r)[i] = Queued(q)[i + 1]
  BY <1>1, PopFacts
<1>3. q.count \in Nat
  BY QueueFields
<1>4. ASSUME NEW i \in 1 .. r.count PROVE Honest(Queued(r)[i], b)
  <2>1. i \in 1 .. q.count - 1 /\ i + 1 \in 1 .. q.count
    BY <1>2, <1>3
  <2>2. QED
    BY <1>2, <2>1 DEF AllHonest
<1>5. QED
  BY <1>1, <1>4 DEF AllHonest

LEMMA TakeEventFaith ==
    ASSUME StepInv, Faith, TicksBetweenPolls, TakeEvent
    PROVE  Faith'
<1>1. /\ UNCHANGED <<busVars, platform, keyboard, output, bytes, person, handled>>
      /\ stack # <<>> /\ Top.pc = "pop"
  BY DEF TakeEvent, At
<1>2. StackSound /\ QueueSound(queue) /\ AllHonest(queue, person.repeated)
  BY StepParts DEF Faith
<1>3. channel' = channel /\ ready' = ready /\ Current = Top /\ Current.pc \notin Serving
  BY <1>1 DEF busVars, Current, Serving
<1>4. PICK g : g = Current'
  OBVIOUS
<1>5. CASE queue.count > 0 /\ queue' = input_queue_pop(queue) /\ stack' = stack
  <2>1. AllHonest(queue', person.repeated)
    BY <1>2, <1>5, HonestPopped
  <2>2. g = Top /\ g.pc \notin Serving
    BY <1>1, <1>4, <1>5 DEF Current, Top, Serving
  <2>3. QED
    BY <1>1, <1>3, <1>4, <2>1, <2>2, QuietFaith
<1>6. CASE queue.count = 0 /\ stack' = SubSeq(stack, 1, Len(stack) - 1) /\ queue' = queue
  <2>1. IsSeq(stack) /\ Len(stack) \in 1 .. 2
    BY <1>1, <1>2, TopFrame
  <2>2. PICK S : stack \in Seq(S)
    BY <2>1 DEF IsSeq
  <2>3. g.pc \notin Serving
    <3>1. CASE Len(stack) = 1
      <4>1. stack' = <<>>
        BY <1>6, <2>2, <3>1
      <4>2. QED
        BY <1>4, <4>1, IdleFacts DEF Current
    <3>2. CASE Len(stack) = 2
      <4>1. /\ stack' \in Seq(S) /\ Len(stack') = 1 /\ stack'[1] = stack[1]
        BY <1>6, <2>2, <3>2
      <4>2. stack' # <<>>
        BY <4>1
      <4>3. g = stack[1]
        BY <1>4, <4>1, <4>2 DEF Current, Top
      <4>4. stack[1].pc \notin Serving
        BY <1>2, <3>2, BelowTop
      <4>5. QED
        BY <4>3, <4>4
    <3>3. QED
      BY <2>1, <3>1, <3>2
  <2>4. AllHonest(queue', person.repeated)
    BY <1>2, <1>6
  <2>5. QED
    BY <1>1, <1>3, <1>4, <2>3, <2>4, QuietFaith
<1>7. QED
  BY <1>5, <1>6 DEF TakeEvent

LEMMA CommandFaith ==
    ASSUME StepInv, Faith, Ps2Command
    PROVE  Faith'
<1>1. /\ UNCHANGED <<platform, keyboard, output, bytes, person, channel, ready, handled, queue, stack>>
      /\ platform = "ps2"
  BY DEF Ps2Command
<1>2. QED
  BY <1>1 DEF Faith

LEMMA StutterFaith ==
    ASSUME StepInv, Faith, UNCHANGED vars
    PROVE  Faith'
<1>1. /\ UNCHANGED <<platform, keyboard, output, bytes, person, channel, ready, handled, queue, stack>>
  BY DEF vars, inputVars, busVars
<1>2. Current' = Current
  BY <1>1 DEF Current, Top
<1>3. QED
  BY <1>1, <1>2 DEF Faith

(* Nothing was sent while the devices are being set up.                     *)
LEMMA BootFaith ==
    ASSUME StepInv, Faith, BootHyperV \/ ServeHyperV
    PROVE  Faith'
<1>1. platform = "hyperv" /\ UNCHANGED inputVars /\ (GuestBoots \/ (boot.pc # "done" /\ HostBoots))
  BY DEF BootHyperV, ServeHyperV
<1>2. UNCHANGED <<platform, keyboard, output, bytes, person, queue, stack, handled>>
  BY <1>1 DEF inputVars
<1>3. BootInv /\ TypedRings /\ StackSound /\ NothingYet
  BY StepParts
<1>4. boot.pc # "done"
  BY <1>1, <1>3, GuestTyped
<1>5. \A d \in {"keyboard", "mouse"} : person.reports[d] = 0
  BY <1>1, <1>3, <1>4 DEF NothingYet
<1>6. stack = <<>>
  BY <1>1, <1>3, <1>4 DEF StackSound, Ps2Ready, HyperVReady
<1>7. PICK f : f = Idle
  OBVIOUS
<1>8. Current = f /\ Current' = f /\ f.pc \notin Serving
  BY <1>2, <1>6, <1>7, IdleFacts DEF Current, Idle
<1>9. Followed(f, ready, handled, person.reports, channel, keyboard,
               person.held, person.caps, person.halved, person.repeated)
  BY <1>1, <1>8 DEF Faith
<1>10. \A rd, ch : Followed(f, rd, handled, person.reports, ch, keyboard,
                            person.held, person.caps, person.halved, person.repeated)
  BY <1>5, <1>8, <1>9 DEF Followed
<1>11. QED
  BY <1>1, <1>2, <1>8, <1>10 DEF Faith

LEMMA FaithStart == Init => Faith
<1> SUFFICES ASSUME Init PROVE Faith
  OBVIOUS
<1>1. /\ person = [held |-> {}, caps |-> FALSE, halved |-> FALSE, repeated |-> FALSE,
                   reports |-> [d \in {"keyboard", "mouse"} |-> 0]]
      /\ bytes = [d \in {"keyboard", "mouse"} |-> <<>>] /\ stack = <<>>
      /\ output = [full |-> FALSE, device |-> "keyboard", byte |-> "none"]
      /\ handled = [d \in {"keyboard", "mouse"} |-> 0]
      /\ keyboard = IF platform = "ps2" THEN ps2_keyboard_initialize ELSE HyperVKeyboard
      /\ queue = input_queue_initialize
  BY DeviceNames DEF Init
<1>2. /\ person.held = {} /\ person.caps = FALSE /\ person.halved = FALSE
      /\ \A d \in {"keyboard", "mouse"} : person.reports[d] = 0 /\ handled[d] = 0
      /\ handled \in [{"keyboard", "mouse"} -> Nat] /\ bytes["keyboard"] = <<>> /\ ~Loaded(output)
  BY <1>1 DEF Loaded
<1>3. queue.count = 0
  BY <1>1 DEF input_queue_initialize
<1>4. AllHonest(queue, person.repeated)
  BY <1>3 DEF AllHonest
<1>5. PICK repeated : repeated = person.repeated
  OBVIOUS
<1>6. Arrives(ps2_keyboard_initialize, output, <<>>, {}, FALSE, repeated)
  BY <1>2, ArrivesFirst
<1>7. platform = "ps2" => Arrives(keyboard, output, bytes["keyboard"], person.held, person.caps,
                                  person.repeated)
  BY <1>1, <1>2, <1>5, <1>6
<1>8. Current.pc \notin Serving
  BY <1>1, IdleFacts DEF Current
<1>9. platform = "hyperv" => Followed(Current, ready, handled, person.reports, channel, keyboard,
                                      person.held, person.caps, person.halved, person.repeated)
  BY <1>1, <1>2, <1>8 DEF Followed
<1>10. QED
  BY <1>2, <1>4, <1>7, <1>9 DEF Faith

-----------------------------------------------------------------------------
(* The bytes of the PS/2 devices.                                           *)

LEMMA LoadFaith ==
    ASSUME StepInv, Faith, ControllerLoads
    PROVE  Faith'
<1>1. /\ UNCHANGED <<busVars, platform, keyboard, queue, person, handled, stack>> /\ ~output.full
  BY DEF ControllerLoads
<1>2. PICK d \in {"keyboard", "mouse"} :
         /\ bytes[d] # <<>>
         /\ output' = [full |-> TRUE, device |-> d, byte |-> Head(bytes[d])]
         /\ bytes' = [bytes EXCEPT ![d] = Tail(@)]
  BY DeviceNames DEF ControllerLoads
<1>3. PICK S : bytes \in [{"keyboard", "mouse"} -> Seq(S)]
  BY StepParts DEF WireSound
<1>4. PICK o, s : o = output' /\ s = bytes["keyboard"]
  OBVIOUS
<1>5. /\ d = "keyboard" => /\ s # <<>> /\ bytes'["keyboard"] = Tail(s) /\ Loaded(o)
                           /\ o.byte = Head(s)
      /\ d = "mouse" => bytes'["keyboard"] = s /\ ~Loaded(o)
  BY <1>2, <1>3, <1>4 DEF Loaded
<1>6. ASSUME platform = "ps2"
      PROVE  Arrives(keyboard, o, bytes'["keyboard"], person.held, person.caps, person.repeated)
  <2>1. Arrives(keyboard, output, s, person.held, person.caps, person.repeated)
    BY <1>4, <1>6 DEF Faith
  <2>2. QED
    BY <1>1, <1>2, <1>5, <2>1, ArrivesLoad
<1>7. Current' = Current /\ channel' = channel /\ ready' = ready
  BY <1>1 DEF Current, Top, busVars
<1>8. QED
  BY <1>1, <1>4, <1>6, <1>7 DEF Faith

LEMMA ReadDataFaith ==
    ASSUME StepInv, Faith, ReadDataPort
    PROVE  Faith'
<1>1. /\ UNCHANGED <<busVars, platform, person, bytes, handled>>
      /\ stack # <<>> /\ Top.pc = "data" /\ output' = [output EXCEPT !.full = FALSE]
  BY DEF ReadDataPort, At
<1>2. /\ FrameSound(Top) /\ WireSound /\ QueueSound(queue) /\ AllHonest(queue, person.repeated)
  BY <1>1, StepParts, TopFrame DEF Faith
<1>3. /\ platform = "ps2" /\ output.full /\ output.device = Top.device
      /\ Top.device \in {"keyboard", "mouse"}
  BY <1>1, <1>2 DEF FrameSound
<1>4. PICK S : output \in [full : BOOLEAN, device : {"keyboard", "mouse"}, byte : S]
  BY <1>2 DEF WireSound
<1>5. PICK o, o2, b : o = output /\ o2 = output' /\ b = person.repeated
  OBVIOUS
<1>6. ~Loaded(o2) /\ (Loaded(o) <=> Top.device = "keyboard")
  BY <1>1, <1>3, <1>4, <1>5 DEF Loaded
<1>7. Arrives(keyboard, o, bytes["keyboard"], person.held, person.caps, b)
  BY <1>3, <1>5 DEF Faith
<1>8. /\ Arrives(keyboard', o2, bytes["keyboard"], person.held, person.caps, b)
      /\ AllHonest(queue', b)
  <2>1. CASE Top.device = "keyboard"
    <3>1. PICK r : /\ r = ps2_keyboard_handle_byte(keyboard, queue, o.byte)
                   /\ queue' = r.queue /\ keyboard' = r.keyboard
      BY <1>5, <2>1 DEF ReadDataPort
    <3>2. /\ Arrives(Struck(keyboard, o.byte), o2, bytes["keyboard"], person.held, person.caps, b)
          /\ Again(keyboard, o.byte) => b
      BY <1>6, <1>7, <2>1, ArrivesRead
    <3>3. r.keyboard = Struck(keyboard, o.byte) /\ Pushed(queue, r.queue, b)
      BY <1>2, <3>1, <3>2, StruckFacts
    <3>4. QED
      BY <1>2, <1>5, <3>1, <3>2, <3>3, HonestPushed
  <2>2. CASE Top.device = "mouse"
    <3>1. /\ queue' = ps2_mouse_handle_byte(mouse, queue, output.byte).queue
          /\ keyboard' = keyboard
      BY <2>2 DEF ReadDataPort
    <3>2. output.byte \in MouseBytes /\ MouseSound(mouse)
      BY <1>2, <1>3, <2>2 DEF WireSound, MouseSound
    <3>3. Pushed(queue, queue', b)
      BY <1>2, <3>1, <3>2, MouseByteFacts
    <3>4. ~Loaded(o)
      BY <1>6, <2>2
    <3>5. Arrives(keyboard, o2, bytes["keyboard"], person.held, person.caps, b)
      BY <1>6, <1>7, <3>4 DEF Arrives
    <3>6. QED
      BY <1>2, <1>5, <3>1, <3>3, <3>5, HonestPushed
  <2>3. QED
    BY <1>3, <2>1, <2>2
<1>9. QED
  BY <1>1, <1>3, <1>5, <1>8 DEF Faith

(* What the person does, as the rest sees it.                               *)
Does(d, held, caps, half, repeated) ==
    /\ person'.held = held /\ person'.caps = caps /\ person'.halved = half /\ person'.repeated = repeated
    /\ person'.reports[d] = person.reports[d] + 1
    /\ \A e \in {"keyboard", "mouse"} : e # d => person'.reports[e] = person.reports[e]

LEMMA CountedDoes ==
    ASSUME PersonSound, NEW d \in DeviceSet, NEW held, held \subseteq Keys,
           NEW caps \in BOOLEAN, NEW half \in BOOLEAN,
           NEW repeated \in BOOLEAN,
           person' = [held |-> held, caps |-> caps, halved |-> half, repeated |-> repeated,
                      reports |-> [person.reports EXCEPT ![d] = person.reports[d] + 1]]
    PROVE  Does(d, held, caps, half, repeated)
<1>1. PICK n : n = person.reports[d] + 1
  OBVIOUS
<1>2. /\ PersonSound' /\ person'.held = held /\ person'.caps = caps /\ person'.halved = half
      /\ person'.repeated = repeated
      /\ person'.reports[d] = n /\ n \in Nat /\ n > 0
      /\ \A e \in DeviceSet : e # d => person'.reports[e] = person.reports[e]
  BY <1>1, CountedFacts
<1>3. QED
  BY <1>1, <1>2, DeviceNames DEF Does

(* Bytes that lead from agreement to agreement.                             *)
Carries(t, held, caps, held2, caps2, repeated2) ==
    \A m : Agree(m, held, caps) => \E z : Runs(m, t, z, repeated2) /\ Agree(z, held2, caps2)

LEMMA WireSendFaith ==
    ASSUME StepInv, Faith, Uncounted, NEW d \in DeviceSet, NEW sent, WireSends(d, sent),
           NEW held, NEW caps, NEW half, NEW repeated, Does(d, held, caps, half, repeated),
           "pause" \notin held, person.repeated => repeated,
           d = "keyboard" => Carries(sent, person.held, person.caps, held, caps, repeated),
           d # "keyboard" => held = person.held /\ caps = person.caps
                               /\ half = person.halved /\ repeated = person.repeated
    PROVE  Faith'
<1>1. /\ platform = "ps2" /\ bytes' = [bytes EXCEPT ![d] = @ \o sent] /\ channel' = channel
  BY DEF WireSends, Ps2Ready
<1>2. UNCHANGED <<ready, platform, keyboard, queue, output, handled, stack>>
  BY DEF Uncounted
<1>3. person'.held = held /\ person'.caps = caps /\ person'.halved = half /\ person'.repeated = repeated
  BY DEF Does
<1>4. WireSound /\ QueueSound(queue) /\ AllHonest(queue, person.repeated)
  BY StepParts DEF Faith
<1>5. AllHonest(queue, repeated)
  BY <1>4, HonestLater
<1>6. PICK s : /\ s = bytes["keyboard"]
               /\ Arrives(keyboard, output, s, person.held, person.caps, person.repeated)
  BY <1>1 DEF Faith
<1>7. PICK S : bytes \in [{"keyboard", "mouse"} -> Seq(S)]
  BY <1>4 DEF WireSound
<1>8. Arrives(keyboard, output, bytes'["keyboard"], held, caps, repeated)
  <2>1. CASE d = "keyboard"
    <3>1. bytes'["keyboard"] = s \o sent
      BY <1>1, <1>6, <1>7, <2>1
    <3>2. Carries(sent, person.held, person.caps, held, caps, repeated)
      BY <2>1
    <3>3. Arrives(keyboard, output, s \o sent, held, caps, repeated)
      BY <1>6, <3>2, ArrivesMore DEF Carries
    <3>4. QED
      BY <3>1, <3>3
  <2>2. CASE d # "keyboard"
    <3>1. bytes'["keyboard"] = s
      BY <1>1, <1>6, <1>7, <2>2
    <3>2. QED
      BY <1>6, <2>2, <3>1
  <2>3. QED
    BY <2>1, <2>2
<1>9. QED
  BY <1>1, <1>2, <1>3, <1>5, <1>8 DEF Faith

-----------------------------------------------------------------------------
(* The packets of the Hyper-V devices.                                      *)

(* The device d and its packets, in the state the machine is in.            *)
Serviced(d) ==
    Service(d, Current, handled[d], person.reports[d], channel[d].in, keyboard,
            person.held, person.caps, person.halved, person.repeated)

LEMMA HostKeepsUp ==
    ASSUME StepInv, Faith, HyperVReady
    PROVE  Followed(Current, ready, handled, person.reports, channel, keyboard,
                    person.held, person.caps, person.halved, person.repeated)
  BY DEF Faith, HyperVReady

LEMMA HyperVKeyboardKeeps == Keeps(HyperVKeyboard, {}, FALSE, FALSE)
  BY DEF Keeps, HyperVKeyboard, Shifts

(* A device in use is serviced, also before its first packet.               *)
LEMMA ServiceNow ==
    ASSUME StepInv, Faith, HyperVReady, NEW d \in DeviceSet, ready[d]
    PROVE  Serviced(d)
<1>1. Followed(Current, ready, handled, person.reports, channel, keyboard,
               person.held, person.caps, person.halved, person.repeated)
  BY HostKeepsUp
<1>2. d \in {"keyboard", "mouse"}
  BY DeviceNames
<1>3. CASE person.reports[d] # 0
  BY <1>1, <1>2, <1>3 DEF Followed, Serviced
<1>4. CASE person.reports[d] = 0
  <2>1. handled[d] = 0
    BY <1>1, <1>2, <1>4 DEF Followed
  <2>2. RingSound(channel[d].in) /\ ReadStatus(channel[d].in, RingUnits) = "WOULD_BLOCK"
    BY <1>4, StepParts, ReadyFacts DEF HyperVReady
  <2>3. channel[d].in.read = channel[d].in.write
    <3>1. ring_used(channel[d].in) = 0
      BY <2>2 DEF ReadStatus
    <3>2. QED
      BY <2>2, <3>1, RingFields DEF ring_used
  <2>4. PICK f : f = Current
    OBVIOUS
  <2>5. ~Working(f, d)
    <3>1. CASE stack = <<>>
      BY <2>4, <3>1, IdleFacts DEF Current, Working
    <3>2. CASE stack # <<>>
      <4>1. f = Top /\ FrameSound(Top)
        BY <2>4, <3>2, StepParts, TopFrame DEF Current
      <4>2. QED
        BY <1>4, <4>1 DEF Working, FrameSound
    <3>3. QED
      BY <3>1, <3>2
  <2>6. PICK ps : ps = [i \in {0} |-> 0]
    OBVIOUS
  <2>7. PICK ring : ring = channel[d].in
    OBVIOUS
  <2>8. Line(d, f, 0, 0, ring, ps)
    BY <2>2, <2>3, <2>5, <2>7, LineStart
  <2>9. ASSUME d = "keyboard"
        PROVE  \E ks : Chain(ks, ps, 0, 0, keyboard, person.held, person.caps, person.halved,
                             person.repeated)
    <3>1. keyboard = HyperVKeyboard /\ person.held = {} /\ person.caps = FALSE /\ person.halved = FALSE
      BY <1>1, <1>4, <2>9 DEF Followed
    <3>2. Keeps(keyboard, person.held, person.caps, person.halved)
      BY <3>1, HyperVKeyboardKeeps
    <3>3. QED
      BY <3>2, ChainStart
  <2>10. Service(d, f, 0, 0, ring, keyboard, person.held, person.caps, person.halved, person.repeated)
    BY <2>8, <2>9 DEF Service
  <2>11. QED
    BY <1>4, <2>1, <2>4, <2>7, <2>10 DEF Serviced
<1>5. QED
  BY <1>3, <1>4

LEMMA ChannelIn ==
    ASSUME ChannelsSound, NEW d \in DeviceSet, NEW r, channel' = [channel EXCEPT ![d].in = r]
    PROVE  /\ channel'[d].in = r
           /\ \A e \in DeviceSet : e # d => channel'[e] = channel[e]
<1>1. channel = [x \in DeviceSet |-> channel[x]]
  BY DEF ChannelsSound
<1>2. PICK S : channel[d] = S /\ ChannelSound(S)
  BY DEF ChannelsSound
<1>3. PICK c : c = [S EXCEPT !.in = r]
  OBVIOUS
<1>4. c.in = r
  BY <1>2, <1>3 DEF ChannelSound, Channels
<1>5. channel' = [channel EXCEPT ![d] = c]
  BY <1>1, <1>2, <1>3
<1>6. QED
  BY <1>1, <1>4, <1>5

LEMMA HostSendFaith ==
    ASSUME StepInv, Faith, Uncounted, NEW d \in DeviceSet, NEW p, HostSends(d, p),
           p.units \in Nat, p.n = person.reports[d] + 1, p.kind = "event" <=> d = "keyboard",
           NEW held, NEW caps, NEW half, NEW repeated, Does(d, held, caps, half, repeated),
           "pause" \notin held, person.repeated => repeated,
           d = "keyboard" => Leads(p, person.held, person.caps, person.halved, held, caps, half,
                                   repeated),
           d # "keyboard" => held = person.held /\ caps = person.caps
                               /\ half = person.halved /\ repeated = person.repeated
    PROVE  Faith'
<1>1. /\ HyperVReady /\ HasSpace(channel[d].in, p) /\ bytes' = bytes
      /\ channel' = [channel EXCEPT ![d].in = hyperv_ring_write(@, p)]
  BY DEF HostSends
<1>2. UNCHANGED <<ready, platform, keyboard, queue, output, handled, stack>>
  BY DEF Uncounted
<1>3. /\ person'.held = held /\ person'.caps = caps /\ person'.halved = half /\ person'.repeated = repeated
      /\ person'.reports[d] = person.reports[d] + 1
      /\ \A e \in {"keyboard", "mouse"} : e # d => person'.reports[e] = person.reports[e]
  BY DEF Does
<1>4. /\ QueueSound(queue) /\ AllHonest(queue, person.repeated) /\ BootInv /\ ChannelsSound
      /\ platform = "hyperv" /\ PersonSound
  BY <1>1, StepParts, BootParts DEF Faith, HyperVReady
<1>5. AllHonest(queue, repeated)
  BY <1>4, HonestLater
<1>6. PICK f : f = Current /\ f = Current'
  BY <1>2 DEF Current, Top
<1>7. PICK ring, new : ring = channel[d].in /\ new = hyperv_ring_write(ring, p)
  OBVIOUS
<1>8. RingSound(ring)
  BY <1>1, <1>4, <1>7, ReadyFacts DEF HyperVReady
<1>9. channel' = [channel EXCEPT ![d].in = new]
  <2>1. channel = [x \in DeviceSet |-> channel[x]] /\ ChannelSound(channel[d])
    BY <1>4 DEF ChannelsSound
  <2>2. QED
    BY <1>1, <1>7, <2>1
<1>10. /\ channel'[d].in = new /\ \A e \in DeviceSet : e # d => channel'[e] = channel[e]
  BY <1>4, <1>9, ChannelIn
<1>11. PICK n \in Nat : n = person.reports[d]
  BY <1>4, PersonFields
<1>12. Followed(f, ready, handled, person.reports, channel, keyboard,
                person.held, person.caps, person.halved, person.repeated)
  BY <1>1, <1>6, HostKeepsUp
<1>13. ASSUME ready[d]
       PROVE  Service(d, f, handled[d], n + 1, new, keyboard, held, caps, half, repeated)
  <2>1. Service(d, f, handled[d], n, ring, keyboard, person.held, person.caps, person.halved,
                person.repeated)
    BY <1>1, <1>6, <1>7, <1>11, <1>13, ServiceNow DEF Serviced
  <2>2. HasSpace(ring, p) /\ p.n = n + 1
    BY <1>1, <1>7, <1>11
  <2>3. QED
    BY <1>7, <1>8, <2>1, <2>2, ServiceSend
<1>14. ASSUME NEW e \in {"keyboard", "mouse"}
       PROVE  /\ person'.reports[e] = 0 => handled[e] = 0
              /\ ready[e] /\ person'.reports[e] # 0 =>
                    Service(e, f, handled[e], person'.reports[e], channel'[e].in, keyboard,
                            held, caps, half, repeated)
  <2>1. CASE e = d
    <3>1. person'.reports[e] = n + 1 /\ n + 1 # 0
      BY <1>3, <1>11, <2>1
    <3>2. QED
      BY <1>10, <1>13, <2>1, <3>1
  <2>2. CASE e # d
    <3>1. e \in DeviceSet /\ person'.reports[e] = person.reports[e] /\ channel'[e] = channel[e]
      BY <1>3, <1>10, <2>2, DeviceNames
    <3>2. person.reports[e] = 0 => handled[e] = 0
      BY <1>12 DEF Followed
    <3>3. ASSUME ready[e], person.reports[e] # 0
          PROVE  Service(e, f, handled[e], person.reports[e], channel[e].in, keyboard,
                         held, caps, half, repeated)
      <4>1. Service(e, f, handled[e], person.reports[e], channel[e].in, keyboard,
                    person.held, person.caps, person.halved, person.repeated)
        BY <1>12, <3>3 DEF Followed
      <4>2. e = "keyboard" => held = person.held /\ caps = person.caps
                              /\ half = person.halved /\ repeated = person.repeated
        BY <2>2
      <4>3. QED
        BY <4>1, <4>2, ServiceOther
    <3>4. QED
      BY <3>1, <3>2, <3>3
  <2>3. QED
    BY <2>1, <2>2
<1>15. person'.reports["keyboard"] = 0 =>
          keyboard = HyperVKeyboard /\ held = {} /\ caps = FALSE /\ half = FALSE
  <2>1. CASE d = "keyboard"
    BY <1>3, <1>11, <2>1
  <2>2. CASE d # "keyboard"
    BY <1>3, <1>12, <2>2 DEF Followed
  <2>3. QED
    BY <2>1, <2>2
<1>16. f.pc \in Serving => ready[f.device]
  BY <1>12 DEF Followed
<1>17. PICK rp, ch : rp = person'.reports /\ ch = channel'
  OBVIOUS
<1>18. Followed(f, ready, handled, rp, ch, keyboard, held, caps, half, repeated)
  BY <1>14, <1>15, <1>16, <1>17 DEF Followed
<1>19. QED
  BY <1>1, <1>2, <1>3, <1>4, <1>5, <1>6, <1>17, <1>18 DEF Faith

-----------------------------------------------------------------------------
(* The person, on either platform.                                          *)

LEMMA PressFaith ==
    ASSUME StepInv, Faith, PressKey
    PROVE  Faith'
<1>1. Uncounted /\ PersonSound /\ "keyboard" \in DeviceSet
  BY StepParts, DeviceNames DEF PressKey, Uncounted
<1>2. PICK key \in Keys :
         /\ person' = Counted("keyboard",
                [person EXCEPT !.held = IF key = "pause" THEN @ ELSE @ \cup {key},
                               !.caps = IF key = "caps" /\ key \notin person.held THEN ~@ ELSE @,
                               !.halved = @ /\ key \notin Shifts,
                               !.repeated = @ \/ key \in person.held])
         /\ WireSends("keyboard", MakeBytes(key)) \/ HostSends("keyboard", KeyPacket(key, FALSE))
  BY DEF PressKey
<1>0. PICK h : h = person.held
  OBVIOUS
<1>3. PICK c \in BOOLEAN : h = person.held /\ c = person.caps
  BY <1>0, <1>1, PersonFields
<1>4. PICK held : held = IF key = "pause" THEN h ELSE h \cup {key}
  OBVIOUS
<1>5. PICK caps \in BOOLEAN : caps = IF key = "caps" /\ key \notin h THEN ~c ELSE c
  OBVIOUS
<1>14. PICK hf \in BOOLEAN : hf = person.halved
  BY <1>1, PersonFields
<1>15. PICK half \in BOOLEAN : half = (hf /\ key \notin Shifts)
  OBVIOUS
<1>6. PICK repeated \in BOOLEAN : repeated = (person.repeated \/ key \in h)
  BY <1>1, PersonFields
<1>7. held \subseteq Keys /\ "pause" \notin held
  BY <1>1, <1>3, <1>4, PersonFields DEF Faith
<1>8. person' = [held |-> held, caps |-> caps, halved |-> half, repeated |-> repeated,
                 reports |-> [person.reports EXCEPT !["keyboard"] = person.reports["keyboard"] + 1]]
  BY <1>1, <1>2, <1>3, <1>4, <1>5, <1>6, <1>14, <1>15 DEF Counted, PersonSound
<1>9. Does("keyboard", held, caps, half, repeated)
  BY <1>1, <1>7, <1>8, CountedDoes
<1>10. person.repeated => repeated
  BY <1>6
<1>11. CASE WireSends("keyboard", MakeBytes(key))
  <2>1. PICK sent : sent = MakeBytes(key)
    OBVIOUS
  <2>2. Carries(sent, person.held, person.caps, held, caps, repeated)
    <3>1. ASSUME NEW m, Agree(m, h, c)
          PROVE  \E z : Runs(m, sent, z, repeated) /\ Agree(z, held, caps)
      <4>1. key \in h => repeated
        BY <1>6
      <4>2. \E z : /\ Runs(m, MakeBytes(key), z, repeated)
                   /\ Agree(z, IF key = "pause" THEN h ELSE h \cup {key},
                            IF key = "caps" /\ key \notin h THEN ~c ELSE c)
        BY <3>1, <4>1, PressAgrees
      <4>3. QED
        BY <1>4, <1>5, <2>1, <4>2
    <3>2. QED
      BY <1>3, <3>1 DEF Carries
  <2>3. QED
    BY <1>1, <1>7, <1>9, <1>10, <1>11, <2>1, <2>2, WireSendFaith
<1>12. CASE HostSends("keyboard", KeyPacket(key, FALSE))
  <2>1. PICK p : p = KeyPacket(key, FALSE)
    OBVIOUS
  <2>2. /\ p.key = key /\ ~p.released /\ p.e1 = (key = "pause")
        /\ p.units \in Nat /\ p.n = person.reports["keyboard"] + 1 /\ p.kind = "event"
    BY <2>1 DEF KeyPacket
  <2>3. Leads(p, person.held, person.caps, person.halved, held, caps, half, repeated)
    <3>1. ASSUME NEW m, Keeps(m, h, c, hf)
          PROVE  Keeps(Keyed(m, p), held, caps, half) /\ (Repeats(m, p) => repeated)
      <4>1. key \in h => repeated
        BY <1>6
      <4>2. Keeps(Keyed(m, p), held, caps, half) /\ (Repeats(m, p) => key \in h)
        <5>1. Pressing(p, key, h, c, hf, held, caps, half)
          BY <1>3, <1>4, <1>5, <1>14, <1>15, <2>2 DEF Pressing
        <5>2. QED
          BY <3>1, <5>1, KeepsPress
      <4>3. QED
        BY <4>1, <4>2
    <3>2. QED
      BY <1>3, <1>14, <3>1 DEF Leads
  <2>4. QED
    BY <1>1, <1>7, <1>9, <1>10, <1>12, <2>1, <2>2, <2>3, HostSendFaith
<1>13. QED
  BY <1>2, <1>11, <1>12

LEMMA ReleaseFaith ==
    ASSUME StepInv, Faith, ReleaseKey
    PROVE  Faith'
<1>1. Uncounted /\ PersonSound /\ "keyboard" \in DeviceSet
  BY StepParts, DeviceNames DEF ReleaseKey, Uncounted
<1>2. PICK key \in person.held :
         /\ person' = Counted("keyboard",
                [person EXCEPT !.held = @ \ {key},
                               !.halved = IF key \in Shifts THEN Shifts \subseteq person.held ELSE @])
         /\ WireSends("keyboard", BreakBytes(key)) \/ HostSends("keyboard", KeyPacket(key, TRUE))
  BY DEF ReleaseKey
<1>0. PICK h : h = person.held
  OBVIOUS
<1>3. PICK caps \in BOOLEAN, repeated \in BOOLEAN :
         h = person.held /\ caps = person.caps /\ repeated = person.repeated
  BY <1>0, <1>1, PersonFields
<1>12. PICK hf \in BOOLEAN : hf = person.halved
  BY <1>1, PersonFields
<1>13. PICK half \in BOOLEAN : half = IF key \in Shifts THEN Shifts \subseteq h ELSE hf
  OBVIOUS
<1>4. PICK held : held = h \ {key}
  OBVIOUS
<1>5. held \subseteq Keys /\ "pause" \notin held /\ key # "pause" /\ key \in Keys
  BY <1>1, <1>2, <1>3, <1>4, PersonFields DEF Faith
<1>6. person' = [held |-> held, caps |-> caps, halved |-> half, repeated |-> repeated,
                 reports |-> [person.reports EXCEPT !["keyboard"] = person.reports["keyboard"] + 1]]
  BY <1>1, <1>2, <1>3, <1>4, <1>12, <1>13 DEF Counted, PersonSound
<1>7. Does("keyboard", held, caps, half, repeated)
  BY <1>1, <1>5, <1>6, CountedDoes
<1>8. person.repeated => repeated
  BY <1>3
<1>9. CASE WireSends("keyboard", BreakBytes(key))
  <2>1. PICK sent : sent = BreakBytes(key)
    OBVIOUS
  <2>2. Carries(sent, person.held, person.caps, held, caps, repeated)
    <3>1. ASSUME NEW m, Agree(m, h, caps)
          PROVE  \E z : Runs(m, sent, z, repeated) /\ Agree(z, held, caps)
      BY <1>3, <1>4, <1>5, <2>1, <3>1, ReleaseAgrees
    <3>2. QED
      BY <1>3, <3>1 DEF Carries
  <2>3. QED
    BY <1>1, <1>5, <1>7, <1>8, <1>9, <2>1, <2>2, WireSendFaith
<1>10. CASE HostSends("keyboard", KeyPacket(key, TRUE))
  <2>1. PICK p : p = KeyPacket(key, TRUE)
    OBVIOUS
  <2>2. /\ p.key = key /\ p.released = TRUE /\ p.e1 = (key = "pause")
        /\ p.units \in Nat /\ p.n = person.reports["keyboard"] + 1 /\ p.kind = "event"
    BY <2>1 DEF KeyPacket
  <2>3. Leads(p, person.held, person.caps, person.halved, held, caps, half, repeated)
    <3>1. ASSUME NEW m, Keeps(m, h, caps, hf)
          PROVE  Keeps(Keyed(m, p), held, caps, half) /\ (Repeats(m, p) => repeated)
      <4>1. Releasing(p, key, h, hf, held, half)
        BY <1>2, <1>3, <1>4, <1>5, <1>12, <1>13, <2>2 DEF Releasing
      <4>2. QED
        BY <3>1, <4>1, KeepsRelease
    <3>2. QED
      BY <1>3, <1>12, <3>1 DEF Leads
  <2>4. QED
    BY <1>1, <1>5, <1>7, <1>8, <1>10, <2>1, <2>2, <2>3, HostSendFaith
<1>11. QED
  BY <1>2, <1>9, <1>10

LEMMA MoveFaith ==
    ASSUME StepInv, Faith, MoveMouse
    PROVE  Faith'
<1>1. Uncounted /\ PersonSound /\ "mouse" \in DeviceSet
  BY StepParts, DeviceNames DEF MoveMouse, Uncounted
<1>2. person' = Counted("mouse", person)
  BY DEF MoveMouse
<1>0. PICK held : held = person.held
  OBVIOUS
<1>3. PICK caps \in BOOLEAN, half \in BOOLEAN, repeated \in BOOLEAN :
         held = person.held /\ caps = person.caps /\ half = person.halved /\ repeated = person.repeated
  BY <1>0, <1>1, PersonFields
<1>4. held \subseteq Keys /\ "pause" \notin held
  BY <1>1, <1>3, PersonFields DEF Faith
<1>5. person' = [held |-> held, caps |-> caps, halved |-> half, repeated |-> repeated,
                 reports |-> [person.reports EXCEPT !["mouse"] = person.reports["mouse"] + 1]]
  BY <1>1, <1>2, <1>3 DEF Counted, PersonSound
<1>6. Does("mouse", held, caps, half, repeated)
  BY <1>1, <1>4, <1>5, CountedDoes
<1>7. ASSUME NEW sent, WireSends("mouse", sent) PROVE Faith'
  BY <1>1, <1>3, <1>4, <1>6, <1>7, WireSendFaith
<1>8. ASSUME NEW p \in MousePackets, HostSends("mouse", p) PROVE Faith'
  <2>1. p.units \in Nat /\ p.n = person.reports["mouse"] + 1 /\ p.kind # "event"
    BY <1>8 DEF MousePackets
  <2>2. QED
    BY <1>1, <1>3, <1>4, <1>6, <1>8, <2>1, HostSendFaith
<1>9. QED
  BY <1>7, <1>8 DEF MoveMouse

-----------------------------------------------------------------------------
(* The polls of the Hyper-V devices.                                        *)

(* A step goes on with the packet of its device; the other devices rest.    *)
Elsewhere(d, hd, hd2, rings, rings2) ==
    \A e \in {"keyboard", "mouse"} : e # d => hd2[e] = hd[e] /\ rings2[e] = rings[e]

LEMMA FollowedStep ==
    ASSUME NEW f, NEW g, NEW d \in {"keyboard", "mouse"},
           f.pc \in Serving => f.device = d, g.pc \in Serving => g.device = d,
           NEW rd, NEW rd2, rd[d], \A e \in {"keyboard", "mouse"} : rd2[e] => rd[e],
           g.pc \in Serving => rd2[d],
           NEW hd, NEW hd2, NEW rp, rp[d] # 0, NEW rings, NEW rings2, NEW k, NEW k2,
           NEW held, NEW caps, NEW half, NEW repeated,
           Followed(f, rd, hd, rp, rings, k, held, caps, half, repeated),
           Elsewhere(d, hd, hd2, rings, rings2),
           d # "keyboard" => k2 = k,
           Service(d, g, hd2[d], rp[d], rings2[d].in, k2, held, caps, half, repeated)
    PROVE  Followed(g, rd2, hd2, rp, rings2, k2, held, caps, half, repeated)
<1>1. ASSUME NEW e \in {"keyboard", "mouse"}, e # d, rd2[e], rp[e] # 0
      PROVE  Service(e, g, hd2[e], rp[e], rings2[e].in, k2, held, caps, half, repeated)
  <2>1. ~Working(f, e) /\ ~Working(g, e)
    BY <1>1 DEF Working
  <2>2. Service(e, f, hd2[e], rp[e], rings2[e].in, k, held, caps, half, repeated)
    BY <1>1 DEF Followed, Elsewhere
  <2>3. e = "keyboard" => k2 = k
    BY <1>1
  <2>4. QED
    BY <2>1, <2>2, <2>3, ServiceOther
<1>2. ASSUME NEW e \in {"keyboard", "mouse"}
      PROVE  /\ rp[e] = 0 => hd2[e] = 0
             /\ rd2[e] /\ rp[e] # 0 => Service(e, g, hd2[e], rp[e], rings2[e].in, k2, held, caps,
                                               half, repeated)
  <2>1. CASE e = d
    BY <2>1
  <2>2. CASE e # d
    BY <1>1, <2>2 DEF Followed, Elsewhere
  <2>3. QED
    BY <2>1, <2>2
<1>3. rp["keyboard"] = 0 => k2 = HyperVKeyboard /\ held = {} /\ caps = FALSE /\ half = FALSE
  BY DEF Followed
<1>4. g.pc \in Serving => rd2[g.device]
  OBVIOUS
<1>5. QED
  BY <1>2, <1>3, <1>4 DEF Followed

LEMMA HostTop ==
    ASSUME StepInv, stack # <<>>, Top.pc \in {"poll"} \cup Serving
    PROVE  /\ HyperVReady /\ platform = "hyperv" /\ Top.device \in DeviceSet
           /\ Top.device \in {"keyboard", "mouse"} /\ Current = Top /\ IsFrame(Top)
           /\ Top.pc \in Serving => person.reports[Top.device] # 0 /\ TypedPacket(Top.packet)
<1>1. FrameSound(Top) /\ (Ps2Ready \/ HyperVReady) /\ PersonSound
  BY StepParts, TopFrame
<1>2. platform = "hyperv" /\ Top.device \in {"keyboard", "mouse"} /\ IsFrame(Top)
  BY <1>1 DEF FrameSound, Serving
<1>3. ASSUME Top.pc \in Serving PROVE person.reports[Top.device] # 0 /\ TypedPacket(Top.packet)
  <2>1. person.reports[Top.device] > 0 /\ TypedPacket(Top.packet)
    BY <1>1, <1>3 DEF FrameSound
  <2>2. person.reports[Top.device] \in Nat
    BY <1>1, <1>2, PersonFields, DeviceNames
  <2>3. QED
    BY <2>1, <2>2
<1>4. QED
  BY <1>1, <1>2, <1>3, DeviceNames DEF Ps2Ready, HyperVReady, Current

LEMMA PollFaith ==
    ASSUME StepInv, Faith, HyperVPoll
    PROVE  Faith'
<1>1. /\ UNCHANGED <<channel, platform, keyboard, queue, person, bytes, output, handled>>
      /\ stack # <<>> /\ Top.pc = "poll"
  BY DEF HyperVPoll, At
<1>2. PICK d \in {"keyboard", "mouse"} : d = Top.device /\ d \in DeviceSet
  BY <1>1, HostTop
<1>3. /\ HyperVReady /\ platform = "hyperv" /\ StackSound /\ AllHonest(queue, person.repeated)
      /\ BootInv /\ ready \in [DeviceSet -> BOOLEAN]
  BY <1>1, StepParts, HostTop DEF Faith
<1>4. PICK f : f = Current /\ f = Top /\ f.pc = "poll" /\ f.pc \notin Serving
  BY <1>1, HostTop DEF Serving
<1>5. Followed(f, ready, handled, person.reports, channel, keyboard,
               person.held, person.caps, person.halved, person.repeated)
  BY <1>3, <1>4, HostKeepsUp
<1>6. PICK in : in = channel[d].in /\ RingSound(in)
  BY <1>2, <1>3, ReadyFacts DEF HyperVReady
<1>7. CASE ready[d] /\ ReadStatus(in, RingUnits) = "OK"
  <2>1. /\ Now([Step("copy", d) EXCEPT !.packet = PacketAt(in), !.index = in.read])
        /\ ready' = ready
    BY <1>2, <1>6, <1>7 DEF HyperVPoll
  <2>2. PICK t : t = Step("copy", d)
    OBVIOUS
  <2>3. PICK g : g = [t EXCEPT !.packet = PacketAt(in), !.index = in.read] /\ Now(g)
    BY <2>1, <2>2
  <2>4. IsFrame(t) /\ t.pc = "copy" /\ t.device = d
    BY <2>2, StepIsFrame
  <2>5. Holds(g, t, PacketAt(in), in.read)
    BY <2>3 DEF Holds
  <2>6. g.pc = "copy" /\ g.device = d /\ g.packet = PacketAt(in) /\ g.index = in.read
    BY <2>4, <2>5, FrameWith
  <2>7. Current' = g
    BY <1>1, <1>3, <2>3, CurrentNow
  <2>8. person.reports[d] # 0
    <3>1. person.reports[d] = 0 => ReadStatus(in, RingUnits) = "WOULD_BLOCK"
      BY <1>2, <1>3, <1>6, <1>7, ReadyFacts DEF HyperVReady
    <3>2. QED
      BY <1>7, <3>1
  <2>9. Service(d, f, handled[d], person.reports[d], in, keyboard,
                person.held, person.caps, person.halved, person.repeated)
    BY <1>5, <1>6, <1>7, <2>8 DEF Followed
  <2>10. PICK ps : /\ Line(d, f, handled[d], person.reports[d], in, ps)
                   /\ d = "keyboard" => \E ks : Chain(ks, ps, handled[d], person.reports[d], keyboard,
                                                      person.held, person.caps, person.halved,
                                                      person.repeated)
    BY <2>9 DEF Service
  <2>11. ~Working(f, d)
    BY <1>4 DEF Working
  <2>12. handled[d] < person.reports[d]
    <3>1. handled[d] \in Nat /\ person.reports[d] \in Nat /\ handled[d] <= person.reports[d]
      BY <2>10, LineFacts
    <3>2. handled[d] = person.reports[d] => ReadStatus(in, RingUnits) = "WOULD_BLOCK"
      BY <1>6, <2>10, <2>11, LinePoll
    <3>3. QED
      BY <1>7, <3>1, <3>2
  <2>13. Line(d, g, handled[d], person.reports[d], in, ps)
    BY <1>6, <2>6, <2>10, <2>11, <2>12, LinePoll
  <2>14. Service(d, g, handled[d], person.reports[d], in, keyboard,
                 person.held, person.caps, person.halved, person.repeated)
    BY <2>10, <2>13 DEF Service
  <2>15. Followed(g, ready, handled, person.reports, channel, keyboard,
                  person.held, person.caps, person.halved, person.repeated)
    <3>1. Service(d, g, handled[d], person.reports[d], channel[d].in, keyboard,
                  person.held, person.caps, person.halved, person.repeated)
      BY <1>6, <2>14
    <3>2. QED
      BY <1>4, <1>5, <1>7, <2>6, <2>8, <3>1, FollowedStep DEF Elsewhere
  <2>16. QED
    BY <1>1, <1>3, <2>1, <2>7, <2>15 DEF Faith
<1>8. CASE ~(ready[d] /\ ReadStatus(in, RingUnits) = "OK")
  <2>1. /\ Now(After(d))
        /\ ready' = [ready EXCEPT ![d] = @ /\ ReadStatus(in, RingUnits) = "WOULD_BLOCK"]
    BY <1>2, <1>6, <1>8 DEF HyperVPoll
  <2>2. PICK g : g = After(d) /\ Now(g)
    BY <2>1
  <2>3. Current' = g /\ g.pc \notin Serving
    BY <1>1, <1>3, <2>2, CurrentNow, FirstPollFacts
  <2>4. \A e \in {"keyboard", "mouse"} : ready'[e] => ready[e]
    BY <1>2, <1>3, <2>1, DeviceNames
  <2>5. PICK rd : rd = ready'
    OBVIOUS
  <2>6. Followed(g, rd, handled, person.reports, channel, keyboard,
                 person.held, person.caps, person.halved, person.repeated)
    BY <1>4, <1>5, <2>3, <2>4, <2>5, FollowedQuiet
  <2>7. QED
    BY <1>1, <1>3, <2>3, <2>5, <2>6 DEF Faith
<1>9. QED
  BY <1>7, <1>8

LEMMA CopyFaith ==
    ASSUME StepInv, Faith, CopyPacket
    PROVE  Faith'
<1>1. /\ UNCHANGED <<busVars, platform, keyboard, queue, person, bytes, output, handled>>
      /\ stack # <<>> /\ Top.pc = "copy" /\ Top.pc \in Serving
  BY DEF CopyPacket, At, Serving
<1>2. PICK d \in {"keyboard", "mouse"} : d = Top.device /\ d \in DeviceSet
  BY <1>1, HostTop
<1>3. /\ HyperVReady /\ platform = "hyperv" /\ StackSound /\ AllHonest(queue, person.repeated)
      /\ BootInv /\ channel' = channel /\ ready' = ready /\ person.reports[d] # 0
  BY <1>1, <1>2, StepParts, HostTop DEF Faith, busVars
<1>4. PICK f : f = Current /\ f = Top /\ f.pc = "copy" /\ f.device = d /\ IsFrame(f) /\ f.pc \in Serving
  BY <1>1, <1>2, HostTop
<1>5. Followed(f, ready, handled, person.reports, channel, keyboard,
               person.held, person.caps, person.halved, person.repeated)
  BY <1>3, <1>4, HostKeepsUp
<1>6. PICK in : in = channel[d].in /\ RingSound(in)
  BY <1>2, <1>3, ReadyFacts DEF HyperVReady
<1>7. ready[d]
  BY <1>4, <1>5 DEF Followed
<1>8. PICK ps : /\ Line(d, f, handled[d], person.reports[d], in, ps)
                /\ d = "keyboard" => \E ks : Chain(ks, ps, handled[d], person.reports[d], keyboard,
                                                   person.held, person.caps, person.halved,
                                                   person.repeated)
  <2>1. Service(d, f, handled[d], person.reports[d], in, keyboard,
                person.held, person.caps, person.halved, person.repeated)
    BY <1>3, <1>5, <1>6, <1>7 DEF Followed
  <2>2. QED
    BY <2>1 DEF Service
<1>9. IsWhole(in, f.index, f.packet)
  <2>1. PICK s : GoesTo(s, f, "publish")
    BY DEF GoesTo
  <2>2. s.pc = "publish" /\ s.device = d /\ s.packet = f.packet /\ s.index = f.index
    BY <1>4, <2>1, FrameWith
  <2>3. QED
    BY <1>4, <1>6, <1>8, <2>2, LineCopy
<1>10. PICK p : p = f.packet
  OBVIOUS
<1>11. PICK g : Now(g) /\ GoesWith(g, f, "publish", p)
  <2>1. Now([f EXCEPT !.pc = "publish",
                      !.packet = IF IsWhole(in, f.index, f.packet) THEN @ ELSE NoPacket])
    BY <1>2, <1>4, <1>6 DEF CopyPacket
  <2>2. QED
    BY <1>9, <1>10, <2>1 DEF GoesWith
<1>12. g.pc = "publish" /\ g.device = d /\ g.packet = f.packet /\ g.index = f.index
  BY <1>4, <1>10, <1>11, FrameWith
<1>13. Line(d, g, handled[d], person.reports[d], in, ps)
  BY <1>4, <1>6, <1>8, <1>12, LineCopy
<1>14. Service(d, g, handled[d], person.reports[d], channel[d].in, keyboard,
               person.held, person.caps, person.halved, person.repeated)
  BY <1>6, <1>8, <1>13 DEF Service
<1>15. Followed(g, ready, handled, person.reports, channel, keyboard,
                person.held, person.caps, person.halved, person.repeated)
  BY <1>3, <1>4, <1>5, <1>7, <1>12, <1>14, FollowedStep DEF Elsewhere
<1>16. Current' = g
  BY <1>1, <1>3, <1>11, CurrentNow
<1>17. QED
  BY <1>1, <1>3, <1>15, <1>16 DEF Faith

LEMMA PublishFaith ==
    ASSUME StepInv, Faith, PublishRead
    PROVE  Faith'
<1>1. /\ UNCHANGED <<ready, platform, keyboard, queue, person, bytes, output, handled>>
      /\ stack # <<>> /\ Top.pc = "publish" /\ Top.pc \in Serving
      /\ channel' = [channel EXCEPT ![Top.device].in.read = AfterPacket(Top.index, Top.packet)]
      /\ Now([Top EXCEPT !.pc = "handle"])
  BY DEF PublishRead, At, Serving
<1>2. PICK d \in {"keyboard", "mouse"} : d = Top.device /\ d \in DeviceSet
  BY <1>1, HostTop
<1>3. /\ HyperVReady /\ platform = "hyperv" /\ StackSound /\ AllHonest(queue, person.repeated)
      /\ BootInv /\ ChannelsSound /\ person.reports[d] # 0
  BY <1>1, <1>2, StepParts, BootParts, HostTop DEF Faith
<1>4. PICK f : f = Current /\ f = Top /\ f.pc = "publish" /\ f.device = d /\ IsFrame(f) /\ f.pc \in Serving
  BY <1>1, <1>2, HostTop
<1>5. Followed(f, ready, handled, person.reports, channel, keyboard,
               person.held, person.caps, person.halved, person.repeated)
  BY <1>3, <1>4, HostKeepsUp
<1>6. PICK in : in = channel[d].in /\ RingSound(in)
  BY <1>2, <1>3, ReadyFacts DEF HyperVReady
<1>7. ready[d]
  BY <1>4, <1>5 DEF Followed
<1>8. PICK ps : /\ Line(d, f, handled[d], person.reports[d], in, ps)
                /\ d = "keyboard" => \E ks : Chain(ks, ps, handled[d], person.reports[d], keyboard,
                                                   person.held, person.caps, person.halved,
                                                   person.repeated)
  <2>1. Service(d, f, handled[d], person.reports[d], in, keyboard,
                person.held, person.caps, person.halved, person.repeated)
    BY <1>3, <1>5, <1>6, <1>7 DEF Followed
  <2>2. QED
    BY <2>1 DEF Service
<1>9. PICK g : Now(g) /\ GoesTo(g, f, "handle")
  BY <1>1, <1>4 DEF GoesTo
<1>10. g.pc = "handle" /\ g.device = d /\ g.packet = f.packet
  BY <1>4, <1>9, FrameWith
<1>11. PICK new : new = [in EXCEPT !.read = AfterPacket(f.index, f.packet)]
  OBVIOUS
<1>12. channel' = [channel EXCEPT ![d].in = new]
  <2>1. channel = [x \in DeviceSet |-> channel[x]] /\ ChannelSound(channel[d])
    BY <1>2, <1>3 DEF ChannelsSound
  <2>2. PICK a : a = AfterPacket(f.index, f.packet)
    OBVIOUS
  <2>3. channel' = [channel EXCEPT ![d].in.read = a] /\ new = [in EXCEPT !.read = a]
    BY <1>1, <1>2, <1>4, <1>11, <2>2
  <2>4. QED
    BY <1>2, <1>6, <2>1, <2>3
<1>13. channel'[d].in = new /\ \A e \in DeviceSet : e # d => channel'[e] = channel[e]
  BY <1>2, <1>3, <1>12, ChannelIn
<1>14. Line(d, g, handled[d], person.reports[d], new, ps)
  BY <1>4, <1>6, <1>8, <1>10, <1>11, LinePublish
<1>15. PICK ch : ch = channel'
  OBVIOUS
<1>16. Service(d, g, handled[d], person.reports[d], ch[d].in, keyboard,
               person.held, person.caps, person.halved, person.repeated)
  BY <1>8, <1>13, <1>14, <1>15 DEF Service
<1>17. Elsewhere(d, handled, handled, channel, ch)
  BY <1>13, <1>15, DeviceNames DEF Elsewhere
<1>18. Followed(g, ready, handled, person.reports, ch, keyboard,
                person.held, person.caps, person.halved, person.repeated)
  BY <1>3, <1>4, <1>5, <1>7, <1>10, <1>16, <1>17, FollowedStep
<1>19. Current' = g
  BY <1>1, <1>3, <1>9, CurrentNow
<1>20. QED
  BY <1>1, <1>3, <1>15, <1>18, <1>19 DEF Faith

LEMMA HandleFaith ==
    ASSUME StepInv, Faith, HandlePacket
    PROVE  Faith'
<1>1. /\ UNCHANGED <<channel, platform, person, bytes, output>>
      /\ stack # <<>> /\ Top.pc = "handle" /\ Top.pc \in Serving
  BY DEF HandlePacket, At, Serving
<1>2. PICK d \in {"keyboard", "mouse"} : d = Top.device /\ d \in DeviceSet
  BY <1>1, HostTop
<1>3. /\ HyperVReady /\ platform = "hyperv" /\ StackSound /\ QueueSound(queue)
      /\ AllHonest(queue, person.repeated) /\ handled \in [{"keyboard", "mouse"} -> Nat]
      /\ ready \in [DeviceSet -> BOOLEAN] /\ person.reports[d] # 0
  BY <1>1, <1>2, StepParts, HostTop DEF Faith
<1>4. PICK f : f = Current /\ f = Top /\ f.pc = "handle" /\ f.device = d /\ f.pc \in Serving
  BY <1>1, <1>2, HostTop
<1>5. PICK p : p = f.packet /\ p = Top.packet /\ TypedPacket(p)
  BY <1>1, <1>4, HostTop
<1>6. Followed(f, ready, handled, person.reports, channel, keyboard,
               person.held, person.caps, person.halved, person.repeated)
  BY <1>3, <1>4, HostKeepsUp
<1>7. ready[d]
  BY <1>4, <1>6 DEF Followed
<1>8. PICK h, n, b : h = handled[d] /\ n = person.reports[d] /\ b = person.repeated
  OBVIOUS
<1>9. PICK ps : /\ Line(d, f, h, n, channel[d].in, ps)
                /\ d = "keyboard" => \E ks : Chain(ks, ps, h, n, keyboard, person.held,
                                                   person.caps, person.halved, b)
  <2>1. Service(d, f, h, n, channel[d].in, keyboard, person.held, person.caps, person.halved, b)
    BY <1>3, <1>6, <1>7, <1>8 DEF Followed
  <2>2. QED
    BY <2>1 DEF Service
<1>10. /\ h \in Nat /\ n \in Nat /\ h < n /\ p = ps[h + 1] /\ (p.kind = "event" <=> d = "keyboard")
  <2>1. Working(f, d)
    BY <1>4 DEF Working
  <2>2. h \in Nat /\ n \in Nat /\ h < n /\ p = ps[h + 1] /\ Packets(d, h, n, ps)
    BY <1>5, <1>9, <2>1 DEF Line
  <2>3. h + 1 \in h + 1 .. n
    BY <2>2
  <2>4. QED
    BY <2>2, <2>3 DEF Packets
<1>11. PICK r \in Outcomes(p) :
          /\ keyboard' = IF p.kind = "event" THEN r.keyboard ELSE keyboard
          /\ queue' = r.queue
          /\ handled' = [handled EXCEPT ![d] = @ + 1]
          /\ ready' = [ready EXCEPT ![d] = @ /\ r.status \in {"OK", "NOT_SUPPORTED"}]
          /\ Now(IF r.status = "OK" THEN Step("poll", d) ELSE After(d))
  BY <1>2, <1>5 DEF HandlePacket
<1>12. PICK g : Now(g) /\ (g = Step("poll", d) \/ g = After(d))
  BY <1>11
<1>13. g.pc \notin Serving
  <2>1. CASE g = Step("poll", d)
    <3>1. g.pc = "poll"
      BY <2>1, StepIsFrame
    <3>2. QED
      BY <3>1 DEF Serving
  <2>2. CASE g = After(d)
    BY <2>2, FirstPollFacts
  <2>3. QED
    BY <1>12, <2>1, <2>2
<1>14. Current' = g
  BY <1>1, <1>3, <1>12, CurrentNow
<1>15. /\ handled' \in [{"keyboard", "mouse"} -> Nat] /\ handled'[d] = h + 1
       /\ \A e \in {"keyboard", "mouse"} : e # d => handled'[e] = handled[e]
  BY <1>3, <1>8, <1>11
<1>16. \A e \in {"keyboard", "mouse"} : ready'[e] => ready[e]
  <2>1. PICK ok \in BOOLEAN : ready' = [ready EXCEPT ![d] = @ /\ ok]
    BY <1>11
  <2>2. QED
    BY <1>2, <1>3, <2>1, DeviceNames
<1>17. PICK k : k = keyboard'
  OBVIOUS
<1>18. /\ Pushed(queue, queue', b) /\ (d # "keyboard" => k = keyboard)
       /\ d = "keyboard" => \E ks : Chain(ks, ps, h + 1, n, k, person.held, person.caps, person.halved, b)
  <2>1. CASE d = "keyboard"
    <3>1. PICK ks : Chain(ks, ps, h, n, keyboard, person.held, person.caps, person.halved, b)
      BY <1>9, <2>1
    <3>2. /\ Chain(ks, ps, h + 1, n, Keyed(keyboard, p), person.held, person.caps, person.halved, b)
          /\ Repeats(keyboard, p) => b
      BY <1>10, <3>1, ChainHandle
    <3>3. r = hyperv_keyboard_handle_event(keyboard, queue, p)
      BY <1>10, <2>1 DEF Outcomes
    <3>4. r.keyboard = Keyed(keyboard, p) /\ Pushed(queue, r.queue, b)
      BY <1>3, <3>2, <3>3, KeyedFacts
    <3>5. k = Keyed(keyboard, p)
      BY <1>10, <1>11, <1>17, <2>1, <3>4
    <3>6. QED
      BY <1>11, <2>1, <3>2, <3>4, <3>5
  <2>2. CASE d # "keyboard"
    <3>1. p.kind # "event" /\ k = keyboard
      BY <1>10, <1>11, <1>17, <2>2
    <3>2. Pushed(queue, r.queue, b)
      BY <1>3, <1>5, <3>1, OutcomeFacts
    <3>3. QED
      BY <1>11, <2>2, <3>1, <3>2
  <2>3. QED
    BY <2>1, <2>2
<1>19. AllHonest(queue', b)
  BY <1>3, <1>8, <1>18, HonestPushed
<1>20. Line(d, g, h + 1, n, channel[d].in, ps)
  <2>1. ~Working(g, d)
    BY <1>13 DEF Working
  <2>2. QED
    BY <1>4, <1>9, <2>1, LineHandle
<1>21. PICK hd, rd : hd = handled' /\ rd = ready'
  OBVIOUS
<1>22. Service(d, g, hd[d], person.reports[d], channel[d].in, k, person.held, person.caps,
               person.halved, b)
  BY <1>8, <1>15, <1>18, <1>20, <1>21 DEF Service
<1>23. Followed(g, rd, hd, person.reports, channel, k, person.held, person.caps, person.halved, b)
  <2>1. /\ Elsewhere(d, handled, hd, channel, channel)
        /\ \A e \in {"keyboard", "mouse"} : rd[e] => ready[e]
    BY <1>15, <1>16, <1>21 DEF Elsewhere
  <2>2. Followed(f, ready, handled, person.reports, channel, keyboard, person.held, person.caps,
                 person.halved, b)
    BY <1>6, <1>8
  <2>3. d # "keyboard" => k = keyboard
    BY <1>18
  <2>4. QED
    BY <1>3, <1>4, <1>7, <1>13, <1>22, <2>1, <2>2, <2>3, FollowedStep
<1>24. "pause" \notin person.held
  BY DEF Faith
<1>25. QED
  BY <1>1, <1>3, <1>8, <1>14, <1>15, <1>17, <1>19, <1>21, <1>23, <1>24 DEF Faith

(* The inductive step.                                                      *)
LEMMA NextKeepsFaith ==
    ASSUME TicksBetweenPolls, StepInv, Faith, [Next]_vars
    PROVE  StepInv' /\ Faith'
<1>1. StepInv'
  BY TicksApart, NextKeepsStep
<1>2. CASE Next
  BY <1>1, <1>2, CommandFaith, BootFaith, PressFaith, ReleaseFaith, MoveFaith, LoadFaith, TickFaith,
     StartStepFaith, ReadStatusFaith, ReadDataFaith, PollFaith, CopyFaith, PublishFaith,
     HandleFaith, TakeEventFaith DEF Next, RunStep
<1>3. CASE UNCHANGED vars
  BY <1>1, <1>3, StutterFaith
<1>4. QED
  BY <1>2, <1>3

LEMMA FaithHolds ==
    ASSUME TicksBetweenPolls, StepInv, Faith
    PROVE  InputFaithful
<1>1. StackSound /\ QueueSound(queue) /\ platform \in {"ps2", "hyperv"}
  BY StepParts
<1>2. ReportsHandledInOrder
  <2>1. ASSUME NEW i \in 1 .. Len(stack), stack[i].pc = "handle"
        PROVE  stack[i].packet.n = handled[stack[i].device] + 1
    <3>1. i = Len(stack) /\ stack # <<>>
      <4>1. i = Len(stack)
        BY <1>1, <2>1, BelowTop DEF Serving
      <4>2. Len(stack) # 0
        BY <4>1
      <4>3. QED
        BY <1>1, <4>1, <4>2, SeqFacts DEF StackSound
    <3>2. stack[i] = Top /\ Top.pc \in {"poll"} \cup Serving /\ Top.pc \in Serving
      BY <2>1, <3>1 DEF Top, Serving
    <3>3. PICK f : f = Top /\ f = Current /\ f.pc = "handle" /\ f.pc \in Serving
      BY <2>1, <3>1, <3>2, HostTop
    <3>4. PICK d \in {"keyboard", "mouse"} : d = f.device /\ HyperVReady /\ person.reports[d] # 0
      BY <3>1, <3>2, <3>3, HostTop
    <3>5. Followed(f, ready, handled, person.reports, channel, keyboard,
                   person.held, person.caps, person.halved, person.repeated)
      BY <3>3, <3>4, HostKeepsUp
    <3>6. PICK h, n : h = handled[d] /\ n = person.reports[d]
      OBVIOUS
    <3>7. Service(d, f, h, n, channel[d].in, keyboard, person.held, person.caps, person.halved,
                  person.repeated)
      BY <3>3, <3>4, <3>5, <3>6 DEF Followed
    <3>8. PICK ps : Line(d, f, h, n, channel[d].in, ps)
      BY <3>7 DEF Service
    <3>9. Working(f, d)
      BY <3>3, <3>4 DEF Working
    <3>10. h \in Nat /\ n \in Nat /\ h < n /\ f.packet = ps[h + 1] /\ Packets(d, h, n, ps)
      BY <3>8, <3>9 DEF Line
    <3>11. h + 1 \in h + 1 .. n
      BY <3>10
    <3>12. f.packet.n = h + 1
      BY <3>10, <3>11 DEF Packets
    <3>13. QED
      BY <3>2, <3>3, <3>4, <3>6, <3>12
  <2>2. QED
    BY <2>1 DEF ReportsHandledInOrder
<1>3. KeysFollowPerson
  <2>1. ASSUME Ps2Ready, bytes["keyboard"] = <<>>, ~(output.full /\ output.device = "keyboard")
        PROVE  /\ keyboard.pause = 0 /\ ~keyboard.break /\ ~keyboard.extended
               /\ ShiftDown(keyboard) <=> person.held \cap Shifts # {}
               /\ keyboard.caps = person.caps /\ ~ControlDown(keyboard)
    <3>1. ~Loaded(output)
      BY <2>1 DEF Loaded
    <3>2. Arrives(keyboard, output, <<>>, person.held, person.caps, person.repeated)
      BY <2>1 DEF Faith, Ps2Ready
    <3>3. QED
      BY <3>1, <3>2, ArrivedAgrees
  <2>2. QED
    BY <2>1 DEF KeysFollowPerson
<1>4. FlagsFollowKeys
  <2>1. ASSUME HyperVReady, ready["keyboard"], handled["keyboard"] = person.reports["keyboard"]
        PROVE  Keeps(keyboard, person.held, person.caps, person.halved)
    <3>1. "keyboard" \in DeviceSet
      BY DeviceNames
    <3>2. PICK n : n = handled["keyboard"] /\ n = person.reports["keyboard"]
      BY <2>1
    <3>3. PICK f, ring : f = Current /\ ring = channel["keyboard"].in
      OBVIOUS
    <3>4. Service("keyboard", f, n, n, ring, keyboard, person.held, person.caps, person.halved,
                  person.repeated)
      BY <2>1, <3>1, <3>2, <3>3, ServiceNow DEF Serviced
    <3>5. PICK ks, ps : Chain(ks, ps, n, n, keyboard, person.held, person.caps, person.halved,
                              person.repeated)
      BY <3>4 DEF Service
    <3>6. QED
      BY <3>5 DEF Chain
  <2>2. QED
    BY <2>1 DEF FlagsFollowKeys, Keeps
<1>5. RepeatsAreReal
  BY DEF Faith, AllHonest, Honest, RepeatsAreReal
<1>6. QED
  BY <1>2, <1>3, <1>4, <1>5 DEF InputFaithful

(* What the drivers report is what the person did, as long as no tick falls *)
(* into the reading or the handling of one report: every packet of the host *)
(* is handled whole, once and in order (hyperv_ring_read and the polls of   *)
(* input.c); once everything sent has been decoded the PS/2 driver has the  *)
(* keys that are held and the caps lock of the person, after any prefixes,  *)
(* Pause and unknown codes; the Hyper-V driver has the same keys and caps   *)
(* lock, and its one flag for Shift is as the last Shift key that was       *)
(* pressed or let go left it, whatever the other one is                     *)
(* (hyperv_keyboard_handle_event); and no event says that a key repeats     *)
(* unless one did.                                                          *)
THEOREM Input_is_faithful == TicksBetweenPolls => (Spec => []InputFaithful)
<1> SUFFICES ASSUME TicksBetweenPolls PROVE Spec => []InputFaithful
  OBVIOUS
<1>1. Init => StepInv /\ Faith
  BY StepStart, FaithStart
<1>2. StepInv /\ Faith /\ [Next]_vars => StepInv' /\ Faith'
  BY NextKeepsFaith
<1>3. StepInv /\ Faith => InputFaithful
  BY FaithHolds
<1>4. QED
  BY <1>1, <1>2, <1>3, PTL DEF Spec

==============================================================================
