------------------------------- MODULE HvRing -------------------------------
(***************************************************************************)
(* One direction of a VMBus channel (drivers/hyperv/ring.c): a circular    *)
(* buffer in memory shared with the host, an index the producer publishes  *)
(* and one the consumer publishes.  Indices count units of eight bytes, to *)
(* which every packet is aligned: a descriptor of two units, the payload,  *)
(* and a trailer of one.                                                   *)
(*                                                                         *)
(* A unit of the buffer holds <<packet, i>>, the i-th unit of a packet; a  *)
(* packet is a record whose field units is the length of its payload.      *)
(***************************************************************************)
EXTENDS Integers, Sequences

CONSTANT RingUnits      \* data_size

DescriptorUnits == 2
TrailerUnits == 1

ASSUME HvRingAssumption == RingUnits \in Nat /\ RingUnits > DescriptorUnits + TrailerUnits

PacketUnits(p) == DescriptorUnits + p.units + TrailerUnits
NoUnit == <<>>

hyperv_ring_initialize ==
    [data |-> [i \in 0 .. RingUnits - 1 |-> NoUnit], write |-> 0, read |-> 0]

ring_used(ring) ==
    IF ring.write >= ring.read THEN ring.write - ring.read
    ELSE RingUnits - (ring.read - ring.write)
ring_advance(index, amount) == (index + amount) % RingUnits

(* One unit stays free, so a full ring is not taken for an empty one.      *)
HasSpace(ring, p) ==
    PacketUnits(p) < RingUnits /\ PacketUnits(p) <= RingUnits - ring_used(ring) - 1

(* ring_copy_in, in one or two pieces, from a unit on.                     *)
ring_copy_in(ring, index, p) ==
    [ring EXCEPT !.data =
        [i \in 0 .. RingUnits - 1 |->
            IF (i - index) % RingUnits < PacketUnits(p)
            THEN <<p, (i - index) % RingUnits>> ELSE @[i]]]

hyperv_ring_write(ring, p) ==
    [ring_copy_in(ring, ring.write, p) EXCEPT !.write = ring_advance(@, PacketUnits(p))]

(* What hyperv_ring_read finds: a descriptor must be the start of a packet *)
(* that lies within what is used, and its payload fit the reader's buffer. *)
ReadStatus(ring, capacity) ==
    LET used == ring_used(ring)
        unit == ring.data[ring.read]
    IN  IF used = 0 THEN "WOULD_BLOCK"
        ELSE IF used < DescriptorUnits + TrailerUnits THEN "CORRUPT"
        ELSE IF unit = NoUnit \/ unit[2] # 0 \/ PacketUnits(unit[1]) > used THEN "PROTOCOL"
        ELSE IF unit[1].units > capacity THEN "NO_SPACE"
        ELSE "OK"

(* Every unit of the packet is its own: nothing in hyperv_ring_read checks *)
(* this, its callers rely on it.                                           *)
IsWhole(ring, index, p) ==
    \A i \in 0 .. PacketUnits(p) - 1 : ring.data[ring_advance(index, i)] = <<p, i>>

PacketAt(ring) == ring.data[ring.read][1]
AfterPacket(index, p) == ring_advance(index, PacketUnits(p))
=============================================================================
