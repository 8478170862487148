-------------------------- MODULE MCBlockPlatform --------------------------
(* Two LUNs, with the disks that differ in classification next to each other. *)
EXTENDS BlockPlatform

Disk(a, b, c, d) ==
    [s \in 0 .. 4 |-> IF s = 0 THEN a ELSE IF s = 1 THEN b ELSE IF s = 2 THEN c ELSE d]

Absent == <<>>
Blank == Disk("zero", "zero", "zero", "zero")
FsVolume == Disk("superblock", "superblock", "data", "zero")
Boot == Disk("partitions", "partitions", "data", "data")
Mbr == Disk("partitions", "data", "data", "data")
Foreign == Disk("zero", "zero", "zero", "data")
HalfVolume == Disk("superblock", "data", "zero", "zero")
Middle == Disk("zero", "zero", "data", "zero")      \* passes for blank

Luns(first, second) == [l \in 0 .. 1 |-> IF l = 0 THEN first ELSE second]

MachinesThereMayBe ==
    {Luns(Absent, Absent), Luns(Blank, Boot), Luns(Boot, FsVolume), Luns(FsVolume, Boot),
     Luns(Mbr, Middle), Luns(Foreign, HalfVolume), Luns(Absent, Blank)}
ImagesThereMayBe == {Blank}

CallsMade ==
    {[op |-> "read", sector |-> 0, value |-> NoValue],
     [op |-> "write", sector |-> 0, value |-> "data"],
     [op |-> "write", sector |-> 0, value |-> "zero"],
     [op |-> "write", sector |-> 4, value |-> "data"],
     [op |-> "flush", sector |-> NoValue, value |-> NoValue]}
=============================================================================
