------------------------ MODULE BlockPlatformProofs ------------------------
(***************************************************************************)
(* Proofs about BlockPlatform for every number of LUNs, every set of disks, *)
(* every queue length, any calls and any number of lapses: neither driver   *)
(* loses track of a request without a lapse, and none of a disk that is not *)
(* published with any; only an eligible disk is published; and the          *)
(* published device implements BlockDevice.                                 *)
(*                                                                          *)
(* The argument is one inductive invariant per driver.  Under Hyper-V it    *)
(* has two layers.  HvAlways holds whatever is lost track of: the types,    *)
(* what a call has to do with a wait, that writes are in the ring only for  *)
(* the published disk, and how many packets the rings hold at most.         *)
(* HvTracked holds until the first lapse and says what the rings can hold:  *)
(* nothing, the request that is waited for, its completion together with    *)
(* the effect it reports, or the remains of a time-out after which the      *)
(* driver is not ready.  Q35Inv says the same of the virtqueue for as long  *)
(* as the device has not asked for a reset and there was no lapse; after a  *)
(* reset no call succeeds any more.                                         *)
(***************************************************************************)
EXTENDS BlockPlatform, FiniteSetTheorems, SequenceTheorems, TLAPS

(* The calls of the block device, and that they are not NoCall.              *)
LEMMA CallShapes ==
    /\ \A c \in Hv!Call :
         /\ c # Hv!NoCall
         /\ c.op \in {"read", "write", "flush"}
         /\ c.op = "read" => c.sector \in Hv!Sector /\ c.value = NoValue
         /\ c.op = "write" => c.sector \in Hv!Sector /\ c.value \in Hv!Value
         /\ c.op = "flush" => c.value = NoValue
    /\ Hv!NoCall.op = "none"
  BY DEF Hv!Call, Hv!NoCall

(* The two drivers and the abstract device speak of the same calls.          *)
LEMMA SameCalls ==
    /\ Q35!Call = Hv!Call /\ Device!Call = Hv!Call
    /\ Q35!NoCall = Hv!NoCall /\ Device!NoCall = Hv!NoCall
    /\ Q35!NoAnswer = Hv!NoAnswer /\ Device!NoAnswer = Hv!NoAnswer
    /\ Q35!Error = Hv!Error /\ Device!Error = Hv!Error
    /\ \A v : Q35!Ok(v) = Hv!Ok(v)
  BY DEF Hv!Call, Q35!Call, Device!Call, Hv!NoCall, Q35!NoCall, Device!NoCall,
         Hv!NoAnswer, Q35!NoAnswer, Device!NoAnswer, Hv!Error, Q35!Error, Device!Error,
         Hv!Ok, Q35!Ok

(* The answers are well typed.                                               *)
LEMMA AnswerTypes ==
    /\ Hv!NoAnswer \in [status : {"none", "error", "ok"}, value : Hv!Value \cup {NoValue}]
    /\ Hv!Error \in [status : {"none", "error", "ok"}, value : Hv!Value \cup {NoValue}]
    /\ \A v \in Hv!Value \cup {NoValue} :
         Hv!Ok(v) \in [status : {"none", "error", "ok"}, value : Hv!Value \cup {NoValue}]
  BY DEF Hv!NoAnswer, Hv!Error, Hv!Ok

(* Contents of a disk that is there.                                         *)
LEMMA PresentContents ==
    /\ \A f \in Hv!Contents : f # <<>>
    /\ Hv!StorTypeOK => \A l \in Hv!Lun : /\ disk[l] # <<>> => disk[l] \in Hv!Contents
                                          /\ media[l] # <<>> => media[l] \in Hv!Contents
<1>1. ASSUME NEW f \in Hv!Contents PROVE f # <<>>
  <2>1. 0 \in DOMAIN f
    BY DEF Hv!Contents, Hv!Sector
  <2>2. 0 \notin DOMAIN << >>
    OBVIOUS
  <2>3. QED
    BY <2>1, <2>2
<1>2. QED
  BY <1>1 DEF Hv!StorTypeOK

(* The request of a stage of the search: typed, and never a write.           *)
LEMMA StageRequests ==
    ASSUME Hv!StorTypeOK
    PROVE  /\ Hv!StageRequest \in Hv!Request
           /\ Hv!StageRequest.op \notin {"write", "flush"}
           /\ Hv!StageRequest.lun = lun
           /\ stage \in {"inquiry", "capacity", "capacity16"} => Hv!StageRequest.op = stage
           /\ stage \in {"first", "start"} => /\ Hv!StageRequest.op = "read"
                                              /\ Hv!StageRequest.first = 0
                                              /\ Hv!StageRequest.count = 2
           /\ stage = "end" => /\ Hv!StageRequest.op = "read"
                               /\ Hv!StageRequest.first = Hv!LastProbe
                               /\ Hv!StageRequest.count = 2
           /\ stage = "entries" => /\ Hv!StageRequest.op = "read"
                                   /\ Hv!StageRequest.first = 2
                                   /\ Hv!StageRequest.count = 1
           /\ stage \in {"begin", "version", "properties", "finish", "none"} =>
                Hv!StageRequest.op = "inband"
<1>1. stage \in Hv!Reply => Hv!StageRequest = Hv!Scsi(stage, 0, 0, NoValue)
  BY Zenon DEF Hv!StageRequest, Hv!Reply
<1>2. stage = "first" => Hv!StageRequest = Hv!Scsi("read", 0, 2, NoValue)
  BY Zenon DEF Hv!StageRequest, Hv!Reply
<1>3. stage = "entries" => Hv!StageRequest = Hv!Scsi("read", 2, 1, NoValue)
  BY Zenon DEF Hv!StageRequest, Hv!Reply
<1>4. stage = "start" => Hv!StageRequest = Hv!Scsi("read", 0, 2, NoValue)
  BY Zenon DEF Hv!StageRequest, Hv!Reply, Hv!Probe
<1>5. stage = "end" => Hv!StageRequest = Hv!Scsi("read", Hv!LastProbe, 2, NoValue)
  BY Zenon DEF Hv!StageRequest, Hv!Reply, Hv!Probe
<1>6. stage \in {"begin", "version", "properties", "finish", "ready", "none"} =>
        Hv!StageRequest = Hv!Scsi("inband", 0, 0, NoValue)
  BY Zenon DEF Hv!StageRequest, Hv!Reply, Hv!Inband
<1>7. QED
  BY <1>1, <1>2, <1>3, <1>4, <1>5, <1>6
     DEF Hv!StorTypeOK, Hv!Request, Hv!Scsi, Hv!Reply, Hv!Sector, Hv!Probe, Hv!LastProbe

(* The request of a call: typed, on the published disk, of the call's kind.  *)
LEMMA CallRequests ==
    ASSUME Hv!StorTypeOK, NEW c \in Hv!Call
    PROVE  /\ Hv!CallRequest(c) \in Hv!Request
           /\ Hv!CallRequest(c).op = c.op
           /\ Hv!CallRequest(c).lun = lun
           /\ Hv!CallRequest(c).value = c.value
           /\ c.op # "flush" => Hv!CallRequest(c).first = c.sector /\ Hv!CallRequest(c).count = 1
  BY CallShapes
     DEF Hv!StorTypeOK, Hv!CallRequest, Hv!Request, Hv!Scsi, Hv!Reply, Hv!Sector, Hv!Probe,
         Hv!LastProbe

-----------------------------------------------------------------------------
(* The search.                                                               *)

Flags == first_probe \in BOOLEAN /\ ready \in BOOLEAN /\ start_zero \in BOOLEAN
Position ==
    /\ stage \in {"begin", "version", "properties", "finish", "inquiry", "capacity",
                  "capacity16", "first", "entries", "start", "end", "ready", "none"}
    /\ version \in 1 .. Hv!Versions
    /\ lun \in Hv!Lun
SearchTypes == Position /\ Flags

(* Going on to the next LUN keeps the types, and publishes nothing.          *)
LEMMA NextLunTypes ==
    ASSUME SearchTypes, Hv!NextLun
    PROVE  SearchTypes' /\ stage' \in {"inquiry", "none"}
<1>1. MaxLun \in Nat
  BY PlatformAssumption DEF Hv!StorVscAssumption
<1>2. Flags'
  BY Zenon DEF SearchTypes, Flags, Hv!NextLun, Hv!Select
<1>3. Position' /\ stage' \in {"inquiry", "none"}
  BY <1>1 DEF SearchTypes, Position, Hv!NextLun, Hv!Select, Hv!Lun, Hv!Versions
<1>4. QED
  BY <1>2, <1>3 DEF SearchTypes


(* negotiate_protocol reaches the first probe, the next version or the end.  *)
LEMMA NegotiationStep ==
    ASSUME SearchTypes, NEW ok \in BOOLEAN,
           stage \in {"begin", "version", "properties", "finish"}, Hv!Negotiated(ok)
    PROVE  SearchTypes' /\ stage' \notin {"end", "ready"}
<1>0. MaxLun \in Nat
  BY PlatformAssumption DEF Hv!StorVscAssumption
<1>1. CASE stage = "begin"
  <2>1. Hv!Goto(IF ok THEN "version" ELSE "none")
    BY <1>1, Zenon DEF Hv!Negotiated
  <2>2. QED
    BY <2>1, <1>1 DEF SearchTypes, Position, Flags, Hv!Goto
<1>2. CASE stage = "version"
  <2>1. IF ok THEN Hv!Goto("properties")
        ELSE IF version < Hv!Versions
             THEN version' = version + 1 /\ UNCHANGED <<stage, lun, first_probe, ready, start_zero>>
        ELSE Hv!Goto("none")
    BY <1>2, Zenon DEF Hv!Negotiated
  <2>2. QED
    BY <2>1, <1>2 DEF SearchTypes, Position, Flags, Hv!Goto, Hv!Versions
<1>3. CASE stage = "properties"
  <2>1. IF ok THEN Hv!Goto("finish") ELSE Hv!Select(0) /\ first_probe' = FALSE
    BY <1>3, Zenon DEF Hv!Negotiated
  <2>2. Flags'
    BY <2>1, Zenon DEF SearchTypes, Flags, Hv!Goto, Hv!Select
  <2>3. Position' /\ stage' \notin {"end", "ready"}
    BY <2>1, <1>0 DEF SearchTypes, Position, Hv!Goto, Hv!Select, Hv!Lun, Hv!Versions
  <2>4. QED
    BY <2>2, <2>3 DEF SearchTypes
<1>4. CASE stage = "finish"
  <2>1. Hv!Select(0) /\ first_probe' = ok
    BY <1>4, Zenon DEF Hv!Negotiated
  <2>2. Flags'
    BY <2>1, Zenon DEF SearchTypes, Flags, Hv!Select
  <2>3. Position' /\ stage' \notin {"end", "ready"}
    BY <2>1, <1>0 DEF SearchTypes, Position, Hv!Select, Hv!Lun, Hv!Versions
  <2>4. QED
    BY <2>2, <2>3 DEF SearchTypes
<1>5. QED
  BY <1>1, <1>2, <1>3, <1>4

(* The probes of a LUN reach the classification or go on.                    *)
LEMMA ProbeStep ==
    ASSUME SearchTypes, NEW ok \in BOOLEAN,
           Hv!Inquired(ok) \/ Hv!Measured(ok) \/ Hv!Measured16(ok)
    PROVE  SearchTypes' /\ stage' \notin {"end", "ready"}
<1>1. CASE Hv!NextLun
  BY <1>1, NextLunTypes
<1>2. CASE Hv!Goto("capacity") \/ Hv!Goto("capacity16")
  BY <1>2 DEF SearchTypes, Position, Flags, Hv!Goto
<1>3. CASE Hv!Candidate
  BY <1>3 DEF SearchTypes, Position, Flags, Hv!Candidate
<1>4. QED
  BY <1>1, <1>2, <1>3 DEF Hv!Inquired, Hv!Measured, Hv!Measured16

(* The contents that the classification has read, as far as they matter.     *)
FoundSoFar ==
    /\ stage = "end" /\ start_zero => \A i \in 0 .. 1 : disk[lun][i] = "zero"
    /\ stage = "ready" => Hv!Present(lun) /\ Hv!Eligible(disk[lun])

(* The classification keeps the types.                                       *)
LEMMA ClassificationTypes ==
    ASSUME SearchTypes, NEW ok \in BOOLEAN, stage \in {"first", "entries", "start", "end"},
           Hv!block_classify_data_disk(ok)
    PROVE  SearchTypes'
<1>1. CASE Hv!NextLun
  BY <1>1, NextLunTypes
<1>2. CASE \/ Hv!Goto("entries") \/ Hv!Goto("start") \/ Hv!Publish
  BY <1>2 DEF SearchTypes, Position, Flags, Hv!Publish, Hv!Goto
<1>3. CASE /\ stage' = "end"
           /\ start_zero' = (\A i \in 0 .. Hv!Probe - 1 : bounce[i] = "zero")
           /\ UNCHANGED <<version, lun, first_probe, ready>>
  <2>1. start_zero' \in BOOLEAN
    BY <1>3
  <2>2. QED
    BY <1>3, <2>1 DEF SearchTypes, Position, Flags
<1>4. QED
  BY <1>1, <1>2, <1>3, Zenon DEF Hv!block_classify_data_disk

(* Only an eligible disk is published, and start_zero is never out of date.  *)
LEMMA ClassificationStep ==
    ASSUME SearchTypes, FoundSoFar, NEW ok \in BOOLEAN, ok => Hv!Carried,
           stage \in {"first", "entries", "start", "end"},
           Hv!block_classify_data_disk(ok), disk' = disk
    PROVE  FoundSoFar'
<1>1. CASE Hv!NextLun
  <2>1. SearchTypes' /\ stage' \in {"inquiry", "none"}
    BY <1>1, NextLunTypes
  <2>2. QED
    BY <2>1 DEF FoundSoFar
<1>2. CASE ok /\ stage = "first" /\ ~Hv!NextLun
  <2>1. IF bounce[0] = "superblock" /\ bounce[1] = "superblock" THEN Hv!Publish
        ELSE IF bounce[1] = "partitions" THEN Hv!Goto("entries") \/ Hv!NextLun
        ELSE IF bounce[0] = "partitions" THEN Hv!NextLun
        ELSE Hv!Goto("start")
    BY <1>2, Zenon DEF Hv!block_classify_data_disk
  <2>2. CASE Hv!Goto("entries") \/ Hv!Goto("start")
    BY <2>2 DEF FoundSoFar, Hv!Goto
  <2>3. CASE bounce[0] = "superblock" /\ bounce[1] = "superblock" /\ Hv!Publish
    <3>1. bounce[0] = disk[lun][0] /\ bounce[1] = disk[lun][1] /\ Hv!Present(lun)
      BY <1>2 DEF Hv!Carried, Hv!Probe
    <3>2. QED
      BY <2>3, <3>1 DEF FoundSoFar, Hv!Publish, Hv!Goto, Hv!Eligible, Hv!Present
  <2>4. QED
    BY <2>1, <2>2, <2>3, <1>2
<1>3. CASE ok /\ stage = "start" /\ ~Hv!NextLun
  <2>1. /\ stage' = "end"
        /\ start_zero' = (\A i \in 0 .. Hv!Probe - 1 : bounce[i] = "zero")
        /\ UNCHANGED <<version, lun, first_probe, ready>>
    BY <1>3, Zenon DEF Hv!block_classify_data_disk
  <2>2. \A i \in 0 .. Hv!Probe - 1 : bounce[i] = disk[lun][i]
    BY <1>3 DEF Hv!Carried
  <2>3. start_zero' => \A i \in 0 .. 1 : disk[lun][i] = "zero"
    <3>1. start_zero' => \A i \in 0 .. Hv!Probe - 1 : bounce[i] = "zero"
      BY <2>1, Zenon
    <3>2. QED
      BY <3>1, <2>2 DEF Hv!Probe
  <2>4. QED
    BY <2>1, <2>3 DEF FoundSoFar
<1>4. CASE ok /\ stage = "end" /\ ~Hv!NextLun
  <2>1. start_zero /\ (\A i \in 0 .. Hv!Probe - 1 : bounce[i] = "zero") /\ Hv!Publish
    BY <1>4, Zenon DEF Hv!block_classify_data_disk
  <2>2. \A i \in 0 .. Hv!Probe - 1 : bounce[i] = disk[lun][Hv!LastProbe + i]
    BY <1>4 DEF Hv!Carried
  <2>3. \A i \in 0 .. Hv!Probe - 1 : disk[lun][i] = "zero" /\ disk[lun][Hv!LastProbe + i] = "zero"
    BY <1>4, <2>1, <2>2 DEF FoundSoFar, Hv!Probe
  <2>4. Hv!Present(lun) /\ Hv!Eligible(disk[lun])
    BY <1>4, <2>3 DEF Hv!Carried, Hv!Eligible
  <2>5. QED
    BY <2>1, <2>4 DEF FoundSoFar, Hv!Publish, Hv!Goto, Hv!Present, Hv!Eligible
<1>5. ok /\ stage = "entries" => Hv!NextLun
  BY Zenon DEF Hv!block_classify_data_disk
<1>6. ~ok => Hv!NextLun
  BY Zenon DEF Hv!block_classify_data_disk
<1>7. QED
  BY <1>1, <1>2, <1>3, <1>4, <1>5, <1>6

(* Whatever the search does with the return of a request.                    *)
LEMMA SearchStep ==
    ASSUME SearchTypes, NEW ok \in BOOLEAN, stage \notin {"ready", "none"}, Hv!Resume(ok)
    PROVE  /\ SearchTypes'
           /\ FoundSoFar /\ (ok => Hv!Carried) /\ disk' = disk => FoundSoFar'
<1>1. CASE stage \in {"begin", "version", "properties", "finish"}
  <2>1. Hv!Negotiated(ok)
    BY <1>1, Zenon DEF Hv!Resume
  <2>2. QED
    BY <1>1, <2>1, NegotiationStep DEF FoundSoFar
<1>2. CASE stage \in {"inquiry", "capacity", "capacity16"}
  <2>1. Hv!Inquired(ok) \/ Hv!Measured(ok) \/ Hv!Measured16(ok)
    BY <1>2, Zenon DEF Hv!Resume
  <2>2. QED
    BY <2>1, ProbeStep DEF FoundSoFar
<1>3. CASE stage \in {"first", "entries", "start", "end"}
  <2>1. Hv!block_classify_data_disk(ok)
    BY <1>3, Zenon DEF Hv!Resume
  <2>2. SearchTypes'
    BY <1>3, <2>1, ClassificationTypes
  <2>3. FoundSoFar /\ (ok => Hv!Carried) /\ disk' = disk => FoundSoFar'
    BY <1>3, <2>1, ClassificationStep
  <2>4. QED
    BY <2>2, <2>3
<1>4. QED
  BY <1>1, <1>2, <1>3 DEF SearchTypes, Position

-----------------------------------------------------------------------------
(* The Hyper-V driver's steps, whatever has been lost track of.              *)

ChannelTypes ==
    /\ transaction \in Nat \ {0} /\ waiting \in 0 .. transaction - 1
    /\ outbound \subseteq [id : Nat \ {0}, request : Hv!Request]
    /\ inbound \in Seq([id : Nat, ok : BOOLEAN])
PlatterTypes ==
    /\ disk \in [Hv!Lun -> Hv!Contents \cup {<<>>}]
    /\ media \in [Hv!Lun -> Hv!Contents \cup {<<>>}]
    /\ original \in [Hv!Lun -> Hv!Contents \cup {<<>>}]
BounceType == bounce \in [0 .. 1 -> Hv!Value]
Answers == [status : {"none", "error", "ok"}, value : Hv!Value \cup {NoValue}]
CallTypes ==
    /\ calls \in 0 .. MaxCalls /\ lapses \in 0 .. MaxLapses
    /\ call \in Hv!Call \cup {Hv!NoCall} /\ answer \in Answers

(* A request that may change a disk is in the ring only for the published    *)
(* one.                                                                      *)
WritesPublished ==
    \A p \in outbound : p.request.op \in {"write", "flush"} => stage = "ready" /\ p.request.lun = lun

(* The rings hold a packet for every lapse, and one more while it is waited  *)
(* for or once the driver has stopped.                                       *)
Owed == waiting # 0 \/ (stage = "ready" /\ ~ready)
Backlog ==
    /\ IsFiniteSet(outbound)
    /\ Cardinality(outbound) + Len(inbound) <= lapses + 1
    /\ ~Owed => Cardinality(outbound) + Len(inbound) <= lapses

HvAlways ==
    /\ SearchTypes /\ ChannelTypes /\ PlatterTypes /\ BounceType /\ CallTypes
    /\ Hv!CallIsExchange /\ Hv!OthersUntouched /\ WritesPublished /\ Backlog

(* What holds until the first lapse.                                         *)
HvTracked == Hv!OneExchange /\ Hv!SearchSound

(* The parts of the type invariant.                                          *)
LEMMA StorTypeParts ==
    /\ Hv!StorTypeOK <=> SearchTypes /\ ChannelTypes /\ PlatterTypes /\ BounceType
    /\ Hv!StorTypeOK' <=> (SearchTypes /\ ChannelTypes /\ PlatterTypes /\ BounceType)'
<1>1. 0 .. Hv!Probe - 1 = 0 .. 1
  BY DEF Hv!Probe
<1>2. QED
  BY <1>1, Zenon
     DEF Hv!StorTypeOK, SearchTypes, Position, Flags, ChannelTypes, PlatterTypes, BounceType

(* The constants.                                                            *)
LEMMA Constants ==
    /\ MaxLun \in Nat /\ MaxCalls \in Nat /\ MaxLapses \in Nat
    /\ \A c \in Requested : c \in Hv!Call
    /\ \A m \in Machines : m \in [Hv!Lun -> Hv!Contents \cup {<<>>}]
    /\ \A m \in Images : m \in Hv!Contents
  BY PlatformAssumption DEF Hv!StorVscAssumption, Q35!VirtioAssumption, Hv!Contents

(* The request of a stage depends on the stage and the LUN only.             *)
LEMMA RequestsStable ==
    ASSUME UNCHANGED <<stage, lun>>
    PROVE  /\ Hv!StageRequest' = Hv!StageRequest
           /\ \A c : Hv!CallRequest(c)' = Hv!CallRequest(c)
<1>1. Hv!StageRequest' = Hv!StageRequest
  BY Zenon DEF Hv!StageRequest, Hv!Inband, Hv!Scsi
<1>2. ASSUME NEW c PROVE Hv!CallRequest(c)' = Hv!CallRequest(c)
  BY DEF Hv!CallRequest, Hv!Scsi
<1>3. QED
  BY <1>1, <1>2

(* One more request in the rings, one fewer completion, and a request        *)
(* answered.                                                                 *)
LEMMA RingCounts ==
    ASSUME IsFiniteSet(outbound), inbound \in Seq([id : Nat, ok : BOOLEAN])
    PROVE  /\ Cardinality(outbound) \in Nat /\ Len(inbound) \in Nat
           /\ \A p : /\ IsFiniteSet(outbound \cup {p}) /\ Cardinality(outbound \cup {p}) \in Nat
                     /\ Cardinality(outbound \cup {p}) <= Cardinality(outbound) + 1
                     /\ p \in outbound => /\ IsFiniteSet(outbound \ {p})
                                          /\ Cardinality(outbound \ {p}) = Cardinality(outbound) - 1
           /\ \A x : Len(Append(inbound, x)) = Len(inbound) + 1
           /\ inbound # <<>> => /\ Len(Tail(inbound)) = Len(inbound) - 1
                                /\ Tail(inbound) \in Seq([id : Nat, ok : BOOLEAN])
<1>1. Cardinality(outbound) \in Nat
  BY FS_CardinalityType
<1>2. ASSUME NEW p
      PROVE  /\ IsFiniteSet(outbound \cup {p}) /\ Cardinality(outbound \cup {p}) \in Nat
             /\ Cardinality(outbound \cup {p}) <= Cardinality(outbound) + 1
             /\ p \in outbound => /\ IsFiniteSet(outbound \ {p})
                                  /\ Cardinality(outbound \ {p}) = Cardinality(outbound) - 1
  <2>1. /\ IsFiniteSet(outbound \cup {p})
        /\ Cardinality(outbound \cup {p}) = IF p \in outbound THEN Cardinality(outbound)
                                            ELSE Cardinality(outbound) + 1
    BY FS_AddElement
  <2>2. /\ IsFiniteSet(outbound \ {p})
        /\ Cardinality(outbound \ {p}) = IF p \in outbound THEN Cardinality(outbound) - 1
                                         ELSE Cardinality(outbound)
    BY FS_RemoveElement
  <2>3. QED
    BY <1>1, <2>1, <2>2
<1>3. Len(inbound) \in Nat
  OBVIOUS
<1>4. \A x : Len(Append(inbound, x)) = Len(inbound) + 1
  OBVIOUS
<1>5. inbound # <<>> => /\ Len(Tail(inbound)) = Len(inbound) - 1
                        /\ Tail(inbound) \in Seq([id : Nat, ok : BOOLEAN])
  OBVIOUS
<1>6. QED
  BY <1>1, <1>2, <1>3, <1>4, <1>5

(* What the bounce buffer holds for a request.                               *)
LEMMA FilledType ==
    ASSUME BounceType, NEW r \in Hv!Request, r.op = "write" => r.value \in Hv!Value
    PROVE  /\ Hv!Filled(r) \in [0 .. 1 -> Hv!Value]
           /\ r.op = "write" => Hv!Filled(r)[0] = r.value
<1>1. CASE r.op = "inquiry"
  <2>1. Hv!Filled(r) = Hv!Unread
    BY <1>1, Zenon DEF Hv!Filled
  <2>2. QED
    BY <2>1, <1>1 DEF Hv!Unread, Hv!Probe, Hv!Value
<1>2. CASE r.op = "write"
  <2>1. Hv!Filled(r) = [bounce EXCEPT ![0] = r.value]
    BY <1>2, Zenon DEF Hv!Filled
  <2>2. QED
    BY <2>1, <1>2 DEF BounceType
<1>3. CASE r.op \notin {"inquiry", "write"}
  <2>1. Hv!Filled(r) = bounce
    BY <1>3, Zenon DEF Hv!Filled
  <2>2. QED
    BY <2>1, <1>3 DEF BounceType
<1>4. QED
  BY <1>1, <1>2, <1>3

(* A channel write, however it ends.                                         *)
LEMMA ChannelWrite ==
    ASSUME HvAlways, ~Owed, NEW r \in Hv!Request, r.op = "write" => r.value \in Hv!Value,
           NEW outcome \in {"sent", "refused", "stranded"}, Hv!execute_scsi(r, outcome)
    PROVE  /\ ChannelTypes' /\ BounceType' /\ PlatterTypes'
           /\ IsFiniteSet(outbound')
           /\ Cardinality(outbound') + Len(inbound') <= lapses' + 1
           /\ outcome # "sent" => Cardinality(outbound') + Len(inbound') <= lapses'
           /\ lapses' \in 0 .. MaxLapses
           /\ \A p \in outbound' : p \in outbound \/ p.request = r
           /\ waiting' # 0 <=> outcome = "sent"
           /\ UNCHANGED <<disk, media, original>>
<1>1. /\ outcome = "stranded" => lapses < MaxLapses
      /\ bounce' = Hv!Filled(r) /\ transaction' = transaction + 1
      /\ outbound' = IF outcome = "refused" THEN outbound
                     ELSE outbound \cup {[id |-> transaction, request |-> r]}
      /\ waiting' = IF outcome = "sent" THEN transaction ELSE 0
      /\ lapses' = IF outcome = "stranded" THEN lapses + 1 ELSE lapses
      /\ UNCHANGED <<inbound, disk, media, original>>
  BY DEF Hv!execute_scsi, Hv!platter
<1>2. BounceType' /\ PlatterTypes'
  BY <1>1, FilledType DEF HvAlways, BounceType, PlatterTypes
<1>3. ChannelTypes /\ Backlog /\ lapses \in 0 .. MaxLapses
  BY DEF HvAlways, CallTypes
<1>4. ChannelTypes'
  <2>1. [id |-> transaction, request |-> r] \in [id : Nat \ {0}, request : Hv!Request]
    BY <1>3 DEF ChannelTypes
  <2>2. QED
    BY <1>1, <1>3, <2>1 DEF ChannelTypes
<1>5. PICK packet : packet = [id |-> transaction, request |-> r]
  OBVIOUS
<1>6. /\ Cardinality(outbound) \in Nat /\ Len(inbound) \in Nat
      /\ IsFiniteSet(outbound \cup {packet}) /\ Cardinality(outbound \cup {packet}) \in Nat
      /\ Cardinality(outbound \cup {packet}) <= Cardinality(outbound) + 1
  BY <1>3, RingCounts DEF ChannelTypes, Backlog
<1>7. IsFiniteSet(outbound) /\ Cardinality(outbound) + Len(inbound) <= lapses
  BY <1>3 DEF Backlog
<1>8. lapses' \in 0 .. MaxLapses
  BY <1>1, <1>3, Constants
<1>9. outbound' = (IF outcome = "refused" THEN outbound ELSE outbound \cup {packet}) /\ packet.request = r
  BY <1>1, <1>5
<1>10. /\ IsFiniteSet(outbound')
       /\ Cardinality(outbound') + Len(inbound') <= lapses' + 1
       /\ outcome # "sent" => Cardinality(outbound') + Len(inbound') <= lapses'
  <2>1. lapses \in Nat /\ inbound' = inbound
    BY <1>1, <1>3
  <2>2. CASE outcome = "refused"
    <3>1. outbound' = outbound /\ lapses' = lapses
      BY <1>1, <2>2
    <3>2. QED
      BY <1>6, <1>7, <2>1, <3>1
  <2>3. CASE outcome # "refused"
    <3>1. outbound' = outbound \cup {packet}
      BY <1>9, <2>3
    <3>2. lapses' = IF outcome = "stranded" THEN lapses + 1 ELSE lapses
      BY <1>1
    <3>3. Cardinality(outbound') \in Nat /\ Cardinality(outbound') <= Cardinality(outbound) + 1
          /\ IsFiniteSet(outbound')
      BY <1>6, <3>1, Zenon
    <3>4. QED
      BY <1>6, <1>7, <2>1, <2>3, <3>2, <3>3
  <2>4. QED
    BY <2>2, <2>3
<1>11. \A p \in outbound' : p \in outbound \/ p.request = r
  BY <1>9
<1>12. waiting' # 0 <=> outcome = "sent"
  BY <1>1, <1>3 DEF ChannelTypes
<1>13. QED
  BY <1>1, <1>2, <1>4, <1>8, <1>10, <1>11, <1>12

(* While nothing is owed the search may go on, and a call may be made.       *)
LEMMA NothingOwed ==
    ASSUME HvAlways
    PROVE  /\ Hv!Searching /\ waiting = 0 => ~Owed
           /\ Hv!Callable /\ ready => ~Owed /\ waiting = 0
  BY DEF HvAlways, Hv!CallIsExchange, Hv!Searching, Hv!Callable, Owed

(* The request of the search.                                                *)
LEMMA InitializeAlways ==
    ASSUME HvAlways, Hv!block_hyperv_initialize_primary
    PROVE  HvAlways'
<1>1. ~Owed /\ stage # "ready" /\ stage # "none"
  BY NothingOwed DEF Hv!block_hyperv_initialize_primary, Hv!Searching
<1>2. Hv!StageRequest \in Hv!Request /\ Hv!StageRequest.op \notin {"write", "flush"}
  BY StageRequests, StorTypeParts DEF HvAlways
<1>3. /\ Hv!execute_scsi(Hv!StageRequest, "sent")
      /\ UNCHANGED <<stage, version, lun, first_probe, ready, start_zero, calls, call, answer>>
  BY DEF Hv!block_hyperv_initialize_primary, Hv!search, Hv!device
<1>4. PICK r : r = Hv!StageRequest
  OBVIOUS
<1>5. /\ ChannelTypes' /\ BounceType' /\ PlatterTypes' /\ IsFiniteSet(outbound')
      /\ Cardinality(outbound') + Len(inbound') <= lapses' + 1
      /\ lapses' \in 0 .. MaxLapses
      /\ \A p \in outbound' : p \in outbound \/ p.request = r
      /\ waiting' # 0
      /\ UNCHANGED <<disk, media, original>>
  BY <1>1, <1>2, <1>3, <1>4, ChannelWrite
<1>6. SearchTypes'
  BY <1>3, Zenon DEF HvAlways, SearchTypes, Position, Flags
<1>7. CallTypes'
  BY <1>3, <1>5, Zenon DEF HvAlways, CallTypes
<1>8. Hv!CallIsExchange' /\ Hv!OthersUntouched'
  BY <1>1, <1>3, <1>5 DEF HvAlways, Hv!CallIsExchange, Hv!OthersUntouched
<1>9. WritesPublished'
  BY <1>2, <1>3, <1>4, <1>5 DEF HvAlways, WritesPublished
<1>10. Backlog'
  BY <1>5 DEF Backlog, Owed
<1>11. QED
  BY <1>5, <1>6, <1>7, <1>8, <1>9, <1>10 DEF HvAlways

(* What a step of the search leaves as it was: no disk changes and no write  *)
(* is in the ring, wherever the search goes.                                 *)
LEMMA SearchAlways ==
    ASSUME HvAlways, stage # "ready", stage # "none", NEW ok \in BOOLEAN, Hv!Resume(ok),
           waiting' = 0, UNCHANGED <<disk, media, original, call, answer>>,
           \A p \in outbound' : p \in outbound \/ p.request = Hv!StageRequest
    PROVE  SearchTypes' /\ Hv!CallIsExchange' /\ Hv!OthersUntouched' /\ WritesPublished'
<1>1. SearchTypes'
  BY SearchStep DEF HvAlways
<1>2. call = Hv!NoCall /\ answer = Hv!NoAnswer
  BY DEF HvAlways, Hv!CallIsExchange
<1>3. Hv!CallIsExchange' /\ Hv!OthersUntouched'
  BY <1>2 DEF HvAlways, Hv!CallIsExchange, Hv!OthersUntouched
<1>4. Hv!StageRequest.op \notin {"write", "flush"}
  BY StageRequests, StorTypeParts DEF HvAlways
<1>5. WritesPublished'
  BY <1>4 DEF HvAlways, WritesPublished
<1>6. QED
  BY <1>1, <1>3, <1>5

(* A request of the search that is not sent, or sent without a signal.       *)
LEMMA InitializeUnsentAlways ==
    ASSUME HvAlways, Hv!block_hyperv_initialize_unsent
    PROVE  HvAlways'
<1>1. ~Owed /\ stage # "ready" /\ stage # "none"
  BY NothingOwed DEF Hv!block_hyperv_initialize_unsent, Hv!Searching
<1>2. Hv!StageRequest \in Hv!Request /\ Hv!StageRequest.op \notin {"write", "flush"}
  BY StageRequests, StorTypeParts DEF HvAlways
<1>3. PICK outcome \in {"refused", "stranded"} : Hv!execute_scsi(Hv!StageRequest, outcome)
  BY DEF Hv!block_hyperv_initialize_unsent
<1>4. Hv!Resume(FALSE) /\ UNCHANGED <<calls, call, answer>>
  BY DEF Hv!block_hyperv_initialize_unsent, Hv!device
<1>5. PICK r : r = Hv!StageRequest
  OBVIOUS
<1>6. /\ ChannelTypes' /\ BounceType' /\ PlatterTypes' /\ IsFiniteSet(outbound')
      /\ Cardinality(outbound') + Len(inbound') <= lapses' + 1
      /\ Cardinality(outbound') + Len(inbound') <= lapses'
      /\ lapses' \in 0 .. MaxLapses
      /\ \A p \in outbound' : p \in outbound \/ p.request = r
      /\ waiting' = 0
      /\ UNCHANGED <<disk, media, original>>
  BY <1>1, <1>2, <1>3, <1>5, ChannelWrite
<1>7. SearchTypes' /\ Hv!CallIsExchange' /\ Hv!OthersUntouched' /\ WritesPublished'
  BY <1>1, <1>4, <1>5, <1>6, SearchAlways
<1>8. CallTypes'
  BY <1>4, <1>6, Zenon DEF HvAlways, CallTypes
<1>9. Backlog'
  BY <1>6 DEF Backlog
<1>10. QED
  BY <1>6, <1>7, <1>8, <1>9 DEF HvAlways

(* A call, whether or not its request gets to the host.                      *)
LEMMA TransferAlways ==
    ASSUME HvAlways, Hv!storage_transfer \/ Hv!storage_transfer_unsent
    PROVE  HvAlways'
<1>1. /\ Hv!Callable /\ ready /\ stage = "ready" /\ call = Hv!NoCall /\ calls < MaxCalls
      /\ calls' = calls + 1
      /\ UNCHANGED <<stage, version, lun, first_probe, ready, start_zero>>
  BY DEF Hv!storage_transfer, Hv!storage_transfer_unsent, Hv!Callable, Hv!search
<1>2. ~Owed
  BY <1>1, NothingOwed
<1>3. PICK c \in Requested : \E o \in {"sent", "refused", "stranded"} :
        /\ Hv!execute_scsi(Hv!CallRequest(c), o)
        /\ o = "sent" => call' = c /\ answer' = Hv!NoAnswer
        /\ o # "sent" => call' = call /\ answer' = Hv!Error
  <2>1. CASE Hv!storage_transfer
    BY <2>1 DEF Hv!storage_transfer
  <2>2. CASE Hv!storage_transfer_unsent
    BY <2>2 DEF Hv!storage_transfer_unsent
  <2>3. QED
    BY <2>1, <2>2
<1>4. PICK o \in {"sent", "refused", "stranded"} :
        /\ Hv!execute_scsi(Hv!CallRequest(c), o)
        /\ o = "sent" => call' = c /\ answer' = Hv!NoAnswer
        /\ o # "sent" => call' = call /\ answer' = Hv!Error
  BY <1>3
<1>5. c \in Hv!Call /\ c # Hv!NoCall /\ (c.op = "write" => c.value \in Hv!Value)
  BY <1>3, Constants, CallShapes
<1>6. PICK r : r = Hv!CallRequest(c)
  OBVIOUS
<1>7. /\ r \in Hv!Request /\ r.op = c.op /\ r.value = c.value /\ r.lun = lun
  BY <1>5, <1>6, CallRequests, StorTypeParts DEF HvAlways
<1>8. /\ ChannelTypes' /\ BounceType' /\ PlatterTypes' /\ IsFiniteSet(outbound')
      /\ Cardinality(outbound') + Len(inbound') <= lapses' + 1
      /\ o # "sent" => Cardinality(outbound') + Len(inbound') <= lapses'
      /\ lapses' \in 0 .. MaxLapses
      /\ \A p \in outbound' : p \in outbound \/ p.request = r
      /\ waiting' # 0 <=> o = "sent"
      /\ UNCHANGED <<disk, media, original>>
  BY <1>2, <1>4, <1>5, <1>6, <1>7, ChannelWrite
<1>9. SearchTypes'
  BY <1>1, Zenon DEF HvAlways, SearchTypes, Position, Flags
<1>10. CallTypes'
  BY <1>1, <1>4, <1>5, <1>8, AnswerTypes, Constants DEF HvAlways, CallTypes, Answers
<1>11. Hv!CallIsExchange'
  BY <1>1, <1>4, <1>5, <1>8 DEF Hv!CallIsExchange
<1>12. Hv!OthersUntouched'
  BY <1>1, <1>8 DEF HvAlways, Hv!OthersUntouched
<1>13. WritesPublished'
  BY <1>1, <1>7, <1>8 DEF HvAlways, WritesPublished
<1>14. Backlog'
  BY <1>8 DEF Backlog, Owed
<1>15. QED
  BY <1>8, <1>9, <1>10, <1>11, <1>12, <1>13, <1>14 DEF HvAlways

(* A call the driver refuses changes nothing but the answer.                 *)
LEMMA RefusalAlways ==
    ASSUME HvAlways, Hv!storage_transfer_refused
    PROVE  HvAlways'
<1>1. /\ stage = "ready" /\ call = Hv!NoCall /\ calls < MaxCalls
      /\ calls' = calls + 1 /\ answer' = Hv!Error
      /\ UNCHANGED <<stage, version, lun, first_probe, ready, start_zero>>
      /\ UNCHANGED <<transaction, waiting, outbound, inbound, bounce, disk, media, original, call, lapses>>
  BY DEF Hv!storage_transfer_refused, Hv!Callable, Hv!search, Hv!channel, Hv!platter
<1>2. SearchTypes' /\ PlatterTypes' /\ BounceType' /\ ChannelTypes'
  BY <1>1, Zenon
     DEF HvAlways, SearchTypes, Position, Flags, PlatterTypes, BounceType, ChannelTypes
<1>3. CallTypes'
  BY <1>1, AnswerTypes, Constants DEF HvAlways, CallTypes, Answers
<1>4. Hv!CallIsExchange' /\ Hv!OthersUntouched' /\ WritesPublished' /\ Backlog'
  BY <1>1 DEF HvAlways, Hv!CallIsExchange, Hv!OthersUntouched, WritesPublished, Backlog, Owed
<1>5. QED
  BY <1>2, <1>3, <1>4 DEF HvAlways

(* The return of a call.                                                     *)
LEMMA ReturnAlways ==
    ASSUME HvAlways, stage = "ready", NEW ok \in BOOLEAN, Hv!Return(ok), waiting' = 0,
           UNCHANGED <<stage, version, lun, first_probe, start_zero>>, ready' \in BOOLEAN,
           UNCHANGED <<outbound, bounce, disk, media, original, calls, lapses>>
    PROVE  /\ SearchTypes' /\ CallTypes' /\ PlatterTypes' /\ BounceType'
           /\ Hv!CallIsExchange' /\ Hv!OthersUntouched' /\ WritesPublished'
<1>1. SearchTypes' /\ PlatterTypes' /\ BounceType'
  BY Zenon DEF HvAlways, SearchTypes, Position, Flags, PlatterTypes, BounceType
<1>2. bounce[0] \in Hv!Value
  BY DEF HvAlways, BounceType
<1>3. call' = Hv!NoCall /\ answer' \in Answers
  BY <1>2, AnswerTypes DEF Hv!Return, Answers
<1>4. CallTypes'
  BY <1>3 DEF HvAlways, CallTypes
<1>5. Hv!CallIsExchange' /\ Hv!OthersUntouched' /\ WritesPublished'
  BY <1>3 DEF HvAlways, Hv!CallIsExchange, Hv!OthersUntouched, WritesPublished
<1>6. QED
  BY <1>1, <1>4, <1>5

(* A packet taken from the ring, be it the completion waited for or not.     *)
LEMMA CompletionAlways ==
    ASSUME HvAlways, Hv!wait_completion
    PROVE  HvAlways'
<1>1. /\ waiting # 0 /\ inbound # <<>> /\ waiting' = 0 /\ inbound' = Tail(inbound)
      /\ UNCHANGED <<transaction, outbound, bounce, disk, media, original, calls, lapses>>
  BY DEF Hv!wait_completion, Hv!platter
<1>2. PICK ok \in BOOLEAN : Hv!Returned(ok)
  <2>1. Hv!Returned(Head(inbound).id = waiting /\ Head(inbound).ok)
    BY DEF Hv!wait_completion
  <2>2. (Head(inbound).id = waiting /\ Head(inbound).ok) \in BOOLEAN
    OBVIOUS
  <2>3. QED
    BY <2>1, <2>2
<1>3. /\ Cardinality(outbound) \in Nat /\ Len(inbound) \in Nat
      /\ Len(inbound') = Len(inbound) - 1 /\ inbound' \in Seq([id : Nat, ok : BOOLEAN])
  BY <1>1, RingCounts DEF HvAlways, ChannelTypes, Backlog
<1>4. ChannelTypes'
  BY <1>1, <1>3 DEF HvAlways, ChannelTypes
<1>5. Backlog'
  BY <1>1, <1>3 DEF HvAlways, Backlog, CallTypes
<1>6. CASE stage = "ready"
  <2>1. Hv!Return(ok) /\ UNCHANGED <<stage, version, lun, first_probe, ready, start_zero>>
    BY <1>2, <1>6 DEF Hv!Returned, Hv!search
  <2>2. ready' \in BOOLEAN
    BY <2>1 DEF HvAlways, SearchTypes, Flags
  <2>3. QED
    BY <1>1, <1>4, <1>5, <1>6, <2>1, <2>2, ReturnAlways DEF HvAlways
<1>7. CASE stage # "ready"
  <2>1. Hv!Resume(ok) /\ UNCHANGED <<call, answer>> /\ stage # "none"
    BY <1>1, <1>2, <1>7 DEF Hv!Returned, Hv!device, HvAlways, Hv!CallIsExchange
  <2>2. SearchTypes' /\ Hv!CallIsExchange' /\ Hv!OthersUntouched' /\ WritesPublished'
    BY <1>1, <1>7, <2>1, SearchAlways
  <2>3. CallTypes' /\ PlatterTypes' /\ BounceType'
    BY <1>1, <2>1, Zenon DEF HvAlways, CallTypes, PlatterTypes, BounceType
  <2>4. QED
    BY <1>4, <1>5, <2>2, <2>3 DEF HvAlways
<1>8. QED
  BY <1>6, <1>7

(* A time-out: of a call, after which the driver is not ready, or of the     *)
(* search, which goes on.                                                    *)
LEMMA TimeoutAlways ==
    ASSUME HvAlways, Hv!wait_completion_timeout
    PROVE  HvAlways'
<1>1. /\ waiting # 0 /\ inbound = <<>> /\ waiting' = 0
      /\ UNCHANGED <<transaction, outbound, inbound, bounce, disk, media, original, calls>>
  BY DEF Hv!wait_completion_timeout, Hv!platter
<1>2. ChannelTypes' /\ PlatterTypes' /\ BounceType'
  BY <1>1 DEF HvAlways, ChannelTypes, PlatterTypes, BounceType
<1>3. IsFiniteSet(outbound) /\ Cardinality(outbound) \in Nat /\ Len(inbound) \in Nat
      /\ lapses \in Nat /\ Cardinality(outbound) + Len(inbound) <= lapses + 1
  BY RingCounts DEF HvAlways, ChannelTypes, Backlog, CallTypes
<1>4. CASE stage = "ready" /\ Hv!Return(FALSE) /\ Hv!Freeze /\ UNCHANGED lapses
  <2>1. /\ ready' = FALSE /\ UNCHANGED <<stage, version, lun, first_probe, start_zero>>
    BY <1>4 DEF Hv!Freeze
  <2>2. /\ SearchTypes' /\ CallTypes' /\ Hv!CallIsExchange' /\ Hv!OthersUntouched' /\ WritesPublished'
    BY <1>1, <1>4, <2>1, ReturnAlways
  <2>3. Backlog'
    BY <1>1, <1>3, <1>4, <2>1 DEF Backlog, Owed
  <2>4. QED
    BY <1>2, <2>2, <2>3 DEF HvAlways
<1>5. CASE /\ stage # "ready" /\ lapses < MaxLapses /\ lapses' = lapses + 1
           /\ Hv!Resume(FALSE) /\ UNCHANGED <<call, answer>>
  <2>1. stage # "none"
    BY <1>1 DEF HvAlways, Hv!CallIsExchange
  <2>2. SearchTypes' /\ Hv!CallIsExchange' /\ Hv!OthersUntouched' /\ WritesPublished'
    BY <1>1, <1>5, <2>1, SearchAlways
  <2>3. CallTypes'
    BY <1>1, <1>5, Constants DEF HvAlways, CallTypes
  <2>4. Backlog'
    BY <1>1, <1>3, <1>5 DEF Backlog
  <2>5. QED
    BY <1>2, <2>2, <2>3, <2>4 DEF HvAlways
<1>6. QED
  BY <1>4, <1>5 DEF Hv!wait_completion_timeout, Hv!device

(* How the host moves the data of a request it finds.                        *)
LEMMA HostEffects ==
    ASSUME HvAlways, NEW p \in outbound, Hv!HostMoves(p.request),
           p.request.op = "inband" \/ Hv!Present(p.request.lun)
    PROVE  /\ PlatterTypes' /\ BounceType' /\ original' = original
           /\ p.request.op # "write" => disk' = disk
           /\ p.request.op # "flush" => media' = media
           /\ p.request.op = "write" =>
                disk' = [disk EXCEPT ![p.request.lun] = [@ EXCEPT ![p.request.first] = bounce[0]]]
           /\ p.request.op = "flush" => media' = [media EXCEPT ![p.request.lun] = disk[p.request.lun]]
           /\ p.request.op = "read" => \A i \in 0 .. 1 :
                i < p.request.count => bounce'[i] = disk[p.request.lun][p.request.first + i]
<1>1. p.request \in Hv!Request
  BY DEF HvAlways, ChannelTypes
<1>2. /\ PlatterTypes /\ BounceType /\ p.request.lun \in Hv!Lun
      /\ Hv!Present(p.request.lun) => disk[p.request.lun] \in Hv!Contents
  BY <1>1, PresentContents, StorTypeParts DEF HvAlways, Hv!Present, Hv!Request
<1>3. CASE p.request.op \in Hv!Reply
  <2>1. bounce' = [bounce EXCEPT ![0] = p.request.op] /\ UNCHANGED Hv!platter
    BY <1>3, Zenon DEF Hv!HostMoves, Hv!Reply
  <2>2. BounceType'
    BY <1>2, <1>3, <2>1 DEF BounceType, Hv!Value
  <2>3. PlatterTypes' /\ UNCHANGED <<disk, media, original>>
    BY <1>2, <2>1, Zenon DEF PlatterTypes, Hv!platter
  <2>4. QED
    BY <1>3, <2>2, <2>3 DEF Hv!Reply
<1>4. CASE p.request.op = "read"
  <2>1. /\ bounce' = [i \in DOMAIN bounce |->
                        IF i < p.request.count THEN disk[p.request.lun][p.request.first + i]
                                               ELSE bounce[i]]
        /\ UNCHANGED Hv!platter
    BY <1>4, Zenon DEF Hv!HostMoves, Hv!Reply
  <2>2. DOMAIN bounce = 0 .. 1
    BY <1>2 DEF BounceType
  <2>3. disk[p.request.lun] \in Hv!Contents
    BY <1>2, <1>4
  <2>4. /\ p.request.first \in 0 .. 4 /\ p.request.count \in 0 .. 2
        /\ p.request.first + p.request.count <= 5
    BY <1>1 DEF Hv!Request, Hv!Sector, Hv!Probe, Hv!LastProbe
  <2>5. ASSUME NEW i \in 0 .. 1, i < p.request.count
        PROVE  disk[p.request.lun][p.request.first + i] \in Hv!Value
    <3>1. p.request.first + i \in 0 .. 4
      BY <2>4, <2>5
    <3>2. QED
      BY <2>3, <3>1 DEF Hv!Contents, Hv!Sector
  <2>6. BounceType'
    BY <1>2, <2>1, <2>2, <2>5 DEF BounceType
  <2>7. \A i \in 0 .. 1 : i < p.request.count => bounce'[i] = disk[p.request.lun][p.request.first + i]
    BY <2>1, <2>2
  <2>8. QED
    BY <1>2, <1>4, <2>1, <2>6, <2>7 DEF PlatterTypes, Hv!platter
<1>5. CASE p.request.op = "write"
  <2>1. /\ disk' = [disk EXCEPT ![p.request.lun][p.request.first] = bounce[0]]
        /\ UNCHANGED <<bounce, media, original>>
    BY <1>5, Zenon DEF Hv!HostMoves, Hv!Reply
  <2>2. disk' = [disk EXCEPT ![p.request.lun] = [disk[p.request.lun] EXCEPT ![p.request.first] = bounce[0]]]
    BY <1>1, <1>5, <2>1
  <2>3. [disk[p.request.lun] EXCEPT ![p.request.first] = bounce[0]] \in Hv!Contents
    <3>1. bounce[0] \in Hv!Value
      BY <1>2 DEF BounceType
    <3>2. disk[p.request.lun] \in Hv!Contents
      BY <1>2, <1>5
    <3>3. QED
      BY <3>1, <3>2 DEF Hv!Contents
  <2>4. PlatterTypes'
    BY <1>2, <2>1, <2>2, <2>3 DEF PlatterTypes
  <2>5. QED
    BY <1>2, <1>5, <2>1, <2>4 DEF BounceType
<1>6. CASE p.request.op = "flush"
  <2>1. /\ media' = [media EXCEPT ![p.request.lun] = disk[p.request.lun]]
        /\ UNCHANGED <<bounce, disk, original>>
    BY <1>6, Zenon DEF Hv!HostMoves, Hv!Reply
  <2>2. QED
    BY <1>1, <1>2, <1>6, <2>1 DEF PlatterTypes, BounceType
<1>7. CASE p.request.op = "inband"
  <2>1. UNCHANGED <<bounce, Hv!platter>>
    BY <1>7, Zenon DEF Hv!HostMoves, Hv!Reply
  <2>2. QED
    BY <1>2, <1>7, <2>1 DEF PlatterTypes, BounceType, Hv!platter
<1>8. p.request.op \in {"inband", "read", "write", "flush"} \cup Hv!Reply
  BY <1>1 DEF Hv!Request
<1>9. QED
  BY <1>3, <1>4, <1>5, <1>6, <1>7, <1>8

(* The host carries a request out or reports an error, in whatever order.    *)
LEMMA HostAlways ==
    ASSUME HvAlways, NEW p \in outbound, Hv!HostPerforms(p) \/ Hv!HostRejects(p)
    PROVE  HvAlways'
<1>1. PICK ok \in BOOLEAN : Hv!HostAnswers(p, ok)
  BY DEF Hv!HostPerforms, Hv!HostRejects
<1>2. /\ outbound' = outbound \ {p}
      /\ inbound' = Append(inbound, [id |-> p.id, ok |-> ok])
      /\ UNCHANGED <<stage, version, lun, first_probe, ready, start_zero>>
      /\ UNCHANGED <<transaction, waiting, calls, lapses, call, answer>>
  BY <1>1 DEF Hv!HostAnswers, Hv!search, Hv!device
<1>3. /\ PlatterTypes' /\ BounceType' /\ original' = original
      /\ p.request.op \notin {"write", "flush"} => disk' = disk /\ media' = media
      /\ \A l \in Hv!Lun : l # p.request.lun => disk'[l] = disk[l] /\ media'[l] = media[l]
  <2>1. CASE UNCHANGED <<bounce, disk, media, original>>
    BY <2>1 DEF HvAlways, PlatterTypes, BounceType
  <2>2. CASE Hv!HostMoves(p.request) /\ (p.request.op = "inband" \/ Hv!Present(p.request.lun))
    <3>1. /\ PlatterTypes' /\ BounceType' /\ original' = original
          /\ p.request.op # "write" => disk' = disk
          /\ p.request.op # "flush" => media' = media
          /\ p.request.op = "write" =>
               disk' = [disk EXCEPT ![p.request.lun] = [@ EXCEPT ![p.request.first] = bounce[0]]]
          /\ p.request.op = "flush" => media' = [media EXCEPT ![p.request.lun] = disk[p.request.lun]]
      BY <2>2, HostEffects
    <3>2. PlatterTypes
      BY DEF HvAlways
    <3>3. \A l \in Hv!Lun : l # p.request.lun => disk'[l] = disk[l]
      BY <3>1, <3>2 DEF PlatterTypes
    <3>4. \A l \in Hv!Lun : l # p.request.lun => media'[l] = media[l]
      BY <3>1, <3>2 DEF PlatterTypes
    <3>5. QED
      BY <3>1, <3>3, <3>4
  <2>3. QED
    BY <2>1, <2>2 DEF Hv!HostPerforms, Hv!HostRejects, Hv!platter
<1>4. p.request.op \in {"write", "flush"} => stage = "ready" /\ p.request.lun = lun
  BY DEF HvAlways, WritesPublished
<1>5. SearchTypes' /\ CallTypes'
  BY <1>2, Zenon DEF HvAlways, SearchTypes, Position, Flags, CallTypes
<1>6. ChannelTypes'
  <2>1. p.id \in Nat
    BY DEF HvAlways, ChannelTypes
  <2>2. [id |-> p.id, ok |-> ok] \in [id : Nat, ok : BOOLEAN]
    BY <2>1, Zenon
  <2>3. inbound' \in Seq([id : Nat, ok : BOOLEAN])
    BY <1>2, <2>2 DEF HvAlways, ChannelTypes
  <2>4. QED
    BY <1>2, <2>3 DEF HvAlways, ChannelTypes
<1>7. Hv!CallIsExchange' /\ WritesPublished'
  BY <1>2 DEF HvAlways, Hv!CallIsExchange, WritesPublished
<1>8. Hv!OthersUntouched'
  BY <1>2, <1>3, <1>4 DEF HvAlways, Hv!OthersUntouched
<1>9. Backlog'
  <2>1. /\ Cardinality(outbound) \in Nat /\ Len(inbound) \in Nat /\ lapses \in Nat
        /\ IsFiniteSet(outbound') /\ Cardinality(outbound') = Cardinality(outbound) - 1
        /\ Len(inbound') = Len(inbound) + 1
    <3>1. /\ Cardinality(outbound) \in Nat /\ Len(inbound) \in Nat
          /\ \A q : q \in outbound => /\ IsFiniteSet(outbound \ {q})
                                     /\ Cardinality(outbound \ {q}) = Cardinality(outbound) - 1
          /\ \A x : Len(Append(inbound, x)) = Len(inbound) + 1
      BY RingCounts DEF HvAlways, ChannelTypes, Backlog
    <3>2. IsFiniteSet(outbound \ {p}) /\ Cardinality(outbound \ {p}) = Cardinality(outbound) - 1
      BY <3>1, Zenon
    <3>3. Len(inbound') = Len(inbound) + 1
      BY <1>2, <3>1
    <3>4. lapses \in Nat
      BY DEF HvAlways, CallTypes
    <3>5. QED
      BY <1>2, <3>1, <3>2, <3>3, <3>4, Zenon
  <2>2. QED
    BY <1>2, <2>1 DEF HvAlways, Backlog, Owed
<1>10. QED
  BY <1>3, <1>5, <1>6, <1>7, <1>8, <1>9 DEF HvAlways

(* A packet nobody asked for.                                                *)
LEMMA IntrusionAlways ==
    ASSUME HvAlways, Hv!HostIntrudes
    PROVE  HvAlways'
<1>1. /\ lapses < MaxLapses /\ lapses' = lapses + 1
      /\ inbound' = Append(inbound, [id |-> 0, ok |-> FALSE])
      /\ UNCHANGED <<stage, version, lun, first_probe, ready, start_zero>>
      /\ UNCHANGED <<transaction, waiting, outbound, bounce, disk, media, original, calls, call, answer>>
  BY DEF Hv!HostIntrudes, Hv!search, Hv!platter, Hv!device
<1>2. SearchTypes' /\ PlatterTypes' /\ BounceType'
  BY <1>1, Zenon DEF HvAlways, SearchTypes, Position, Flags, PlatterTypes, BounceType
<1>3. inbound' \in Seq([id : Nat, ok : BOOLEAN])
  <2>1. [id |-> 0, ok |-> FALSE] \in [id : Nat, ok : BOOLEAN]
    OBVIOUS
  <2>2. QED
    BY <1>1, <2>1 DEF HvAlways, ChannelTypes
<1>4. ChannelTypes'
  BY <1>1, <1>3 DEF HvAlways, ChannelTypes
<1>5. CallTypes'
  BY <1>1, Constants DEF HvAlways, CallTypes
<1>6. Hv!CallIsExchange' /\ Hv!OthersUntouched' /\ WritesPublished'
  BY <1>1 DEF HvAlways, Hv!CallIsExchange, Hv!OthersUntouched, WritesPublished
<1>7. Backlog'
  <2>1. /\ Cardinality(outbound) \in Nat /\ Len(inbound) \in Nat /\ lapses \in Nat
        /\ Len(inbound') = Len(inbound) + 1
    BY <1>1, RingCounts DEF HvAlways, ChannelTypes, Backlog, CallTypes
  <2>2. QED
    BY <1>1, <2>1 DEF HvAlways, Backlog, Owed
<1>8. QED
  BY <1>2, <1>4, <1>5, <1>6, <1>7 DEF HvAlways

(* Every step of the Hyper-V driver and its host; a lapse is never undone.   *)
LEMMA HypervAlways ==
    ASSUME HvAlways, Hv!StorNext
    PROVE  HvAlways' /\ lapses' >= lapses
<1>1. CASE Hv!StorDriver
  <2>1. HvAlways'
    BY <1>1, InitializeAlways, InitializeUnsentAlways, CompletionAlways, TimeoutAlways
       DEF Hv!StorDriver
  <2>2. lapses' \in {lapses, lapses + 1}
    BY <1>1 DEF Hv!StorDriver, Hv!block_hyperv_initialize_primary, Hv!block_hyperv_initialize_unsent,
                Hv!execute_scsi, Hv!wait_completion, Hv!wait_completion_timeout
  <2>3. QED
    BY <2>1, <2>2 DEF HvAlways, CallTypes
<1>2. CASE Hv!StorCalls
  <2>1. HvAlways'
    BY <1>2, TransferAlways, RefusalAlways DEF Hv!StorCalls
  <2>2. lapses' \in {lapses, lapses + 1}
    BY <1>2 DEF Hv!StorCalls, Hv!storage_transfer, Hv!storage_transfer_unsent,
                Hv!storage_transfer_refused, Hv!execute_scsi
  <2>3. QED
    BY <2>1, <2>2 DEF HvAlways, CallTypes
<1>3. CASE Hv!StorHost
  <2>1. HvAlways'
    BY <1>3, HostAlways, IntrusionAlways DEF Hv!StorHost
  <2>2. lapses' \in {lapses, lapses + 1}
    BY <1>3 DEF Hv!StorHost, Hv!HostPerforms, Hv!HostRejects, Hv!HostAnswers, Hv!HostIntrudes
  <2>3. QED
    BY <2>1, <2>2 DEF HvAlways, CallTypes
<1>4. QED
  BY <1>1, <1>2, <1>3 DEF Hv!StorNext

-----------------------------------------------------------------------------
(* The Hyper-V driver's steps up to the first lapse.                         *)

HvInv == HvAlways /\ HvTracked

(* A request put into the empty rings is the only one there, and a write has *)
(* its value in the bounce buffer; one that the channel refuses leaves them  *)
(* empty.                                                                    *)
LEMMA Submission ==
    ASSUME HvInv, Hv!RingsIdle, NEW r \in Hv!Request, r.op = "write" => r.value \in Hv!Value,
           NEW outcome \in {"sent", "refused", "stranded"}, Hv!execute_scsi(r, outcome),
           lapses = 0, lapses' = 0
    PROVE  /\ outcome = "sent" => /\ waiting' # 0 /\ inbound' = <<>>
                                  /\ outbound' = {[id |-> waiting', request |-> r]}
                                  /\ r.op = "write" => bounce'[0] = r.value
           /\ outcome # "sent" => Hv!RingsIdle' /\ outbound' = outbound
           /\ UNCHANGED <<disk, media, original>>
<1>1. /\ bounce' = Hv!Filled(r)
      /\ outbound' = IF outcome = "refused" THEN outbound
                     ELSE outbound \cup {[id |-> transaction, request |-> r]}
      /\ waiting' = IF outcome = "sent" THEN transaction ELSE 0
      /\ lapses' = IF outcome = "stranded" THEN lapses + 1 ELSE lapses
      /\ UNCHANGED <<inbound, disk, media, original>>
      /\ outbound = {} /\ inbound = <<>>
  BY DEF Hv!execute_scsi, Hv!RingsIdle, Hv!platter
<1>2. outcome # "stranded"
  BY <1>1
<1>3. r.op = "write" => bounce'[0] = r.value
  BY <1>1, FilledType DEF HvInv, HvAlways
<1>4. transaction # 0
  BY DEF HvInv, HvAlways, ChannelTypes
<1>5. CASE outcome = "sent"
  <2>1. waiting' = transaction /\ outbound' = {[id |-> transaction, request |-> r]}
    BY <1>1, <1>5
  <2>2. QED
    BY <1>1, <1>3, <1>4, <1>5, <2>1
<1>6. CASE outcome = "refused"
  BY <1>1, <1>6 DEF Hv!RingsIdle
<1>7. QED
  BY <1>2, <1>5, <1>6

(* The request of the search.                                                *)
LEMMA InitializeStep ==
    ASSUME HvInv, lapses = 0, lapses' = 0, Hv!block_hyperv_initialize_primary
    PROVE  HvTracked'
<1>1. Hv!RingsIdle /\ stage # "ready" /\ stage # "none"
  BY DEF HvInv, HvTracked, Hv!block_hyperv_initialize_primary, Hv!Searching, Hv!OneExchange,
         Hv!InFlight, Hv!Done, Hv!Abandoned
<1>2. Hv!StageRequest \in Hv!Request /\ Hv!StageRequest.op # "write"
  BY StageRequests, StorTypeParts DEF HvInv, HvAlways
<1>3. /\ Hv!execute_scsi(Hv!StageRequest, "sent")
      /\ UNCHANGED <<stage, version, lun, first_probe, ready, start_zero, calls, call, answer>>
  BY DEF Hv!block_hyperv_initialize_primary, Hv!search, Hv!device
<1>4. PICK r : r = Hv!StageRequest
  OBVIOUS
<1>5. /\ waiting' # 0 /\ inbound' = <<>>
      /\ outbound' = {[id |-> waiting', request |-> r]}
      /\ UNCHANGED <<disk, media, original>>
  BY <1>1, <1>2, <1>3, <1>4, Submission
<1>6. Hv!StageRequest' = Hv!StageRequest
  BY <1>3, RequestsStable
<1>7. Hv!InFlight'
  BY <1>1, <1>2, <1>3, <1>4, <1>5, <1>6 DEF Hv!InFlight, Hv!Current
<1>8. Hv!SearchSound'
  BY <1>1, <1>3, <1>5 DEF HvInv, HvTracked, Hv!SearchSound
<1>9. QED
  BY <1>7, <1>8 DEF HvTracked, Hv!OneExchange

(* What the search concludes from the return of a request.                   *)
LEMMA SearchTracked ==
    ASSUME HvInv, stage # "ready", stage # "none", NEW ok \in BOOLEAN, ok => Hv!Carried,
           Hv!Resume(ok), UNCHANGED <<disk, media, original>>
    PROVE  Hv!SearchSound'
<1>1. \A l \in Hv!Lun : disk[l] = original[l] /\ media[l] = original[l]
  BY DEF HvInv, HvAlways, Hv!OthersUntouched
<1>2. SearchTypes /\ lun \in Hv!Lun
  BY DEF HvInv, HvAlways, SearchTypes, Position
<1>3. FoundSoFar
  BY <1>1, <1>2 DEF HvInv, HvTracked, FoundSoFar, Hv!SearchSound, Hv!Probe
<1>4. SearchTypes' /\ FoundSoFar'
  BY <1>2, <1>3, SearchStep
<1>5. lun' \in Hv!Lun
  BY <1>4 DEF SearchTypes, Position
<1>6. disk'[lun'] = original'[lun'] /\ media'[lun'] = original'[lun']
  BY <1>1, <1>5
<1>7. QED
  BY <1>4, <1>6 DEF FoundSoFar, Hv!SearchSound, Hv!Probe, Hv!Present

(* A request of the search that the channel refuses.                         *)
LEMMA InitializeUnsentStep ==
    ASSUME HvInv, lapses = 0, lapses' = 0, Hv!block_hyperv_initialize_unsent
    PROVE  HvTracked' /\ Hv!RingsIdle'
<1>1. Hv!RingsIdle /\ stage # "ready" /\ stage # "none"
  BY DEF HvInv, HvTracked, Hv!block_hyperv_initialize_unsent, Hv!Searching, Hv!OneExchange,
         Hv!InFlight, Hv!Done, Hv!Abandoned
<1>2. Hv!StageRequest \in Hv!Request /\ Hv!StageRequest.op # "write"
  BY StageRequests, StorTypeParts DEF HvInv, HvAlways
<1>3. PICK outcome \in {"refused", "stranded"} : Hv!execute_scsi(Hv!StageRequest, outcome)
  BY DEF Hv!block_hyperv_initialize_unsent
<1>4. Hv!RingsIdle' /\ UNCHANGED <<disk, media, original>>
  BY <1>1, <1>2, <1>3, Submission
<1>5. Hv!Resume(FALSE)
  BY DEF Hv!block_hyperv_initialize_unsent
<1>6. Hv!SearchSound'
  BY <1>1, <1>4, <1>5, SearchTracked
<1>7. QED
  BY <1>4, <1>6 DEF HvTracked, Hv!OneExchange

(* Between the calls of a driver that is ready the rings are empty.          *)
LEMMA IdleBetweenCalls ==
    ASSUME HvInv, Hv!Callable, ready
    PROVE  Hv!RingsIdle
  BY DEF HvInv, HvAlways, HvTracked, Hv!Callable, Hv!CallIsExchange, Hv!OneExchange, Hv!InFlight,
         Hv!Done, Hv!Abandoned

(* A published disk stays sound as long as no disk changes.                  *)
LEMMA SoundnessStays ==
    ASSUME Hv!SearchSound, UNCHANGED <<stage, lun, start_zero, disk, media, original>>
    PROVE  Hv!SearchSound'
  BY DEF Hv!SearchSound, Hv!Eligible, Hv!Present

(* A call is submitted while the rings are empty.                            *)
LEMMA TransferStep ==
    ASSUME HvInv, lapses = 0, lapses' = 0, Hv!storage_transfer
    PROVE  HvTracked'
<1>1. PICK c \in Requested : Hv!execute_scsi(Hv!CallRequest(c), "sent") /\ call' = c
  BY DEF Hv!storage_transfer
<1>2. /\ Hv!Callable /\ ready /\ stage = "ready"
      /\ UNCHANGED <<stage, version, lun, first_probe, ready, start_zero>>
  BY DEF Hv!storage_transfer, Hv!Callable, Hv!search
<1>3. Hv!RingsIdle
  BY <1>2, IdleBetweenCalls
<1>4. c \in Hv!Call /\ (c.op = "write" => c.value \in Hv!Value)
  BY <1>1, Constants, CallShapes
<1>5. PICK r : r = Hv!CallRequest(c)
  OBVIOUS
<1>6. r \in Hv!Request /\ r.op = c.op /\ r.value = c.value
  BY <1>4, <1>5, CallRequests, StorTypeParts DEF HvInv, HvAlways
<1>7. /\ waiting' # 0 /\ inbound' = <<>>
      /\ outbound' = {[id |-> waiting', request |-> r]}
      /\ c.op = "write" => bounce'[0] = c.value
      /\ UNCHANGED <<disk, media, original>>
  BY <1>1, <1>3, <1>4, <1>5, <1>6, Submission
<1>8. Hv!CallRequest(c)' = Hv!CallRequest(c)
  BY <1>2, RequestsStable, Zenon
<1>9. Hv!InFlight'
  BY <1>1, <1>2, <1>5, <1>6, <1>7, <1>8 DEF Hv!InFlight, Hv!Current
<1>10. Hv!SearchSound'
  BY <1>2, <1>7, SoundnessStays DEF HvInv, HvTracked
<1>11. QED
  BY <1>9, <1>10 DEF HvTracked, Hv!OneExchange

(* A call whose request the channel refuses.                                 *)
LEMMA TransferUnsentStep ==
    ASSUME HvInv, lapses = 0, lapses' = 0, Hv!storage_transfer_unsent
    PROVE  HvTracked' /\ UNCHANGED <<outbound, disk, media>>
<1>1. PICK c \in Requested, outcome \in {"refused", "stranded"} :
        Hv!execute_scsi(Hv!CallRequest(c), outcome)
  BY DEF Hv!storage_transfer_unsent
<1>2. /\ Hv!Callable /\ ready
      /\ UNCHANGED <<stage, version, lun, first_probe, ready, start_zero>>
  BY DEF Hv!storage_transfer_unsent, Hv!Callable, Hv!search
<1>3. Hv!RingsIdle
  BY <1>2, IdleBetweenCalls
<1>4. c \in Hv!Call /\ (c.op = "write" => c.value \in Hv!Value)
  BY <1>1, Constants, CallShapes
<1>5. PICK r : r = Hv!CallRequest(c)
  OBVIOUS
<1>6. r \in Hv!Request /\ r.op = c.op /\ r.value = c.value
  BY <1>4, <1>5, CallRequests, StorTypeParts DEF HvInv, HvAlways
<1>7. Hv!RingsIdle' /\ UNCHANGED <<outbound, disk, media, original>>
  BY <1>1, <1>3, <1>4, <1>5, <1>6, Submission
<1>8. Hv!SearchSound'
  BY <1>2, <1>7, SoundnessStays DEF HvInv, HvTracked
<1>9. QED
  BY <1>7, <1>8 DEF HvTracked, Hv!OneExchange

(* A call the driver refuses changes nothing but the answer.                 *)
LEMMA RefusalStep ==
    ASSUME HvInv, Hv!storage_transfer_refused
    PROVE  HvTracked'
<1>1. /\ stage = "ready" /\ call = Hv!NoCall
      /\ UNCHANGED <<stage, version, lun, first_probe, ready, start_zero>>
      /\ UNCHANGED <<transaction, waiting, outbound, inbound, bounce, disk, media, original, call>>
  BY DEF Hv!storage_transfer_refused, Hv!Callable, Hv!search, Hv!channel, Hv!platter
<1>2. Hv!SearchSound'
  BY <1>1, SoundnessStays DEF HvInv, HvTracked
<1>3. waiting = 0
  BY <1>1 DEF HvInv, HvAlways, Hv!CallIsExchange
<1>4. Hv!RingsIdle \/ Hv!Abandoned
  BY <1>3 DEF HvInv, HvTracked, Hv!OneExchange, Hv!InFlight, Hv!Done
<1>5. Hv!OneExchange'
  <2>1. CASE Hv!RingsIdle
    BY <2>1, <1>1 DEF Hv!OneExchange, Hv!RingsIdle
  <2>2. CASE Hv!Abandoned
    <3>1. \A c : Hv!CallRequest(c)' = Hv!CallRequest(c)
      BY <1>1, RequestsStable
    <3>2. Hv!Abandoned'
      BY <2>2, <1>1, <3>1 DEF Hv!Abandoned
    <3>3. QED
      BY <3>2 DEF Hv!OneExchange
  <2>3. QED
    BY <2>1, <2>2, <1>4
<1>6. QED
  BY <1>2, <1>5 DEF HvTracked

(* A completion taken is that of the request waited for, and the rings are   *)
(* empty again.                                                              *)
LEMMA CompletionTaken ==
    ASSUME HvInv, Hv!wait_completion
    PROVE  \E ok \in BOOLEAN :
             /\ ok => Hv!Carried
             /\ Hv!Returned(ok)
             /\ stage # "none" /\ waiting # 0 /\ outbound = {}
             /\ Hv!RingsIdle'
             /\ UNCHANGED <<transaction, outbound, bounce, disk, media, original, calls>>
<1>1. Hv!Done
  BY DEF HvInv, HvTracked, Hv!wait_completion, Hv!OneExchange, Hv!RingsIdle, Hv!InFlight,
         Hv!Abandoned
<1>2. PICK ok \in BOOLEAN : inbound = <<[id |-> waiting, ok |-> ok]>> /\ (ok => Hv!Carried)
  BY <1>1 DEF Hv!Done
<1>3. /\ waiting' = 0 /\ inbound' = Tail(inbound)
      /\ Hv!Returned(Head(inbound).id = waiting /\ Head(inbound).ok)
      /\ UNCHANGED <<transaction, outbound, bounce, disk, media, original, calls>>
  BY DEF Hv!wait_completion, Hv!platter
<1>4. Head(inbound) = [id |-> waiting, ok |-> ok] /\ Tail(inbound) = <<>>
  BY <1>2
<1>5. (Head(inbound).id = waiting /\ Head(inbound).ok) = ok
  BY <1>4
<1>6. Hv!Returned(ok)
  BY <1>3, <1>5
<1>7. waiting # 0 /\ outbound = {} /\ stage # "none"
  BY <1>1 DEF HvInv, HvAlways, Hv!Done, Hv!CallIsExchange
<1>8. QED
  BY <1>2, <1>3, <1>4, <1>6, <1>7 DEF Hv!RingsIdle

(* A request of the published device returns, or one of the search.          *)
LEMMA CompletionStep ==
    ASSUME HvInv, Hv!wait_completion
    PROVE  HvTracked'
<1>1. PICK ok \in BOOLEAN :
             /\ ok => Hv!Carried
             /\ Hv!Returned(ok)
             /\ stage # "none" /\ waiting # 0 /\ outbound = {}
             /\ Hv!RingsIdle'
             /\ UNCHANGED <<transaction, outbound, bounce, disk, media, original, calls>>
  BY CompletionTaken
<1>2. CASE stage = "ready"
  <2>1. UNCHANGED <<stage, version, lun, first_probe, ready, start_zero>>
    BY <1>1, <1>2 DEF Hv!Returned, Hv!search
  <2>2. Hv!SearchSound'
    BY <1>1, <2>1, SoundnessStays DEF HvInv, HvTracked
  <2>3. QED
    BY <1>1, <2>2 DEF HvTracked, Hv!OneExchange
<1>3. CASE stage # "ready"
  <2>1. Hv!Resume(ok)
    BY <1>1, <1>3 DEF Hv!Returned
  <2>2. Hv!SearchSound'
    BY <1>1, <1>3, <2>1, SearchTracked
  <2>3. QED
    BY <1>1, <2>2 DEF HvTracked, Hv!OneExchange
<1>4. QED
  BY <1>2, <1>3

(* A call that times out leaves its request behind and freezes the driver.   *)
LEMMA TimeoutStep ==
    ASSUME HvInv, lapses = 0, lapses' = 0, Hv!wait_completion_timeout
    PROVE  /\ HvTracked'
           /\ stage = "ready" /\ waiting # 0 /\ Hv!Return(FALSE)
           /\ UNCHANGED <<stage, lun, outbound, disk, media>>
<1>1. stage = "ready" /\ Hv!Return(FALSE) /\ Hv!Freeze
  <2>1. lapses' # lapses + 1
    OBVIOUS
  <2>2. QED
    BY <2>1, Zenon DEF Hv!wait_completion_timeout
<1>2. /\ waiting # 0 /\ inbound = <<>> /\ waiting' = 0
      /\ UNCHANGED <<transaction, outbound, inbound, bounce, disk, media, original, calls>>
  BY DEF Hv!wait_completion_timeout, Hv!platter
<1>3. Hv!InFlight
  BY <1>2 DEF HvInv, HvTracked, Hv!OneExchange, Hv!RingsIdle, Hv!Done, Hv!Abandoned
<1>4. /\ ready' = FALSE /\ UNCHANGED <<stage, version, lun, first_probe, start_zero>>
  BY <1>1 DEF Hv!Freeze
<1>5. Hv!SearchSound'
  BY <1>2, <1>4, SoundnessStays DEF HvInv, HvTracked
<1>6. call \in Hv!Call
  BY <1>1, <1>2 DEF HvInv, HvAlways, CallTypes, Hv!CallIsExchange
<1>7. Hv!Abandoned'
  <2>1. /\ outbound = {[id |-> waiting, request |-> Hv!CallRequest(call)]}
        /\ Hv!CallRequest(call).op = "write" => bounce[0] = Hv!CallRequest(call).value
    BY <1>1, <1>3 DEF Hv!InFlight, Hv!Current
  <2>2. call.op = "write" => bounce[0] = call.value
    BY <1>6, <2>1, CallRequests, StorTypeParts DEF HvInv, HvAlways
  <2>3. \E p \in outbound : /\ outbound = {p}
                            /\ \E c \in Hv!Call : /\ p.request = Hv!CallRequest(c)
                                                  /\ c.op = "write" => bounce[0] = c.value
    BY <1>6, <2>1, <2>2
  <2>4. \A c : Hv!CallRequest(c)' = Hv!CallRequest(c)
    BY <1>4, RequestsStable
  <2>5. QED
    BY <1>1, <1>2, <1>4, <2>3, <2>4 DEF Hv!Abandoned
<1>8. QED
  BY <1>1, <1>2, <1>4, <1>5, <1>7 DEF HvTracked, Hv!OneExchange

(* What the host finds in the ring: one request, to the disk at hand, waited *)
(* for or left behind by a time-out.                                         *)
LEMMA Outstanding ==
    ASSUME HvInv, NEW p \in outbound
    PROVE  /\ outbound = {p} /\ inbound = <<>>
           /\ p.id \in Nat \ {0} /\ p.request \in Hv!Request /\ p.request.lun = lun
           /\ p.request.op = "write" => /\ p.request.value \in Hv!Value
                                        /\ bounce[0] = p.request.value
           /\ p.request.op \in {"write", "flush"} => stage = "ready"
           /\ \/ waiting # 0 /\ p.id = waiting /\ p.request = Hv!Current
              \/ waiting = 0 /\ stage = "ready" /\ ~ready
<1>1. /\ p.id \in Nat \ {0} /\ p.request \in Hv!Request
      /\ p.request.op \in {"write", "flush"} => stage = "ready"
  BY DEF HvInv, HvAlways, ChannelTypes, WritesPublished
<1>2. Hv!StorTypeOK
  BY StorTypeParts DEF HvInv, HvAlways
<1>3. ASSUME NEW c \in Hv!Call, p.request = Hv!CallRequest(c)
      PROVE  /\ p.request.lun = lun
             /\ p.request.op = "write" => p.request.value \in Hv!Value
  BY <1>2, <1>3, CallRequests, CallShapes
<1>4. CASE Hv!InFlight
  <2>1. /\ outbound = {p} /\ inbound = <<>> /\ waiting # 0 /\ p.id = waiting /\ p.request = Hv!Current
        /\ p.request.op = "write" => bounce[0] = p.request.value
    BY <1>4 DEF Hv!InFlight
  <2>2. CASE stage = "ready"
    <3>1. call \in Hv!Call /\ p.request = Hv!CallRequest(call)
      BY <2>1, <2>2 DEF HvInv, HvAlways, CallTypes, Hv!CallIsExchange, Hv!Current
    <3>2. /\ p.request.lun = lun
          /\ p.request.op = "write" => p.request.value \in Hv!Value
      BY <1>3, <3>1, Zenon
    <3>3. QED
      BY <1>1, <2>1, <2>2, <3>2
  <2>3. CASE stage # "ready"
    <3>1. p.request = Hv!StageRequest
      BY <2>1, <2>3 DEF Hv!Current
    <3>2. Hv!StageRequest.op \notin {"write", "flush"} /\ Hv!StageRequest.lun = lun
      BY <1>2, StageRequests
    <3>3. QED
      BY <1>1, <2>1, <3>1, <3>2
  <2>4. QED
    BY <2>2, <2>3
<1>5. CASE Hv!Abandoned
  <2>1. /\ outbound = {p} /\ inbound = <<>> /\ waiting = 0 /\ stage = "ready" /\ ~ready
        /\ \E c \in Hv!Call : /\ p.request = Hv!CallRequest(c)
                              /\ c.op = "write" => bounce[0] = c.value
    BY <1>5 DEF Hv!Abandoned
  <2>2. PICK c \in Hv!Call : /\ p.request = Hv!CallRequest(c)
                             /\ c.op = "write" => bounce[0] = c.value
    BY <2>1
  <2>3. p.request.op = "write" => bounce[0] = p.request.value
    BY <1>2, <2>2, CallRequests
  <2>4. QED
    BY <1>1, <1>3, <2>1, <2>2, <2>3
<1>6. QED
  BY <1>4, <1>5 DEF HvInv, HvTracked, Hv!OneExchange, Hv!RingsIdle, Hv!Done

(* How the host moves the data of that request.                              *)
LEMMA HostMovesCurrent ==
    ASSUME HvInv, NEW p \in outbound, Hv!HostMoves(p.request),
           p.request.op = "inband" \/ Hv!Present(lun)
    PROVE  /\ original' = original
           /\ p.request.op # "write" => disk' = disk
           /\ p.request.op # "flush" => media' = media
           /\ p.request.op = "write" =>
                disk' = [disk EXCEPT ![lun] = [disk[lun] EXCEPT ![p.request.first] = p.request.value]]
           /\ p.request.op = "flush" => media' = [media EXCEPT ![lun] = disk[lun]]
           /\ p.request.op = "read" => \A i \in 0 .. 1 :
                i < p.request.count => bounce'[i] = disk[lun][p.request.first + i]
<1>1. /\ p.request.lun = lun
      /\ p.request.op = "write" => bounce[0] = p.request.value
  BY Outstanding
<1>2. HvAlways /\ (p.request.op = "inband" \/ Hv!Present(p.request.lun))
  BY <1>1 DEF HvInv
<1>3. /\ original' = original
      /\ p.request.op # "write" => disk' = disk
      /\ p.request.op # "flush" => media' = media
      /\ p.request.op = "write" =>
           disk' = [disk EXCEPT ![p.request.lun] = [@ EXCEPT ![p.request.first] = bounce[0]]]
      /\ p.request.op = "flush" => media' = [media EXCEPT ![p.request.lun] = disk[p.request.lun]]
      /\ p.request.op = "read" => \A i \in 0 .. 1 :
           i < p.request.count => bounce'[i] = disk[p.request.lun][p.request.first + i]
  BY <1>2, HostEffects
<1>4. QED
  BY <1>1, <1>3

(* The answer of the host: the ring holds the completion of what was in it.  *)
LEMMA AnswerStep ==
    ASSUME HvInv, NEW p \in outbound, NEW ok \in BOOLEAN, Hv!HostAnswers(p, ok),
           original' = original,
           stage = "ready" => disk'[lun] # <<>> /\ media'[lun] # <<>>,
           waiting # 0 /\ ok => Hv!Carried'
    PROVE  HvTracked'
<1>1. /\ outbound = {p} /\ inbound = <<>> /\ p.id \in Nat \ {0}
      /\ (waiting # 0 /\ p.id = waiting) \/ (waiting = 0 /\ stage = "ready" /\ ~ready)
  BY Outstanding
<1>2. /\ outbound' = {}
      /\ inbound' = <<[id |-> p.id, ok |-> ok]>>
      /\ UNCHANGED <<stage, version, lun, first_probe, ready, start_zero>>
      /\ UNCHANGED <<transaction, waiting, calls, call, answer>>
  BY <1>1 DEF Hv!HostAnswers, Hv!search, Hv!device
<1>3. Hv!OneExchange'
  <2>1. CASE waiting # 0
    <3>1. inbound' = <<[id |-> waiting', ok |-> ok]>> /\ (ok => Hv!Carried')
      BY <1>1, <1>2, <2>1
    <3>2. Hv!Done'
      BY <1>2, <2>1, <3>1 DEF Hv!Done
    <3>3. QED
      BY <3>2 DEF Hv!OneExchange
  <2>2. CASE waiting = 0
    <3>1. Len(inbound') = 1
      BY <1>2
    <3>2. Hv!Abandoned'
      BY <1>1, <1>2, <2>2, <3>1 DEF Hv!Abandoned
    <3>3. QED
      BY <3>2 DEF Hv!OneExchange
  <2>3. QED
    BY <2>1, <2>2
<1>4. Hv!SearchSound'
  BY <1>2 DEF HvInv, HvTracked, Hv!SearchSound, Hv!Present, Hv!Eligible
<1>5. QED
  BY <1>3, <1>4 DEF HvTracked

(* A published disk stays there, and so do its durable contents.             *)
LEMMA DiskStays ==
    ASSUME HvInv, NEW p \in outbound, stage = "ready",
           disk' = disk \/ disk' = [disk EXCEPT ![lun] = [disk[lun] EXCEPT ![p.request.first] = p.request.value]],
           media' = media \/ media' = [media EXCEPT ![lun] = disk[lun]],
           p.request.op = "write" \/ disk' = disk
    PROVE  disk'[lun] # <<>> /\ media'[lun] # <<>>
<1>1. /\ lun \in Hv!Lun /\ disk[lun] # <<>> /\ media[lun] # <<>>
      /\ disk[lun] \in Hv!Contents
      /\ p.request \in Hv!Request /\ (p.request.op = "write" => p.request.value \in Hv!Value)
  BY Outstanding, PresentContents, StorTypeParts
     DEF HvInv, HvAlways, HvTracked, SearchTypes, Position, Hv!SearchSound, Hv!Present
<1>2. p.request.op = "write" =>
        [disk[lun] EXCEPT ![p.request.first] = p.request.value] \in Hv!Contents
  BY <1>1 DEF Hv!Contents
<1>3. disk \in [Hv!Lun -> Hv!Contents \cup {<<>>}] /\ media \in [Hv!Lun -> Hv!Contents \cup {<<>>}]
  BY DEF HvInv, HvAlways, PlatterTypes
<1>4. disk'[lun] # <<>>
  BY <1>1, <1>2, <1>3, PresentContents
<1>5. media'[lun] # <<>>
  BY <1>1, <1>3
<1>6. QED
  BY <1>4, <1>5

(* The host carries the request out: what it reports done is done.           *)
LEMMA PerformStep ==
    ASSUME HvInv, NEW p \in outbound, Hv!HostPerforms(p)
    PROVE  HvTracked'
<1>1. /\ p.request.op = "inband" \/ Hv!Present(lun)
      /\ Hv!HostMoves(p.request) /\ Hv!HostAnswers(p, TRUE)
  BY Outstanding DEF Hv!HostPerforms
<1>2. /\ original' = original
      /\ p.request.op # "write" => disk' = disk
      /\ p.request.op # "flush" => media' = media
      /\ p.request.op = "write" =>
           disk' = [disk EXCEPT ![lun] = [disk[lun] EXCEPT ![p.request.first] = p.request.value]]
      /\ p.request.op = "flush" => media' = [media EXCEPT ![lun] = disk[lun]]
      /\ p.request.op = "read" => \A i \in 0 .. 1 :
           i < p.request.count => bounce'[i] = disk[lun][p.request.first + i]
  BY <1>1, HostMovesCurrent
<1>3. stage # "ready" => disk' = disk /\ media' = media
  BY <1>2, Outstanding
<1>4. stage = "ready" => disk'[lun] # <<>> /\ media'[lun] # <<>>
  BY <1>2, DiskStays
<1>5. UNCHANGED <<stage, lun, call>>
  BY <1>1 DEF Hv!HostAnswers, Hv!search, Hv!device
<1>6. ASSUME waiting # 0 PROVE Hv!Carried'
  <2>1. p.request = Hv!Current /\ Hv!StorTypeOK /\ lun \in Hv!Lun
    BY <1>6, Outstanding, StorTypeParts DEF HvInv, HvAlways, SearchTypes, Position
  <2>2. CASE stage = "ready"
    <3>1. call \in Hv!Call /\ p.request = Hv!CallRequest(call)
      BY <1>6, <2>1, <2>2 DEF HvInv, HvAlways, CallTypes, Hv!CallIsExchange, Hv!Current
    <3>2. /\ p.request.op = call.op /\ p.request.value = call.value
          /\ call.op # "flush" => p.request.first = call.sector /\ p.request.count = 1
      BY <2>1, <3>1, CallRequests
    <3>3. disk[lun] \in Hv!Contents /\ disk \in [Hv!Lun -> Hv!Contents \cup {<<>>}]
          /\ media \in [Hv!Lun -> Hv!Contents \cup {<<>>}]
      BY <2>1, <2>2, PresentContents
         DEF HvInv, HvAlways, HvTracked, PlatterTypes, Hv!SearchSound, Hv!Present
    <3>4. call.op = "read" => bounce'[0] = disk'[lun][call.sector]
      BY <1>2, <3>1, <3>2, CallShapes DEF Hv!Sector
    <3>5. call.op = "write" => disk'[lun][call.sector] = call.value
      BY <1>2, <2>1, <3>1, <3>2, <3>3, CallShapes DEF Hv!Contents
    <3>6. call.op = "flush" => media'[lun] = disk'[lun]
      BY <1>2, <2>1, <3>2, <3>3
    <3>7. QED
      BY <1>4, <1>5, <2>2, <3>4, <3>5, <3>6 DEF Hv!Carried, Hv!Present
  <2>3. CASE stage # "ready"
    <3>1. p.request = Hv!StageRequest /\ disk' = disk
      BY <1>3, <2>1, <2>3 DEF Hv!Current
    <3>2. stage \notin {"begin", "version", "properties", "finish", "none"} => Hv!Present(lun)
      BY <1>1, <2>1, <2>3, <3>1, StageRequests DEF HvInv, HvAlways, SearchTypes, Position
    <3>3. stage \in {"first", "start"} => \A i \in 0 .. 1 : bounce'[i] = disk[lun][i]
      BY <1>2, <2>1, <3>1, StageRequests
    <3>4. stage = "end" => \A i \in 0 .. 1 : bounce'[i] = disk[lun][Hv!LastProbe + i]
      BY <1>2, <2>1, <3>1, StageRequests
    <3>5. stage # "none"
      BY <1>6 DEF HvInv, HvAlways, Hv!CallIsExchange
    <3>6. QED
      BY <1>5, <2>3, <3>1, <3>2, <3>3, <3>4, <3>5 DEF Hv!Carried, Hv!Present, Hv!Probe
  <2>4. QED
    BY <2>2, <2>3
<1>7. QED
  BY <1>1, <1>2, <1>4, <1>6, AnswerStep

(* The host reports an error, having done the work or not.                   *)
LEMMA RejectStep ==
    ASSUME HvInv, NEW p \in outbound, Hv!HostRejects(p)
    PROVE  HvTracked'
<1>1. Hv!HostAnswers(p, FALSE)
  BY DEF Hv!HostRejects
<1>2. CASE UNCHANGED <<bounce, disk, media, original>>
  <2>1. stage = "ready" => disk'[lun] # <<>> /\ media'[lun] # <<>>
    BY <1>2 DEF HvInv, HvTracked, Hv!SearchSound, Hv!Present
  <2>2. QED
    BY <1>1, <1>2, <2>1, AnswerStep
<1>3. CASE Hv!Present(p.request.lun) /\ p.request.op = "write" /\ Hv!HostMoves(p.request)
  <2>1. Hv!Present(lun) /\ stage = "ready"
    BY <1>3, Outstanding
  <2>2. /\ original' = original /\ media' = media
        /\ disk' = [disk EXCEPT ![lun] = [disk[lun] EXCEPT ![p.request.first] = p.request.value]]
    BY <1>3, <2>1, HostMovesCurrent
  <2>3. disk'[lun] # <<>> /\ media'[lun] # <<>>
    BY <1>3, <2>1, <2>2, DiskStays
  <2>4. QED
    BY <1>1, <2>1, <2>2, <2>3, AnswerStep
<1>4. QED
  BY <1>2, <1>3 DEF Hv!HostRejects, Hv!platter

(* Every step that is not a lapse.                                           *)
LEMMA HypervTracked ==
    ASSUME HvInv, lapses = 0, lapses' = 0, Hv!StorNext
    PROVE  HvTracked'
<1>1. CASE Hv!StorDriver
  BY <1>1, InitializeStep, InitializeUnsentStep, CompletionStep, TimeoutStep DEF Hv!StorDriver
<1>2. CASE Hv!StorCalls
  BY <1>2, TransferStep, TransferUnsentStep, RefusalStep DEF Hv!StorCalls
<1>3. CASE Hv!StorHost
  <2>1. ~Hv!HostIntrudes
    BY DEF Hv!HostIntrudes
  <2>2. QED
    BY <1>3, <2>1, PerformStep, RejectStep DEF Hv!StorHost
<1>4. QED
  BY <1>1, <1>2, <1>3 DEF Hv!StorNext

-----------------------------------------------------------------------------
(* The virtio driver's steps.                                                *)

SlotRecord == [state : {"FREE", "AVAILABLE", "USED"}, ok : BOOLEAN, value : Hv!Value \cup {NoValue}]
StatusRecord == [ok : BOOLEAN, value : Hv!Value \cup {NoValue}]
UsedElement == Q35!Slot \cup {Q35!Bogus}

(* All that the virtio driver keeps.                                         *)
Q35Inv ==
    /\ Q35!VirtioTypeOK /\ CallTypes /\ Q35!CallIsPolled
    /\ lapses = 0 => Q35!OnePolled

(* The constants of the queue.                                               *)
LEMMA QueueConstants ==
    /\ QueueCapacity \in Nat \ {0}
    /\ 0 \notin Q35!Slot /\ Q35!Bogus \notin Q35!Slot /\ Q35!NoSlot = 0
    /\ Q35!Free \in SlotRecord /\ Q35!Available \in SlotRecord
    /\ Q35!Unwritten \in StatusRecord
    /\ Q35!Free.state = "FREE" /\ Q35!Available.state = "AVAILABLE"
<1>1. QueueCapacity \in Nat \ {0}
  BY PlatformAssumption DEF Q35!VirtioAssumption
<1>2. 0 \notin Q35!Slot /\ Q35!Bogus \notin Q35!Slot /\ Q35!NoSlot = 0
  BY <1>1 DEF Q35!Slot, Q35!Bogus, Q35!NoSlot
<1>3. /\ Q35!Free \in SlotRecord /\ Q35!Available \in SlotRecord
      /\ Q35!Free.state = "FREE" /\ Q35!Available.state = "AVAILABLE"
  BY DEF Q35!Free, Q35!Available, SlotRecord
<1>4. Q35!Unwritten \in StatusRecord
  BY DEF Q35!Unwritten, StatusRecord
<1>5. QED
  BY <1>1, <1>2, <1>3, <1>4

(* The type invariant with the records named.                                *)
VirtioParts ==
    /\ vstage \in {"reset", "features", "queue", "capacity", "driver_ok", "ready", "none"}
    /\ requests \in [Q35!Slot -> SlotRecord]
    /\ waiting_slot \in Q35!Slot \cup {Q35!NoSlot}
    /\ statuses \in [Q35!Slot -> StatusRecord]
    /\ queued \subseteq [slot : Q35!Slot, call : Hv!Call]
    /\ used \in Seq(UsedElement)
    /\ needs_reset \in BOOLEAN /\ status \in {"READY", "FAILED"}
    /\ vdisk \in [Hv!Sector -> Hv!Value] /\ vmedia \in [Hv!Sector -> Hv!Value]

(* It says the same as VirtioTypeOK.                                         *)
LEMMA VirtioTypeParts ==
    (Q35!VirtioTypeOK <=> VirtioParts) /\ (Q35!VirtioTypeOK' <=> VirtioParts')
  BY SameCalls, Zenon
     DEF Q35!VirtioTypeOK, VirtioParts, SlotRecord, StatusRecord, UsedElement, Q35!Content

(* A call is polled for on a published device only.                          *)
LEMMA PolledIsPublished ==
    ASSUME Q35Inv
    PROVE  /\ call # Hv!NoCall <=> waiting_slot # Q35!NoSlot
           /\ waiting_slot # Q35!NoSlot => Q35!Published
           /\ waiting_slot # Q35!NoSlot /\ lapses = 0 /\ ~needs_reset => Q35!SlotPolled
           /\ queued # {} => Q35!Published
<1>1. /\ call # Hv!NoCall <=> waiting_slot # Q35!NoSlot
      /\ waiting_slot # Q35!NoSlot => Q35!Published
  BY SameCalls DEF Q35Inv, Q35!CallIsPolled
<1>2. waiting_slot # Q35!NoSlot /\ lapses = 0 /\ ~needs_reset => Q35!SlotPolled
  BY <1>1, SameCalls DEF Q35Inv, Q35!OnePolled
<1>3. ASSUME ~Q35!Published PROVE queued = {}
  BY <1>3 DEF Q35Inv, Q35!CallIsPolled, Q35!OnePolled, Q35!SlotsIdle
<1>4. QED
  BY <1>1, <1>2, <1>3

(* virtio_blk_initialize goes from stage to stage.                           *)
LEMMA VirtioInitializeStep ==
    ASSUME Q35Inv, Q35!virtio_blk_initialize
    PROVE  Q35Inv'
<1>1. /\ vstage \notin {"ready", "none"} /\ vstage' \in {Q35!Following(vstage), "none"}
      /\ UNCHANGED <<requests, waiting_slot, statuses, queued, used, needs_reset, status, vdisk, vmedia>>
      /\ UNCHANGED <<calls, lapses, call, answer>>
  BY DEF Q35!virtio_blk_initialize, Q35!queue, Q35!medium, Q35!vdevice
<1>2. Q35!Following(vstage) \in {"features", "queue", "capacity", "driver_ok", "ready"}
  <2>1. vstage \in {"reset", "features", "queue", "capacity", "driver_ok"}
    BY <1>1 DEF Q35Inv, Q35!VirtioTypeOK
  <2>2. QED
    BY <2>1 DEF Q35!Following
<1>3. Q35!VirtioTypeOK'
  BY <1>1, <1>2, Zenon DEF Q35Inv, Q35!VirtioTypeOK
<1>4. CallTypes'
  BY <1>1, Zenon DEF Q35Inv, CallTypes
<1>5. Q35!CallIsPolled' /\ (lapses' = 0 => Q35!OnePolled')
  BY <1>1 DEF Q35Inv, Q35!CallIsPolled, Q35!OnePolled, Q35!Published, Q35!SlotsIdle
<1>6. QED
  BY <1>3, <1>4, <1>5 DEF Q35Inv

(* A call takes the first free slot.                                         *)
LEMMA SubmitStep ==
    ASSUME Q35Inv, Q35!virtio_blk_submit
    PROVE  Q35Inv'
<1>1. PICK c \in Requested, i \in Q35!FirstFree :
        /\ requests' = [requests EXCEPT ![i] = Q35!Available]
        /\ statuses' = [statuses EXCEPT ![i] = Q35!Unwritten]
        /\ queued' = queued \cup {[slot |-> i, call |-> c]}
        /\ waiting_slot' = i
        /\ call' = c
  BY DEF Q35!virtio_blk_submit
<1>2. /\ Q35!Published /\ call = Hv!NoCall /\ calls < MaxCalls /\ status = "READY"
      /\ calls' = calls + 1 /\ answer' = Hv!NoAnswer
      /\ UNCHANGED <<vstage, used, needs_reset, status, vdisk, vmedia, lapses>>
  BY SameCalls DEF Q35!virtio_blk_submit, Q35!Callable, Q35!medium
<1>3. i \in Q35!Slot /\ c \in Hv!Call
  BY <1>1, Constants DEF Q35!FirstFree
<1>4. Q35!VirtioTypeOK'
  <2>1. requests' \in [Q35!Slot -> SlotRecord]
    BY <1>1, <1>3, QueueConstants, VirtioTypeParts DEF Q35Inv, VirtioParts
  <2>2. statuses' \in [Q35!Slot -> StatusRecord]
    BY <1>1, <1>3, QueueConstants, VirtioTypeParts DEF Q35Inv, VirtioParts
  <2>3. queued' \subseteq [slot : Q35!Slot, call : Hv!Call]
    BY <1>1, <1>3, VirtioTypeParts DEF Q35Inv, VirtioParts
  <2>4. QED
    BY <1>1, <1>2, <1>3, <2>1, <2>2, <2>3, VirtioTypeParts, Zenon DEF Q35Inv, VirtioParts
<1>5. CallTypes'
  BY <1>1, <1>2, <1>3, AnswerTypes, Constants DEF Q35Inv, CallTypes, Answers
<1>6. call' # Q35!NoCall /\ waiting_slot' # Q35!NoSlot
  BY <1>1, <1>3, CallShapes, SameCalls, QueueConstants
<1>7. Q35!CallIsPolled'
  BY <1>2, <1>6 DEF Q35!CallIsPolled, Q35!Published
<1>8. ASSUME lapses' = 0 PROVE Q35!OnePolled'
  <2>1. ASSUME ~needs_reset' PROVE Q35!SlotPolled'
    <3>1. Q35!SlotsIdle
      BY <1>2, <1>8, <2>1, SameCalls DEF Q35Inv, Q35!OnePolled
    <3>2. requests' = [j \in Q35!Slot |-> IF j = waiting_slot' THEN Q35!Available ELSE Q35!Free]
      BY <1>1, <1>3, <3>1 DEF Q35!SlotsIdle
    <3>3. queued' = {[slot |-> waiting_slot', call |-> call']} /\ used' \in {<<>>, <<Q35!Bogus>>}
      BY <1>1, <1>2, <3>1 DEF Q35!SlotsIdle
    <3>4. QED
      BY <3>2, <3>3 DEF Q35!SlotPolled
  <2>2. QED
    BY <1>2, <1>6, <2>1 DEF Q35!OnePolled
<1>9. QED
  BY <1>4, <1>5, <1>7, <1>8 DEF Q35Inv

(* A call the driver refuses changes nothing but the answer.                 *)
LEMMA SubmitRefusedStep ==
    ASSUME Q35Inv, Q35!virtio_blk_submit_refused
    PROVE  Q35Inv'
<1>1. /\ Q35!Published /\ call = Hv!NoCall /\ calls < MaxCalls
      /\ calls' = calls + 1 /\ answer' = Hv!Error
      /\ UNCHANGED <<vstage, requests, waiting_slot, statuses, queued, used, needs_reset, status>>
      /\ UNCHANGED <<vdisk, vmedia, call, lapses>>
  BY SameCalls DEF Q35!virtio_blk_submit_refused, Q35!Callable, Q35!queue, Q35!medium
<1>2. Q35!VirtioTypeOK'
  BY <1>1, Zenon DEF Q35Inv, Q35!VirtioTypeOK
<1>3. CallTypes'
  BY <1>1, AnswerTypes, Constants DEF Q35Inv, CallTypes, Answers
<1>4. Q35!CallIsPolled' /\ (lapses' = 0 => Q35!OnePolled')
  BY <1>1, SameCalls DEF Q35Inv, Q35!CallIsPolled, Q35!OnePolled, Q35!Published, Q35!SlotsIdle
<1>5. QED
  BY <1>2, <1>3, <1>4 DEF Q35Inv

(* The good elements of the used ring.                                       *)
LEMMA GoodElements ==
    ASSUME used \in Seq(UsedElement)
    PROVE  /\ \A k \in Q35!Good : /\ k \in DOMAIN used /\ k \in 1 .. Len(used)
                                  /\ used[k] \in Q35!Slot /\ requests[used[k]].state = "AVAILABLE"
           /\ IsFiniteSet(Q35!Good) /\ Q35!Cardinality(Q35!Good) = Cardinality(Q35!Good)
           /\ Q35!Cardinality(Q35!Good) \in Nat
<1>1. DOMAIN used = 1 .. Len(used) /\ Len(used) \in Nat
  OBVIOUS
<1>2. ASSUME NEW k \in Q35!Good
      PROVE  /\ k \in DOMAIN used /\ k \in 1 .. Len(used)
             /\ used[k] \in Q35!Slot /\ requests[used[k]].state = "AVAILABLE"
  <2>1. k \in DOMAIN used /\ \A j \in 1 .. k : Q35!Due(j)
    BY DEF Q35!Good
  <2>2. k \in 1 .. k
    BY <1>1, <2>1
  <2>3. QED
    BY <1>1, <2>1, <2>2 DEF Q35!Due
<1>3. IsFiniteSet(1 .. Len(used))
  BY <1>1, FS_Interval
<1>4. IsFiniteSet(Q35!Good)
  BY <1>2, <1>3, FS_Subset
<1>5. Cardinality(Q35!Good) \in Nat
  BY <1>4, FS_CardinalityType
<1>6. Q35!Cardinality(Q35!Good) = Cardinality(Q35!Good)
  BY DEF Q35!Cardinality, Cardinality
<1>7. QED
  BY <1>2, <1>4, <1>5, <1>6

(* pci_service gives every request a well-typed result, and leaves a         *)
(* well-typed rest in the used ring.                                         *)
LEMMA CompletedType ==
    ASSUME VirtioParts
    PROVE  /\ Q35!Completed \in [Q35!Slot -> SlotRecord]
           /\ Q35!Failed(Q35!Completed) \in [Q35!Slot -> SlotRecord]
           /\ Q35!Failed(requests) \in [Q35!Slot -> SlotRecord]
           /\ Q35!FromNotDue \in Seq(UsedElement)
<1>1. ASSUME NEW i \in Q35!Slot
      PROVE  [state |-> "USED", ok |-> statuses[i].ok, value |-> statuses[i].value] \in SlotRecord
  <2>1. statuses[i] \in StatusRecord
    BY DEF VirtioParts
  <2>2. statuses[i].ok \in BOOLEAN /\ statuses[i].value \in Hv!Value \cup {NoValue}
    BY <2>1, Zenon DEF StatusRecord
  <2>3. \A o \in BOOLEAN, v \in Hv!Value \cup {NoValue} :
          [state |-> "USED", ok |-> o, value |-> v] \in SlotRecord
    BY DEF SlotRecord
  <2>4. QED
    BY <2>2, <2>3, Zenon
<1>2. Q35!Completed \in [Q35!Slot -> SlotRecord]
  <2>1. ASSUME NEW i \in Q35!Slot
        PROVE  (IF \E k \in Q35!Good : used[k] = i
                THEN [state |-> "USED", ok |-> statuses[i].ok, value |-> statuses[i].value]
                ELSE requests[i]) \in SlotRecord
    BY <1>1 DEF VirtioParts
  <2>2. QED
    BY <2>1 DEF Q35!Completed
<1>3. [Q35!Free EXCEPT !.state = "USED"] \in SlotRecord
  BY QueueConstants DEF SlotRecord
<1>4. ASSUME NEW slots \in [Q35!Slot -> SlotRecord]
      PROVE  Q35!Failed(slots) \in [Q35!Slot -> SlotRecord]
  BY <1>3 DEF Q35!Failed
<1>5. Q35!FromNotDue \in Seq(UsedElement)
  <2> DEFINE m == Q35!Cardinality(Q35!Good) + 1
  <2>1. m \in Int /\ Len(used) \in Int /\ \A i \in m .. Len(used) : used[i] \in UsedElement
    BY GoodElements DEF VirtioParts
  <2> HIDE DEF m
  <2>2. SubSeq(used, m, Len(used)) \in Seq(UsedElement)
    BY <2>1, SubSeqProperties, Zenon
  <2>3. QED
    BY <2>2 DEF m, Q35!FromNotDue
<1>6. QED
  BY <1>2, <1>4, <1>5 DEF VirtioParts

(* What a poll finds in the used ring as long as nothing is out of turn: the *)
(* element of the call, a bogus one, or both; the first that is not due is   *)
(* the bogus one.                                                            *)
LEMMA PolledRing ==
    ASSUME Q35Inv, Q35!Polling, lapses = 0
    PROVE  /\ waiting_slot \in Q35!Slot /\ Q35!SlotPolled /\ VirtioParts
           /\ requests[waiting_slot] = Q35!Available
           /\ \A k \in DOMAIN used : used[k] \in {waiting_slot, Q35!Bogus}
           /\ \A k \in DOMAIN used : used[k] = waiting_slot => Q35!Due(k)
           /\ \A k \in DOMAIN used : used[k] = Q35!Bogus => ~Q35!Due(k)
<1>1. waiting_slot \in Q35!Slot /\ Q35!SlotPolled /\ VirtioParts
  BY PolledIsPublished, VirtioTypeParts DEF Q35Inv, Q35!Polling, VirtioParts
<1>2. requests[waiting_slot] = Q35!Available
  BY <1>1 DEF Q35!SlotPolled
<1>3. PICK w : w = waiting_slot
  OBVIOUS
<1>4. PICK b : b = Q35!Bogus
  OBVIOUS
<1>5. used \in {<<>>, <<b>>, <<w>>, <<w, b>>, <<b, w>>}
  BY <1>1, <1>3, <1>4 DEF Q35!SlotPolled
<1>6. w # b
  BY <1>1, <1>3, <1>4, QueueConstants
<1>7. /\ \A k \in DOMAIN used : used[k] \in {w, b}
      /\ \A k \in DOMAIN used : used[k] = w => \A j \in 1 .. k - 1 : used[j] # w
  <2>1. CASE used = <<>>
    BY <2>1
  <2>2. CASE used = <<b>> \/ used = <<w>>
    <3>1. DOMAIN used = {1} /\ used[1] \in {w, b}
      BY <2>2
    <3>2. QED
      BY <3>1
  <2>3. CASE used = <<w, b>>
    <3>1. DOMAIN used = {1, 2} /\ used[1] = w /\ used[2] = b
      BY <2>3
    <3>2. QED
      BY <1>6, <3>1
  <2>4. CASE used = <<b, w>>
    <3>1. DOMAIN used = {1, 2} /\ used[1] = b /\ used[2] = w
      BY <2>4
    <3>2. QED
      BY <1>6, <3>1
  <2>5. QED
    BY <1>5, <2>1, <2>2, <2>3, <2>4
<1>8. \A k \in DOMAIN used : used[k] = w => Q35!Due(k)
  BY <1>1, <1>2, <1>3, <1>7, QueueConstants DEF Q35!Due
<1>9. \A k \in DOMAIN used : used[k] = b => ~Q35!Due(k)
  BY <1>4, QueueConstants DEF Q35!Due
<1>10. QED
  BY <1>1, <1>2, <1>3, <1>4, <1>7, <1>8, <1>9

(* So a poll does not end in E_INVALID_STATE.                                *)
LEMMA NotDueIsBogus ==
    ASSUME Q35Inv, Q35!Polling, lapses = 0, Q35!Good # DOMAIN used
    PROVE  Q35!NotDue = Q35!Bogus
<1>1. /\ waiting_slot \in Q35!Slot /\ Q35!SlotPolled /\ VirtioParts
      /\ \A k \in DOMAIN used : used[k] = waiting_slot => Q35!Due(k)
      /\ \A k \in DOMAIN used : used[k] = Q35!Bogus => ~Q35!Due(k)
  BY PolledRing
<1>2. Q35!Cardinality(Q35!Good) = Cardinality(Q35!Good)
  BY <1>1, GoodElements DEF VirtioParts
<1>3. Cardinality({}) = 0 /\ Cardinality({1}) = 1
  BY FS_EmptySet, FS_Singleton, Zenon
<1>4. CASE used = <<>>
  <2>1. Q35!Good = DOMAIN used
    BY <1>4 DEF Q35!Good
  <2>2. QED
    BY <2>1
<1>5. CASE used = <<waiting_slot>>
  <2>1. DOMAIN used = {1} /\ used[1] = waiting_slot
    BY <1>5
  <2>2. Q35!Due(1)
    BY <1>1, <2>1
  <2>3. \A j \in 1 .. 1 : j = 1
    OBVIOUS
  <2>4. Q35!Good = DOMAIN used
    BY <2>1, <2>2, <2>3 DEF Q35!Good
  <2>5. QED
    BY <2>4
<1>6. CASE used = <<Q35!Bogus>> \/ used = <<Q35!Bogus, waiting_slot>>
  <2>1. 1 \in DOMAIN used /\ used[1] = Q35!Bogus /\ \A k \in DOMAIN used : k \in Nat /\ k >= 1
    BY <1>6
  <2>2. ~Q35!Due(1)
    BY <1>1, <2>1
  <2>3. Q35!Good = {}
    BY <2>1, <2>2 DEF Q35!Good
  <2>4. Q35!Cardinality(Q35!Good) + 1 = 1
    BY <1>2, <1>3, <2>3
  <2>5. QED
    BY <2>1, <2>4 DEF Q35!NotDue
<1>7. CASE used = <<waiting_slot, Q35!Bogus>>
  <2>1. DOMAIN used = {1, 2} /\ used[1] = waiting_slot /\ used[2] = Q35!Bogus
    BY <1>7
  <2>2. Q35!Due(1) /\ ~Q35!Due(2)
    BY <1>1, <2>1
  <2>3. (\A j \in 1 .. 1 : j = 1) /\ 2 \in 1 .. 2
    OBVIOUS
  <2>4. Q35!Good = {1}
    BY <2>1, <2>2, <2>3 DEF Q35!Good
  <2>5. Q35!Cardinality(Q35!Good) + 1 = 2
    BY <1>2, <1>3, <2>4
  <2>6. QED
    BY <2>1, <2>5 DEF Q35!NotDue
<1>8. QED
  BY <1>1, <1>4, <1>5, <1>6, <1>7 DEF Q35!SlotPolled

(* A step that only returns an error: with the device in need of a reset, or *)
(* after a lapse.                                                            *)
LEMMA FailureStep ==
    ASSUME Q35Inv, waiting_slot # Q35!NoSlot, Q35!Return(Q35!Error), lapses = 0 => needs_reset',
           needs_reset' \in BOOLEAN,
           status' \in {"READY", "FAILED"}, requests' \in [Q35!Slot -> SlotRecord],
           used' \in Seq(UsedElement), queued' = queued
    PROVE  Q35Inv'
<1>1. /\ call' = Hv!NoCall /\ answer' = Hv!Error /\ waiting_slot' = Q35!NoSlot
      /\ UNCHANGED <<vstage, statuses, vdisk, vmedia, calls, lapses>>
  BY SameCalls DEF Q35!Return, Q35!medium
<1>2. VirtioParts'
  BY <1>1, VirtioTypeParts, Zenon DEF Q35Inv, VirtioParts
<1>3. CallTypes'
  BY <1>1, AnswerTypes, Zenon DEF Q35Inv, CallTypes, Answers
<1>4. Q35!Published
  BY PolledIsPublished
<1>5. Q35!CallIsPolled' /\ (lapses' = 0 => Q35!OnePolled')
  BY <1>1, <1>4, SameCalls DEF Q35!CallIsPolled, Q35!OnePolled, Q35!Published
<1>6. QED
  BY <1>2, <1>3, <1>5, VirtioTypeParts DEF Q35Inv

(* A bad descriptor, one out of turn, a wish for a reset and a time-out.     *)
LEMMA FailedPollSteps ==
    ASSUME Q35Inv, \/ Q35!virtio_blk_poll_protocol \/ Q35!virtio_blk_poll_invalid_state
                   \/ Q35!virtio_blk_poll_reset \/ Q35!wait_for_request_timeout
    PROVE  Q35Inv'
<1>0. VirtioParts
  BY VirtioTypeParts DEF Q35Inv
<1>1. CASE Q35!virtio_blk_poll_protocol
  <2>1. /\ waiting_slot # Q35!NoSlot /\ Q35!Return(Q35!Error) /\ needs_reset' = TRUE
        /\ status' = "FAILED" /\ requests' = Q35!Failed(Q35!Completed) /\ queued' = queued
        /\ used' = Q35!FromNotDue
    BY <1>1 DEF Q35!virtio_blk_poll_protocol, Q35!mark_transport_failed, Q35!Polling
  <2>2. requests' \in [Q35!Slot -> SlotRecord] /\ used' \in Seq(UsedElement)
    BY <1>0, <2>1, CompletedType
  <2>3. QED
    BY <2>1, <2>2, FailureStep
<1>2. CASE Q35!virtio_blk_poll_invalid_state
  <2>1. /\ Q35!Polling /\ waiting_slot # Q35!NoSlot /\ Q35!Return(Q35!Error)
        /\ requests' = Q35!Completed /\ used' = Q35!FromNotDue
        /\ UNCHANGED <<queued, needs_reset, status>>
        /\ Q35!Good # DOMAIN used /\ Q35!NotDue # Q35!Bogus
    BY <1>2 DEF Q35!virtio_blk_poll_invalid_state, Q35!Polling
  <2>2. requests' \in [Q35!Slot -> SlotRecord] /\ used' \in Seq(UsedElement)
    BY <1>0, <2>1, CompletedType
  <2>3. lapses # 0
    BY <2>1, NotDueIsBogus
  <2>4. needs_reset' \in BOOLEAN /\ status' \in {"READY", "FAILED"}
    BY <1>0, <2>1 DEF VirtioParts
  <2>5. QED
    BY <2>1, <2>2, <2>3, <2>4, FailureStep
<1>3. CASE Q35!virtio_blk_poll_reset
  BY <1>0, <1>3, FailureStep DEF Q35!virtio_blk_poll_reset, VirtioParts
<1>4. CASE Q35!wait_for_request_timeout
  <2>1. /\ waiting_slot # Q35!NoSlot /\ Q35!Return(Q35!Error) /\ needs_reset' = TRUE
        /\ status' = "FAILED" /\ UNCHANGED <<queued, used>>
        /\ requests' = Q35!Released(Q35!Failed(requests), waiting_slot)
    BY <1>4 DEF Q35!wait_for_request_timeout, Q35!mark_transport_failed, Q35!Polling
  <2>2. requests' \in [Q35!Slot -> SlotRecord]
    BY <1>0, <2>1, CompletedType, QueueConstants DEF Q35!Released
  <2>3. QED
    BY <1>0, <2>1, <2>2, FailureStep DEF VirtioParts
<1>5. QED
  BY <1>1, <1>2, <1>3, <1>4

(* When all elements are good the call's is the only one, if there is any.   *)
LEMMA AllGood ==
    ASSUME Q35Inv, Q35!Polling, lapses = 0, Q35!Good = DOMAIN used, used # <<>>
    PROVE  /\ used = <<waiting_slot>> /\ Q35!Good = {1} /\ used[1] = waiting_slot
           /\ queued = {} /\ Q35!Served(statuses[waiting_slot])
           /\ requests = [i \in Q35!Slot |-> IF i = waiting_slot THEN Q35!Available ELSE Q35!Free]
<1>1. /\ waiting_slot \in Q35!Slot /\ Q35!SlotPolled
      /\ \A k \in DOMAIN used : used[k] = Q35!Bogus => ~Q35!Due(k)
  BY PolledRing
<1>2. \A k \in DOMAIN used : used[k] # Q35!Bogus
  <2>1. ASSUME NEW k \in DOMAIN used PROVE Q35!Due(k)
    <3>1. k \in Q35!Good
      OBVIOUS
    <3>2. \A j \in 1 .. k : Q35!Due(j)
      BY <3>1 DEF Q35!Good
    <3>3. k \in 1 .. k
      BY VirtioTypeParts DEF Q35Inv, VirtioParts
    <3>4. QED
      BY <3>2, <3>3
  <2>2. QED
    BY <1>1, <2>1
<1>3. used # <<Q35!Bogus>>
  <2>1. SUFFICES ASSUME used = <<Q35!Bogus>> PROVE FALSE
    OBVIOUS
  <2>2. 1 \in DOMAIN used /\ used[1] = Q35!Bogus
    BY <2>1
  <2>3. QED
    BY <2>2, <1>2
<1>4. used # <<waiting_slot, Q35!Bogus>>
  <2>1. SUFFICES ASSUME used = <<waiting_slot, Q35!Bogus>> PROVE FALSE
    OBVIOUS
  <2>2. 2 \in DOMAIN used /\ used[2] = Q35!Bogus
    BY <2>1
  <2>3. QED
    BY <2>2, <1>2
<1>5. used # <<Q35!Bogus, waiting_slot>>
  <2>1. SUFFICES ASSUME used = <<Q35!Bogus, waiting_slot>> PROVE FALSE
    OBVIOUS
  <2>2. 1 \in DOMAIN used /\ used[1] = Q35!Bogus
    BY <2>1
  <2>3. QED
    BY <2>2, <1>2
<1>6. used = <<waiting_slot>> /\ queued = {} /\ Q35!Served(statuses[waiting_slot])
  BY <1>1, <1>3, <1>4, <1>5 DEF Q35!SlotPolled
<1>7. DOMAIN used = {1} /\ used[1] = waiting_slot
  BY <1>6
<1>8. QED
  BY <1>1, <1>6, <1>7 DEF Q35!SlotPolled

(* The completion a poll accepts is that of the call, and it is all there is.*)
LEMMA PollFinds ==
    ASSUME Q35Inv, Q35!virtio_blk_poll, lapses = 0
    PROVE  /\ waiting_slot \in Q35!Slot /\ queued = {} /\ Q35!Served(statuses[waiting_slot])
           /\ Q35!Completed[waiting_slot] = [state |-> "USED", ok |-> statuses[waiting_slot].ok,
                                             value |-> statuses[waiting_slot].value]
           /\ \A i \in Q35!Slot : i # waiting_slot => Q35!Completed[i] = Q35!Free
<1>1. Q35!Polling /\ Q35!Good = DOMAIN used /\ Q35!Completed[waiting_slot].state = "USED"
  BY DEF Q35!virtio_blk_poll
<1>2. waiting_slot \in Q35!Slot /\ requests[waiting_slot] = Q35!Available
  BY <1>1, PolledRing
<1>3. used # <<>>
  <2>1. SUFFICES ASSUME used = <<>> PROVE FALSE
    OBVIOUS
  <2>2. Q35!Good = {}
    BY <1>1, <2>1
  <2>3. Q35!Completed[waiting_slot] = requests[waiting_slot]
    BY <1>2, <2>2 DEF Q35!Completed
  <2>4. QED
    BY <1>1, <1>2, <2>3, QueueConstants
<1>4. /\ used = <<waiting_slot>> /\ Q35!Good = {1} /\ used[1] = waiting_slot
      /\ queued = {} /\ Q35!Served(statuses[waiting_slot])
      /\ requests = [i \in Q35!Slot |-> IF i = waiting_slot THEN Q35!Available ELSE Q35!Free]
  BY <1>1, <1>3, AllGood
<1>5. Q35!Completed[waiting_slot] = [state |-> "USED", ok |-> statuses[waiting_slot].ok,
                                     value |-> statuses[waiting_slot].value]
  BY <1>2, <1>4 DEF Q35!Completed
<1>6. ASSUME NEW i \in Q35!Slot, i # waiting_slot PROVE Q35!Completed[i] = Q35!Free
  BY <1>4, <1>6 DEF Q35!Completed
<1>7. QED
  BY <1>2, <1>4, <1>5, <1>6

(* A successful poll returns what the device has answered.                   *)
LEMMA PollStep ==
    ASSUME Q35Inv, Q35!virtio_blk_poll
    PROVE  Q35Inv'
<1>1. /\ requests' = Q35!Released(Q35!Completed, waiting_slot) /\ used' = <<>>
      /\ Q35!Return(Q35!Answered(Q35!Completed[waiting_slot]))
      /\ UNCHANGED <<queued, needs_reset, status>> /\ waiting_slot # Q35!NoSlot /\ ~needs_reset
  BY DEF Q35!virtio_blk_poll, Q35!Polling
<1>2. /\ call' = Hv!NoCall /\ answer' = Q35!Answered(Q35!Completed[waiting_slot])
      /\ waiting_slot' = Q35!NoSlot /\ UNCHANGED <<vstage, statuses, vdisk, vmedia, calls, lapses>>
  BY <1>1, SameCalls DEF Q35!Return, Q35!medium
<1>3. /\ waiting_slot \in Q35!Slot /\ Q35!Completed \in [Q35!Slot -> SlotRecord]
  BY <1>1, CompletedType, VirtioTypeParts DEF Q35Inv, VirtioParts
<1>4. VirtioParts'
  <2>1. requests' \in [Q35!Slot -> SlotRecord]
    BY <1>1, <1>3, QueueConstants DEF Q35!Released
  <2>2. used' \in Seq(UsedElement)
    BY <1>1
  <2>3. QED
    BY <1>1, <1>2, <2>1, <2>2, VirtioTypeParts, Zenon DEF Q35Inv, VirtioParts
<1>5. answer' \in Answers
  <2>1. Q35!Completed[waiting_slot] \in SlotRecord
    BY <1>3
  <2>2. Q35!Completed[waiting_slot].value \in Hv!Value \cup {NoValue}
    BY <2>1, Zenon DEF SlotRecord
  <2>3. QED
    BY <1>2, <2>2, AnswerTypes, SameCalls DEF Q35!Answered, Answers
<1>6. CallTypes'
  BY <1>2, <1>5, Zenon DEF Q35Inv, CallTypes
<1>7. Q35!CallIsPolled'
  BY <1>1, <1>2, PolledIsPublished, SameCalls DEF Q35!CallIsPolled, Q35!Published
<1>8. ASSUME lapses' = 0 PROVE Q35!OnePolled'
  <2>1. queued = {} /\ \A i \in Q35!Slot : i # waiting_slot => Q35!Completed[i] = Q35!Free
    BY <1>2, <1>8, PollFinds
  <2>2. requests' = [i \in Q35!Slot |-> Q35!Free]
    BY <1>1, <1>3, <2>1 DEF Q35!Released
  <2>3. Q35!SlotsIdle'
    BY <1>1, <2>1, <2>2 DEF Q35!SlotsIdle
  <2>4. status = "READY"
    BY <1>1, <1>2, <1>8 DEF Q35Inv, Q35!OnePolled
  <2>5. QED
    BY <1>1, <1>2, <2>3, <2>4, SameCalls DEF Q35!OnePolled
<1>9. QED
  BY <1>4, <1>6, <1>7, <1>8, VirtioTypeParts DEF Q35Inv

(* A poll that completes other slots only.                                   *)
LEMMA PollOthersStep ==
    ASSUME Q35Inv, Q35!virtio_blk_poll_others
    PROVE  Q35Inv' /\ lapses # 0
<1>1. /\ Q35!Polling /\ used # <<>> /\ Q35!Good = DOMAIN used
      /\ Q35!Completed[waiting_slot].state = "AVAILABLE"
      /\ requests' = Q35!Completed /\ used' = <<>>
      /\ UNCHANGED <<vstage, waiting_slot, statuses, queued, needs_reset, status, vdisk, vmedia>>
      /\ UNCHANGED <<calls, lapses, call, answer>>
  BY DEF Q35!virtio_blk_poll_others, Q35!medium, Q35!vdevice
<1>2. VirtioParts'
  <2>1. requests' \in [Q35!Slot -> SlotRecord]
    BY <1>1, CompletedType, VirtioTypeParts DEF Q35Inv
  <2>2. used' \in Seq(UsedElement)
    BY <1>1
  <2>3. QED
    BY <1>1, <2>1, <2>2, VirtioTypeParts, Zenon DEF Q35Inv, VirtioParts
<1>3. CallTypes'
  BY <1>1, Zenon DEF Q35Inv, CallTypes
<1>4. Q35!CallIsPolled'
  BY <1>1 DEF Q35Inv, Q35!CallIsPolled, Q35!Published
<1>5. ASSUME lapses = 0 PROVE FALSE
  <2>1. waiting_slot \in Q35!Slot /\ Q35!Good = {1} /\ used[1] = waiting_slot
    BY <1>1, <1>5, AllGood, PolledRing
  <2>2. Q35!Completed[waiting_slot].state = "USED"
    BY <2>1 DEF Q35!Completed
  <2>3. QED
    BY <1>1, <2>2
<1>6. QED
  BY <1>1, <1>2, <1>3, <1>4, <1>5, VirtioTypeParts DEF Q35Inv

(* Short sequences.                                                          *)
LEMMA AppendShort ==
    ASSUME NEW a, NEW b
    PROVE  Append(<<>>, b) = <<b>> /\ Append(<<a>>, b) = <<a, b>>
<1>1. Append(<<>>, b) = <<b>>
  OBVIOUS
<1>2. Append(<<a>>, b) = <<a, b>>
  <2>1. /\ Append(<<a>>, b) \in Seq({a, b}) /\ <<a, b>> \in Seq({a, b})
        /\ Len(Append(<<a>>, b)) = 2 /\ Len(<<a, b>>) = 2
        /\ Append(<<a>>, b)[1] = a /\ Append(<<a>>, b)[2] = b
        /\ <<a, b>>[1] = a /\ <<a, b>>[2] = b
    OBVIOUS
  <2>2. Len(Append(<<a>>, b)) = Len(<<a, b>>)
    BY <2>1
  <2>3. \A i \in 1 .. Len(Append(<<a>>, b)) : Append(<<a>>, b)[i] = <<a, b>>[i]
    BY <2>1
  <2>4. QED
    BY <2>1, <2>2, <2>3, SeqEqual, Zenon
<1>3. QED
  BY <1>1, <1>2

(* How the device moves the data of a call.                                  *)
LEMMA DeviceEffects ==
    ASSUME VirtioParts, NEW p \in queued, Q35!DeviceMoves(p.call)
    PROVE  /\ p.call.op # "write" => vdisk' = vdisk
           /\ p.call.op # "flush" => vmedia' = vmedia
           /\ p.call.op = "write" => vdisk' = [vdisk EXCEPT ![p.call.sector] = p.call.value]
           /\ p.call.op = "flush" => vmedia' = vdisk
           /\ vdisk' \in [Hv!Sector -> Hv!Value] /\ vmedia' \in [Hv!Sector -> Hv!Value]
<1>1. p.call \in Hv!Call
  BY DEF VirtioParts
<1>2. CASE p.call.op = "write"
  <2>1. vdisk' = [vdisk EXCEPT ![p.call.sector] = p.call.value] /\ vmedia' = vmedia
    BY <1>2, Zenon DEF Q35!DeviceMoves
  <2>2. QED
    BY <1>1, <1>2, <2>1, CallShapes DEF VirtioParts
<1>3. CASE p.call.op = "flush"
  <2>1. vmedia' = vdisk /\ vdisk' = vdisk
    BY <1>3, Zenon DEF Q35!DeviceMoves
  <2>2. QED
    BY <1>3, <2>1 DEF VirtioParts
<1>4. CASE p.call.op = "read"
  <2>1. UNCHANGED Q35!medium
    BY <1>4, Zenon DEF Q35!DeviceMoves
  <2>2. QED
    BY <1>4, <2>1 DEF VirtioParts, Q35!medium
<1>5. QED
  BY <1>1, <1>2, <1>3, <1>4, CallShapes

(* The device returns a descriptor, whose status tells what it has done.     *)
LEMMA DeviceUsesStep ==
    ASSUME Q35Inv, NEW p \in queued, NEW ok \in BOOLEAN, Q35!DeviceUses(p, ok),
           vdisk' \in [Hv!Sector -> Hv!Value], vmedia' \in [Hv!Sector -> Hv!Value],
           p.call.op = "read" => vdisk' = vdisk,
           ok /\ p.call.op = "write" => vdisk'[p.call.sector] = p.call.value,
           ok /\ p.call.op = "flush" => vmedia' = vdisk'
    PROVE  Q35Inv'
<1>0. VirtioParts
  BY VirtioTypeParts DEF Q35Inv
<1>1. PICK e : /\ e = [ok |-> ok,
                       value |-> IF p.call.op = "read" /\ ok THEN vdisk[p.call.sector] ELSE NoValue]
               /\ queued' = queued \ {p} /\ used' = Append(used, p.slot)
               /\ statuses' = [statuses EXCEPT ![p.slot] = e]
               /\ UNCHANGED <<vstage, requests, waiting_slot, needs_reset, status, calls, lapses>>
               /\ UNCHANGED <<call, answer>>
  BY DEF Q35!DeviceUses, Q35!vdevice
<1>2. p.call \in Hv!Call /\ p.slot \in Q35!Slot
  BY <1>0, CallShapes DEF VirtioParts
<1>3. e \in StatusRecord
  <2>1. \A o \in BOOLEAN, w \in Hv!Value \cup {NoValue} : [ok |-> o, value |-> w] \in StatusRecord
    BY DEF StatusRecord
  <2>2. (IF p.call.op = "read" /\ ok THEN vdisk[p.call.sector] ELSE NoValue) \in Hv!Value \cup {NoValue}
    BY <1>0, <1>2, CallShapes DEF VirtioParts
  <2>3. QED
    BY <1>1, <2>1, <2>2, Zenon
<1>4. /\ e.ok = ok
      /\ e.value = IF p.call.op = "read" /\ ok THEN vdisk[p.call.sector] ELSE NoValue
      /\ statuses'[p.slot] = e
  BY <1>0, <1>1, <1>2 DEF VirtioParts
<1>5. VirtioParts'
  <2>1. used' \in Seq(UsedElement)
    BY <1>0, <1>1, <1>2 DEF VirtioParts, UsedElement
  <2>2. queued' \subseteq [slot : Q35!Slot, call : Hv!Call]
    BY <1>0, <1>1 DEF VirtioParts
  <2>3. statuses' \in [Q35!Slot -> StatusRecord]
    BY <1>0, <1>1, <1>2, <1>3 DEF VirtioParts
  <2>4. QED
    BY <1>0, <1>1, <2>1, <2>2, <2>3, Zenon DEF VirtioParts
<1>6. CallTypes'
  BY <1>1, Zenon DEF Q35Inv, CallTypes
<1>7. Q35!Published
  BY PolledIsPublished
<1>8. Q35!CallIsPolled'
  BY <1>1, <1>7 DEF Q35Inv, Q35!CallIsPolled, Q35!Published
<1>9. ASSUME lapses' = 0 PROVE Q35!OnePolled'
  <2>1. Q35!OnePolled /\ lapses = 0
    BY <1>1, <1>9 DEF Q35Inv
  <2>2. ~needs_reset => call # Q35!NoCall
    BY <2>1 DEF Q35!OnePolled, Q35!SlotsIdle
  <2>3. ASSUME ~needs_reset PROVE Q35!SlotPolled'
    <3>1. Q35!SlotPolled
      BY <2>1, <2>2, <2>3 DEF Q35!OnePolled
    <3>2. p = [slot |-> waiting_slot, call |-> call] /\ queued = {p} /\ used \in {<<>>, <<Q35!Bogus>>}
      BY <3>1 DEF Q35!SlotPolled
    <3>3. p.slot = waiting_slot /\ p.call = call
      BY <3>2
    <3>4. Q35!Served(e)'
      BY <1>1, <1>2, <1>4, <3>3, CallShapes DEF Q35!Served
    <3>5. queued' = {} /\ statuses'[waiting_slot'] = e
      BY <1>1, <1>4, <3>2, <3>3
    <3>6. used' \in {<<waiting_slot'>>, <<Q35!Bogus, waiting_slot'>>}
      BY <1>1, <3>2, <3>3, AppendShort
    <3>7. Q35!Served(statuses[waiting_slot])'
      BY <3>4, <3>5 DEF Q35!Served
    <3>8. requests' = [i \in Q35!Slot |-> IF i = waiting_slot' THEN Q35!Available ELSE Q35!Free]
      BY <1>1, <3>1 DEF Q35!SlotPolled
    <3>9. QED
      BY <3>5, <3>6, <3>7, <3>8 DEF Q35!SlotPolled
  <2>4. QED
    BY <1>1, <2>1, <2>2, <2>3 DEF Q35!OnePolled
<1>10. QED
  BY <1>5, <1>6, <1>8, <1>9, VirtioTypeParts DEF Q35Inv

(* The device carries a request out or reports an error.                     *)
LEMMA DeviceStep ==
    ASSUME Q35Inv, NEW p \in queued, Q35!DevicePerforms(p) \/ Q35!DeviceRejects(p)
    PROVE  Q35Inv'
<1>0. VirtioParts /\ p.call \in Hv!Call
  BY VirtioTypeParts DEF Q35Inv, VirtioParts
<1>1. CASE Q35!DevicePerforms(p)
  <2>1. Q35!DeviceMoves(p.call) /\ Q35!DeviceUses(p, TRUE)
    BY <1>1 DEF Q35!DevicePerforms
  <2>2. /\ p.call.op # "write" => vdisk' = vdisk
        /\ p.call.op = "write" => vdisk' = [vdisk EXCEPT ![p.call.sector] = p.call.value]
        /\ p.call.op = "flush" => vmedia' = vdisk
        /\ vdisk' \in [Hv!Sector -> Hv!Value] /\ vmedia' \in [Hv!Sector -> Hv!Value]
    BY <1>0, <2>1, DeviceEffects
  <2>3. p.call.op = "write" => vdisk'[p.call.sector] = p.call.value
    BY <1>0, <2>2, CallShapes DEF VirtioParts
  <2>4. QED
    BY <2>1, <2>2, <2>3, DeviceUsesStep
<1>2. CASE Q35!DeviceRejects(p)
  <2>1. /\ UNCHANGED <<vdisk, vmedia>> \/ (p.call.op = "write" /\ Q35!DeviceMoves(p.call))
        /\ Q35!DeviceUses(p, FALSE)
    BY <1>2 DEF Q35!DeviceRejects, Q35!medium
  <2>2. /\ p.call.op # "write" => vdisk' = vdisk
        /\ vdisk' \in [Hv!Sector -> Hv!Value] /\ vmedia' \in [Hv!Sector -> Hv!Value]
    <3>1. CASE UNCHANGED <<vdisk, vmedia>>
      BY <1>0, <3>1 DEF VirtioParts
    <3>2. CASE Q35!DeviceMoves(p.call)
      BY <1>0, <3>2, DeviceEffects
    <3>3. QED
      BY <2>1, <3>1, <3>2
  <2>3. QED
    BY <2>1, <2>2, DeviceUsesStep
<1>3. QED
  BY <1>1, <1>2

(* The device asks for a reset, or returns a descriptor that heads no        *)
(* request.                                                                  *)
LEMMA DeviceBreaksStep ==
    ASSUME Q35Inv, Q35!DeviceBreaks
    PROVE  Q35Inv'
<1>0. VirtioParts
  BY VirtioTypeParts DEF Q35Inv
<1>1. /\ Q35!Published /\ ~needs_reset
      /\ UNCHANGED <<vstage, requests, waiting_slot, statuses, queued, status, vdisk, vmedia>>
      /\ UNCHANGED <<calls, lapses, call, answer>>
  BY DEF Q35!DeviceBreaks, Q35!medium, Q35!vdevice
<1>2. CallTypes' /\ Q35!CallIsPolled'
  <2>1. CallTypes'
    BY <1>1, Zenon DEF Q35Inv, CallTypes
  <2>2. Q35!CallIsPolled'
    BY <1>1 DEF Q35Inv, Q35!CallIsPolled, Q35!Published
  <2>3. QED
    BY <2>1, <2>2
<1>3. CASE needs_reset' = TRUE /\ used' = used
  <2>1. VirtioParts'
    BY <1>0, <1>1, <1>3, Zenon DEF VirtioParts
  <2>2. Q35!OnePolled'
    BY <1>3 DEF Q35!OnePolled
  <2>3. QED
    BY <1>2, <2>1, <2>2, VirtioTypeParts DEF Q35Inv
<1>4. CASE /\ used' = Append(used, Q35!Bogus) /\ needs_reset' = needs_reset
           /\ Q35!Bogus \notin {used[k] : k \in DOMAIN used}
  <2>1. used' \in Seq(UsedElement)
    BY <1>0, <1>4 DEF VirtioParts, UsedElement
  <2>2. VirtioParts'
    BY <1>0, <1>1, <1>4, <2>1, Zenon DEF VirtioParts
  <2>3. \A k \in DOMAIN used : used[k] # Q35!Bogus
    BY <1>4
  <2>4. PICK b : b = Q35!Bogus
    OBVIOUS
  <2>5. used # <<b>> /\ \A w : used # <<w, b>> /\ used # <<b, w>>
    <3>1. ASSUME used = <<b>> PROVE FALSE
      <4>1. 1 \in DOMAIN used /\ used[1] = b
        BY <3>1
      <4>2. QED
        BY <2>3, <2>4, <4>1
    <3>2. ASSUME NEW w, used = <<w, b>> PROVE FALSE
      <4>1. 2 \in DOMAIN used /\ used[2] = b
        BY <3>2
      <4>2. QED
        BY <2>3, <2>4, <4>1
    <3>3. ASSUME NEW w, used = <<b, w>> PROVE FALSE
      <4>1. 1 \in DOMAIN used /\ used[1] = b
        BY <3>3
      <4>2. QED
        BY <2>3, <2>4, <4>1
    <3>4. QED
      BY <3>1, <3>2, <3>3
  <2>6. /\ used = <<>> => used' = <<b>>
        /\ \A w : used = <<w>> => used' = <<w, b>>
    BY <1>4, <2>4, AppendShort
  <2>7. Q35!SlotsIdle => Q35!SlotsIdle'
    BY <1>1, <2>4, <2>5, <2>6 DEF Q35!SlotsIdle
  <2>8. ASSUME Q35!SlotPolled PROVE Q35!SlotPolled'
    <3>1. requests' = [i \in Q35!Slot |-> IF i = waiting_slot' THEN Q35!Available ELSE Q35!Free]
      BY <1>1, <2>8 DEF Q35!SlotPolled
    <3>2. CASE queued = {[slot |-> waiting_slot, call |-> call]} /\ used = <<>>
      BY <1>1, <2>4, <2>6, <3>1, <3>2 DEF Q35!SlotPolled
    <3>3. CASE queued = {} /\ Q35!Served(statuses[waiting_slot]) /\ used = <<waiting_slot>>
      <4>1. Q35!Served(statuses[waiting_slot])'
        BY <1>1, <3>3 DEF Q35!Served
      <4>2. used' = <<waiting_slot', Q35!Bogus>> /\ queued' = {}
        BY <1>1, <2>4, <2>6, <3>3
      <4>3. QED
        BY <3>1, <4>1, <4>2 DEF Q35!SlotPolled
    <3>4. QED
      BY <2>4, <2>5, <2>8, <3>2, <3>3 DEF Q35!SlotPolled
  <2>9. lapses' = 0 => Q35!OnePolled'
    BY <1>1, <1>4, <2>7, <2>8 DEF Q35Inv, Q35!OnePolled
  <2>10. QED
    BY <1>2, <2>2, <2>9, VirtioTypeParts DEF Q35Inv
<1>5. QED
  BY <1>3, <1>4 DEF Q35!DeviceBreaks

(* The device returns a slot out of turn.                                    *)
LEMMA DeviceRepeatsStep ==
    ASSUME Q35Inv, Q35!DeviceRepeats
    PROVE  Q35Inv' /\ lapses' # 0
<1>0. VirtioParts
  BY VirtioTypeParts DEF Q35Inv
<1>1. /\ Q35!Published /\ lapses < MaxLapses /\ lapses' = lapses + 1
      /\ UNCHANGED <<vstage, requests, waiting_slot, statuses, queued, needs_reset, status>>
      /\ UNCHANGED <<vdisk, vmedia, calls, call, answer>>
  BY DEF Q35!DeviceRepeats, Q35!medium, Q35!vdevice
<1>2. PICK i \in Q35!Slot : used' = Append(used, i)
  BY DEF Q35!DeviceRepeats
<1>3. VirtioParts'
  <2>1. used' \in Seq(UsedElement)
    BY <1>0, <1>2 DEF VirtioParts, UsedElement
  <2>2. QED
    BY <1>0, <1>1, <2>1, Zenon DEF VirtioParts
<1>4. CallTypes' /\ lapses' # 0
  BY <1>1, Constants DEF Q35Inv, CallTypes
<1>5. Q35!CallIsPolled'
  BY <1>1 DEF Q35Inv, Q35!CallIsPolled, Q35!Published
<1>6. QED
  BY <1>3, <1>4, <1>5, VirtioTypeParts DEF Q35Inv

-----------------------------------------------------------------------------
(* The platform.                                                             *)

(* RequestsAccounted and PublishedIsEligible, driver by driver.              *)
Kept ==
    /\ platform \in {"hyperv", "q35"}
    /\ OnHyperv => HvAlways /\ (lapses = 0 => HvTracked) /\ Q35!VirtioTypeOK
    /\ ~OnHyperv => Q35Inv /\ Hv!StorTypeOK /\ Hv!RingsIdle

(* It holds at boot.                                                         *)
LEMMA InitKept == Init => Kept
<1> SUFFICES ASSUME Init PROVE Kept
  OBVIOUS
<1>1. /\ MaxLun \in Nat /\ MaxCalls \in Nat /\ MaxLapses \in Nat
      /\ disk \in [Hv!Lun -> Hv!Contents \cup {<<>>}] /\ vdisk \in Hv!Contents
  BY Constants DEF Init, Hv!StorInit, Q35!VirtioInit
<1>2. Hv!StorInit /\ Q35!VirtioInit
  BY DEF Init
<1>3. SearchTypes
  <2>1. Position
    BY <1>1, <1>2 DEF Hv!StorInit, Position, Hv!Versions, Hv!Lun
  <2>2. Flags
    BY <1>2, Zenon DEF Hv!StorInit, Flags
  <2>3. QED
    BY <2>1, <2>2 DEF SearchTypes
<1>4. ChannelTypes /\ Hv!RingsIdle
  BY <1>2 DEF Hv!StorInit, ChannelTypes, Hv!RingsIdle
<1>5. PlatterTypes /\ disk = original /\ media = original
  BY <1>1, <1>2 DEF Hv!StorInit, PlatterTypes
<1>6. BounceType
  BY <1>2 DEF Hv!StorInit, BounceType, Hv!Unread, Hv!Probe, Hv!Value
<1>7. CallTypes /\ call = Hv!NoCall /\ answer = Hv!NoAnswer /\ lapses = 0
  BY <1>1, <1>2, AnswerTypes DEF Hv!StorInit, CallTypes, Answers
<1>8. Hv!OneExchange /\ Hv!CallIsExchange /\ Hv!SearchSound /\ Hv!OthersUntouched
  BY <1>2, <1>4, <1>5, <1>7
     DEF Hv!StorInit, Hv!OneExchange, Hv!CallIsExchange, Hv!SearchSound, Hv!OthersUntouched
<1>9. WritesPublished /\ Backlog
  <2>1. outbound = {} /\ inbound = <<>>
    BY <1>4 DEF Hv!RingsIdle
  <2>2. IsFiniteSet(outbound) /\ Cardinality(outbound) = 0 /\ Len(inbound) = 0
    BY <2>1, FS_EmptySet
  <2>3. QED
    BY <1>7, <2>1, <2>2 DEF WritesPublished, Backlog
<1>10. VirtioParts
  <2>1. requests \in [Q35!Slot -> SlotRecord] /\ statuses \in [Q35!Slot -> StatusRecord]
    BY <1>2, QueueConstants DEF Q35!VirtioInit
  <2>2. used \in Seq(UsedElement) /\ queued = {}
    BY <1>2 DEF Q35!VirtioInit
  <2>3. vdisk \in [Hv!Sector -> Hv!Value] /\ vmedia \in [Hv!Sector -> Hv!Value]
    BY <1>1, <1>2 DEF Q35!VirtioInit, Hv!Contents
  <2>4. QED
    BY <1>2, <2>1, <2>2, <2>3, Zenon DEF Q35!VirtioInit, VirtioParts
<1>11. Q35!OnePolled /\ Q35!CallIsPolled
  BY <1>2, SameCalls DEF Q35!VirtioInit, Q35!OnePolled, Q35!CallIsPolled, Q35!Published, Q35!SlotsIdle
<1>12. HvAlways /\ HvTracked /\ Q35Inv /\ Hv!StorTypeOK /\ Q35!VirtioTypeOK
  BY <1>3, <1>4, <1>5, <1>6, <1>7, <1>8, <1>9, <1>10, <1>11, StorTypeParts, VirtioTypeParts
     DEF HvAlways, HvTracked, Q35Inv
<1>13. QED
  BY <1>4, <1>12 DEF Init, Kept

(* The driver that is not selected keeps what it has.                        *)
LEMMA OtherDriverRests ==
    /\ Q35!VirtioTypeOK /\ UNCHANGED q35Only => Q35!VirtioTypeOK'
    /\ Hv!StorTypeOK /\ Hv!RingsIdle /\ UNCHANGED hypervOnly => Hv!StorTypeOK' /\ Hv!RingsIdle'
<1>1. ASSUME Q35!VirtioTypeOK, UNCHANGED q35Only PROVE Q35!VirtioTypeOK'
  BY <1>1, Zenon DEF q35Only, Q35!VirtioTypeOK
<1>2. ASSUME Hv!StorTypeOK, Hv!RingsIdle, UNCHANGED hypervOnly PROVE Hv!StorTypeOK' /\ Hv!RingsIdle'
  BY <1>2, Zenon DEF hypervOnly, Hv!StorTypeOK, Hv!RingsIdle
<1>3. QED
  BY <1>1, <1>2

(* Every step of the Hyper-V driver and its host.                            *)
LEMMA HypervKept ==
    ASSUME HvAlways, lapses = 0 => HvTracked, Hv!StorNext
    PROVE  HvAlways' /\ (lapses' = 0 => lapses = 0 /\ HvTracked')
<1>1. HvAlways' /\ lapses' >= lapses
  BY HypervAlways
<1>2. lapses \in Nat /\ lapses' \in Nat
  BY <1>1 DEF HvAlways, CallTypes
<1>3. lapses' = 0 => lapses = 0
  BY <1>1, <1>2
<1>4. lapses' = 0 => HvTracked'
  BY <1>3, HypervTracked DEF HvInv
<1>5. QED
  BY <1>1, <1>3, <1>4

(* Every step of the virtio driver and its device.                           *)
LEMMA Q35Kept ==
    ASSUME Q35Inv, Q35!VirtioNext
    PROVE  Q35Inv' /\ (lapses' = 0 => lapses = 0)
<1>1. CASE Q35!virtio_blk_initialize
  BY <1>1, VirtioInitializeStep DEF Q35!virtio_blk_initialize
<1>2. CASE Q35!VirtioCalls
  BY <1>2, SubmitStep, SubmitRefusedStep
     DEF Q35!VirtioCalls, Q35!virtio_blk_submit, Q35!virtio_blk_submit_refused
<1>3. CASE Q35!VirtioPolls
  <2>1. Q35Inv'
    BY <1>3, PollStep, PollOthersStep, FailedPollSteps DEF Q35!VirtioPolls
  <2>2. lapses' = lapses
    BY <1>3
       DEF Q35!VirtioPolls, Q35!virtio_blk_poll, Q35!virtio_blk_poll_others, Q35!virtio_blk_poll_protocol,
           Q35!virtio_blk_poll_invalid_state, Q35!virtio_blk_poll_reset, Q35!wait_for_request_timeout,
           Q35!Return
  <2>3. QED
    BY <2>1, <2>2
<1>4. ASSUME NEW p \in queued, Q35!DevicePerforms(p) \/ Q35!DeviceRejects(p)
      PROVE  Q35Inv' /\ lapses' = lapses
  BY <1>4, DeviceStep DEF Q35!DevicePerforms, Q35!DeviceRejects, Q35!DeviceUses
<1>5. CASE Q35!DeviceBreaks
  BY <1>5, DeviceBreaksStep DEF Q35!DeviceBreaks
<1>6. CASE Q35!DeviceRepeats
  BY <1>6, DeviceRepeatsStep
<1>7. QED
  BY <1>1, <1>2, <1>3, <1>4, <1>5, <1>6 DEF Q35!VirtioNext, Q35!VirtioDevice

(* Every step of the platform; a lapse is never forgotten.                   *)
LEMMA NextKept == Kept /\ [Next]_vars => Kept' /\ (lapses' = 0 => lapses = 0)
<1> SUFFICES ASSUME Kept, [Next]_vars PROVE Kept' /\ (lapses' = 0 => lapses = 0)
  OBVIOUS
<1>1. CASE HypervStep
  <2>1. OnHyperv /\ platform' = platform /\ UNCHANGED q35Only /\ Hv!StorNext
    BY <1>1 DEF HypervStep
  <2>2. HvAlways' /\ (lapses' = 0 => lapses = 0 /\ HvTracked')
    BY <2>1, HypervKept DEF Kept
  <2>3. QED
    BY <2>1, <2>2, OtherDriverRests DEF Kept, OnHyperv
<1>2. CASE Q35Step
  <2>1. ~OnHyperv /\ platform' = platform /\ UNCHANGED hypervOnly /\ Q35!VirtioNext
    BY <1>2 DEF Q35Step
  <2>2. Q35Inv' /\ (lapses' = 0 => lapses = 0)
    BY <2>1, Q35Kept DEF Kept
  <2>3. QED
    BY <2>1, <2>2, OtherDriverRests DEF Kept, OnHyperv
<1>3. CASE UNCHANGED vars
  <2>1. /\ platform' = platform /\ UNCHANGED hypervOnly /\ UNCHANGED q35Only
        /\ UNCHANGED <<calls, lapses, call, answer>>
    BY <1>3 DEF vars
  <2>2. ASSUME HvAlways PROVE HvAlways'
    <3>1. SearchTypes' /\ ChannelTypes' /\ PlatterTypes' /\ BounceType' /\ CallTypes'
      BY <2>1, <2>2, Zenon
         DEF HvAlways, SearchTypes, Position, Flags, ChannelTypes, PlatterTypes, BounceType, CallTypes,
             hypervOnly
    <3>2. Hv!CallIsExchange' /\ Hv!OthersUntouched' /\ WritesPublished'
      BY <2>1, <2>2
         DEF HvAlways, hypervOnly, Hv!CallIsExchange, Hv!OthersUntouched, WritesPublished
    <3>3. Backlog'
      BY <2>1, <2>2, Zenon DEF HvAlways, hypervOnly, Backlog, Owed
    <3>4. QED
      BY <3>1, <3>2, <3>3 DEF HvAlways
  <2>3. ASSUME HvTracked PROVE HvTracked'
    <3>1. Hv!StageRequest' = Hv!StageRequest /\ \A c : Hv!CallRequest(c)' = Hv!CallRequest(c)
      BY <2>1, RequestsStable DEF hypervOnly
    <3>2. Hv!OneExchange'
      BY <2>1, <2>3, <3>1
         DEF HvTracked, hypervOnly, Hv!OneExchange, Hv!RingsIdle, Hv!InFlight, Hv!Done, Hv!Abandoned,
             Hv!Current, Hv!Carried, Hv!Present
    <3>3. Hv!SearchSound'
      BY <2>1, <2>3 DEF HvTracked, hypervOnly, Hv!SearchSound, Hv!Present, Hv!Eligible
    <3>4. QED
      BY <3>2, <3>3 DEF HvTracked
  <2>4. ASSUME Q35Inv PROVE Q35Inv'
    <3>1. CallTypes'
      BY <2>1, <2>4, Zenon DEF Q35Inv, CallTypes
    <3>2. Q35!CallIsPolled'
      BY <2>1, <2>4 DEF Q35Inv, q35Only, Q35!CallIsPolled, Q35!Published
    <3>3. lapses' = 0 => Q35!OnePolled'
      BY <2>1, <2>4
         DEF Q35Inv, q35Only, Q35!OnePolled, Q35!SlotsIdle, Q35!SlotPolled, Q35!Served
    <3>4. QED
      BY <2>1, <2>4, <3>1, <3>2, <3>3, OtherDriverRests DEF Q35Inv
  <2>5. QED
    BY <2>1, <2>2, <2>3, <2>4, OtherDriverRests DEF Kept, OnHyperv
<1>4. QED
  BY <1>1, <1>2, <1>3 DEF Next

(* The inductive invariant holds of every behaviour.                         *)
LEMMA KeptAlways == Spec => []Kept
<1>1. Kept /\ [Next]_vars => Kept'
  BY NextKept
<1>2. QED
  BY <1>1, InitKept, PTL DEF Spec

(* What it says of the drivers.                                              *)
LEMMA KeptMeans == Kept => RequestsAccounted /\ PublishedIsEligible
<1> SUFFICES ASSUME Kept PROVE RequestsAccounted /\ PublishedIsEligible
  OBVIOUS
<1>1. TypeOK
  BY StorTypeParts DEF Kept, HvAlways, Q35Inv, TypeOK, CallTypes, Answers
<1>2. OneOutstanding
  <2>1. CASE OnHyperv
    BY <2>1 DEF Kept, HvAlways, Backlog, OneOutstanding
  <2>2. CASE ~OnHyperv
    <3>1. Cardinality(outbound) = 0 /\ Len(inbound) = 0
      BY <2>2, FS_EmptySet DEF Kept, Hv!RingsIdle
    <3>2. lapses \in Nat
      BY <1>1 DEF TypeOK
    <3>3. QED
      BY <3>1, <3>2 DEF OneOutstanding
  <2>3. QED
    BY <2>1, <2>2
<1>3. SlotsReturned
  BY QueueConstants DEF Kept, Q35Inv, SlotsReturned, Q35!OnePolled, Q35!SlotsIdle
<1>4. QED
  BY <1>1, <1>2, <1>3
     DEF Kept, HvAlways, HvTracked, Q35Inv, RequestsAccounted, PublishedIsEligible

(* Whatever the host, the device and the layers above do, neither driver     *)
(* loses track of a request before a channel write has failed in its signal, *)
(* a time-out has struck the search, or a packet or a used element has come  *)
(* out of turn; each of these costs one packet at most, and no disk but the  *)
(* published one is ever written (execute_scsi and wait_completion,          *)
(* virtio_blk_submit and virtio_blk_poll).                                   *)
THEOREM Accounting == Spec => []RequestsAccounted
  BY KeptAlways, KeptMeans, PTL

(* Whatever else fails on the way, the disk that is published before the     *)
(* first lapse carries both superblocks, or its first and last sectors are   *)
(* zero (block_hyperv_initialize_primary, block_classify_data_disk).         *)
THEOREM Eligibility == Spec => []PublishedIsEligible
  BY KeptAlways, KeptMeans, PTL

-----------------------------------------------------------------------------
(* The drivers implement BlockDevice.                                        *)

Attached == IF OnHyperv THEN stage = "ready" ELSE Q35!Published
May == IF OnHyperv THEN Hv!StorMay ELSE Q35!VirtioMay
Stable == IF OnHyperv THEN Hv!StorStable ELSE Q35!VirtioStable

(* The actions of BlockDevice over the mapped variables.                     *)
LEMMA DeviceActions ==
    /\ Attached \in BOOLEAN /\ Attached' \in BOOLEAN
    /\ UNCHANGED <<lapses, May, Stable, call, answer>> /\ Attached' = Attached => UNCHANGED Device!bdVars
    /\ Device!BdAttach <=>
         /\ ~Attached /\ Attached' /\ Stable' \in [Hv!Sector -> Hv!Value]
         /\ May' = [s \in Hv!Sector |-> {Stable'[s]}] /\ UNCHANGED <<call, answer>>
    /\ Device!BdStart <=>
         /\ Attached /\ call = Hv!NoCall /\ call' \in Hv!Call /\ answer' = Hv!NoAnswer
         /\ May' = IF call'.op = "write"
                   THEN [May EXCEPT ![call'.sector] = @ \cup {call'.value}] ELSE May
         /\ Attached' = Attached /\ Stable' = Stable
    /\ Device!BdSettle <=>
         /\ Attached
         /\ \E s \in Hv!Sector : \E left \in (SUBSET May[s]) \ {{}} : May' = [May EXCEPT ![s] = left]
         /\ Attached' = Attached /\ UNCHANGED <<Stable, call, answer>>
    /\ Device!BdPersist <=>
         /\ Attached
         /\ Stable' \in [Hv!Sector -> Hv!Value]
         /\ \A s \in Hv!Sector : Stable'[s] \in {Stable[s]} \cup May[s]
         /\ Attached' = Attached /\ UNCHANGED <<May, call, answer>>
    /\ Device!BdFinish <=>
         /\ Attached /\ call # Hv!NoCall /\ call' = Hv!NoCall
         /\ \/ answer' = Hv!Error
            \/ /\ answer'.status = "ok"
               /\ \/ call.op = "read" /\ May[call.sector] = {answer'.value}
                  \/ call.op = "write" /\ May[call.sector] = {call.value} /\ answer'.value = NoValue
                  \/ /\ call.op = "flush" /\ answer'.value = NoValue
                     /\ \A s \in Hv!Sector : May[s] = {Stable[s]}
         /\ Attached' = Attached /\ UNCHANGED <<May, Stable>>
    /\ Device!BdRefuse <=>
         /\ Attached /\ call = Hv!NoCall /\ answer' = Hv!Error
         /\ Attached' = Attached /\ UNCHANGED <<May, Stable, call>>
<1>1. Attached \in BOOLEAN /\ Attached' \in BOOLEAN
  BY Zenon DEF Attached, Q35!Published
<1>2. UNCHANGED <<lapses, May, Stable, call, answer>> /\ Attached' = Attached => UNCHANGED Device!bdVars
  BY Zenon DEF Device!bdVars, Attached, May, Stable
<1>3. QED
  BY <1>1, <1>2, SameCalls, Zenon
     DEF Device!BdAttach, Device!BdStart, Device!BdSettle, Device!BdPersist, Device!BdFinish,
         Device!BdRefuse, Device!Granted, Attached, May, Stable

(* The mapped variables under Hyper-V.                                       *)
LEMMA MappedHyperv ==
    ASSUME OnHyperv, platform' = platform
    PROVE  /\ Attached = (stage = "ready") /\ Attached' = (stage' = "ready")
           /\ May = Hv!StorMay /\ May' = Hv!StorMay'
           /\ Stable = Hv!StorStable /\ Stable' = Hv!StorStable'
  BY DEF Attached, May, Stable, OnHyperv

(* Before publication there is nothing to see.                               *)
LEMMA UnpublishedHyperv ==
    /\ stage # "ready" => /\ Hv!StorMay = [s \in Hv!Sector |-> {}]
                          /\ Hv!StorStable = [s \in Hv!Sector |-> NoValue]
    /\ stage' # "ready" => /\ Hv!StorMay' = [s \in Hv!Sector |-> {}]
                           /\ Hv!StorStable' = [s \in Hv!Sector |-> NoValue]
  BY DEF Hv!StorMay, Hv!StorStable

(* What a published sector may hold, given what is in the ring.              *)
Pending(p, s) ==
    IF p.request.op = "write" /\ p.request.first = s /\ p.request.lun = lun
    THEN {p.request.value} ELSE {}

(* The contents in doubt are those of the write that is in the ring.         *)
LEMMA MayOf ==
    ASSUME stage = "ready"
    PROVE  /\ Hv!StorStable = [s \in Hv!Sector |-> media[lun][s]]
           /\ outbound = {} => Hv!StorMay = [s \in Hv!Sector |-> {disk[lun][s]}]
           /\ \A p : outbound = {p} =>
                Hv!StorMay = [s \in Hv!Sector |-> {disk[lun][s]} \cup Pending(p, s)]
<1>1. Hv!StorStable = [s \in Hv!Sector |-> media[lun][s]]
  BY DEF Hv!StorStable
<1>2. Hv!StorMay =
        [s \in Hv!Sector |->
           {disk[lun][s]} \cup
             {p.request.value : p \in {p \in outbound : /\ p.request.op = "write"
                                                        /\ p.request.first = s
                                                        /\ p.request.lun = lun}}]
  BY DEF Hv!StorMay
<1>3. ASSUME outbound = {} PROVE Hv!StorMay = [s \in Hv!Sector |-> {disk[lun][s]}]
  BY <1>2, <1>3
<1>4. ASSUME NEW p, outbound = {p}
      PROVE  Hv!StorMay = [s \in Hv!Sector |-> {disk[lun][s]} \cup Pending(p, s)]
  <2>1. ASSUME NEW s
        PROVE  {q.request.value : q \in {q \in outbound : /\ q.request.op = "write"
                                                          /\ q.request.first = s
                                                          /\ q.request.lun = lun}} = Pending(p, s)
    BY <1>4 DEF Pending
  <2>2. QED
    BY <1>2, <2>1
<1>5. QED
  BY <1>1, <1>3, <1>4

(* The same of the next state.                                               *)
LEMMA MayOfNext ==
    ASSUME stage' = "ready"
    PROVE  /\ Hv!StorStable' = [s \in Hv!Sector |-> media'[lun'][s]]
           /\ outbound' = {} => Hv!StorMay' = [s \in Hv!Sector |-> {disk'[lun'][s]}]
           /\ \A p : outbound' = {p} =>
                Hv!StorMay' = [s \in Hv!Sector |-> {disk'[lun'][s]} \cup Pending(p, s)']
<1>1. Hv!StorStable' = [s \in Hv!Sector |-> media'[lun'][s]]
  BY DEF Hv!StorStable
<1>2. Hv!StorMay' =
        [s \in Hv!Sector |->
           {disk'[lun'][s]} \cup
             {p.request.value : p \in {p \in outbound' : /\ p.request.op = "write"
                                                         /\ p.request.first = s
                                                         /\ p.request.lun = lun'}}]
  BY DEF Hv!StorMay
<1>3. ASSUME outbound' = {} PROVE Hv!StorMay' = [s \in Hv!Sector |-> {disk'[lun'][s]}]
  BY <1>2, <1>3
<1>4. ASSUME NEW p, outbound' = {p}
      PROVE  Hv!StorMay' = [s \in Hv!Sector |-> {disk'[lun'][s]} \cup Pending(p, s)']
  <2>1. ASSUME NEW s
        PROVE  {q.request.value : q \in {q \in outbound' : /\ q.request.op = "write"
                                                           /\ q.request.first = s
                                                           /\ q.request.lun = lun'}} = Pending(p, s)'
    BY <1>4 DEF Pending
  <2>2. QED
    BY <1>2, <2>1
<1>5. QED
  BY <1>1, <1>3, <1>4

(* Until a disk is published, a step that publishes none shows nothing.      *)
LEMMA SearchRefines ==
    ASSUME OnHyperv, platform' = platform, stage # "ready", stage' # "ready",
           UNCHANGED <<lapses, call, answer>>
    PROVE  UNCHANGED Device!bdVars
<1>1. UNCHANGED <<May, Stable>> /\ Attached' = Attached
  BY MappedHyperv, UnpublishedHyperv
<1>2. QED
  BY <1>1, DeviceActions

(* When a disk is published, its sectors hold what is durable.               *)
LEMMA PublicationRefines ==
    ASSUME OnHyperv, platform' = platform, HvInv, HvInv', stage # "ready", stage' = "ready",
           Hv!RingsIdle', UNCHANGED <<disk, media, call, answer>>
    PROVE  Device!BdAttach
<1>1. /\ Hv!StorStable' = [s \in Hv!Sector |-> media'[lun'][s]]
      /\ Hv!StorMay' = [s \in Hv!Sector |-> {disk'[lun'][s]}]
  BY MayOfNext DEF Hv!RingsIdle
<1>2. lun' \in Hv!Lun /\ disk'[lun'] = media'[lun']
  BY DEF HvInv, HvAlways, SearchTypes, Position, Hv!OthersUntouched
<1>3. media'[lun'] \in Hv!Contents
  BY <1>2 DEF HvInv, HvAlways, HvTracked, PlatterTypes, Hv!SearchSound
<1>4. Hv!StorStable' \in [Hv!Sector -> Hv!Value] /\ Hv!StorMay' = [s \in Hv!Sector |-> {Hv!StorStable'[s]}]
  BY <1>1, <1>2, <1>3 DEF Hv!Contents
<1>5. ~Attached /\ Attached'
  BY MappedHyperv
<1>6. QED
  BY <1>4, <1>5, MappedHyperv, DeviceActions

(* A step that changes neither the rings' requests nor the disk.             *)
LEMMA HypervUnmoved ==
    ASSUME OnHyperv, platform' = platform, UNCHANGED <<stage, lun, outbound, disk, media>>
    PROVE  Attached' = Attached /\ UNCHANGED <<May, Stable>>
<1>1. Hv!StorMay' = Hv!StorMay /\ Hv!StorStable' = Hv!StorStable
  BY Zenon DEF Hv!StorMay, Hv!StorStable
<1>2. (stage' = "ready") = (stage = "ready")
  OBVIOUS
<1>3. QED
  BY <1>1, <1>2, MappedHyperv, Zenon

(* The return of a call: granted only if it has had its effect.              *)
LEMMA ReturnRefines ==
    ASSUME OnHyperv, platform' = platform, HvInv, stage = "ready", waiting # 0,
           NEW ok \in BOOLEAN, Hv!Return(ok),
           ok => outbound = {} /\ Hv!Carried,
           UNCHANGED <<stage, lun, outbound, disk, media>>
    PROVE  Device!BdFinish
<1>1. Attached /\ Attached' = Attached /\ UNCHANGED <<May, Stable>>
  BY MappedHyperv, HypervUnmoved
<1>2. call \in Hv!Call /\ call # Hv!NoCall /\ call' = Hv!NoCall
  BY DEF HvInv, HvAlways, CallTypes, Hv!CallIsExchange, Hv!Return
<1>3. ~ok => answer' = Hv!Error
  BY DEF Hv!Return
<1>4. ASSUME ok
      PROVE  /\ answer'.status = "ok"
             /\ \/ call.op = "read" /\ May[call.sector] = {answer'.value}
                \/ call.op = "write" /\ May[call.sector] = {call.value} /\ answer'.value = NoValue
                \/ /\ call.op = "flush" /\ answer'.value = NoValue
                   /\ \A s \in Hv!Sector : May[s] = {Stable[s]}
  <2>1. /\ answer'.status = "ok"
        /\ answer'.value = IF call.op = "read" THEN bounce[0] ELSE NoValue
    BY <1>4 DEF Hv!Return, Hv!Ok
  <2>2. /\ May = [s \in Hv!Sector |-> {disk[lun][s]}]
        /\ Stable = [s \in Hv!Sector |-> media[lun][s]]
    BY <1>4, MayOf, MappedHyperv
  <2>3. QED
    BY <1>2, <1>4, <2>1, <2>2, CallShapes DEF Hv!Carried
<1>5. QED
  BY <1>1, <1>2, <1>3, <1>4, DeviceActions

(* A call submitted: a write puts its sector in doubt.                       *)
LEMMA TransferRefines ==
    ASSUME OnHyperv, platform' = platform, HvInv, Hv!storage_transfer
    PROVE  Device!BdStart
<1>1. PICK c \in Hv!Call : Hv!execute_scsi(Hv!CallRequest(c), "sent") /\ call' = c
  BY Constants DEF Hv!storage_transfer
<1>2. /\ stage = "ready" /\ call = Hv!NoCall /\ ready /\ answer' = Hv!NoAnswer
      /\ UNCHANGED <<stage, lun>>
  BY DEF Hv!storage_transfer, Hv!Callable, Hv!search
<1>3. Hv!RingsIdle
  BY IdleBetweenCalls DEF Hv!storage_transfer
<1>4. /\ Hv!CallRequest(c).op = c.op /\ Hv!CallRequest(c).value = c.value
      /\ Hv!CallRequest(c).lun = lun /\ (c.op = "write" => Hv!CallRequest(c).first = c.sector)
  BY CallRequests, StorTypeParts DEF HvInv, HvAlways
<1>5. PICK p : p = [id |-> transaction, request |-> Hv!CallRequest(c)]
  OBVIOUS
<1>6. outbound' = {p} /\ UNCHANGED <<disk, media>> /\ outbound = {}
  BY <1>1, <1>3, <1>5 DEF Hv!execute_scsi, Hv!RingsIdle, Hv!platter
<1>7. /\ p.request.op = c.op /\ p.request.value = c.value /\ p.request.lun = lun
      /\ c.op = "write" => p.request.first = c.sector
  BY <1>4, <1>5
<1>8. /\ May = [s \in Hv!Sector |-> {disk[lun][s]}]
      /\ May' = [s \in Hv!Sector |-> {disk[lun][s]} \cup Pending(p, s)']
      /\ Stable' = Stable
  BY <1>2, <1>6, MayOf, MayOfNext, MappedHyperv
<1>9. \A s \in Hv!Sector : Pending(p, s)' = IF c.op = "write" /\ c.sector = s THEN {c.value} ELSE {}
  BY <1>2, <1>7 DEF Pending
<1>10. May' = IF c.op = "write" THEN [May EXCEPT ![c.sector] = @ \cup {c.value}] ELSE May
  <2>1. CASE c.op = "write"
    <3>1. \A s \in Hv!Sector : {disk[lun][s]} \cup Pending(p, s)'
                = IF s = c.sector THEN {disk[lun][s]} \cup {c.value} ELSE {disk[lun][s]}
      BY <1>9, <2>1
    <3>2. May' = [s \in Hv!Sector |-> IF s = c.sector THEN {disk[lun][s]} \cup {c.value} ELSE {disk[lun][s]}]
      BY <1>8, <3>1
    <3>3. QED
      BY <1>8, <2>1, <3>2
  <2>2. CASE c.op # "write"
    <3>1. \A s \in Hv!Sector : {disk[lun][s]} \cup Pending(p, s)' = {disk[lun][s]}
      BY <1>9, <2>2
    <3>2. QED
      BY <1>8, <2>2, <3>1
  <2>3. QED
    BY <2>1, <2>2
<1>11. Attached /\ Attached' = Attached
  BY <1>2, MappedHyperv
<1>12. QED
  BY <1>1, <1>2, <1>8, <1>10, <1>11, DeviceActions

(* A call refused, by the driver or by the ring.                             *)
LEMMA RefusalRefines ==
    ASSUME OnHyperv, platform' = platform, HvInv, lapses = 0, lapses' = 0,
           Hv!storage_transfer_refused \/ Hv!storage_transfer_unsent
    PROVE  Device!BdRefuse
<1>1. /\ stage = "ready" /\ call = Hv!NoCall /\ answer' = Hv!Error
      /\ UNCHANGED <<stage, lun, outbound, disk, media, call>>
  <2>1. CASE Hv!storage_transfer_refused
    BY <2>1 DEF Hv!storage_transfer_refused, Hv!Callable, Hv!search, Hv!channel, Hv!platter
  <2>2. CASE Hv!storage_transfer_unsent
    <3>1. UNCHANGED <<outbound, disk, media>>
      BY <2>2, TransferUnsentStep
    <3>2. QED
      BY <2>2, <3>1 DEF Hv!storage_transfer_unsent, Hv!Callable, Hv!search
  <2>3. QED
    BY <2>1, <2>2
<1>2. Attached /\ Attached' = Attached /\ UNCHANGED <<May, Stable>>
  BY <1>1, MappedHyperv, HypervUnmoved
<1>3. QED
  BY <1>1, <1>2, DeviceActions

(* The host: a write settles what its sector holds, a flush makes what the   *)
(* sectors hold durable.                                                     *)
LEMMA HostRefines ==
    ASSUME OnHyperv, platform' = platform, HvInv, stage = "ready", NEW p \in outbound,
           Hv!HostPerforms(p) \/ Hv!HostRejects(p)
    PROVE  UNCHANGED Device!bdVars \/ Device!BdSettle \/ Device!BdPersist
<1>1. outbound' = {} /\ UNCHANGED <<stage, lun, lapses, call, answer>>
  BY Outstanding DEF Hv!HostPerforms, Hv!HostRejects, Hv!HostAnswers, Hv!search, Hv!device
<1>2. /\ outbound = {p} /\ p.request.lun = lun /\ p.request \in Hv!Request
      /\ p.request.op = "write" => p.request.value \in Hv!Value
  BY Outstanding
<1>3. Hv!Present(lun) /\ lun \in Hv!Lun /\ disk[lun] \in Hv!Contents /\ media[lun] \in Hv!Contents
      /\ disk \in [Hv!Lun -> Hv!Contents \cup {<<>>}]
      /\ media \in [Hv!Lun -> Hv!Contents \cup {<<>>}]
  BY PresentContents, StorTypeParts
     DEF HvInv, HvAlways, HvTracked, Hv!SearchSound, Hv!Present, SearchTypes, Position, PlatterTypes
<1>4. \/ UNCHANGED <<disk, media>>
      \/ /\ p.request.op = "write" /\ media' = media
         /\ disk' = [disk EXCEPT ![lun] = [disk[lun] EXCEPT ![p.request.first] = p.request.value]]
      \/ /\ p.request.op = "flush" /\ disk' = disk
         /\ media' = [media EXCEPT ![lun] = disk[lun]]
  <2>1. CASE UNCHANGED <<bounce, disk, media, original>>
    BY <2>1
  <2>2. CASE Hv!HostMoves(p.request)
    BY <1>3, <2>2, HostMovesCurrent
  <2>3. QED
    BY <2>1, <2>2 DEF Hv!HostPerforms, Hv!HostRejects, Hv!platter
<1>5. /\ May = [s \in Hv!Sector |-> {disk[lun][s]} \cup Pending(p, s)]
      /\ May' = [s \in Hv!Sector |-> {disk'[lun][s]}]
      /\ Stable = [s \in Hv!Sector |-> media[lun][s]]
      /\ Stable' = [s \in Hv!Sector |-> media'[lun][s]]
      /\ Attached /\ Attached' = Attached
  BY <1>1, <1>2, MayOf, MayOfNext, MappedHyperv
<1>6. CASE p.request.op = "write"
  <2> DEFINE f == p.request.first
             v == p.request.value
  <2>1. f \in Hv!Sector
    BY <1>2 DEF Hv!Request
  <2>2. media' = media /\ \A s \in Hv!Sector : s # f => disk'[lun][s] = disk[lun][s]
    BY <1>3, <1>4, <1>6, <2>1 DEF Hv!Contents
  <2>3. disk'[lun][f] \in {disk[lun][f], v}
    BY <1>3, <1>4, <1>6, <2>1 DEF Hv!Contents
  <2>4. \A s \in Hv!Sector : Pending(p, s) = IF s = f THEN {v} ELSE {}
    BY <1>2, <1>6 DEF Pending
  <2> HIDE DEF f, v
  <2>5. May = [s \in Hv!Sector |-> IF s = f THEN {disk[lun][s], v} ELSE {disk[lun][s]}]
    <3>1. \A s \in Hv!Sector : {disk[lun][s]} \cup Pending(p, s) = IF s = f THEN {disk[lun][s], v} ELSE {disk[lun][s]}
      BY <2>4
    <3>2. QED
      BY <1>5, <3>1
  <2>6. May' = [May EXCEPT ![f] = {disk'[lun][f]}]
    BY <1>5, <2>1, <2>2, <2>5
  <2>7. {disk'[lun][f]} \in (SUBSET May[f]) \ {{}}
    <3>1. May[f] = {disk[lun][f], v}
      BY <2>1, <2>5
    <3>2. disk'[lun][f] \in May[f]
      BY <2>3, <3>1
    <3>3. \A x, M : x \in M => {x} \subseteq M /\ {x} # {}
      OBVIOUS
    <3>4. {disk'[lun][f]} \subseteq May[f] /\ {disk'[lun][f]} # {}
      BY <3>2, <3>3, Zenon
    <3>5. QED
      BY <3>4
  <2>8. Stable' = Stable
    BY <1>5, <2>2
  <2>9. \E s \in Hv!Sector : \E left \in (SUBSET May[s]) \ {{}} : May' = [May EXCEPT ![s] = left]
    BY <2>1, <2>6, <2>7, Zenon
  <2>10. QED
    BY <1>1, <1>5, <2>8, <2>9, DeviceActions, Zenon
<1>7. CASE p.request.op # "write"
  <2>1. disk' = disk
    BY <1>4, <1>7
  <2>2. May = [s \in Hv!Sector |-> {disk[lun][s]}]
    <3>1. \A s \in Hv!Sector : {disk[lun][s]} \cup Pending(p, s) = {disk[lun][s]}
      BY <1>7 DEF Pending
    <3>2. QED
      BY <1>5, <3>1
  <2>3. May' = May
    BY <1>5, <2>1, <2>2
  <2>4. CASE media' = media
    BY <1>1, <1>5, <2>3, <2>4, DeviceActions
  <2>5. CASE media' = [media EXCEPT ![lun] = disk[lun]]
    <3>1. Stable' = [s \in Hv!Sector |-> disk[lun][s]]
      BY <1>3, <1>5, <2>5
    <3>2. Stable' \in [Hv!Sector -> Hv!Value] /\ \A s \in Hv!Sector : Stable'[s] \in {Stable[s]} \cup May[s]
      BY <1>3, <2>2, <3>1 DEF Hv!Contents
    <3>3. QED
      BY <1>1, <1>5, <2>3, <3>2, DeviceActions
  <2>6. QED
    BY <1>4, <1>7, <2>4, <2>5
<1>8. QED
  BY <1>6, <1>7

(* The Hyper-V driver implements BlockDevice, step by step, until the first  *)
(* lapse.                                                                    *)
LEMMA HypervRefines ==
    ASSUME OnHyperv, platform' = platform, HvInv, HvInv', lapses = 0, lapses' = 0, Hv!StorNext
    PROVE  UNCHANGED Device!bdVars \/ Device!BdNext
<1>1. CASE Hv!block_hyperv_initialize_primary
  <2>1. stage # "ready" /\ UNCHANGED <<stage, call, answer>>
    BY <1>1 DEF Hv!block_hyperv_initialize_primary, Hv!Searching, Hv!search, Hv!device
  <2>2. QED
    BY <2>1, SearchRefines
<1>2. ASSUME stage # "ready", Hv!RingsIdle', UNCHANGED <<disk, media, call, answer>>
      PROVE  UNCHANGED Device!bdVars \/ Device!BdNext
  <2>1. CASE stage' # "ready"
    BY <1>2, <2>1, SearchRefines
  <2>2. CASE stage' = "ready"
    BY <1>2, <2>2, PublicationRefines DEF Device!BdNext
  <2>3. QED
    BY <2>1, <2>2
<1>3. CASE Hv!block_hyperv_initialize_unsent
  <2>1. stage # "ready" /\ UNCHANGED <<disk, media, call, answer>>
    BY <1>3
       DEF Hv!block_hyperv_initialize_unsent, Hv!Searching, Hv!execute_scsi, Hv!platter, Hv!device
  <2>2. QED
    BY <1>2, <1>3, <2>1, InitializeUnsentStep
<1>4. CASE Hv!wait_completion
  <2>1. PICK ok \in BOOLEAN :
             /\ ok => Hv!Carried
             /\ Hv!Returned(ok)
             /\ waiting # 0 /\ outbound = {}
             /\ Hv!RingsIdle'
             /\ UNCHANGED <<outbound, disk, media>>
    BY <1>4, CompletionTaken
  <2>2. CASE stage = "ready"
    <3>1. Hv!Return(ok) /\ UNCHANGED <<stage, lun>>
      BY <2>1, <2>2 DEF Hv!Returned, Hv!search
    <3>2. Device!BdFinish
      BY <2>1, <2>2, <3>1, ReturnRefines
    <3>3. QED
      BY <3>2 DEF Device!BdNext
  <2>3. CASE stage # "ready"
    <3>1. UNCHANGED <<call, answer>>
      BY <2>1, <2>3 DEF Hv!Returned, Hv!device
    <3>2. QED
      BY <1>2, <2>1, <2>3, <3>1
  <2>4. QED
    BY <2>2, <2>3
<1>5. CASE Hv!wait_completion_timeout
  <2>1. /\ stage = "ready" /\ waiting # 0 /\ Hv!Return(FALSE)
        /\ UNCHANGED <<stage, lun, outbound, disk, media>>
    BY <1>5, TimeoutStep
  <2>2. Device!BdFinish
    BY <2>1, ReturnRefines
  <2>3. QED
    BY <2>2 DEF Device!BdNext
<1>6. CASE Hv!storage_transfer
  BY <1>6, TransferRefines DEF Device!BdNext
<1>7. CASE Hv!storage_transfer_unsent \/ Hv!storage_transfer_refused
  BY <1>7, RefusalRefines DEF Device!BdNext
<1>8. ASSUME NEW p \in outbound, Hv!HostPerforms(p) \/ Hv!HostRejects(p)
      PROVE  UNCHANGED Device!bdVars \/ Device!BdNext
  <2>1. CASE stage = "ready"
    BY <1>8, <2>1, HostRefines DEF Device!BdNext
  <2>2. CASE stage # "ready"
    <3>1. UNCHANGED <<stage, call, answer>>
      BY <1>8 DEF Hv!HostPerforms, Hv!HostRejects, Hv!HostAnswers, Hv!search, Hv!device
    <3>2. QED
      BY <2>2, <3>1, SearchRefines
  <2>3. QED
    BY <2>1, <2>2
<1>9. ~Hv!HostIntrudes
  BY DEF Hv!HostIntrudes
<1>10. QED
  BY <1>1, <1>3, <1>4, <1>5, <1>6, <1>7, <1>8, <1>9
     DEF Hv!StorNext, Hv!StorDriver, Hv!StorCalls, Hv!StorHost

(* The mapped variables of the virtio driver.                                *)
LEMMA MappedQ35 ==
    ASSUME ~OnHyperv, platform' = platform
    PROVE  /\ Attached = Q35!Published /\ Attached' = Q35!Published'
           /\ May = Q35!VirtioMay /\ May' = Q35!VirtioMay'
           /\ Stable = Q35!VirtioStable /\ Stable' = Q35!VirtioStable'
  BY DEF Attached, May, Stable, OnHyperv

(* The values of the writes to a sector that the device has not used.        *)
QueuedFor(s, q) == {p.call.value : p \in {p \in q : p.call.op = "write" /\ p.call.sector = s}}

(* What a sector of the virtio disk may hold, in this state and the next.    *)
LEMMA VirtioMayOf ==
    /\ Q35!Published => /\ Q35!VirtioMay = [s \in Hv!Sector |-> {vdisk[s]} \cup QueuedFor(s, queued)]
                        /\ Q35!VirtioStable = [s \in Hv!Sector |-> vmedia[s]]
    /\ Q35!Published' => /\ Q35!VirtioMay' = [s \in Hv!Sector |-> {vdisk'[s]} \cup QueuedFor(s, queued')]
                         /\ Q35!VirtioStable' = [s \in Hv!Sector |-> vmedia'[s]]
    /\ ~Q35!Published => /\ Q35!VirtioMay = [s \in Hv!Sector |-> {}]
                         /\ Q35!VirtioStable = [s \in Hv!Sector |-> NoValue]
    /\ ~Q35!Published' => /\ Q35!VirtioMay' = [s \in Hv!Sector |-> {}]
                          /\ Q35!VirtioStable' = [s \in Hv!Sector |-> NoValue]
  BY DEF Q35!VirtioMay, Q35!VirtioStable, QueuedFor

(* The values in doubt, as the queue changes.                                *)
LEMMA QueuedForChanges ==
    ASSUME NEW s, NEW q, NEW p
    PROVE  /\ QueuedFor(s, {}) = {}
           /\ QueuedFor(s, q \ {p}) \subseteq QueuedFor(s, q)
           /\ p \in q /\ p.call.op = "write" /\ p.call.sector = s => p.call.value \in QueuedFor(s, q)
  BY DEF QueuedFor

(* virtio_blk_initialize publishes a disk whose sectors hold what is durable.*)
LEMMA VirtioInitializeRefines ==
    ASSUME ~OnHyperv, platform' = platform, Q35Inv, Q35!virtio_blk_initialize
    PROVE  UNCHANGED Device!bdVars \/ Device!BdAttach
<1>1. /\ vstage \notin {"ready", "none"}
      /\ UNCHANGED <<queued, vdisk, vmedia, lapses, call, answer>>
  BY DEF Q35!virtio_blk_initialize, Q35!queue, Q35!medium, Q35!vdevice
<1>2. ~Q35!Published /\ vmedia = vdisk /\ queued = {}
  BY <1>1, PolledIsPublished DEF Q35Inv, Q35!CallIsPolled, Q35!Published
<1>3. CASE ~Q35!Published'
  <2>1. UNCHANGED <<May, Stable>> /\ Attached' = Attached
    <3>1. UNCHANGED <<May, Stable>>
      BY <1>2, <1>3, MappedQ35, VirtioMayOf
    <3>2. Q35!Published' = Q35!Published
      BY <1>2, <1>3 DEF Q35!Published
    <3>3. QED
      BY <3>1, <3>2, MappedQ35, Zenon
  <2>2. QED
    BY <1>1, <2>1, DeviceActions
<1>4. CASE Q35!Published'
  <2>1. \A s \in Hv!Sector : QueuedFor(s, queued') = {}
    BY <1>1, <1>2, QueuedForChanges
  <2>2. Stable' = vdisk /\ vdisk \in [Hv!Sector -> Hv!Value]
    BY <1>1, <1>2, <1>4, MappedQ35, VirtioMayOf, VirtioTypeParts DEF Q35Inv, VirtioParts
  <2>3. May' = [s \in Hv!Sector |-> {Stable'[s]}]
    <3>1. May' = [s \in Hv!Sector |-> {vdisk[s]} \cup QueuedFor(s, queued')]
      BY <1>1, <1>4, MappedQ35, VirtioMayOf
    <3>2. QED
      BY <2>1, <2>2, <3>1
  <2>4. ~Attached /\ Attached'
    BY <1>2, <1>4, MappedQ35
  <2>5. QED
    BY <1>1, <2>2, <2>3, <2>4, DeviceActions
<1>5. QED
  BY <1>3, <1>4

(* A call submitted: a write puts its sector in doubt.                       *)
LEMMA SubmitRefines ==
    ASSUME ~OnHyperv, platform' = platform, Q35Inv, Q35!virtio_blk_submit
    PROVE  Device!BdStart
<1>1. PICK c \in Hv!Call, i \in Q35!FirstFree :
        /\ queued' = queued \cup {[slot |-> i, call |-> c]}
        /\ call' = c
  BY Constants DEF Q35!virtio_blk_submit
<1>2. /\ Q35!Published /\ Q35!Published' /\ call = Hv!NoCall /\ answer' = Hv!NoAnswer
      /\ UNCHANGED <<vdisk, vmedia>>
  BY SameCalls DEF Q35!virtio_blk_submit, Q35!Callable, Q35!medium, Q35!Published
<1>3. PICK p : p = [slot |-> i, call |-> c]
  OBVIOUS
<1>4. queued' = queued \cup {p} /\ p.call = c
  BY <1>1, <1>3
<1>5. /\ May = [s \in Hv!Sector |-> {vdisk[s]} \cup QueuedFor(s, queued)]
      /\ May' = [s \in Hv!Sector |-> {vdisk[s]} \cup QueuedFor(s, queued')]
      /\ Stable' = Stable
  BY <1>2, MappedQ35, VirtioMayOf
<1>6. \A s \in Hv!Sector : QueuedFor(s, queued') =
         QueuedFor(s, queued) \cup (IF c.op = "write" /\ c.sector = s THEN {c.value} ELSE {})
  <2> SUFFICES ASSUME NEW s \in Hv!Sector
               PROVE  QueuedFor(s, queued') =
                        QueuedFor(s, queued) \cup (IF c.op = "write" /\ c.sector = s THEN {c.value} ELSE {})
    OBVIOUS
  <2>1. QueuedFor(s, queued \cup {p}) =
          QueuedFor(s, queued) \cup (IF p.call.op = "write" /\ p.call.sector = s THEN {p.call.value} ELSE {})
    BY DEF QueuedFor
  <2>2. QED
    BY <1>4, <2>1, Zenon
<1>7. May' = IF c.op = "write" THEN [May EXCEPT ![c.sector] = @ \cup {c.value}] ELSE May
  <2>1. CASE c.op = "write"
    <3>1. \A s \in Hv!Sector : {vdisk[s]} \cup QueuedFor(s, queued') =
             IF s = c.sector THEN ({vdisk[s]} \cup QueuedFor(s, queued)) \cup {c.value}
             ELSE {vdisk[s]} \cup QueuedFor(s, queued)
      BY <1>6, <2>1
    <3>2. QED
      BY <1>5, <2>1, <3>1
  <2>2. CASE c.op # "write"
    <3>1. \A s \in Hv!Sector : {vdisk[s]} \cup QueuedFor(s, queued') = {vdisk[s]} \cup QueuedFor(s, queued)
      BY <1>6, <2>2
    <3>2. QED
      BY <1>5, <2>2, <3>1
  <2>3. QED
    BY <2>1, <2>2
<1>8. Attached /\ Attached' = Attached
  BY <1>2, MappedQ35
<1>9. QED
  BY <1>1, <1>2, <1>5, <1>7, <1>8, DeviceActions

(* A call refused, and steps that change neither the queue nor the disk.     *)
LEMMA VirtioUnmoved ==
    ASSUME ~OnHyperv, platform' = platform, UNCHANGED <<vstage, queued, vdisk, vmedia>>
    PROVE  Attached' = Attached /\ UNCHANGED <<May, Stable>>
  BY MappedQ35 DEF Q35!VirtioMay, Q35!VirtioStable, Q35!Published

(* The polls: a call is granted only if it has had its effect.               *)
LEMMA PollsRefine ==
    ASSUME ~OnHyperv, platform' = platform, Q35Inv, lapses = 0, Q35!VirtioPolls
    PROVE  Device!BdFinish
<1>0. ~Q35!virtio_blk_poll_others
  BY PollOthersStep
<1>1. /\ waiting_slot # Q35!NoSlot /\ call' = Hv!NoCall /\ UNCHANGED <<vstage, queued, vdisk, vmedia>>
  BY <1>0, SameCalls
     DEF Q35!VirtioPolls, Q35!virtio_blk_poll, Q35!virtio_blk_poll_protocol,
         Q35!virtio_blk_poll_invalid_state, Q35!virtio_blk_poll_reset, Q35!wait_for_request_timeout,
         Q35!Polling, Q35!Return, Q35!medium
<1>2. Attached' = Attached /\ UNCHANGED <<May, Stable>>
  BY <1>1, VirtioUnmoved
<1>3. call \in Hv!Call /\ call # Hv!NoCall /\ Q35!Published /\ Attached
  BY <1>1, PolledIsPublished, MappedQ35 DEF Q35Inv, CallTypes
<1>4. CASE answer' = Hv!Error
  BY <1>1, <1>2, <1>3, <1>4, DeviceActions
<1>5. CASE Q35!virtio_blk_poll
  <2>1. answer' = Q35!Answered(Q35!Completed[waiting_slot])
    BY <1>5 DEF Q35!virtio_blk_poll, Q35!Return
  <2>2. queued = {}
    BY <1>5, PollFinds
  <2>3. PICK e \in StatusRecord :
          /\ Q35!Served(e)
          /\ Q35!Completed[waiting_slot] = [state |-> "USED", ok |-> e.ok, value |-> e.value]
    BY <1>5, PollFinds, VirtioTypeParts DEF Q35Inv, VirtioParts
  <2>4. ~e.ok => answer' = Hv!Error
    BY <2>1, <2>3, SameCalls DEF Q35!Answered
  <2>5. e.ok => answer'.status = "ok" /\ answer'.value = e.value
    BY <2>1, <2>3 DEF Q35!Answered, Q35!Ok
  <2>6. May = [s \in Hv!Sector |-> {vdisk[s]}] /\ Stable = [s \in Hv!Sector |-> vmedia[s]]
    <3>1. May = [s \in Hv!Sector |-> {vdisk[s]} \cup QueuedFor(s, queued)]
          /\ Stable = [s \in Hv!Sector |-> vmedia[s]]
      BY <1>3, MappedQ35, VirtioMayOf
    <3>2. \A s \in Hv!Sector : {vdisk[s]} \cup QueuedFor(s, queued) = {vdisk[s]}
      BY <2>2, QueuedForChanges
    <3>3. QED
      BY <3>1, <3>2
  <2>7. e.ok => \/ call.op = "read" /\ May[call.sector] = {answer'.value}
                \/ call.op = "write" /\ May[call.sector] = {call.value} /\ answer'.value = NoValue
                \/ /\ call.op = "flush" /\ answer'.value = NoValue
                   /\ \A s \in Hv!Sector : May[s] = {Stable[s]}
    BY <1>3, <2>3, <2>5, <2>6, CallShapes DEF Q35!Served
  <2>8. QED
    BY <1>1, <1>2, <1>3, <2>4, <2>5, <2>7, DeviceActions
<1>6. Q35!virtio_blk_poll \/ answer' = Hv!Error
  BY <1>0, SameCalls
     DEF Q35!VirtioPolls, Q35!virtio_blk_poll_protocol, Q35!virtio_blk_poll_invalid_state,
         Q35!virtio_blk_poll_reset, Q35!wait_for_request_timeout, Q35!Return
<1>7. QED
  BY <1>4, <1>5, <1>6

(* The device: a write settles its sector or leaves it in doubt as before, a *)
(* flush makes durable what the sectors hold.                                *)
LEMMA DeviceRefines ==
    ASSUME ~OnHyperv, platform' = platform, Q35Inv, NEW p \in queued,
           Q35!DevicePerforms(p) \/ Q35!DeviceRejects(p)
    PROVE  UNCHANGED Device!bdVars \/ Device!BdSettle \/ Device!BdPersist
<1>0. VirtioParts /\ p.call \in Hv!Call
  BY VirtioTypeParts DEF Q35Inv, VirtioParts
<1>1. queued' = queued \ {p} /\ UNCHANGED <<vstage, lapses, call, answer>>
  BY DEF Q35!DevicePerforms, Q35!DeviceRejects, Q35!DeviceUses, Q35!vdevice
<1>2. Q35!Published
  BY PolledIsPublished
<1>3. \/ UNCHANGED <<vdisk, vmedia>>
      \/ /\ p.call.op = "write" /\ vmedia' = vmedia
         /\ vdisk' = [vdisk EXCEPT ![p.call.sector] = p.call.value]
      \/ p.call.op = "flush" /\ vdisk' = vdisk /\ vmedia' = vdisk
  <2>1. CASE UNCHANGED <<vdisk, vmedia>>
    BY <2>1
  <2>2. CASE Q35!DeviceMoves(p.call)
    BY <1>0, <2>2, DeviceEffects, CallShapes
  <2>3. QED
    BY <2>1, <2>2 DEF Q35!DevicePerforms, Q35!DeviceRejects, Q35!medium
<1>4. /\ May = [s \in Hv!Sector |-> {vdisk[s]} \cup QueuedFor(s, queued)]
      /\ May' = [s \in Hv!Sector |-> {vdisk'[s]} \cup QueuedFor(s, queued')]
      /\ Stable = [s \in Hv!Sector |-> vmedia[s]] /\ Stable' = [s \in Hv!Sector |-> vmedia'[s]]
      /\ Attached /\ Attached' = Attached
  <2>1. Q35!Published' /\ Q35!Published' = Q35!Published
    BY <1>1, <1>2 DEF Q35!Published
  <2>2. Attached /\ Attached' = Attached
    BY <1>2, <2>1, MappedQ35, Zenon
  <2>3. QED
    BY <1>2, <2>1, <2>2, MappedQ35, VirtioMayOf
<1>5. CASE p.call.op = "write"
  <2>1. PICK f : f = p.call.sector
    OBVIOUS
  <2>2. f \in Hv!Sector /\ p.call.value \in QueuedFor(f, queued)
    BY <1>0, <1>5, <2>1, CallShapes, QueuedForChanges
  <2>3. vmedia' = vmedia /\ \A s \in Hv!Sector : s # f => vdisk'[s] = vdisk[s]
    BY <1>0, <1>3, <1>5, <2>1 DEF VirtioParts
  <2>4. vdisk'[f] \in {vdisk[f]} \cup QueuedFor(f, queued)
    <3>1. vdisk'[f] = vdisk[f] \/ vdisk'[f] = p.call.value
      BY <1>0, <1>3, <1>5, <2>1, <2>2 DEF VirtioParts
    <3>2. QED
      BY <2>2, <3>1
  <2>5. \A s \in Hv!Sector : s # f => QueuedFor(s, queued') = QueuedFor(s, queued)
    <3> SUFFICES ASSUME NEW s \in Hv!Sector, s # f
                 PROVE  QueuedFor(s, queued \ {p}) = QueuedFor(s, queued)
      BY <1>1
    <3>1. QED
      BY <2>1 DEF QueuedFor
  <2>6. PICK left : left = {vdisk'[f]} \cup QueuedFor(f, queued')
    OBVIOUS
  <2>7. left \subseteq {vdisk[f]} \cup QueuedFor(f, queued) /\ left # {}
    <3>1. QueuedFor(f, queued \ {p}) \subseteq QueuedFor(f, queued)
      BY QueuedForChanges, Zenon
    <3>2. QED
      BY <1>1, <2>4, <2>6, <3>1
  <2>8. May[f] = {vdisk[f]} \cup QueuedFor(f, queued)
    BY <1>4, <2>2
  <2>9. May' = [May EXCEPT ![f] = left]
    <3>1. \A s \in Hv!Sector : {vdisk'[s]} \cup QueuedFor(s, queued') =
             IF s = f THEN left ELSE {vdisk[s]} \cup QueuedFor(s, queued)
      BY <2>3, <2>5, <2>6
    <3>2. QED
      BY <1>4, <3>1
  <2>10. left \in (SUBSET May[f]) \ {{}}
    BY <2>7, <2>8
  <2>11. \E s \in Hv!Sector : \E l \in (SUBSET May[s]) \ {{}} : May' = [May EXCEPT ![s] = l]
    BY <2>2, <2>9, <2>10, Zenon
  <2>12. Stable' = Stable
    BY <1>4, <2>3
  <2>13. QED
    BY <1>1, <1>4, <2>11, <2>12, DeviceActions, Zenon
<1>6. CASE p.call.op # "write"
  <2>1. vdisk' = vdisk
    BY <1>3, <1>6
  <2>2. \A s \in Hv!Sector : QueuedFor(s, queued') = QueuedFor(s, queued)
    <3> SUFFICES ASSUME NEW s \in Hv!Sector PROVE QueuedFor(s, queued \ {p}) = QueuedFor(s, queued)
      BY <1>1
    <3>1. QED
      BY <1>6 DEF QueuedFor
  <2>3. May' = May
    BY <1>4, <2>1, <2>2
  <2>4. CASE vmedia' = vmedia
    BY <1>1, <1>4, <2>3, <2>4, DeviceActions
  <2>5. CASE vmedia' = vdisk
    <3>1. Stable' \in [Hv!Sector -> Hv!Value] /\ \A s \in Hv!Sector : Stable'[s] \in {Stable[s]} \cup May[s]
      BY <1>0, <1>4, <2>5 DEF VirtioParts
    <3>2. QED
      BY <1>1, <1>4, <2>3, <3>1, DeviceActions
  <2>6. QED
    BY <1>3, <1>6, <2>4, <2>5
<1>7. QED
  BY <1>5, <1>6

(* The virtio driver implements BlockDevice, step by step, until the first   *)
(* lapse.                                                                    *)
LEMMA Q35Refines ==
    ASSUME ~OnHyperv, platform' = platform, Q35Inv, lapses = 0, lapses' = 0, Q35!VirtioNext
    PROVE  UNCHANGED Device!bdVars \/ Device!BdNext
<1>1. CASE Q35!virtio_blk_initialize
  BY <1>1, VirtioInitializeRefines DEF Device!BdNext
<1>2. CASE Q35!virtio_blk_submit
  BY <1>2, SubmitRefines DEF Device!BdNext
<1>3. CASE Q35!virtio_blk_submit_refused
  <2>1. /\ Q35!Published /\ call = Hv!NoCall /\ answer' = Hv!Error
        /\ UNCHANGED <<vstage, queued, vdisk, vmedia, call>>
    BY <1>3, SameCalls DEF Q35!virtio_blk_submit_refused, Q35!Callable, Q35!queue, Q35!medium
  <2>2. Attached /\ Attached' = Attached /\ UNCHANGED <<May, Stable>>
    BY <2>1, VirtioUnmoved, MappedQ35
  <2>3. Device!BdRefuse
    BY <2>1, <2>2, DeviceActions
  <2>4. QED
    BY <2>3 DEF Device!BdNext
<1>4. CASE Q35!VirtioPolls
  BY <1>4, PollsRefine DEF Device!BdNext
<1>5. ASSUME NEW p \in queued, Q35!DevicePerforms(p) \/ Q35!DeviceRejects(p)
      PROVE  UNCHANGED Device!bdVars \/ Device!BdNext
  BY <1>5, DeviceRefines DEF Device!BdNext
<1>6. CASE Q35!DeviceBreaks
  <2>1. UNCHANGED <<vstage, queued, vdisk, vmedia, call, answer>>
    BY <1>6 DEF Q35!DeviceBreaks, Q35!medium, Q35!vdevice
  <2>2. Attached' = Attached /\ UNCHANGED <<May, Stable>>
    BY <2>1, VirtioUnmoved
  <2>3. QED
    BY <2>1, <2>2, DeviceActions
<1>7. ~Q35!DeviceRepeats
  BY DeviceRepeatsStep
<1>8. QED
  BY <1>1, <1>2, <1>3, <1>4, <1>5, <1>6, <1>7 DEF Q35!VirtioNext, Q35!VirtioCalls, Q35!VirtioDevice

(* The block device that is published, whichever driver is behind it, is the *)
(* device BlockCache is built on for as long as no request has been lost     *)
(* track of: a call that succeeds has had its effect, a failed or timed-out  *)
(* write leaves the old or the new value in its own sector (storage_transfer *)
(* and wait_completion, virtio_blk_submit and wait_for_request).             *)
THEOREM Implementation == Spec => ImplementsBlockDevice
<1>1. Init => Device!BdInit
  BY SameCalls
     DEF Init, Hv!StorInit, Hv!StorMay, Hv!StorStable, Q35!VirtioInit, Q35!VirtioMay,
         Q35!VirtioStable, Q35!Published, Device!BdInit, OnHyperv
<1>2. Kept /\ Kept' /\ [Next]_vars => [Device!BdStep]_(Device!bdVars)
  <2> SUFFICES ASSUME Kept, Kept', [Next]_vars, lapses' = 0
               PROVE  UNCHANGED Device!bdVars \/ (lapses = 0 /\ Device!BdNext)
    BY DEF Device!BdStep
  <2>0. lapses = 0
    BY NextKept
  <2>1. CASE HypervStep
    <3>1. OnHyperv /\ platform' = platform /\ Hv!StorNext
      BY <2>1 DEF HypervStep
    <3>2. HvInv /\ HvInv'
      BY <2>0, <3>1 DEF Kept, HvInv, OnHyperv
    <3>3. QED
      BY <2>0, <3>1, <3>2, HypervRefines
  <2>2. CASE Q35Step
    BY <2>0, <2>2, Q35Refines DEF Q35Step, Kept
  <2>3. CASE UNCHANGED vars
    <3>1. UNCHANGED <<lapses, May, Stable, call, answer>> /\ Attached' = Attached
      BY <2>3 DEF vars, hypervOnly, q35Only, May, Stable, Attached, OnHyperv, Hv!StorMay,
                  Hv!StorStable, Q35!VirtioMay, Q35!VirtioStable, Q35!Published
    <3>2. QED
      BY <3>1, DeviceActions
  <2>4. QED
    BY <2>1, <2>2, <2>3 DEF Next
<1>3. QED
  BY <1>1, <1>2, KeptAlways, PTL DEF Spec, ImplementsBlockDevice, Device!BdSpec
=============================================================================
