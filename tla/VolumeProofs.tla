---------------------------- MODULE VolumeProofs ----------------------------
(***************************************************************************)
(* That the four invariants of Volume hold for every number of faults and  *)
(* of serial numbers.  They are inductive together: the parts of           *)
(* NothingLost that say what each command has made durable before its next *)
(* step carry NamesOnUsedClusters over barriers, failures and power loss.  *)
(***************************************************************************)
EXTENDS Volume, TLAPS

IInv == NothingLost /\ AdmittedVolumeStays /\ NamesOnUsedClusters /\ CacheMirrorsDevice

-----------------------------------------------------------------------------
(* Steps, plans and images.                                                *)

(* The steps of a command tell their kinds apart.                          *)
LEMMA StepFacts ==
    /\ \A i : Write(i).op = "write" /\ Write(i).image = i
    /\ \A b : Flush(b).op = "flush" /\ Flush(b).command = b
    /\ \A s : Load(s).op = "load" /\ Load(s).sector = s
    /\ SetReady.op = "ready"
    /\ \A i : Put(i).op = "put" /\ Put(i).image = i
    /\ Barrier.op = "barrier" /\ Detach.op = "detach"
  BY DEF Write, Flush, Load, SetReady, Put, Barrier, Detach

(* The first step of a plan, and what is left after it.                    *)
LEMMA PlanFacts ==
    /\ \A p, a : p = <<a>> => p # <<>> /\ p[1] = a /\ Tail(p) = <<>>
    /\ \A p, a, b : p = <<a, b>> => p # <<>> /\ p[1] = a /\ Tail(p) = <<b>>
    /\ \A p, a, b, c : p = <<a, b, c>> => p # <<>> /\ p[1] = a /\ Tail(p) = <<b, c>>
    /\ \A p, a, b, c, d : p = <<a, b, c, d>> => p # <<>> /\ p[1] = a /\ Tail(p) = <<b, c, d>>
    /\ \A p, a, b, c, d, e : p = <<a, b, c, d, e>> => p # <<>> /\ p[1] = a /\ Tail(p) = <<b, c, d, e>>
    /\ \A p, a, b, c, d, e, f : p = <<a, b, c, d, e, f>> => p # <<>> /\ p[1] = a /\ Tail(p) = <<b, c, d, e, f>>
<1>1. \A p, a : p = <<a>> => p # <<>> /\ p[1] = a /\ Tail(p) = <<>>
  OBVIOUS
<1>2. \A p, a, b : p = <<a, b>> => p # <<>> /\ p[1] = a /\ Tail(p) = <<b>>
  OBVIOUS
<1>3. \A p, a, b, c : p = <<a, b, c>> => p # <<>> /\ p[1] = a /\ Tail(p) = <<b, c>>
  OBVIOUS
<1>4. \A p, a, b, c, d : p = <<a, b, c, d>> => p # <<>> /\ p[1] = a /\ Tail(p) = <<b, c, d>>
  OBVIOUS
<1>5. \A p, a, b, c, d, e : p = <<a, b, c, d, e>> => p # <<>> /\ p[1] = a /\ Tail(p) = <<b, c, d, e>>
  OBVIOUS
<1>6. \A p, a, b, c, d, e, f : p = <<a, b, c, d, e, f>> => p # <<>> /\ p[1] = a /\ Tail(p) = <<b, c, d, e, f>>
  OBVIOUS
<1>7. QED
  BY <1>1, <1>2, <1>3, <1>4, <1>5, <1>6

(* A member of ImagesOf, sector by sector.                                 *)
LEMMA ImageFacts ==
    ASSUME NEW sets
    PROVE  \A v : v \in ImagesOf(sets) <=> /\ v = [s \in Sector |-> v[s]]
                                           /\ \A s \in Sector : v[s] \in sets[s]
  BY DEF ImagesOf, Sector, Superblocks, FatSectors

(* The superblocks, the FAT and the root directory are different sectors.   *)
LEMMA SectorFacts ==
    /\ Superblocks \subseteq Sector /\ FatSectors \subseteq Sector /\ "root" \in Sector
    /\ "root" \notin Superblocks /\ "root" \notin FatSectors
    /\ Superblocks \cap FatSectors = {}
    /\ Sector = Superblocks \cup FatSectors \cup {"root"}
  BY DEF Sector, Superblocks, FatSectors

(* The fields of a cache entry.                                             *)
LEMMA CachedFacts ==
    ASSUME NEW st, NEW v
    PROVE  /\ Cached(st, v).state = st /\ Cached(st, v).bytes = v
           /\ Absent.state = "EMPTY"
           /\ \A states, contents : st \in states /\ v \in contents
                => Cached(st, v) \in [state : states, bytes : contents]
  BY DEF Cached, Absent

(* What each sector can hold.                                               *)
LEMMA ContentFacts ==
    /\ Zero \in Serial
    /\ \A s \in Superblocks : Content[s] = Serial
    /\ Content["fat1"] = {Zero, Fresh, Used} /\ Content["fat2"] = {Zero, Used}
    /\ Content["root"] = {Zero, Names}
    /\ \A s \in FatSectors : Used \in Content[s] /\ Zero \in Content[s]
    /\ \A s \in Sector : Zero \in Content[s]
    /\ Zero # Names /\ Zero # Used /\ Fresh # Zero
  BY VolumeAssumption DEF Content, Superblocks, FatSectors, Sector, Serial, Zero, Fresh, Used, Names
-----------------------------------------------------------------------------
(* Which plans begin with which step, and how they go on.                  *)

Format2(n) == << Write(Only("root", Zero)), Write(Only("fat1", Fresh)),
                 Write(Only("backup", n)), Write(Only("primary", n)), Flush("format") >>
Format3(n) == << Write(Only("fat1", Fresh)), Write(Only("backup", n)),
                 Write(Only("primary", n)), Flush("format") >>
Format4(n) == << Write(Only("backup", n)), Write(Only("primary", n)), Flush("format") >>
Format5(n) == << Write(Only("primary", n)), Flush("format") >>
Format6 == << Flush("format") >>

(* A format writes the FAT, the root directory and the superblocks, in this *)
(* order.                                                                   *)
LEMMA WritePlan ==
    ASSUME CommandsOrdered, Running("write")
    PROVE  /\ incomplete /\ ~root
           /\ \E n \in Serial :
                \/ Tail(plan) = Format2(n) /\ plan[1].image = [s \in FatSectors |-> Zero]
                \/ Tail(plan) = Format3(n) /\ plan[1].image = Only("root", Zero)
                \/ /\ view["root"] = Zero
                   /\ \/ Tail(plan) = Format4(n) /\ plan[1].image = Only("fat1", Fresh)
                      \/ Tail(plan) = Format5(n) /\ plan[1].image = Only("backup", n)
                      \/ Tail(plan) = Format6 /\ plan[1].image = Only("primary", n)
<1>1. PICK n \in Serial : Formatting(n)
  BY StepFacts, PlanFacts DEF CommandsOrdered, Running, Loading, LoadSteps, Saving, Removing
<1>2. plan # << Flush("format") >>
  BY StepFacts, PlanFacts DEF Running
<1> DEFINE zeros == [s \in FatSectors |-> Zero]
<1>3. /\ incomplete /\ ~root
      /\ \/ plan = << Write(zeros), Write(Only("root", Zero)), Write(Only("fat1", Fresh)),
                      Write(Only("backup", n)), Write(Only("primary", n)), Flush("format") >>
         \/ plan = Format2(n)
         \/ view["root"] = Zero /\ (plan = Format3(n) \/ plan = Format4(n) \/ plan = Format5(n))
  BY <1>1, <1>2 DEF Formatting, FormatSteps, Format2, Format3, Format4, Format5
<1> HIDE DEF zeros
<1>4. /\ plan = << Write(zeros), Write(Only("root", Zero)), Write(Only("fat1", Fresh)),
                   Write(Only("backup", n)), Write(Only("primary", n)), Flush("format") >>
         => Tail(plan) = Format2(n) /\ plan[1].image = zeros
      /\ plan = Format2(n) => Tail(plan) = Format3(n) /\ plan[1].image = Only("root", Zero)
  BY StepFacts, PlanFacts DEF Format2, Format3
<1>5. /\ plan = Format3(n) => Tail(plan) = Format4(n) /\ plan[1].image = Only("fat1", Fresh)
      /\ plan = Format4(n) => Tail(plan) = Format5(n) /\ plan[1].image = Only("backup", n)
      /\ plan = Format5(n) => Tail(plan) = Format6 /\ plan[1].image = Only("primary", n)
  BY StepFacts, PlanFacts DEF Format3, Format4, Format5, Format6
<1>6. QED
  BY <1>3, <1>4, <1>5 DEF zeros

(* A flush ends a format or comes before a detach.                          *)
LEMMA FlushPlan ==
    ASSUME CommandsOrdered, Running("flush")
    PROVE  \/ /\ incomplete /\ ~root /\ view["root"] = Zero
              /\ plan[1].command = "format" /\ Tail(plan) = <<>>
           \/ plan[1].command = "unmount" /\ Tail(plan) = << Detach >>
<1>1. CASE plan = << Flush("unmount"), Detach >>
  BY <1>1, StepFacts, PlanFacts
<1>2. CASE \E n \in Serial : Formatting(n)
  BY <1>2, StepFacts, PlanFacts DEF Formatting, FormatSteps, Running
<1>3. QED
  BY <1>1, <1>2, StepFacts, PlanFacts DEF CommandsOrdered, Running, Loading, LoadSteps, Saving, Removing

(* A mount loads the two sectors of the FAT one after the other.            *)
LEMMA LoadPlan ==
    ASSUME CommandsOrdered, Running("load")
    PROVE  /\ root /\ Dirty = {} /\ cache["root"] = Absent
           /\ \/ plan[1].sector = "fat1" /\ Tail(plan) = << Load("fat2"), SetReady >>
              \/ plan[1].sector = "fat2" /\ Tail(plan) = << SetReady >>
<1>1. CASE Loading
  BY <1>1, StepFacts, PlanFacts DEF Loading, LoadSteps, Running
<1>2. ~ \E n \in Serial : Formatting(n)
  BY StepFacts, PlanFacts DEF Formatting, FormatSteps, Running
<1>3. QED
  BY <1>1, <1>2, StepFacts, PlanFacts DEF CommandsOrdered, Running, Saving, Removing

(* And is then ready, with nothing dirty.                                   *)
LEMMA ReadyPlan ==
    ASSUME CommandsOrdered, Running("ready")
    PROVE  root /\ Dirty = {} /\ cache["root"] = Absent /\ Tail(plan) = <<>>
<1>1. CASE Loading
  BY <1>1, StepFacts, PlanFacts DEF Loading, LoadSteps, Running
<1>2. ~ \E n \in Serial : Formatting(n)
  BY StepFacts, PlanFacts DEF Formatting, FormatSteps, Running
<1>3. QED
  BY <1>1, <1>2, StepFacts, PlanFacts DEF CommandsOrdered, Running, Saving, Removing

(* A chain is put before its name, a name removed before its chain.         *)
LEMMA PutPlan ==
    ASSUME CommandsOrdered, Running("put")
    PROVE  /\ root
           /\ \/ /\ plan[1].image = Chain
                 /\ Tail(plan) = << Barrier, Put(Only("root", Names)), Barrier >>
              \/ /\ plan[1].image = Only("root", Names) /\ Tail(plan) = << Barrier >>
                 /\ \A s \in FatSectors : View[s] = Used /\ may[s] = {Used}
              \/ /\ plan[1].image = Only("root", Zero)
                 /\ Tail(plan) = << Barrier, Put(NoChain), Barrier >>
              \/ /\ plan[1].image = NoChain /\ Tail(plan) = << Barrier >>
                 /\ View["root"] = Zero /\ may["root"] = {Zero}
<1>1. CASE Saving
  BY <1>1, StepFacts, PlanFacts DEF Saving, Running
<1>2. CASE Removing
  BY <1>2, StepFacts, PlanFacts DEF Removing, Running
<1>3. ~ \E n \in Serial : Formatting(n)
  BY StepFacts, PlanFacts DEF Formatting, FormatSteps, Running
<1>4. QED
  BY <1>1, <1>2, <1>3, StepFacts, PlanFacts DEF CommandsOrdered, Running, Loading, LoadSteps

(* Between the two there is a barrier.                                      *)
LEMMA BarrierPlan ==
    ASSUME CommandsOrdered, Running("barrier")
    PROVE  \/ Tail(plan) = <<>>
           \/ /\ root /\ Tail(plan) = << Put(Only("root", Names)), Barrier >>
              /\ \A s \in FatSectors : cache[s] = Cached("DIRTY", Used)
           \/ /\ root /\ Tail(plan) = << Put(NoChain), Barrier >>
              /\ cache["root"] = Cached("DIRTY", Zero)
<1>1. CASE Saving
  BY <1>1, StepFacts, PlanFacts DEF Saving, Running
<1>2. CASE Removing
  BY <1>2, StepFacts, PlanFacts DEF Removing, Running
<1>3. ~ \E n \in Serial : Formatting(n)
  BY StepFacts, PlanFacts DEF Formatting, FormatSteps, Running
<1>4. QED
  BY <1>1, <1>2, <1>3, StepFacts, PlanFacts DEF CommandsOrdered, Running, Loading, LoadSteps

(* A command under way keeps the power on.                                 *)
LEMMA PowerReady ==
    ASSUME IInv, Idle \/ MayMount \/ plan # <<>>
    PROVE  power = "READY"
  BY DEF IInv, NothingLost, TypeOK, ShutdownLosesNothing, Idle, MayMount
-----------------------------------------------------------------------------
(* What the invariant says of the device and of the cache.                 *)

LEMMA Parts ==
    ASSUME IInv
    PROVE  /\ TypeOK /\ UnmountedIsDurable /\ ShutdownLosesNothing /\ DeviceSettled
           /\ CacheBelongsToRoot /\ CommandsOrdered
           /\ AdmittedVolumeStays /\ NamesOnUsedClusters /\ CacheMirrorsDevice
  BY DEF IInv, NothingLost

(* What the kernel sees of a sector: the cache entry or else the device.    *)
LEMMA ViewFacts ==
    ASSUME IInv, NEW s \in Sector
    PROVE  /\ cache[s].state = "EMPTY" => View[s] = view[s]
           /\ cache[s].state # "EMPTY" => View[s] = cache[s].bytes
           /\ cache[s].state \in {"EMPTY", "CLEAN", "DIRTY"}
           /\ s \in Dirty <=> cache[s].state = "DIRTY"
           /\ s \in Superblocks => s \notin Dirty
  BY Parts DEF View, TypeOK, Absent, Dirty, DeviceSettled

(* Once a command has no dirty sector left, what is unmounted is durable.  *)
LEMMA UnmountedPart ==
    ASSUME DeviceSettled', CacheBelongsToRoot'
    PROVE  UnmountedIsDurable'
  BY DEF DeviceSettled, CacheBelongsToRoot, UnmountedIsDurable

(* Steps that leave the kernel's state alone and change only what the      *)
(* device may hold: unless a format was cut short, only dirty sectors.     *)
DeviceChanged ==
    /\ view' \in ImagesOf(Content)
    /\ \A s \in Sector : may'[s] \subseteq Content[s] /\ view'[s] \in may'[s]
    /\ ~incomplete => \A s \in Sector :
           /\ s \in Dirty => may'[s] \subseteq may[s] \cup {cache[s].bytes}
           /\ s \notin Dirty => may'[s] = may[s] /\ view'[s] = view[s]

(* What every step that changes only the device has to show.                *)
LEMMA DeviceStep ==
    ASSUME IInv, DeviceChanged, UNCHANGED <<kernel, ghosts>>, faults' \in 0 .. MaxFaults,
           power = "READY", CommandsOrdered'
    PROVE  IInv'
<1>1. UNCHANGED <<cache, attached, root, mount, serial, phase, power, incomplete, mountFailed>>
  BY DEF kernel, ghosts
<1>2. Dirty' = Dirty
  BY <1>1 DEF Dirty
<1>3. TypeOK'
  BY <1>1, Parts DEF TypeOK, DeviceChanged
<1>4. DeviceSettled'
  BY <1>1, <1>2, Parts DEF DeviceSettled, DeviceChanged
<1>5. CacheBelongsToRoot'
  BY <1>1, <1>2, Parts DEF CacheBelongsToRoot
<1>6. ShutdownLosesNothing'
  BY <1>1 DEF ShutdownLosesNothing
<1>7. AdmittedVolumeStays'
  BY <1>1, Parts, ViewFacts, SectorFacts DEF AdmittedVolumeStays, DeviceChanged
<1>8. CacheMirrorsDevice'
  BY <1>1, Parts, ViewFacts DEF CacheMirrorsDevice, DeviceChanged
<1>9. ASSUME ~incomplete, NEW s \in Sector PROVE View'[s] = View[s]
  BY <1>1, <1>9, ViewFacts DEF View, DeviceChanged
<1>10. NamesOnUsedClusters'
  <2> SUFFICES ASSUME ~incomplete, View'["root"] = Names \/ Names \in may'["root"],
                      NEW s \in FatSectors
               PROVE  View'[s] = Used /\ may'[s] = {Used}
    BY <1>1 DEF NamesOnUsedClusters
  <2>1. View["root"] = Names \/ Names \in may["root"]
    BY <1>9, ViewFacts, SectorFacts DEF DeviceChanged
  <2>2. View[s] = Used /\ may[s] = {Used}
    BY <2>1, Parts DEF NamesOnUsedClusters
  <2>3. s \in Sector /\ may'[s] # {} /\ (s \in Dirty => cache[s].bytes = Used)
    BY <2>2, ViewFacts, SectorFacts DEF DeviceChanged
  <2>4. may'[s] \subseteq {Used}
    BY <2>2, <2>3 DEF DeviceChanged
  <2>5. QED
    BY <1>9, <2>2, <2>3, <2>4
<1>11. QED
  BY <1>3, <1>4, <1>5, <1>6, <1>7, <1>8, <1>10, UnmountedPart DEF IInv, NothingLost
(* A command is begun or given up and nothing else happens.                *)
LEMMA PlanStep ==
    ASSUME IInv, UNCHANGED <<device, kernel, ghosts>>, faults' \in 0 .. MaxFaults,
           power = "READY", CommandsOrdered'
    PROVE  IInv'
<1>1. UNCHANGED <<view, may>>
  BY DEF device
<1>2. DeviceChanged
  BY <1>1, Parts DEF DeviceChanged, TypeOK, DeviceSettled
<1>3. QED
  BY <1>2, DeviceStep

(* Steps that change only the cache: sectors are accepted, read into it or *)
(* dropped from it when clean.                                             *)
CacheChanged ==
    /\ DOMAIN cache' = Sector
    /\ \A s \in Superblocks : cache'[s] = cache[s]
    /\ \A s \in Sector :
         \/ cache'[s] = cache[s]
         \/ \E v \in Content[s] : cache'[s] = Cached("DIRTY", v)
         \/ cache[s].state = "EMPTY" /\ cache'[s] = Cached("CLEAN", view[s])
         \/ cache[s].state = "CLEAN" /\ cache'[s] = Absent

(* What every step that changes only the cache has to show.                 *)
LEMMA CacheStep ==
    ASSUME IInv, CacheChanged, root, UNCHANGED <<device, attached, root, mount, serial, phase, power, ghosts>>,
           faults' \in 0 .. MaxFaults, power = "READY", CommandsOrdered', NamesOnUsedClusters'
    PROVE  IInv'
<1>1. UNCHANGED <<view, may, attached, root, mount, serial, phase, power, incomplete, mountFailed>>
  BY DEF device, ghosts
<1>2. ASSUME NEW s \in Sector
      PROVE  /\ cache'[s] = Absent \/ cache'[s] \in [state : {"CLEAN", "DIRTY"}, bytes : Content[s]]
             /\ cache'[s].state # "DIRTY" => cache[s].state # "DIRTY"
             /\ cache'[s].state = "CLEAN" => cache'[s] = cache[s] \/ cache'[s].bytes = view[s]
  <2>1. view[s] \in Content[s]
    BY Parts, ImageFacts DEF TypeOK
  <2>2. CASE cache'[s] = cache[s]
    BY <2>2, Parts DEF TypeOK
  <2>3. CASE \E v \in Content[s] : cache'[s] = Cached("DIRTY", v)
    BY <2>3 DEF Cached
  <2>4. CASE cache[s].state = "EMPTY" /\ cache'[s] = Cached("CLEAN", view[s])
    BY <2>1, <2>4 DEF Cached
  <2>5. CASE cache[s].state = "CLEAN" /\ cache'[s] = Absent
    BY <2>5 DEF Absent
  <2>6. QED
    BY <2>2, <2>3, <2>4, <2>5 DEF CacheChanged
<1>3. TypeOK'
  BY <1>1, <1>2, Parts DEF TypeOK, CacheChanged
<1>4. DeviceSettled'
  <2>1. \A s \in Sector \ Dirty' : s \notin Dirty
    BY <1>2 DEF Dirty
  <2>2. QED
    BY <1>1, <2>1, Parts DEF DeviceSettled, CacheChanged
<1>5. CacheBelongsToRoot'
  BY <1>1 DEF CacheBelongsToRoot
<1>6. ShutdownLosesNothing'
  BY <1>1 DEF ShutdownLosesNothing
<1>7. AdmittedVolumeStays'
  BY <1>1, Parts DEF AdmittedVolumeStays
<1>8. CacheMirrorsDevice'
  BY <1>1, <1>2, Parts DEF CacheMirrorsDevice
<1>9. QED
  BY <1>3, <1>4, <1>5, <1>6, <1>7, <1>8, UnmountedPart DEF IInv, NothingLost

(* Reading a sector into the cache or dropping it from there gives nobody  *)
(* a name that was not possible before.                                    *)
LEMMA CleanStepNames ==
    ASSUME IInv, CacheChanged, UNCHANGED <<device, ghosts>>, Dirty' = Dirty,
           \A s \in Dirty : cache'[s] = cache[s]
    PROVE  NamesOnUsedClusters'
<1>1. UNCHANGED <<view, may, incomplete>>
  BY DEF device, ghosts
<1>2. ASSUME NEW s \in Sector PROVE View'[s] = View[s] \/ View'[s] = view[s]
  <2>1. View'[s] = IF cache'[s].state = "EMPTY" THEN view[s] ELSE cache'[s].bytes
    BY <1>1 DEF View
  <2>2. CASE cache'[s] = cache[s]
    BY <2>1, <2>2, ViewFacts
  <2>3. CASE cache[s].state = "EMPTY" /\ cache'[s] = Cached("CLEAN", view[s])
    BY <2>1, <2>3 DEF Cached
  <2>4. CASE cache[s].state = "CLEAN" /\ cache'[s] = Absent
    BY <2>1, <2>4 DEF Absent
  <2>5. CASE \E v \in Content[s] : cache'[s] = Cached("DIRTY", v)
    <3>1. s \in Dirty'
      BY <2>5 DEF Dirty, Cached
    <3>2. QED
      BY <2>2, <3>1
  <2>6. QED
    BY <2>2, <2>3, <2>4, <2>5 DEF CacheChanged
<1>3. QED
  BY <1>1, <1>2, Parts, SectorFacts DEF NamesOnUsedClusters, DeviceSettled
-----------------------------------------------------------------------------
(* Barriers.                                                               *)

(* What a barrier leaves on the device, sector by sector.                  *)
LEMMA BarrierFacts ==
    ASSUME IInv, BarrierSucceeds
    PROVE  /\ view' \in ImagesOf(Content)
           /\ \A s \in Sector :
                /\ view'[s] \in Content[s] /\ may'[s] = {view'[s]}
                /\ s \in Dirty => view'[s] = cache[s].bytes
                /\ s \notin Dirty => view'[s] = view[s]
           /\ ~incomplete /\ view'["root"] = Names => \A s \in FatSectors : view'[s] = Used
<1>1. view' = [s \in Sector |-> IF s \in Dirty THEN cache[s].bytes ELSE view[s]]
  BY DEF BarrierSucceeds, Over, DirtyImage
<1>2. ASSUME NEW s \in Sector
      PROVE  /\ view'[s] \in Content[s] /\ may'[s] = {view'[s]}
             /\ s \in Dirty => view'[s] = cache[s].bytes
             /\ s \notin Dirty => view'[s] = view[s]
  <2>1. view[s] \in Content[s]
    BY Parts, ImageFacts DEF TypeOK
  <2>2. s \in Dirty => cache[s].bytes \in Content[s]
    BY Parts DEF TypeOK, Dirty, Absent
  <2>3. QED
    BY <1>1, <2>1, <2>2 DEF BarrierSucceeds
<1>3. view' \in ImagesOf(Content)
  <2>1. view' = [s \in Sector |-> view'[s]]
    BY <1>1
  <2>2. QED
    BY <1>2, <2>1, ImageFacts
<1>4. ASSUME ~incomplete, view'["root"] = Names, NEW s \in FatSectors PROVE view'[s] = Used
  <2>1. View["root"] = Names \/ Names \in may["root"]
    BY <1>2, <1>4, ViewFacts, Parts, SectorFacts DEF DeviceSettled
  <2>2. View[s] = Used /\ may[s] = {Used}
    BY <1>4, <2>1, Parts DEF NamesOnUsedClusters
  <2>3. QED
    BY <1>2, <2>2, ViewFacts, Parts, SectorFacts DEF DeviceSettled
<1>5. QED
  BY <1>2, <1>3, <1>4

(* The cache once its dirty sectors have been written.                     *)
LEMMA CleanedFacts ==
    ASSUME IInv, cache' = Cleaned
    PROVE  /\ DOMAIN cache' = Sector /\ Dirty' = {}
           /\ \A s \in Sector :
                /\ s \in Dirty => cache'[s] = Cached("CLEAN", cache[s].bytes)
                /\ s \notin Dirty => cache'[s] = cache[s]
                /\ cache'[s] = Absent \/ cache'[s] \in [state : {"CLEAN", "DIRTY"}, bytes : Content[s]]
<1>1. ASSUME NEW s \in Sector
      PROVE  /\ s \in Dirty => cache'[s] = Cached("CLEAN", cache[s].bytes)
             /\ s \notin Dirty => cache'[s] = cache[s]
  BY DEF Cleaned
<1>2. DOMAIN cache' = Sector
  BY DEF Cleaned
<1>3. Dirty' = {}
  <2>1. ASSUME NEW s \in Sector PROVE cache'[s].state # "DIRTY"
    <3>1. CASE s \in Dirty
      BY <1>1, <3>1, CachedFacts
    <3>2. CASE s \notin Dirty
      BY <1>1, <3>2 DEF Dirty
    <3>3. QED
      BY <3>1, <3>2
  <2>2. QED
    BY <2>1 DEF Dirty
<1>4. ASSUME NEW s \in Sector
      PROVE  cache'[s] = Absent \/ cache'[s] \in [state : {"CLEAN", "DIRTY"}, bytes : Content[s]]
  <2>1. s \in Dirty => cache[s].bytes \in Content[s]
    BY Parts DEF TypeOK, Dirty, Absent
  <2>2. CASE s \in Dirty
    <3>1. Cached("CLEAN", cache[s].bytes) \in [state : {"CLEAN", "DIRTY"}, bytes : Content[s]]
      BY <2>1, <2>2 DEF Cached
    <3>2. QED
      BY <1>1, <2>2, <3>1
  <2>3. CASE s \notin Dirty
    BY <1>1, <2>3, Parts DEF TypeOK
  <2>4. QED
    BY <2>2, <2>3
<1>5. QED
  BY <1>1, <1>2, <1>3, <1>4

(* What a barrier that succeeds leaves behind.                              *)
LEMMA BarrierStep ==
    ASSUME IInv, BarrierSucceeds, cache' = Cleaned,
           UNCHANGED <<attached, root, mount, serial, phase, ghosts, faults>>,
           power' \in {"READY", "TRANSITIONING"},
           power' = "TRANSITIONING" => plan' = <<>> /\ phase = "running", CommandsOrdered'
    PROVE  IInv'
<1>1. UNCHANGED <<attached, root, mount, serial, phase, incomplete, mountFailed, faults>>
  BY DEF ghosts
<1>2. TypeOK'
  BY <1>1, Parts, BarrierFacts, CleanedFacts DEF TypeOK
<1>3. DeviceSettled'
  <2>1. \A s \in Superblocks : cache'[s] = cache[s]
    BY CleanedFacts, ViewFacts, SectorFacts
  <2>2. QED
    BY <2>1, Parts, BarrierFacts DEF DeviceSettled
<1>4. CacheBelongsToRoot'
  <2>1. ASSUME ~root, NEW s \in Sector PROVE cache'[s] = cache[s]
    BY <2>1, Parts, CleanedFacts DEF CacheBelongsToRoot
  <2>2. QED
    BY <1>1, <2>1, Parts, CleanedFacts, SectorFacts DEF CacheBelongsToRoot
<1>5. ShutdownLosesNothing'
  BY <1>1, BarrierFacts, CleanedFacts DEF ShutdownLosesNothing
<1>6. AdmittedVolumeStays'
  BY <1>1, Parts, BarrierFacts, ViewFacts, SectorFacts DEF AdmittedVolumeStays
<1>7. CacheMirrorsDevice'
  BY <1>1, Parts, BarrierFacts, CleanedFacts DEF CacheMirrorsDevice, Cached
<1>8. ASSUME NEW s \in Sector PROVE View'[s] = View[s]
  <2>1. View'[s] = IF cache'[s].state = "EMPTY" THEN view'[s] ELSE cache'[s].bytes
    BY DEF View
  <2>2. QED
    BY <2>1, BarrierFacts, CleanedFacts, ViewFacts DEF Cached
<1>9. NamesOnUsedClusters'
  <2> SUFFICES ASSUME ~incomplete, View'["root"] = Names \/ Names \in may'["root"],
                      NEW s \in FatSectors
               PROVE  View'[s] = Used /\ may'[s] = {Used}
    BY <1>1 DEF NamesOnUsedClusters
  <2>1. View["root"] = Names \/ Names \in may["root"]
    BY <1>8, BarrierFacts, ViewFacts, Parts, SectorFacts DEF DeviceSettled
  <2>2. View[s] = Used /\ may[s] = {Used}
    BY <2>1, Parts DEF NamesOnUsedClusters
  <2>3. view'[s] = Used
    BY <2>2, BarrierFacts, ViewFacts, Parts, SectorFacts DEF DeviceSettled
  <2>4. QED
    BY <1>8, <2>2, <2>3, BarrierFacts, SectorFacts
<1>10. QED
  BY <1>2, <1>3, <1>4, <1>5, <1>6, <1>7, <1>9, UnmountedPart DEF IInv, NothingLost

(* A barrier that fails leaves the cache, and on the device a mixture.     *)
LEMMA BarrierFailsFacts ==
    ASSUME IInv, BarrierFails
    PROVE  DeviceChanged
<1>1. ASSUME NEW s \in Sector
      PROVE  /\ s \in Dirty => may'[s] = may[s] \cup {cache[s].bytes} /\ cache[s].bytes \in Content[s]
             /\ s \notin Dirty => may'[s] = may[s]
  <2>1. s \in Dirty => cache[s].bytes \in Content[s]
    BY Parts DEF TypeOK, Dirty, Absent
  <2>2. QED
    BY <2>1 DEF BarrierFails, MayAlso, DirtyImage
<1>2. view' = [s \in Sector |-> view'[s]] /\ \A s \in Sector : view'[s] \in may'[s]
  BY ImageFacts DEF BarrierFails
<1>3. \A s \in Sector : may'[s] \subseteq Content[s]
  BY <1>1, Parts DEF TypeOK
<1>4. view' \in ImagesOf(Content)
  BY <1>2, <1>3, ImageFacts
<1>5. ~incomplete => \A s \in Sector : s \notin Dirty => view'[s] = view[s]
  BY <1>1, <1>2, Parts DEF DeviceSettled
<1>6. QED
  BY <1>1, <1>2, <1>3, <1>4, <1>5 DEF DeviceChanged
-----------------------------------------------------------------------------
(* The actions, one by one.                                                *)

LEMMA FaultFacts ==
    ASSUME IInv, Fault
    PROVE  faults' \in 0 .. MaxFaults
  BY Parts, VolumeAssumption DEF Fault, TypeOK

(* What a format writes belongs where it is written.                       *)
LEMMA FormatImages ==
    ASSUME CommandsOrdered, Running("write"), NEW s \in DOMAIN plan[1].image
    PROVE  s \in Sector /\ plan[1].image[s] \in Content[s]
<1>1. PICK n \in Serial : \/ plan[1].image = [x \in FatSectors |-> Zero]
                          \/ plan[1].image = Only("root", Zero)
                          \/ plan[1].image = Only("fat1", Fresh)
                          \/ plan[1].image = Only("backup", n)
                          \/ plan[1].image = Only("primary", n)
  BY WritePlan
<1>2. "backup" \in Superblocks /\ "primary" \in Superblocks /\ "fat1" \in FatSectors
  BY DEF Superblocks, FatSectors
<1>3. QED
  BY <1>1, <1>2, SectorFacts, ContentFacts DEF Only

(* A write, or the part of it that a failed request has done.              *)
LEMMA FormatWrites ==
    ASSUME IInv, Running("write"), may' = MayAlso(plan[1].image),
           view' = [s \in Sector |-> view'[s]],
           \A s \in Sector : \/ view'[s] = view[s]
                             \/ s \in DOMAIN plan[1].image /\ view'[s] = plan[1].image[s]
    PROVE  DeviceChanged
<1>1. incomplete
  BY Parts, WritePlan
<1>2. ASSUME NEW s \in Sector PROVE may'[s] \subseteq Content[s] /\ view'[s] \in may'[s]
  <2>1. may[s] \subseteq Content[s] /\ view[s] \in may[s]
    BY Parts DEF TypeOK, DeviceSettled
  <2>2. CASE s \in DOMAIN plan[1].image
    BY <2>1, <2>2, Parts, FormatImages DEF MayAlso
  <2>3. CASE s \notin DOMAIN plan[1].image
    BY <2>1, <2>3 DEF MayAlso
  <2>4. QED
    BY <2>2, <2>3
<1>3. view' \in ImagesOf(Content)
  BY <1>2, ImageFacts
<1>4. QED
  BY <1>1, <1>2, <1>3 DEF DeviceChanged

LEMMA WriteStep ==
    ASSUME IInv, block_device_write
    PROVE  IInv'
<1>1. /\ Running("write") /\ may' = MayAlso(plan[1].image) /\ plan' = Tail(plan)
      /\ UNCHANGED <<kernel, ghosts>> /\ faults' = faults
      /\ view' = Over(plan[1].image, view)
  BY DEF block_device_write
<1>2. /\ view' = [s \in Sector |-> view'[s]]
      /\ \A s \in Sector : view'[s] = IF s \in DOMAIN plan[1].image THEN plan[1].image[s] ELSE view[s]
  BY <1>1 DEF Over
<1>3. DeviceChanged
  BY <1>1, <1>2, FormatWrites
<1>4. power = "READY" /\ faults' \in 0 .. MaxFaults
  BY <1>1, Parts, PowerReady DEF Running, TypeOK
<1>5. CommandsOrdered'
  <2>1. incomplete' /\ ~root'
    BY <1>1, Parts, WritePlan DEF kernel, ghosts
  <2>2. PICK n \in Serial :
          \/ plan' = Format2(n)
          \/ plan' = Format3(n) /\ plan[1].image = Only("root", Zero)
          \/ /\ view["root"] = Zero
             /\ \/ plan' = Format4(n) /\ plan[1].image = Only("fat1", Fresh)
                \/ plan' = Format5(n) /\ plan[1].image = Only("backup", n)
                \/ plan' = Format6 /\ plan[1].image = Only("primary", n)
    BY <1>1, Parts, WritePlan
  <2>3. plan' = Format2(n) \/ view'["root"] = Zero
    BY <1>2, <2>2, SectorFacts DEF Only
  <2>4. Formatting(n)'
    BY <2>1, <2>2, <2>3 DEF Formatting, Format2, Format3, Format4, Format5, Format6
  <2>5. QED
    BY <2>4 DEF CommandsOrdered
<1>6. QED
  BY <1>1, <1>3, <1>4, <1>5, DeviceStep

LEMMA WriteFailsStep ==
    ASSUME IInv, block_device_write_fails
    PROVE  IInv'
<1>1. /\ Running("write") /\ may' = MayAlso(plan[1].image) /\ plan' = <<>>
      /\ UNCHANGED <<kernel, ghosts>> /\ Fault
  BY DEF block_device_write_fails
<1>2. PICK written \in SUBSET DOMAIN plan[1].image :
        view' = Over([s \in written |-> plan[1].image[s]], view)
  BY DEF block_device_write_fails
<1>3. /\ view' = [s \in Sector |-> view'[s]]
      /\ \A s \in Sector : \/ view'[s] = view[s]
                           \/ s \in DOMAIN plan[1].image /\ view'[s] = plan[1].image[s]
  BY <1>2 DEF Over
<1>4. DeviceChanged
  BY <1>1, <1>3, FormatWrites
<1>5. QED
  BY <1>1, <1>4, DeviceStep, FaultFacts, PowerReady DEF CommandsOrdered, Running

LEMMA FlushStep ==
    ASSUME IInv, block_device_flush
    PROVE  IInv'
<1>1. /\ Running("flush") /\ may' = [s \in Sector |-> {view[s]}] /\ plan' = Tail(plan)
      /\ incomplete' = (incomplete /\ plan[1].command # "format")
      /\ view' = view /\ UNCHANGED <<kernel, mountFailed, faults>>
  BY DEF block_device_flush
<1>2. /\ UNCHANGED <<cache, attached, root, mount, serial, phase, power, mountFailed, faults>>
      /\ power = "READY" /\ Dirty' = Dirty /\ View' = View
  BY <1>1, PowerReady DEF kernel, Running, Dirty, View
<1>3. CASE plan[1].command = "unmount" /\ Tail(plan) = << Detach >>
  <2>1. DeviceChanged
    BY <1>1, Parts, ImageFacts DEF DeviceChanged, TypeOK, DeviceSettled
  <2>2. incomplete' = incomplete
    BY <1>1, <1>3, Parts DEF TypeOK
  <2>3. CommandsOrdered' /\ faults' \in 0 .. MaxFaults
    BY <1>1, <1>3, Parts DEF CommandsOrdered, TypeOK
  <2>4. QED
    BY <1>1, <1>2, <2>1, <2>2, <2>3, DeviceStep DEF ghosts
<1>4. CASE /\ incomplete /\ ~root /\ view["root"] = Zero
           /\ plan[1].command = "format" /\ Tail(plan) = <<>>
  <2>1. ~incomplete' /\ plan' = <<>>
    BY <1>1, <1>4
  <2>2. \A s \in Sector : view[s] \in Content[s]
    BY Parts, ImageFacts DEF TypeOK
  <2>3. TypeOK'
    BY <1>1, <1>2, <2>1, <2>2, Parts DEF TypeOK
  <2>4. DeviceSettled'
    BY <1>1, <1>2, Parts DEF DeviceSettled
  <2>5. CacheBelongsToRoot'
    BY <1>1, <1>2, Parts DEF CacheBelongsToRoot
  <2>6. ShutdownLosesNothing' /\ CommandsOrdered'
    BY <1>2, <2>1 DEF ShutdownLosesNothing, CommandsOrdered
  <2>7. AdmittedVolumeStays' /\ CacheMirrorsDevice'
    <3>1. ~mount.mounted
      BY <1>4, Parts DEF CacheBelongsToRoot
    <3>2. \A s \in Sector : ~mountFailed => cache[s].state = "EMPTY"
      BY <1>4, Parts DEF CacheBelongsToRoot, Absent
    <3>3. QED
      BY <1>1, <1>2, <3>1, <3>2 DEF AdmittedVolumeStays, CacheMirrorsDevice
  <2>8. NamesOnUsedClusters'
    <3>1. View["root"] = Zero
      BY <1>4, Parts, SectorFacts DEF View, CacheBelongsToRoot, Absent
    <3>2. QED
      BY <1>1, <1>2, <1>4, <3>1, SectorFacts, ContentFacts DEF NamesOnUsedClusters
  <2>9. QED
    BY <2>3, <2>4, <2>5, <2>6, <2>7, <2>8, UnmountedPart DEF IInv, NothingLost
<1>5. QED
  BY <1>1, <1>3, <1>4, Parts, FlushPlan

LEMMA FlushFailsStep ==
    ASSUME IInv, block_device_flush_fails
    PROVE  IInv'
<1>1. /\ Fault /\ Running("flush") /\ view' \in ImagesOf(may) /\ plan' = <<>>
      /\ may' = may /\ UNCHANGED <<kernel, ghosts>>
  BY DEF block_device_flush_fails
<1>2. view' = [s \in Sector |-> view'[s]] /\ \A s \in Sector : view'[s] \in may[s]
  BY <1>1, ImageFacts
<1>3. view' \in ImagesOf(Content)
  BY <1>2, Parts, ImageFacts DEF TypeOK
<1>4. DeviceChanged
  BY <1>1, <1>2, <1>3, Parts DEF DeviceChanged, TypeOK, DeviceSettled
<1>5. QED
  BY <1>1, <1>4, DeviceStep, FaultFacts, PowerReady DEF CommandsOrdered, Running
(* Steps of the kernel alone: neither the device nor the cache is touched. *)
LEMMA KernelStep ==
    ASSUME IInv, UNCHANGED <<device, cache>>, incomplete => incomplete', mountFailed => mountFailed',
           TypeOK', CacheBelongsToRoot', ShutdownLosesNothing', AdmittedVolumeStays', CommandsOrdered'
    PROVE  IInv'
<1>1. UNCHANGED <<view, may, cache>>
  BY DEF device
<1>2. Dirty' = Dirty /\ View' = View
  BY <1>1 DEF Dirty, View
<1>3. DeviceSettled'
  BY <1>1, <1>2, Parts DEF DeviceSettled
<1>4. NamesOnUsedClusters'
  BY <1>1, <1>2, Parts DEF NamesOnUsedClusters
<1>5. CacheMirrorsDevice'
  BY <1>1, Parts DEF CacheMirrorsDevice
<1>6. QED
  BY <1>3, <1>4, <1>5, UnmountedPart DEF IInv, NothingLost

LEMMA FormatStep ==
    ASSUME IInv, format_command
    PROVE  IInv'
<1>1. /\ Idle /\ ~root /\ serial < MaxSerial /\ plan' = FormatSteps(serial)
      /\ serial' = serial + 1 /\ incomplete' = TRUE
      /\ UNCHANGED <<device, cache, attached, root, mount, phase, power, mountFailed, faults>>
  BY DEF format_command
<1>2. UNCHANGED <<view, may>> /\ serial \in Serial /\ serial' \in 1 .. MaxSerial
  BY <1>1, Parts, VolumeAssumption DEF device, TypeOK, Serial
<1>3. TypeOK'
  BY <1>1, <1>2, Parts DEF TypeOK
<1>4. CacheBelongsToRoot'
  BY <1>1, Parts DEF CacheBelongsToRoot, Dirty
<1>5. ShutdownLosesNothing' /\ AdmittedVolumeStays'
  BY <1>1, PowerReady DEF ShutdownLosesNothing, AdmittedVolumeStays
<1>6. CommandsOrdered'
  BY <1>1, <1>2 DEF CommandsOrdered, Formatting
<1>7. QED
  BY <1>1, <1>3, <1>4, <1>5, <1>6, KernelStep

(* A volume is admitted only on two superblocks that agree.                 *)
LEMMA ClassifiedFacts ==
    ASSUME IInv
    PROVE  /\ Classified \in {"RW", "DIAGNOSTIC", "REJECTED"} /\ Trusted \in Serial
           /\ Classified = "RW" => \A s \in Superblocks : view[s] = Trusted
<1>1. view["primary"] \in Serial /\ view["backup"] \in Serial
  BY Parts, ImageFacts, SectorFacts, ContentFacts DEF TypeOK, Superblocks
<1>2. QED
  BY <1>1 DEF Classified, Trusted, Superblocks

LEMMA MountStep ==
    ASSUME IInv, ios_fs_mount_root
    PROVE  IInv'
<1>1. MayMount /\ UNCHANGED <<device, cache, serial, power, ghosts, faults>>
  BY DEF ios_fs_mount_root
<1>2. plan = <<>> /\ power = "READY" /\ UNCHANGED <<view, may, incomplete, mountFailed>>
  BY <1>1, PowerReady DEF MayMount, Idle, device, ghosts
<1>3. Dirty' = Dirty
  BY <1>1 DEF Dirty
<1>4. ShutdownLosesNothing'
  BY <1>1, <1>2 DEF ShutdownLosesNothing
<1>5. CASE Classified = "REJECTED" \/ root
  <2>1. /\ mount' = Unmounted(Classified, IF Classified = "REJECTED" THEN 0 ELSE Trusted)
        /\ phase' = "running" /\ UNCHANGED <<root, attached, plan>>
    BY <1>5 DEF ios_fs_mount_root
  <2>2. /\ ~mount'.mounted
        /\ mount' \in [mounted : BOOLEAN, state : {"RW", "DIAGNOSTIC", "REJECTED"},
                       superblock : Serial, ready : BOOLEAN]
    <3>1. (IF Classified = "REJECTED" THEN 0 ELSE Trusted) \in Serial
      BY ClassifiedFacts, ContentFacts DEF Zero
    <3>2. QED
      BY <2>1, <3>1, ClassifiedFacts DEF Unmounted
  <2>3. TypeOK'
    BY <1>1, <1>2, <2>1, <2>2, Parts DEF TypeOK
  <2>4. CacheBelongsToRoot'
    BY <1>1, <1>2, <1>3, <2>1, <2>2, Parts DEF CacheBelongsToRoot
  <2>5. AdmittedVolumeStays' /\ CommandsOrdered'
    BY <1>2, <2>1, <2>2 DEF AdmittedVolumeStays, CommandsOrdered
  <2>6. QED
    BY <1>1, <1>2, <1>4, <2>3, <2>4, <2>5, KernelStep
<1>6. CASE ~(Classified = "REJECTED" \/ root)
  <2>1. /\ mount' = [Unmounted(Classified, Trusted) EXCEPT !.mounted = TRUE]
        /\ root' = TRUE /\ attached' = TRUE /\ plan' = LoadSteps /\ phase' = phase
    BY <1>6 DEF ios_fs_mount_root
  <2>2. /\ mount'.state = Classified /\ mount'.superblock = Trusted
        /\ mount' \in [mounted : BOOLEAN, state : {"RW", "DIAGNOSTIC", "REJECTED"},
                       superblock : Serial, ready : BOOLEAN]
    <3>1. mount' = [mounted |-> TRUE, state |-> Classified, superblock |-> Trusted, ready |-> FALSE]
      BY <2>1 DEF Unmounted
    <3>2. QED
      BY <3>1, ClassifiedFacts
  <2>3. TypeOK'
    BY <1>1, <1>2, <2>1, <2>2, Parts DEF TypeOK
  <2>4. CacheBelongsToRoot'
    BY <2>1 DEF CacheBelongsToRoot
  <2>5. AdmittedVolumeStays'
    BY <1>2, <2>2, ClassifiedFacts DEF AdmittedVolumeStays
  <2>6. CommandsOrdered'
    BY <1>1, <1>3, <1>6, <2>1, Parts DEF CommandsOrdered, Loading, CacheBelongsToRoot
  <2>7. QED
    BY <1>1, <1>2, <1>4, <2>3, <2>4, <2>5, <2>6, KernelStep
<1>7. QED
  BY <1>5, <1>6

LEMMA ProbeFailsStep ==
    ASSUME IInv, ios_fs_mount_probe_fails
    PROVE  IInv'
<1>1. /\ Fault /\ MayMount /\ mount' = Unmounted("REJECTED", 0) /\ phase' = "running"
      /\ UNCHANGED <<device, cache, attached, root, serial, plan, power, ghosts>>
  BY DEF ios_fs_mount_probe_fails
<1>2. plan = <<>> /\ power = "READY" /\ UNCHANGED <<view, may, incomplete, mountFailed>>
  BY <1>1, PowerReady DEF MayMount, Idle, device, ghosts
<1>3. /\ ~mount'.mounted
      /\ mount' \in [mounted : BOOLEAN, state : {"RW", "DIAGNOSTIC", "REJECTED"},
                     superblock : Serial, ready : BOOLEAN]
  BY <1>1, VolumeAssumption DEF Unmounted, Serial
<1>4. TypeOK'
  BY <1>1, <1>2, <1>3, FaultFacts, Parts DEF TypeOK
<1>5. CacheBelongsToRoot'
  BY <1>1, <1>2, <1>3, Parts DEF CacheBelongsToRoot, Dirty
<1>6. ShutdownLosesNothing' /\ AdmittedVolumeStays' /\ CommandsOrdered'
  BY <1>1, <1>2, <1>3 DEF ShutdownLosesNothing, AdmittedVolumeStays, CommandsOrdered
<1>7. QED
  BY <1>1, <1>2, <1>4, <1>5, <1>6, KernelStep

(* A mount that fails half way leaves clean entries and says so.           *)
LEMMA ReadyFailsStep ==
    ASSUME IInv, ReadyFails, faults' \in 0 .. MaxFaults, plan # <<>>,
           root, Dirty = {}, cache["root"] = Absent
    PROVE  IInv'
<1>1. /\ plan' = <<>> /\ mountFailed' = TRUE
      /\ UNCHANGED <<device, cache, attached, serial, power, incomplete>>
      /\ \/ phase' = "stopped" /\ UNCHANGED <<root, mount>>
         \/ root' = FALSE /\ mount' = [mount EXCEPT !.mounted = FALSE] /\ UNCHANGED phase
  BY DEF ReadyFails
<1>2. UNCHANGED <<view, may>> /\ Dirty' = Dirty /\ power = "READY"
  BY <1>1, PowerReady DEF device, Dirty
<1>3. /\ mount' \in [mounted : BOOLEAN, state : {"RW", "DIAGNOSTIC", "REJECTED"},
                     superblock : Serial, ready : BOOLEAN]
      /\ mount' = mount \/ ~mount'.mounted
      /\ root' \in BOOLEAN /\ (~root' => ~mount'.mounted) /\ phase' \in {"boot", "running", "stopped"}
  BY <1>1, Parts DEF TypeOK
<1>4. TypeOK'
  BY <1>1, <1>2, <1>3, Parts DEF TypeOK
<1>5. CacheBelongsToRoot'
  BY <1>1, <1>2, <1>3 DEF CacheBelongsToRoot
<1>6. ShutdownLosesNothing' /\ CommandsOrdered'
  BY <1>1, <1>2 DEF ShutdownLosesNothing, CommandsOrdered
<1>7. AdmittedVolumeStays'
  BY <1>1, <1>2, <1>3, Parts DEF AdmittedVolumeStays
<1>8. QED
  BY <1>1, <1>4, <1>5, <1>6, <1>7, KernelStep

LEMMA LoadFailsStep ==
    ASSUME IInv, load_fat_fails
    PROVE  IInv'
  BY Parts, LoadPlan, FaultFacts, ReadyFailsStep DEF load_fat_fails, Running

LEMMA ReadyStep ==
    ASSUME IInv, runtime_mount_ready
    PROVE  IInv'
<1>1. Running("ready") /\ faults' = faults /\ plan # <<>>
  BY DEF runtime_mount_ready, Running
<1>2. root /\ Dirty = {} /\ cache["root"] = Absent /\ Tail(plan) = <<>>
  BY <1>1, Parts, ReadyPlan
<1>3. CASE ReadyFails
  BY <1>1, <1>2, <1>3, Parts, ReadyFailsStep DEF TypeOK
<1>4. CASE /\ mount' = [mount EXCEPT !.ready = TRUE] /\ phase' = "running" /\ plan' = Tail(plan)
           /\ UNCHANGED <<device, cache, attached, root, serial, power, ghosts>>
  <2>1. UNCHANGED <<view, may, incomplete, mountFailed>> /\ power = "READY"
    BY <1>1, <1>4, PowerReady DEF device, ghosts
  <2>2. /\ mount' \in [mounted : BOOLEAN, state : {"RW", "DIAGNOSTIC", "REJECTED"},
                       superblock : Serial, ready : BOOLEAN]
        /\ mount'.mounted = mount.mounted /\ mount'.state = mount.state
        /\ mount'.superblock = mount.superblock
    BY <1>4, Parts DEF TypeOK
  <2>3. TypeOK'
    BY <1>1, <1>4, <2>1, <2>2, Parts DEF TypeOK
  <2>4. CacheBelongsToRoot' /\ ShutdownLosesNothing' /\ CommandsOrdered'
    BY <1>2, <1>4, <2>1 DEF CacheBelongsToRoot, ShutdownLosesNothing, CommandsOrdered
  <2>5. AdmittedVolumeStays'
    BY <1>4, <2>1, <2>2, Parts DEF AdmittedVolumeStays
  <2>6. QED
    BY <1>4, <2>1, <2>3, <2>4, <2>5, KernelStep
<1>5. QED
  BY <1>3, <1>4 DEF runtime_mount_ready
(* The file service and the cache.                                         *)

LEMMA LoadStep ==
    ASSUME IInv, load_fat
    PROVE  IInv'
<1> DEFINE x == plan[1].sector
<1>1. /\ Running("load") /\ plan' = Tail(plan)
      /\ cache' = IF cache[x].state = "EMPTY"
                  THEN [cache EXCEPT ![x] = Cached("CLEAN", view[x])] ELSE cache
      /\ UNCHANGED <<device, attached, root, mount, serial, phase, power, ghosts>> /\ faults' = faults
  BY DEF load_fat
<1>2. /\ root /\ Dirty = {} /\ cache["root"] = Absent
      /\ \/ x = "fat1" /\ plan' = << Load("fat2"), SetReady >>
         \/ x = "fat2" /\ plan' = << SetReady >>
  BY <1>1, Parts, LoadPlan
<1>3. x \in Sector /\ x \notin Superblocks /\ x # "root"
  BY <1>2, SectorFacts DEF FatSectors, Superblocks
<1> HIDE DEF x
<1>4. /\ DOMAIN cache' = Sector
      /\ \A s \in Sector : \/ cache'[s] = cache[s]
                           \/ s = x /\ cache[s].state = "EMPTY" /\ cache'[s] = Cached("CLEAN", view[s])
  BY <1>1, <1>3, Parts DEF TypeOK
<1>5. CacheChanged /\ cache'["root"] = cache["root"]
  BY <1>3, <1>4, SectorFacts DEF CacheChanged
<1>6. Dirty' = {}
  <2>1. ASSUME NEW s \in Sector PROVE cache'[s].state # "DIRTY"
    <3>1. cache[s].state # "DIRTY"
      BY <1>2 DEF Dirty
    <3>2. QED
      BY <1>4, <3>1, CachedFacts
  <2>2. QED
    BY <2>1 DEF Dirty
<1>7. NamesOnUsedClusters'
  BY <1>1, <1>2, <1>5, <1>6, CleanStepNames
<1>8. CommandsOrdered'
  BY <1>1, <1>2, <1>5, <1>6 DEF CommandsOrdered, Loading
<1>9. power = "READY" /\ faults' \in 0 .. MaxFaults
  BY <1>1, Parts, PowerReady DEF Running, TypeOK
<1>10. QED
  BY <1>1, <1>2, <1>5, <1>7, <1>8, <1>9, CacheStep

(* The states in which a file may be named, and what they say of the root. *)
LEMMA OperationFacts ==
    ASSUME IInv, vfs_mount_begin_operation
    PROVE  root /\ power = "READY" /\ plan = <<>>
  BY Parts DEF vfs_mount_begin_operation, CacheBelongsToRoot, Idle

LEMMA CreateStep ==
    ASSUME IInv, vfs_create_file
    PROVE  IInv'
<1>1. /\ UNCHANGED <<device, kernel, ghosts>> /\ faults' = faults /\ vfs_mount_begin_operation
      /\ plan' = << Put(Chain), Barrier, Put(Only("root", Names)), Barrier >>
  BY DEF vfs_create_file
<1>2. root' /\ power = "READY"
  BY <1>1, OperationFacts DEF kernel
<1>3. CommandsOrdered' /\ faults' \in 0 .. MaxFaults
  BY <1>1, <1>2, Parts DEF CommandsOrdered, Saving, TypeOK
<1>4. QED
  BY <1>1, <1>2, <1>3, PlanStep

LEMMA RemoveStep ==
    ASSUME IInv, vfs_remove_object
    PROVE  IInv'
<1>1. /\ UNCHANGED <<device, kernel, ghosts>> /\ faults' = faults /\ vfs_mount_begin_operation
      /\ plan' = << Put(Only("root", Zero)), Barrier, Put(NoChain), Barrier >>
  BY DEF vfs_remove_object
<1>2. root' /\ power = "READY"
  BY <1>1, OperationFacts DEF kernel
<1>3. CommandsOrdered' /\ faults' \in 0 .. MaxFaults
  BY <1>1, <1>2, Parts DEF CommandsOrdered, Removing, TypeOK
<1>4. QED
  BY <1>1, <1>2, <1>3, PlanStep

(* A clean entry more, or one less.                                        *)
LEMMA CleanEntryStep ==
    ASSUME IInv, NEW x \in Sector \ Superblocks, root, power = "READY", plan = <<>>,
           \/ cache[x].state = "EMPTY" /\ cache' = [cache EXCEPT ![x] = Cached("CLEAN", view[x])]
           \/ cache[x].state = "CLEAN" /\ cache' = [cache EXCEPT ![x] = Absent],
           UNCHANGED <<device, attached, root, mount, serial, plan, phase, power, ghosts, faults>>
    PROVE  IInv'
<1>1. /\ DOMAIN cache' = Sector
      /\ \A s \in Sector : s # x => cache'[s] = cache[s]
      /\ \/ cache[x].state = "EMPTY" /\ cache'[x] = Cached("CLEAN", view[x])
         \/ cache[x].state = "CLEAN" /\ cache'[x] = Absent
  BY Parts DEF TypeOK
<1>2. CacheChanged
  BY <1>1, SectorFacts DEF CacheChanged
<1>3. cache[x].state # "DIRTY" /\ cache'[x].state # "DIRTY"
  BY <1>1, CachedFacts
<1>4. Dirty' = Dirty /\ \A s \in Dirty : cache'[s] = cache[s]
  BY <1>1, <1>3 DEF Dirty
<1>5. NamesOnUsedClusters'
  BY <1>2, <1>4, CleanStepNames
<1>6. CommandsOrdered' /\ faults' \in 0 .. MaxFaults
  BY Parts DEF CommandsOrdered, TypeOK
<1>7. QED
  BY <1>2, <1>5, <1>6, CacheStep

LEMMA EnumerateStep ==
    ASSUME IInv, vfs_enumerate
    PROVE  IInv'
  BY OperationFacts, SectorFacts, CleanEntryStep DEF vfs_enumerate

LEMMA VictimStep ==
    ASSUME IInv, NEW s \in Sector, select_victim(s)
    PROVE  IInv'
<1>1. s \notin Superblocks
  BY Parts DEF select_victim, DeviceSettled, Absent
<1>2. power = "READY" /\ plan = <<>> /\ root
  BY DEF select_victim, Idle
<1>3. QED
  BY <1>1, <1>2, CleanEntryStep DEF select_victim
(* What is put into the cache belongs where it is put.                     *)
LEMMA PutImages ==
    ASSUME CommandsOrdered, Running("put"), NEW s \in DOMAIN plan[1].image
    PROVE  s \in Sector /\ s \notin Superblocks /\ plan[1].image[s] \in Content[s]
<1>1. \/ plan[1].image = Chain \/ plan[1].image = NoChain
      \/ plan[1].image = Only("root", Names) \/ plan[1].image = Only("root", Zero)
  BY PutPlan
<1>2. \A x \in FatSectors : NoChain[x] \in Content[x] /\ Chain[x] \in Content[x]
  BY ContentFacts DEF NoChain, Chain, FatSectors
<1>3. DOMAIN NoChain = FatSectors /\ DOMAIN Chain = FatSectors
  BY DEF NoChain, Chain
<1>4. QED
  BY <1>1, <1>2, <1>3, SectorFacts, ContentFacts DEF Only

(* The cache accepts an image, or the part of it before a refusal.         *)
LEMMA AcceptedStep ==
    ASSUME IInv, Running("put"), NEW accepted \in SUBSET DOMAIN plan[1].image,
           cache' = [s \in Sector |-> IF s \in accepted THEN Cached("DIRTY", plan[1].image[s]) ELSE cache[s]],
           UNCHANGED <<device, attached, root, mount, serial, phase, power, ghosts>>,
           faults' \in 0 .. MaxFaults, CommandsOrdered'
    PROVE  IInv'
<1>1. UNCHANGED <<view, may, incomplete>>
  BY DEF device, ghosts
<1>2. DOMAIN cache' = Sector
  OBVIOUS
<1>3. ASSUME NEW s \in Sector
      PROVE  /\ s \in accepted => cache'[s] = Cached("DIRTY", plan[1].image[s])
             /\ s \notin accepted => cache'[s] = cache[s]
  OBVIOUS
<1>4. CacheChanged
  BY <1>2, <1>3, Parts, PutImages, SectorFacts DEF CacheChanged
<1>5. ASSUME NEW s \in Sector
      PROVE  /\ s \in accepted => View'[s] = plan[1].image[s]
             /\ s \notin accepted => View'[s] = View[s]
  <2>1. View'[s] = IF cache'[s].state = "EMPTY" THEN view[s] ELSE cache'[s].bytes
    BY <1>1 DEF View
  <2>2. QED
    BY <1>3, <2>1, CachedFacts, ViewFacts
<1>6. NamesOnUsedClusters'
  <2> SUFFICES ASSUME ~incomplete, View'["root"] = Names \/ Names \in may["root"],
                      NEW s \in FatSectors
               PROVE  View'[s] = Used /\ may[s] = {Used}
    BY <1>1 DEF NamesOnUsedClusters
  <2>1. s \in Sector /\ s # "root" /\ "root" \in Sector
    BY SectorFacts
  <2>2. View["root"] = Names \/ Names \in may["root"] => View[s] = Used /\ may[s] = {Used}
    BY Parts DEF NamesOnUsedClusters
  <2>3. CASE plan[1].image = Chain
    <3>1. "root" \notin accepted
      BY <2>3, SectorFacts DEF Chain
    <3>2. s \in accepted => View'[s] = Used
      BY <1>5, <2>1, <2>3 DEF Chain
    <3>3. QED
      BY <1>5, <2>1, <2>2, <3>1, <3>2
  <2>4. CASE plan[1].image = Only("root", Names) /\ \A x \in FatSectors : View[x] = Used /\ may[x] = {Used}
    <3>1. s \notin accepted
      BY <2>1, <2>4 DEF Only
    <3>2. QED
      BY <1>5, <2>1, <2>4, <3>1
  <2>5. CASE plan[1].image = Only("root", Zero)
    <3>1. s \notin accepted /\ ("root" \in accepted => View'["root"] = Zero)
      BY <1>5, <2>1, <2>5 DEF Only
    <3>2. QED
      BY <1>5, <2>1, <2>2, <3>1, ContentFacts
  <2>6. CASE plan[1].image = NoChain /\ View["root"] = Zero /\ may["root"] = {Zero}
    <3>1. "root" \notin accepted
      BY <2>6, SectorFacts DEF NoChain
    <3>2. QED
      BY <1>5, <2>1, <2>6, <3>1, ContentFacts
  <2>7. QED
    BY <2>3, <2>4, <2>5, <2>6, Parts, PutPlan
<1>7. root /\ power = "READY"
  BY Parts, PutPlan, PowerReady DEF Running
<1>8. QED
  BY <1>4, <1>6, <1>7, CacheStep

LEMMA PutStep ==
    ASSUME IInv, ios_fs_sync_write_sector
    PROVE  IInv'
<1>1. /\ Running("put") /\ cache' = Accepted(plan[1].image) /\ plan' = Tail(plan) /\ faults' = faults
      /\ UNCHANGED <<device, attached, root, mount, serial, phase, power, ghosts>>
  BY DEF ios_fs_sync_write_sector
<1>2. cache' = [s \in Sector |-> IF s \in DOMAIN plan[1].image
                                 THEN Cached("DIRTY", plan[1].image[s]) ELSE cache[s]]
  BY <1>1 DEF Accepted
<1>3. CommandsOrdered'
  <2>1. root'
    BY <1>1, Parts, PutPlan
  <2>2. CASE /\ plan[1].image = Chain
             /\ plan' = << Barrier, Put(Only("root", Names)), Barrier >>
    <3>1. \A s \in FatSectors : cache'[s] = Cached("DIRTY", Used)
      BY <1>2, <2>2, SectorFacts DEF Chain
    <3>2. QED
      BY <2>1, <2>2, <3>1 DEF CommandsOrdered, Saving
  <2>3. CASE /\ plan[1].image = Only("root", Zero)
             /\ plan' = << Barrier, Put(NoChain), Barrier >>
    <3>1. cache'["root"] = Cached("DIRTY", Zero)
      BY <1>2, <2>3, SectorFacts DEF Only
    <3>2. QED
      BY <2>1, <2>3, <3>1 DEF CommandsOrdered, Removing
  <2>4. CASE plan' = << Barrier >>
    BY <2>4 DEF CommandsOrdered
  <2>5. QED
    BY <1>1, <2>2, <2>3, <2>4, Parts, PutPlan
<1>4. faults' \in 0 .. MaxFaults
  BY <1>1, Parts DEF TypeOK
<1>5. QED
  BY <1>1, <1>2, <1>3, <1>4, AcceptedStep

LEMMA PutRefusedStep ==
    ASSUME IInv, ios_fs_sync_write_refused
    PROVE  IInv'
<1>1. /\ Running("put") /\ Fault /\ plan' = <<>>
      /\ UNCHANGED <<device, attached, root, mount, serial, phase, power, ghosts>>
  BY DEF ios_fs_sync_write_refused
<1>2. PICK accepted \in SUBSET DOMAIN plan[1].image :
        cache' = Accepted([s \in accepted |-> plan[1].image[s]])
  BY DEF ios_fs_sync_write_refused
<1>3. cache' = [s \in Sector |-> IF s \in accepted THEN Cached("DIRTY", plan[1].image[s]) ELSE cache[s]]
  BY <1>2 DEF Accepted
<1>4. CommandsOrdered' /\ faults' \in 0 .. MaxFaults
  BY <1>1, FaultFacts DEF CommandsOrdered
<1>5. QED
  BY <1>1, <1>3, <1>4, AcceptedStep

(* Barriers, sync, unmount and power.                                      *)

LEMMA BarrierActionStep ==
    ASSUME IInv, ios_fs_sync_barrier
    PROVE  IInv'
<1>1. /\ Running("barrier") /\ BarrierSucceeds /\ cache' = Cleaned /\ plan' = Tail(plan)
      /\ UNCHANGED <<attached, root, mount, serial, phase, power, ghosts, faults>>
  BY DEF ios_fs_sync_barrier
<1>2. power' = "READY"
  BY <1>1, PowerReady DEF Running
<1>3. CommandsOrdered'
  <2>1. ASSUME NEW s \in Sector, NEW v, cache[s] = Cached("DIRTY", v)
        PROVE  View'[s] = v /\ may'[s] = {v}
    <3>1. s \in Dirty /\ cache[s].bytes = v
      BY <2>1, CachedFacts DEF Dirty
    <3>2. cache'[s] = Cached("CLEAN", v) /\ may'[s] = {v}
      BY <1>1, <3>1, BarrierFacts, CleanedFacts
    <3>3. QED
      BY <3>2, CachedFacts DEF View
  <2>2. CASE plan' = <<>>
    BY <2>2 DEF CommandsOrdered
  <2>3. CASE /\ root /\ plan' = << Put(Only("root", Names)), Barrier >>
             /\ \A s \in FatSectors : cache[s] = Cached("DIRTY", Used)
    BY <1>1, <2>1, <2>3, SectorFacts DEF CommandsOrdered, Saving
  <2>4. CASE /\ root /\ plan' = << Put(NoChain), Barrier >>
             /\ cache["root"] = Cached("DIRTY", Zero)
    BY <1>1, <2>1, <2>4, SectorFacts DEF CommandsOrdered, Removing
  <2>5. QED
    BY <1>1, <2>2, <2>3, <2>4, Parts, BarrierPlan
<1>4. QED
  BY <1>1, <1>2, <1>3, BarrierStep

(* A barrier fails: of a save, a removal, a sync, an unmount, a power-off. *)
LEMMA BarrierFailsStep ==
    ASSUME IInv, Fault, BarrierFails, power = "READY", plan' = <<>>, UNCHANGED <<kernel, ghosts>>
    PROVE  IInv'
  BY BarrierFailsFacts, DeviceStep, FaultFacts DEF CommandsOrdered

LEMMA FailureSteps ==
    ASSUME IInv, ios_fs_sync_barrier_fails \/ vfs_unmount_root_fails \/ ios_power_request_fails
    PROVE  IInv'
<1>1. CASE ios_fs_sync_barrier_fails
  BY <1>1, BarrierFailsStep, PowerReady DEF ios_fs_sync_barrier_fails, Running
<1>2. CASE vfs_unmount_root_fails
  BY <1>2, BarrierFailsStep, PowerReady DEF vfs_unmount_root_fails, Running
<1>3. CASE ios_power_request_fails
  BY <1>3, BarrierFailsStep, PowerReady DEF ios_power_request_fails, Idle
<1>4. QED
  BY <1>1, <1>2, <1>3

(* A command that only begins, and an unmount that is refused.             *)
LEMMA BeginSteps ==
    ASSUME IInv, sync_command \/ unmount_command \/ vfs_unmount_root_refused
    PROVE  IInv'
<1>1. /\ UNCHANGED <<device, kernel, ghosts>> /\ faults' = faults /\ (Idle \/ plan # <<>>)
      /\ plan' = << Barrier >> \/ plan' = << Flush("unmount"), Detach >> \/ plan' = <<>>
  BY DEF sync_command, unmount_command, vfs_unmount_root_refused, Running
<1>2. CommandsOrdered' /\ faults' \in 0 .. MaxFaults /\ power = "READY"
  BY <1>1, Parts, PowerReady DEF CommandsOrdered, TypeOK
<1>3. QED
  BY <1>1, <1>2, PlanStep

LEMMA UnmountStep ==
    ASSUME IInv, vfs_unmount_root
    PROVE  IInv'
<1>1. /\ Running("detach") /\ mount.mounted /\ BarrierSucceeds /\ cache' = EmptyCache
      /\ attached' = FALSE /\ root' = FALSE /\ mount' = [mount EXCEPT !.mounted = FALSE]
      /\ mountFailed' = FALSE /\ plan' = <<>>
      /\ UNCHANGED <<serial, phase, power, incomplete, faults>>
  BY DEF vfs_unmount_root
<1>2. power' = "READY"
  BY <1>1, PowerReady DEF Running
<1>3. /\ DOMAIN cache' = Sector
      /\ \A s \in Sector : cache'[s] = Absent /\ cache'[s].state = "EMPTY"
      /\ Dirty' = {}
  BY <1>1 DEF EmptyCache, Absent, Dirty
<1>4. /\ ~mount'.mounted
      /\ mount' \in [mounted : BOOLEAN, state : {"RW", "DIAGNOSTIC", "REJECTED"},
                     superblock : Serial, ready : BOOLEAN]
  BY <1>1, Parts DEF TypeOK
<1>5. TypeOK'
  <2>1. view' \in ImagesOf(Content) /\ \A s \in Sector : may'[s] \subseteq Content[s] /\ may'[s] # {}
    BY <1>1, BarrierFacts
  <2>2. QED
    BY <1>1, <1>3, <1>4, <2>1, Parts DEF TypeOK
<1>6. DeviceSettled'
  BY <1>1, <1>3, BarrierFacts, SectorFacts DEF DeviceSettled
<1>7. CacheBelongsToRoot'
  BY <1>3, <1>4, SectorFacts DEF CacheBelongsToRoot
<1>8. ShutdownLosesNothing' /\ AdmittedVolumeStays' /\ CommandsOrdered'
  BY <1>1, <1>2, <1>4 DEF ShutdownLosesNothing, AdmittedVolumeStays, CommandsOrdered
<1>9. CacheMirrorsDevice'
  BY <1>3 DEF CacheMirrorsDevice
<1>10. NamesOnUsedClusters'
  <2>1. \A s \in Sector : View'[s] = view'[s] /\ may'[s] = {view'[s]}
    BY <1>1, <1>3, BarrierFacts DEF View
  <2>2. QED
    BY <1>1, <2>1, BarrierFacts, SectorFacts DEF NamesOnUsedClusters
<1>11. QED
  BY <1>5, <1>6, <1>7, <1>8, <1>9, <1>10, UnmountedPart DEF IInv, NothingLost

LEMMA PowerRequestStep ==
    ASSUME IInv, ios_power_request
    PROVE  IInv'
<1>1. /\ Idle /\ BarrierSucceeds /\ cache' = Cleaned /\ power' = "TRANSITIONING"
      /\ UNCHANGED <<attached, root, mount, serial, plan, phase, ghosts, faults>>
  BY DEF ios_power_request
<1>2. plan' = <<>> /\ phase = "running" /\ CommandsOrdered'
  BY <1>1 DEF Idle, CommandsOrdered
<1>3. QED
  BY <1>1, <1>2, BarrierStep

LEMMA TransitionFailsStep ==
    ASSUME IInv, ios_uefi_power_transition_fails
    PROVE  IInv'
<1>1. /\ Fault /\ power = "TRANSITIONING" /\ power' = "READY"
      /\ UNCHANGED <<device, cache, attached, root, mount, serial, plan, phase, ghosts>>
  BY DEF ios_uefi_power_transition_fails
<1>2. UNCHANGED <<view, may, incomplete, mountFailed>> /\ plan' = <<>>
  BY <1>1, Parts DEF device, ghosts, ShutdownLosesNothing
<1>3. TypeOK'
  BY <1>1, <1>2, FaultFacts, Parts DEF TypeOK
<1>4. CacheBelongsToRoot' /\ AdmittedVolumeStays'
  BY <1>1, <1>2, Parts DEF CacheBelongsToRoot, Dirty, AdmittedVolumeStays
<1>5. ShutdownLosesNothing' /\ CommandsOrdered'
  BY <1>1, <1>2 DEF ShutdownLosesNothing, CommandsOrdered
<1>6. QED
  BY <1>1, <1>2, <1>3, <1>4, <1>5, KernelStep
LEMMA ResetStep ==
    ASSUME IInv, Reset
    PROVE  IInv'
<1>1. /\ cache' = EmptyCache /\ attached' = TRUE /\ root' = FALSE
      /\ mount' = Unmounted("REJECTED", 0) /\ serial' = 1 /\ plan' = <<>>
      /\ phase' = "boot" /\ power' = "READY" /\ mountFailed' = FALSE /\ incomplete' = incomplete
      /\ view' \in ImagesOf(may) /\ may' = [s \in Sector |-> {view'[s]}]
      /\ faults' = faults \/ Fault
  BY DEF Reset
<1>2. view' = [s \in Sector |-> view'[s]] /\ \A s \in Sector : view'[s] \in may[s]
  BY <1>1, ImageFacts
<1>3. view' \in ImagesOf(Content) /\ \A s \in Sector : view'[s] \in Content[s]
  <2>1. \A s \in Sector : view'[s] \in Content[s]
    BY <1>2, Parts DEF TypeOK
  <2>2. QED
    BY <1>2, <2>1, ImageFacts
<1>4. DOMAIN cache' = Sector /\ \A s \in Sector : cache'[s] = Absent
  BY <1>1 DEF EmptyCache
<1>5. Dirty' = {} /\ \A s \in Sector : cache'[s].state = "EMPTY"
  BY <1>4, CachedFacts DEF Dirty
<1>6. /\ ~mount'.mounted
      /\ mount' \in [mounted : BOOLEAN, state : {"RW", "DIAGNOSTIC", "REJECTED"},
                     superblock : Serial, ready : BOOLEAN]
  BY <1>1, VolumeAssumption DEF Unmounted, Serial
<1>7. TypeOK'
  <2>1. faults' \in 0 .. MaxFaults
    BY <1>1, FaultFacts, Parts DEF TypeOK
  <2>2. \A s \in Sector : may'[s] \subseteq Content[s] /\ may'[s] # {}
    BY <1>1, <1>3
  <2>3. serial' \in 1 .. MaxSerial /\ incomplete' \in BOOLEAN
    BY <1>1, VolumeAssumption, Parts DEF TypeOK
  <2>4. QED
    BY <1>1, <1>3, <1>4, <1>6, <2>1, <2>2, <2>3 DEF TypeOK
<1>8. DeviceSettled' /\ CacheBelongsToRoot'
  BY <1>1, <1>4, <1>5, <1>6, SectorFacts DEF DeviceSettled, CacheBelongsToRoot
<1>9. ShutdownLosesNothing' /\ AdmittedVolumeStays' /\ CommandsOrdered' /\ CacheMirrorsDevice'
  BY <1>1, <1>5, <1>6 DEF ShutdownLosesNothing, AdmittedVolumeStays, CommandsOrdered, CacheMirrorsDevice
<1>10. NamesOnUsedClusters'
  <2>1. \A s \in Sector : View'[s] = view'[s] /\ may'[s] = {view'[s]}
    BY <1>1, <1>5 DEF View
  <2>2. ~incomplete /\ view'["root"] = Names => \A s \in FatSectors : view'[s] = Used
    BY <1>2, Parts, SectorFacts DEF NamesOnUsedClusters
  <2>3. QED
    BY <1>1, <2>1, <2>2, SectorFacts DEF NamesOnUsedClusters
<1>11. QED
  BY <1>7, <1>8, <1>9, <1>10, UnmountedPart DEF IInv, NothingLost

(* The states of the disk the kernel may be booted on.                     *)
LEMMA InitialDisk ==
    ASSUME Init
    PROVE  /\ view = [s \in Sector |-> view[s]]
           /\ \A s \in Sector : view[s] \in Content[s]
           /\ view["root"] = Names => \A s \in FatSectors : view[s] = Used
<1> DEFINE Sound(v) == /\ v = [s \in Sector |-> v[s]]
                       /\ \A s \in Sector : v[s] \in Content[s]
                       /\ v["root"] = Names => \A s \in FatSectors : v[s] = Used
           Volumes == {Formatted(1), Over(WithFile, Formatted(1))}
<1>1. \A s \in Superblocks : {Zero, 1} \subseteq Content[s]
  BY VolumeAssumption, ContentFacts DEF Serial, Zero
<1>2. Sound(Blank)
  BY SectorFacts, ContentFacts DEF Blank
<1>3. Sound(Formatted(1))
  BY <1>1, SectorFacts, ContentFacts DEF Formatted, Superblocks, FatSectors
<1>4. Sound(Over(WithFile, Formatted(1)))
  <2>1. /\ \A s \in Superblocks : Over(WithFile, Formatted(1))[s] = 1
        /\ \A s \in FatSectors : Over(WithFile, Formatted(1))[s] = Used
        /\ Over(WithFile, Formatted(1))["root"] = Names
    BY SectorFacts DEF Over, WithFile, Formatted
  <2>2. Over(WithFile, Formatted(1)) = [s \in Sector |-> Over(WithFile, Formatted(1))[s]]
    BY DEF Over
  <2>3. QED
    BY <1>1, <2>1, <2>2, SectorFacts, ContentFacts
<1>5. ASSUME NEW v, Sound(v), NEW x \in Superblocks PROVE Sound(Over(Only(x, Zero), v))
  <2>1. /\ Over(Only(x, Zero), v) = [s \in Sector |-> IF s = x THEN Zero ELSE v[s]]
    BY DEF Over, Only
  <2>2. QED
    BY <1>1, <1>5, <2>1, SectorFacts
<1>6. ASSUME NEW v, Sound(v) PROVE Sound(Over(<<>>, v))
  <2>1. DOMAIN <<>> = {}
    OBVIOUS
  <2>2. Over(<<>>, v) = [s \in Sector |-> v[s]]
    BY <2>1 DEF Over
  <2>3. QED
    BY <1>6, <2>2
<1>7. \A v \in Volumes : Sound(v)
  BY <1>3, <1>4
<1>8. \/ view = Blank
      \/ \E v \in Volumes : \/ view = Over(<<>>, v)
                            \/ view = Over(Only("primary", Zero), v)
                            \/ view = Over(Only("backup", Zero), v)
  BY DEF Init
<1> HIDE DEF Volumes, Sound
<1>9. Sound(view)
  BY <1>2, <1>5, <1>6, <1>7, <1>8 DEF Superblocks
<1>10. QED
  BY <1>9 DEF Sound

(* The initial states satisfy the invariant.                                *)
LEMMA InitInvariant ==
    ASSUME Init
    PROVE  IInv
<1>1. /\ may = [s \in Sector |-> {view[s]}] /\ cache = EmptyCache /\ attached = TRUE /\ root = FALSE
      /\ mount = Unmounted("REJECTED", 0) /\ serial = 1 /\ plan = <<>> /\ phase = "boot"
      /\ power = "READY" /\ mountFailed = FALSE /\ incomplete = FALSE /\ faults = 0
  BY DEF Init
<1>2. /\ view \in ImagesOf(Content) /\ \A s \in Sector : view[s] \in Content[s]
      /\ view["root"] = Names => \A s \in FatSectors : view[s] = Used
  BY InitialDisk, ImageFacts
<1>3. DOMAIN cache = Sector /\ \A s \in Sector : cache[s] = Absent
  BY <1>1 DEF EmptyCache
<1>4. Dirty = {} /\ \A s \in Sector : cache[s].state = "EMPTY"
  BY <1>3, CachedFacts DEF Dirty
<1>5. /\ ~mount.mounted
      /\ mount \in [mounted : BOOLEAN, state : {"RW", "DIAGNOSTIC", "REJECTED"},
                    superblock : Serial, ready : BOOLEAN]
  BY <1>1, VolumeAssumption DEF Unmounted, Serial
<1>6. TypeOK
  <2>1. \A s \in Sector : may[s] \subseteq Content[s] /\ may[s] # {}
    BY <1>1, <1>2
  <2>2. serial \in 1 .. MaxSerial /\ faults \in 0 .. MaxFaults
    BY <1>1, VolumeAssumption
  <2>3. QED
    BY <1>1, <1>2, <1>3, <1>5, <2>1, <2>2 DEF TypeOK
<1>7. DeviceSettled /\ CacheBelongsToRoot
  BY <1>1, <1>3, <1>4, <1>5, SectorFacts DEF DeviceSettled, CacheBelongsToRoot
<1>8. ShutdownLosesNothing /\ AdmittedVolumeStays /\ CommandsOrdered /\ CacheMirrorsDevice
  BY <1>1, <1>4, <1>5 DEF ShutdownLosesNothing, AdmittedVolumeStays, CommandsOrdered, CacheMirrorsDevice
<1>9. UnmountedIsDurable
  BY <1>1, <1>4 DEF UnmountedIsDurable
<1>10. NamesOnUsedClusters
  <2>1. \A s \in Sector : View[s] = view[s] /\ may[s] = {view[s]}
    BY <1>1, <1>4 DEF View
  <2>2. QED
    BY <1>2, <2>1, SectorFacts DEF NamesOnUsedClusters
<1>11. QED
  BY <1>6, <1>7, <1>8, <1>9, <1>10 DEF IInv, NothingLost

LEMMA StutterStep ==
    ASSUME IInv, UNCHANGED vars
    PROVE  IInv'
<1>1. UNCHANGED <<view, may, cache, attached, root, mount, serial, plan, phase, power, faults,
                  incomplete, mountFailed>>
  BY DEF vars, device, kernel, ghosts
<1>2. Dirty' = Dirty /\ View' = View
  BY <1>1 DEF Dirty, View
<1>3. TypeOK'
  BY <1>1, Parts DEF TypeOK
<1>4. CacheBelongsToRoot' /\ ShutdownLosesNothing' /\ AdmittedVolumeStays'
  BY <1>1, <1>2, Parts DEF CacheBelongsToRoot, ShutdownLosesNothing, AdmittedVolumeStays
<1>5. CommandsOrdered'
  <2>1. \A n \in Serial : Formatting(n) => Formatting(n)'
    BY <1>1 DEF Formatting
  <2>2. (Loading => Loading') /\ (Saving => Saving') /\ (Removing => Removing')
    BY <1>1, <1>2 DEF Loading, Saving, Removing
  <2>3. QED
    BY <1>1, <2>1, <2>2, Parts DEF CommandsOrdered
<1>6. QED
  BY <1>1, <1>3, <1>4, <1>5, KernelStep DEF device

(* Every step keeps the invariant.                                          *)
LEMMA InvariantStep ==
    ASSUME IInv, [Next]_vars
    PROVE  IInv'
<1>1. CASE \/ block_device_write \/ block_device_write_fails
           \/ block_device_flush \/ block_device_flush_fails
  BY <1>1, WriteStep, WriteFailsStep, FlushStep, FlushFailsStep
<1>2. CASE \/ format_command \/ ios_fs_mount_root \/ ios_fs_mount_probe_fails
           \/ load_fat \/ load_fat_fails \/ runtime_mount_ready
  BY <1>2, FormatStep, MountStep, ProbeFailsStep, LoadStep, LoadFailsStep, ReadyStep
<1>3. CASE \/ vfs_create_file \/ vfs_remove_object \/ vfs_enumerate
           \/ ios_fs_sync_write_sector \/ ios_fs_sync_write_refused
           \/ \E s \in Sector : select_victim(s)
  BY <1>3, CreateStep, RemoveStep, EnumerateStep, PutStep, PutRefusedStep, VictimStep
<1>4. CASE \/ ios_fs_sync_barrier \/ ios_fs_sync_barrier_fails \/ sync_command \/ unmount_command
           \/ vfs_unmount_root \/ vfs_unmount_root_fails \/ vfs_unmount_root_refused
  BY <1>4, BarrierActionStep, FailureSteps, BeginSteps, UnmountStep
<1>5. CASE \/ ios_power_request \/ ios_power_request_fails
           \/ ios_uefi_power_transition_fails \/ Reset
  BY <1>5, PowerRequestStep, FailureSteps, TransitionFailsStep, ResetStep
<1>6. CASE UNCHANGED vars
  BY <1>6, StutterStep
<1>7. QED
  BY <1>1, <1>2, <1>3, <1>4, <1>5, <1>6 DEF Next

(* Hence it holds in every reachable state.                                 *)
LEMMA InvariantHolds == Spec => []IInv
  BY InitInvariant, InvariantStep, PTL DEF Spec

-----------------------------------------------------------------------------
(* Whatever fails and whenever the power is lost, a volume that was        *)
(* unmounted or switched off is durable, and every command has made        *)
(* durable what its next step relies on (vfs_unmount_root,                 *)
(* ios_power_request, ios_fs_format, the file service).                    *)
THEOREM NothingIsLost == Spec => []NothingLost
<1>1. IInv => NothingLost
  BY DEF IInv
<1>2. QED
  BY <1>1, InvariantHolds, PTL

(* A mounted volume keeps the superblocks it was admitted on: format       *)
(* refuses while there is a root (format_command).                         *)
THEOREM VolumeStaysAdmitted == Spec => []AdmittedVolumeStays
<1>1. IInv => AdmittedVolumeStays
  BY DEF IInv
<1>2. QED
  BY <1>1, InvariantHolds, PTL

(* A name that can be read, now or after any power loss, stands on         *)
(* clusters in use: a save makes the chain durable before the name, a      *)
(* removal the other way round (vfs_create_file, vfs_remove_object).       *)
THEOREM NamesStandOnClusters == Spec => []NamesOnUsedClusters
<1>1. IInv => NamesOnUsedClusters
  BY DEF IInv
<1>2. QED
  BY <1>1, InvariantHolds, PTL

(* No clean entry of the cache is outdated by what is written behind it:   *)
(* an unmount empties the cache before a format may run (vfs_unmount_root).*)
THEOREM CacheStaysTrue == Spec => []CacheMirrorsDevice
<1>1. IInv => CacheMirrorsDevice
  BY DEF IInv
<1>2. QED
  BY <1>1, InvariantHolds, PTL

=============================================================================
