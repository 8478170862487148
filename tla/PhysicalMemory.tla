--------------------------- MODULE PhysicalMemory ---------------------------
(***************************************************************************)
(* The physical page allocator (kernel/memory/physical.c) and the memory   *)
(* map it is built from (kernel/boot_info.c).  Addresses are page numbers. *)
(* Every call runs with interrupts off, so that each is one step; the      *)
(* clients are in module Processes.                                        *)
(***************************************************************************)
EXTENDS Integers, Sequences, FiniteSets, FiniteSetsExt

CONSTANTS PageCount,        \* X86_64_PHYSICAL_ADDRESS_LIMIT, in pages
          StatesPerPage,    \* page states that fit on one page
          Maps              \* the memory maps the firmware may hand over

ASSUME PhysicalMemoryAssumption ==
    /\ PageCount \in Nat \ {0} /\ StatesPerPage \in Nat \ {0}
    /\ \A map \in Maps :
         /\ map.reservations \subseteq 0 .. PageCount - 1
         /\ \A i \in DOMAIN map.regions :
              map.regions[i] \in [base : Nat, page_count : Nat \ {0},
                                  kind : {"RESERVED", "USABLE", "RECLAIMABLE"}]

VARIABLES map,                      \* the map the kernel was started with
          page_states,
          free_page_count,
          allocated_page_count,
          search_hint

counters == <<free_page_count, allocated_page_count>>
pages == <<map, page_states, counters, search_hint>>

Page == 0 .. PageCount - 1
Run(first, n) == first .. first + n - 1
NoRun == 0                          \* page 0 is never handed out

-----------------------------------------------------------------------------
(* physical_memory_initialize.                                             *)

PagesOf(m, kind) ==
    (UNION {Run(m.regions[i].base, m.regions[i].page_count) :
              i \in {j \in DOMAIN m.regions : m.regions[j].kind = kind}}) \cap Page

(* Pages from here on are not managed at all.                              *)
managed_page_count(m) == Max(PagesOf(m, "USABLE") \cup PagesOf(m, "RECLAIMABLE")) + 1

(* Regions overlap, or a region reaches past the end of the address space: *)
(* the map is refused.                                                     *)
MapIsValid(m) ==
    /\ \A i \in DOMAIN m.regions : m.regions[i].base + m.regions[i].page_count <= PageCount
    /\ \A i, j \in DOMAIN m.regions :
         i # j => Run(m.regions[i].base, m.regions[i].page_count)
                     \cap Run(m.regions[j].base, m.regions[j].page_count) = {}

metadata_page_count(m) == (managed_page_count(m) + StatesPerPage - 1) \div StatesPerPage

(* Where the page states themselves may begin in a region.                 *)
MetadataRoom(m, region) ==
    LET room == Run(region.base, region.page_count) \ m.reservations
        needed == metadata_page_count(m)
    IN  {p \in room : region.kind = "USABLE" /\ Run(p, needed) \subseteq room}

(* The lowest pages of the first region, in the firmware's order, with room.*)
find_metadata_space(m) ==
    LET roomy == {i \in DOMAIN m.regions : MetadataRoom(m, m.regions[i]) # {}}
    IN  IF roomy = {} THEN {}
        ELSE Run(Min(MetadataRoom(m, m.regions[Min(roomy)])), metadata_page_count(m))

(* What is kept from the allocator: the kernel, the boot information, the  *)
(* frame buffer and the images of the modules; page 0; the page states.    *)
Reserved(m) == m.reservations \cup {0} \cup find_metadata_space(m)

(* The order of the marks: regions, then reservations, page 0, metadata.   *)
InitialStates(m) ==
    [p \in Page |->
        IF p \in Reserved(m) THEN "UNAVAILABLE"
        ELSE IF p \in PagesOf(m, "USABLE") THEN "FREE"
        ELSE IF p \in PagesOf(m, "RECLAIMABLE") THEN "RECLAIMABLE"
        ELSE "UNAVAILABLE"]

physical_memory_initialize ==
    /\ map \in {m \in Maps : MapIsValid(m) /\ find_metadata_space(m) # {}}
    /\ page_states = InitialStates(map)
    /\ free_page_count = Cardinality({p \in Page : page_states[p] = "FREE"})
    /\ allocated_page_count = 0
    /\ search_hint = 1

-----------------------------------------------------------------------------
(* physical_allocate_pages: first fit from the hint to the end, then from  *)
(* the first page to the hint.  No pass looks across the hint.             *)

Fits(first, n) == \A p \in Run(first, n) : page_states[p] = "FREE"

Pass(first, limit, n) == {p \in first .. limit - n : Fits(p, n)}

(* Faulty: the second pass stops at the page before the hint.              *)
Found_short(n) ==
    LET ahead == Pass(search_hint, managed_page_count(map) - 1, n)
        behind == Pass(1, search_hint, n)
    IN  IF n > free_page_count THEN NoRun
        ELSE IF ahead # {} THEN Min(ahead)
        ELSE IF behind # {} THEN Min(behind)
        ELSE NoRun

Found(n) ==
    LET ahead == Pass(search_hint, managed_page_count(map), n)
        behind == Pass(1, search_hint, n)
    IN  IF n > free_page_count THEN NoRun
        ELSE IF ahead # {} THEN Min(ahead)
        ELSE IF behind # {} THEN Min(behind)
        ELSE NoRun

Take(first, n) ==
    /\ page_states' = [p \in Page |-> IF p \in Run(first, n) THEN "ALLOCATED" ELSE page_states[p]]
    /\ free_page_count' = free_page_count - n
    /\ allocated_page_count' = allocated_page_count + n
    /\ search_hint' = IF first + n >= managed_page_count(map) THEN 1 ELSE first + n
    /\ UNCHANGED map

(* IOS_E_NO_MEMORY: after both passes, or before them when the count says  *)
(* so, and then the hint stays.                                            *)
OutOfMemory(n) ==
    /\ Found(n) = NoRun
    /\ search_hint' = IF n > free_page_count THEN search_hint ELSE 1
    /\ UNCHANGED <<map, page_states, counters>>

(* Calls of physical_free_pages for all of these pages.  A page that is    *)
(* not allocated is refused, and no caller looks at the answer.            *)
Release(released) ==
    LET allocated == {p \in released : page_states[p] = "ALLOCATED"}
    IN  /\ page_states' = [p \in Page |-> IF p \in allocated THEN "FREE" ELSE page_states[p]]
        /\ free_page_count' = free_page_count + Cardinality(allocated)
        /\ allocated_page_count' = allocated_page_count - Cardinality(allocated)
        /\ search_hint' = Min(allocated \cup {search_hint})
        /\ UNCHANGED map

(* A run of reclaimable pages is handed to the allocator.                  *)
physical_reclaim_pages(first, n) ==
    /\ Run(first, n) \subseteq Page
    /\ \A p \in Run(first, n) : page_states[p] = "RECLAIMABLE"
    /\ page_states' = [p \in Page |-> IF p \in Run(first, n) THEN "FREE" ELSE page_states[p]]
    /\ free_page_count' = free_page_count + n
    /\ search_hint' = Min({first, search_hint})
    /\ UNCHANGED <<map, allocated_page_count>>

-----------------------------------------------------------------------------
(* Properties of the allocator by itself.                                  *)

PhysicalTypeOK ==
    /\ map \in Maps /\ MapIsValid(map) /\ find_metadata_space(map) # {}
    /\ page_states \in [Page -> {"UNAVAILABLE", "FREE", "ALLOCATED", "RECLAIMABLE"}]
    /\ free_page_count \in 0 .. PageCount
    /\ allocated_page_count \in 0 .. PageCount
    /\ search_hint = 1 \/ search_hint \in 1 .. managed_page_count(map) - 1

(* The counters that refuse a request before any page is looked at agree   *)
(* with the states of the pages.                                           *)
CountersAgree ==
    /\ free_page_count = Cardinality({p \in Page : page_states[p] = "FREE"})
    /\ allocated_page_count = Cardinality({p \in Page : page_states[p] = "ALLOCATED"})

(* No page that the firmware keeps, that holds the kernel, the boot        *)
(* information, the frame buffer or a module's image, or that holds the    *)
(* page states, is ever handed out, free or there to be reclaimed.         *)
ReservedNeverHandedOut ==
    LET kept == Reserved(map)
        given == PagesOf(map, "USABLE") \cup PagesOf(map, "RECLAIMABLE")
    IN  \A p \in Page : page_states[p] # "UNAVAILABLE" => p \in given \ kept

(* From the first page the search overlooks nothing: a refusal, which puts *)
(* the hint there, is followed by a refusal only if no run is free.        *)
SearchFromStartIsComplete ==
    search_hint = 1 =>
        \A n \in 1 .. PageCount :
            Found(n) = NoRun => ~\E p \in 1 .. PageCount - n : Fits(p, n)
=============================================================================
