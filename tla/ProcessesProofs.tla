--------------------------- MODULE ProcessesProofs ---------------------------
(***************************************************************************)
(* Processes and their memory, for every module table, every memory map    *)
(* and every number of pages and process slots: the page allocator keeps   *)
(* its books, every allocated page has exactly one owner whatever fails,   *)
(* and what the processor has loaded is never given back under it.         *)
(***************************************************************************)
EXTENDS Processes, FiniteSetTheorems, WellFoundedInduction, TLAPS

-----------------------------------------------------------------------------
(* The page allocator by itself, for every memory map and every number of  *)
(* pages: each of its operations keeps the books and what is reserved.     *)

PhysicalInvariant == PhysicalTypeOK /\ CountersAgree /\ ReservedNeverHandedOut

-----------------------------------------------------------------------------
(* A set of naturals that is not empty has a least element, and Min is it.  *)
LEMMA MinFacts ==
    ASSUME NEW T \in SUBSET Nat, T # {}
    PROVE  Min(T) \in T /\ \A y \in T : Min(T) <= y
<1> DEFINE Before == OpToRel(<, Nat)
<1>1. \A x, y \in Nat : y < x => <<y, x>> \in Before
  BY DEF OpToRel
<1>2. IsWellFoundedOn(Before, Nat)
  BY NatLessThanWellFounded
<1> HIDE DEF Before
<1>3. PICK x \in T : \A y \in T : ~ (<<y, x>> \in Before)
  BY <1>2, WFMin
<1>4. ASSUME NEW y \in T PROVE x <= y
  <2>1. x \in Nat /\ y \in Nat /\ ~ (y < x)
    BY <1>1, <1>3
  <2>2. QED
    BY <2>1
<1>5. QED
  BY <1>4 DEF Min

(* A set of naturals below a bound has a greatest element, and Max is it.   *)
LEMMA MaxFacts ==
    ASSUME NEW k \in Nat, NEW T \in SUBSET (0 .. k), T # {}
    PROVE  Max(T) \in T /\ \A y \in T : y <= Max(T)
<1> DEFINE D == {k - x : x \in T}
<1>1. D \in SUBSET Nat /\ D # {}
  <2>1. \A x \in T : k - x \in Nat
    OBVIOUS
  <2>2. QED
    BY <2>1
<1>2. Min(D) \in D /\ \A e \in D : Min(D) <= e
  BY <1>1, MinFacts
<1>3. PICK x \in T : k - x = Min(D)
  BY <1>2
<1>4. ASSUME NEW y \in T PROVE y <= x
  <2>1. k - y \in D
    OBVIOUS
  <2>2. k - x <= k - y
    BY <1>2, <1>3, <2>1
  <2>3. x \in Int /\ y \in Int
    OBVIOUS
  <2>4. QED
    BY <2>2, <2>3
<1>5. \E z \in T : \A y \in T : z >= y
  BY <1>4
<1>6. Max(T) \in T /\ \A y \in T : Max(T) >= y
  BY <1>5 DEF Max
<1>7. QED
  BY <1>6

-----------------------------------------------------------------------------
(* The pages that may be handed out.                                        *)
Given == PagesOf(map, "USABLE") \cup PagesOf(map, "RECLAIMABLE")

(* The managed pages end with the last page of memory that is not reserved. *)
LEMMA ManagedFacts ==
    ASSUME PhysicalTypeOK
    PROVE  /\ managed_page_count(map) \in 1 .. PageCount
           /\ \A p \in Given : p \in 0 .. managed_page_count(map) - 1
<1>1. Given \in SUBSET (0 .. PageCount - 1)
  <2>1. \A kind : PagesOf(map, kind) \subseteq Page
    BY Zenon DEF PagesOf
  <2>2. QED
    BY <2>1 DEF Given, Page
<1>2. PageCount - 1 \in Nat
  BY PhysicalMemoryAssumption
<1>3. Given # {}
  <2>1. PICK i \in DOMAIN map.regions : MetadataRoom(map, map.regions[i]) # {}
    BY DEF PhysicalTypeOK, find_metadata_space
  <2>2. PICK p \in Run(map.regions[i].base, map.regions[i].page_count) :
          map.regions[i].kind = "USABLE"
    BY <2>1 DEF MetadataRoom
  <2>3. map.regions[i] \in [base : Nat, page_count : Nat \ {0},
                            kind : {"RESERVED", "USABLE", "RECLAIMABLE"}]
    BY PhysicalMemoryAssumption DEF PhysicalTypeOK
  <2>4. map.regions[i].base + map.regions[i].page_count <= PageCount
    BY DEF PhysicalTypeOK, MapIsValid
  <2>5. p \in Page
    BY <2>2, <2>3, <2>4, PhysicalMemoryAssumption DEF Run, Page
  <2>6. p \in PagesOf(map, "USABLE")
    <3>1. i \in {j \in DOMAIN map.regions : map.regions[j].kind = "USABLE"}
      BY <2>2
    <3>2. QED
      BY <2>2, <2>5, <3>1, Zenon DEF PagesOf
  <2>7. QED
    BY <2>6 DEF Given
<1>4. Max(Given) \in Given /\ \A y \in Given : y <= Max(Given)
  BY <1>1, <1>2, <1>3, MaxFacts
<1>5. managed_page_count(map) = Max(Given) + 1
  BY DEF managed_page_count, Given
<1>6. PICK last \in Given : last = Max(Given)
  BY <1>4
<1>7. last \in 0 .. PageCount - 1 /\ PageCount \in Nat
  BY <1>1, PhysicalMemoryAssumption
<1>8. managed_page_count(map) = last + 1
  BY <1>5, <1>6
<1>9. \A y \in Given : y \in Int /\ 0 <= y /\ y <= last
  BY <1>1, <1>4, <1>6
<1>10. QED
  BY <1>7, <1>8, <1>9

(* What is free, allocated or there to be reclaimed is managed, and it is   *)
(* never page 0.                                                            *)
LEMMA KnownPages ==
    ASSUME PhysicalInvariant, NEW p \in Page, page_states[p] # "UNAVAILABLE"
    PROVE  p \in 1 .. managed_page_count(map) - 1
<1>1. p \in Given /\ p # 0
  BY DEF PhysicalInvariant, ReservedNeverHandedOut, Given, Reserved
<1>2. QED
  BY <1>1, ManagedFacts DEF PhysicalInvariant, Given

(* A run of n pages has n pages.                                            *)
LEMMA RunFacts ==
    ASSUME NEW first \in Nat, NEW n \in Nat
    PROVE  /\ IsFiniteSet(Run(first, n)) /\ Cardinality(Run(first, n)) = n
           /\ \A p : p \in Run(first, n) <=> p \in Nat /\ first <= p /\ p < first + n
<1>1. first + n - 1 \in Int
  OBVIOUS
<1>2. /\ IsFiniteSet(first .. first + n - 1)
      /\ Cardinality(first .. first + n - 1) =
           IF first > first + n - 1 THEN 0 ELSE (first + n - 1) - first + 1
  BY <1>1, FS_Interval
<1>3. \A p : p \in first .. first + n - 1 <=> p \in Nat /\ first <= p /\ p < first + n
  OBVIOUS
<1>4. QED
  BY <1>2, <1>3 DEF Run

(* What a search finds is a run of free pages below the end.                *)
LEMMA FoundFacts ==
    ASSUME PhysicalInvariant, NEW n \in Nat \ {0}, Found(n) # NoRun
    PROVE  /\ Found(n) \in 1 .. managed_page_count(map) - n
           /\ Run(Found(n), n) \subseteq Page
           /\ \A p \in Run(Found(n), n) : page_states[p] = "FREE"
           /\ n <= free_page_count
<1> DEFINE managed == managed_page_count(map)
<1> DEFINE ahead == Pass(search_hint, managed, n)
<1> DEFINE behind == Pass(1, search_hint, n)
<1>1. managed \in 1 .. PageCount
  BY ManagedFacts DEF PhysicalInvariant
<1>2. search_hint = 1 \/ search_hint \in 1 .. managed - 1
  BY DEF PhysicalInvariant, PhysicalTypeOK
<1>3. free_page_count \in Nat
  BY PhysicalMemoryAssumption DEF PhysicalInvariant, PhysicalTypeOK
<1>4. /\ ~ (n > free_page_count)
      /\ \/ ahead # {} /\ Found(n) = Min(ahead)
         \/ behind # {} /\ Found(n) = Min(behind)
  BY DEF Found
<1> HIDE DEF managed
<1>5. ahead \in SUBSET (1 .. managed - n) /\ behind \in SUBSET (1 .. managed - n)
  BY <1>1, <1>2, PhysicalMemoryAssumption DEF Pass
<1>6. ahead \in SUBSET Nat /\ behind \in SUBSET Nat
  BY <1>5
<1>7. Found(n) \in ahead \cup behind
  <2>1. CASE ahead # {} /\ Found(n) = Min(ahead)
    <3> HIDE DEF ahead
    <3>1. Min(ahead) \in ahead
      BY <1>6, <2>1, MinFacts
    <3>2. QED
      BY <2>1, <3>1
  <2>2. CASE behind # {} /\ Found(n) = Min(behind)
    <3> HIDE DEF behind
    <3>1. Min(behind) \in behind
      BY <1>6, <2>2, MinFacts
    <3>2. QED
      BY <2>2, <3>1
  <2>3. QED
    BY <1>4, <2>1, <2>2
<1>8. Found(n) \in 1 .. managed - n
  BY <1>5, <1>7
<1>9. Fits(Found(n), n)
  BY <1>7 DEF Pass
<1>10. Run(Found(n), n) \subseteq Page
  BY <1>1, <1>8, PhysicalMemoryAssumption DEF Run, Page
<1>11. QED
  BY <1>3, <1>4, <1>8, <1>9, <1>10 DEF Fits, managed

(* Pages are finitely many, and so are those in one state.                  *)
LEMMA PagesFinite ==
    ASSUME NEW T \in SUBSET Page
    PROVE  IsFiniteSet(T) /\ Cardinality(T) \in 0 .. PageCount
<1>1. IsFiniteSet(Page) /\ Cardinality(Page) = PageCount
  BY FS_Interval, PhysicalMemoryAssumption DEF Page
<1>2. IsFiniteSet(T) /\ Cardinality(T) <= PageCount
  BY <1>1, FS_Subset
<1>3. Cardinality(T) \in Nat
  BY <1>2, FS_CardinalityType
<1>4. QED
  BY <1>2, <1>3, PhysicalMemoryAssumption

-----------------------------------------------------------------------------
(* The operations.                                                          *)

(* The books as physical_memory_initialize opens them.                      *)
LEMMA InitialInvariant ==
    ASSUME physical_memory_initialize
    PROVE  PhysicalInvariant
<1>1. /\ map \in Maps /\ MapIsValid(map) /\ find_metadata_space(map) # {}
      /\ page_states = InitialStates(map)
      /\ free_page_count = Cardinality({p \in Page : page_states[p] = "FREE"})
      /\ allocated_page_count = 0 /\ search_hint = 1
  BY DEF physical_memory_initialize
<1>2. \A p \in Page : page_states[p] \in {"UNAVAILABLE", "FREE", "RECLAIMABLE"}
  BY <1>1 DEF InitialStates
<1>3. page_states \in [Page -> {"UNAVAILABLE", "FREE", "ALLOCATED", "RECLAIMABLE"}]
  BY <1>1, <1>2 DEF InitialStates
<1>4. free_page_count \in 0 .. PageCount
  BY <1>1, PagesFinite
<1>5. PhysicalTypeOK
  BY <1>1, <1>3, <1>4, PhysicalMemoryAssumption DEF PhysicalTypeOK
<1>6. {p \in Page : page_states[p] = "ALLOCATED"} = {}
  BY <1>2
<1>7. CountersAgree
  BY <1>1, <1>6, FS_EmptySet DEF CountersAgree
<1>8. ReservedNeverHandedOut
  BY <1>1 DEF ReservedNeverHandedOut, InitialStates
<1>9. QED
  BY <1>5, <1>7, <1>8 DEF PhysicalInvariant

(* How the counters follow when a set of pages goes from one state to       *)
(* another: physical_allocate_pages and physical_free_pages count them.     *)
LEMMA MovedBetween ==
    ASSUME NEW A \in SUBSET Page, NEW B \in SUBSET Page, NEW M \in SUBSET A, A \cap B = {}
    PROVE  /\ Cardinality(A \ M) = Cardinality(A) - Cardinality(M)
           /\ Cardinality(B \cup M) = Cardinality(B) + Cardinality(M)
<1>1. IsFiniteSet(A) /\ IsFiniteSet(B) /\ IsFiniteSet(M)
  BY PagesFinite
<1>2. A \cap M = M /\ B \cap M = {}
  OBVIOUS
<1>3. Cardinality(A \ M) = Cardinality(A) - Cardinality(A \cap M)
  BY <1>1, FS_Difference
<1>4. Cardinality(B \cup M) = Cardinality(B) + Cardinality(M) - Cardinality(B \cap M)
  BY <1>1, FS_Union
<1>5. Cardinality({}) = 0 /\ Cardinality(B) \in Nat /\ Cardinality(M) \in Nat
  BY <1>1, FS_EmptySet, FS_CardinalityType
<1>6. Cardinality(A \ M) = Cardinality(A) - Cardinality(M)
  BY <1>2, <1>3, Zenon
<1>7. Cardinality(B \cap M) = 0
  BY <1>2, <1>5, Zenon
<1>8. QED
  BY <1>4, <1>5, <1>6, <1>7

(* An allocation keeps the invariant.                                       *)
LEMMA TakeKeeps ==
    ASSUME PhysicalInvariant, NEW n \in Nat \ {0}, Found(n) # NoRun, Take(Found(n), n)
    PROVE  PhysicalInvariant'
<1> DEFINE first == Found(n)
<1> DEFINE free == {p \in Page : page_states[p] = "FREE"}
<1> DEFINE allocated == {p \in Page : page_states[p] = "ALLOCATED"}
<1>1. /\ first \in 1 .. managed_page_count(map) - n
      /\ Run(first, n) \subseteq Page
      /\ \A p \in Run(first, n) : page_states[p] = "FREE"
      /\ n <= free_page_count
  BY FoundFacts
<1>2. /\ page_states' = [p \in Page |-> IF p \in Run(first, n) THEN "ALLOCATED" ELSE page_states[p]]
      /\ free_page_count' = free_page_count - n
      /\ allocated_page_count' = allocated_page_count + n
      /\ search_hint' = IF first + n >= managed_page_count(map) THEN 1 ELSE first + n
      /\ map' = map
  BY DEF Take
<1>3. managed_page_count(map) \in 1 .. PageCount
  BY ManagedFacts DEF PhysicalInvariant
<1> HIDE DEF first
<1>4. first \in Nat
  BY <1>1, <1>3, PhysicalMemoryAssumption
<1>5. Cardinality(Run(first, n)) = n
  BY <1>4, RunFacts
<1>6. free \in SUBSET Page /\ allocated \in SUBSET Page /\ free \cap allocated = {}
      /\ Run(first, n) \in SUBSET free
  BY <1>1
<1>7. /\ {p \in Page : page_states'[p] = "FREE"} = free \ Run(first, n)
      /\ {p \in Page : page_states'[p] = "ALLOCATED"} = allocated \cup Run(first, n)
  BY <1>1, <1>2
<1>8. free_page_count = Cardinality(free) /\ allocated_page_count = Cardinality(allocated)
  BY DEF PhysicalInvariant, CountersAgree
<1> HIDE DEF free, allocated
<1>9. /\ Cardinality(free \ Run(first, n)) = Cardinality(free) - n
      /\ Cardinality(allocated \cup Run(first, n)) = Cardinality(allocated) + n
  <2>1. /\ Cardinality(free \ Run(first, n)) = Cardinality(free) - Cardinality(Run(first, n))
        /\ Cardinality(allocated \cup Run(first, n)) =
             Cardinality(allocated) + Cardinality(Run(first, n))
    BY <1>6, MovedBetween, Zenon
  <2>2. QED
    BY <2>1, <1>5, Zenon
<1>10. CountersAgree'
  BY <1>2, <1>7, <1>8, <1>9 DEF CountersAgree
<1>11. free_page_count' \in 0 .. PageCount /\ allocated_page_count' \in 0 .. PageCount
  <2>1. free \ Run(first, n) \in SUBSET Page /\ allocated \cup Run(first, n) \in SUBSET Page
    BY <1>1, <1>6
  <2>2. /\ Cardinality(free \ Run(first, n)) \in 0 .. PageCount
        /\ Cardinality(allocated \cup Run(first, n)) \in 0 .. PageCount
    BY <2>1, PagesFinite
  <2>3. QED
    BY <1>2, <1>8, <1>9, <2>2
<1>12. PhysicalTypeOK'
  <2>1. page_states' \in [Page -> {"UNAVAILABLE", "FREE", "ALLOCATED", "RECLAIMABLE"}]
    BY <1>2 DEF PhysicalInvariant, PhysicalTypeOK
  <2>2. search_hint' = 1 \/ search_hint' \in 1 .. managed_page_count(map) - 1
    BY <1>1, <1>2, <1>3, <1>4, PhysicalMemoryAssumption
  <2>3. QED
    BY <1>2, <1>11, <2>1, <2>2 DEF PhysicalInvariant, PhysicalTypeOK
<1>13. ReservedNeverHandedOut'
  BY <1>1, <1>2 DEF PhysicalInvariant, ReservedNeverHandedOut
<1>14. QED
  BY <1>10, <1>12, <1>13 DEF PhysicalInvariant

(* A refusal keeps the invariant.                                           *)
LEMMA OutOfMemoryKeeps ==
    ASSUME PhysicalInvariant, NEW n, OutOfMemory(n)
    PROVE  PhysicalInvariant'
<1>1. /\ map' = map /\ page_states' = page_states
      /\ free_page_count' = free_page_count /\ allocated_page_count' = allocated_page_count
      /\ search_hint' = search_hint \/ search_hint' = 1
  BY DEF OutOfMemory, counters
<1>2. PhysicalTypeOK'
  BY <1>1 DEF PhysicalInvariant, PhysicalTypeOK
<1>3. CountersAgree' /\ ReservedNeverHandedOut'
  BY <1>1 DEF PhysicalInvariant, CountersAgree, ReservedNeverHandedOut
<1>4. QED
  BY <1>2, <1>3 DEF PhysicalInvariant

(* Giving pages back keeps the invariant, whichever pages they are.         *)
LEMMA ReleaseKeeps ==
    ASSUME PhysicalInvariant, NEW released \in SUBSET Page, Release(released)
    PROVE  PhysicalInvariant'
<1> DEFINE returned == {p \in released : page_states[p] = "ALLOCATED"}
<1> DEFINE free == {p \in Page : page_states[p] = "FREE"}
<1> DEFINE allocated == {p \in Page : page_states[p] = "ALLOCATED"}
<1>1. /\ page_states' = [p \in Page |-> IF p \in returned THEN "FREE" ELSE page_states[p]]
      /\ free_page_count' = free_page_count + Cardinality(returned)
      /\ allocated_page_count' = allocated_page_count - Cardinality(returned)
      /\ search_hint' = Min(returned \cup {search_hint})
      /\ map' = map
  BY DEF Release
<1>2. free \in SUBSET Page /\ allocated \in SUBSET Page /\ allocated \cap free = {}
      /\ returned \in SUBSET allocated
  OBVIOUS
<1>3. /\ {p \in Page : page_states'[p] = "FREE"} = free \cup returned
      /\ {p \in Page : page_states'[p] = "ALLOCATED"} = allocated \ returned
  BY <1>1
<1>4. free_page_count = Cardinality(free) /\ allocated_page_count = Cardinality(allocated)
  BY DEF PhysicalInvariant, CountersAgree
<1>5. \A p \in returned : p \in 1 .. managed_page_count(map) - 1
  BY KnownPages
<1> HIDE DEF free, allocated, returned
<1>6. /\ Cardinality(allocated \ returned) = Cardinality(allocated) - Cardinality(returned)
      /\ Cardinality(free \cup returned) = Cardinality(free) + Cardinality(returned)
  BY <1>2, MovedBetween
<1>7. CountersAgree'
  BY <1>1, <1>3, <1>4, <1>6 DEF CountersAgree
<1>8. free_page_count' \in 0 .. PageCount /\ allocated_page_count' \in 0 .. PageCount
  <2>1. free \cup returned \in SUBSET Page /\ allocated \ returned \in SUBSET Page
    BY <1>2
  <2>2. /\ Cardinality(free \cup returned) \in 0 .. PageCount
        /\ Cardinality(allocated \ returned) \in 0 .. PageCount
    BY <2>1, PagesFinite
  <2>3. QED
    BY <1>1, <1>4, <1>6, <2>2
<1>9. search_hint' = 1 \/ search_hint' \in 1 .. managed_page_count(map) - 1
  <2>1. managed_page_count(map) \in 1 .. PageCount
    BY ManagedFacts DEF PhysicalInvariant
  <2>2. search_hint = 1 \/ search_hint \in 1 .. managed_page_count(map) - 1
    BY DEF PhysicalInvariant, PhysicalTypeOK
  <2> DEFINE hints == returned \cup {search_hint}
  <2>3. hints \in SUBSET Nat /\ hints # {}
    BY <1>5, <2>1, <2>2, PhysicalMemoryAssumption
  <2>4. Min(hints) \in hints
    BY <2>3, MinFacts
  <2>5. QED
    BY <1>1, <1>5, <2>2, <2>4
<1>10. PhysicalTypeOK'
  <2>1. page_states' \in [Page -> {"UNAVAILABLE", "FREE", "ALLOCATED", "RECLAIMABLE"}]
    BY <1>1 DEF PhysicalInvariant, PhysicalTypeOK
  <2>2. QED
    BY <1>1, <1>8, <1>9, <2>1 DEF PhysicalInvariant, PhysicalTypeOK
<1>11. ReservedNeverHandedOut'
  BY <1>1 DEF PhysicalInvariant, ReservedNeverHandedOut, returned
<1>12. QED
  BY <1>7, <1>10, <1>11 DEF PhysicalInvariant

(* Reclaiming pages keeps the invariant.                                    *)
LEMMA ReclaimKeeps ==
    ASSUME PhysicalInvariant, NEW first \in Page, NEW n \in Nat \ {0},
           physical_reclaim_pages(first, n)
    PROVE  PhysicalInvariant'
<1> DEFINE free == {p \in Page : page_states[p] = "FREE"}
<1> DEFINE waiting == {p \in Page : page_states[p] = "RECLAIMABLE"}
<1>1. /\ Run(first, n) \subseteq Page
      /\ \A p \in Run(first, n) : page_states[p] = "RECLAIMABLE"
      /\ page_states' = [p \in Page |-> IF p \in Run(first, n) THEN "FREE" ELSE page_states[p]]
      /\ free_page_count' = free_page_count + n
      /\ search_hint' = Min({first, search_hint})
      /\ map' = map /\ allocated_page_count' = allocated_page_count
  BY DEF physical_reclaim_pages
<1>2. first \in Nat
  BY PhysicalMemoryAssumption DEF Page
<1>3. Cardinality(Run(first, n)) = n /\ first \in Run(first, n)
  BY <1>2, RunFacts
<1>4. free \in SUBSET Page /\ waiting \in SUBSET Page /\ waiting \cap free = {}
      /\ Run(first, n) \in SUBSET waiting
  BY <1>1
<1>5. /\ {p \in Page : page_states'[p] = "FREE"} = free \cup Run(first, n)
      /\ {p \in Page : page_states'[p] = "ALLOCATED"} = {p \in Page : page_states[p] = "ALLOCATED"}
  BY <1>1
<1>6. free_page_count = Cardinality(free)
  BY DEF PhysicalInvariant, CountersAgree
<1>7. first \in 1 .. managed_page_count(map) - 1
  BY <1>1, <1>3, KnownPages
<1> HIDE DEF free, waiting
<1>8. Cardinality(free \cup Run(first, n)) = Cardinality(free) + n
  <2>1. Cardinality(free \cup Run(first, n)) = Cardinality(free) + Cardinality(Run(first, n))
    BY <1>4, MovedBetween, Zenon
  <2>2. QED
    BY <2>1, <1>3, Zenon
<1>9. CountersAgree'
  BY <1>1, <1>5, <1>6, <1>8 DEF PhysicalInvariant, CountersAgree
<1>10. free_page_count' \in 0 .. PageCount
  <2>1. free \cup Run(first, n) \in SUBSET Page
    BY <1>1, <1>4
  <2>2. Cardinality(free \cup Run(first, n)) \in 0 .. PageCount
    BY <2>1, PagesFinite
  <2>3. QED
    BY <1>1, <1>6, <1>8, <2>2
<1>11. search_hint' = 1 \/ search_hint' \in 1 .. managed_page_count(map) - 1
  <2>1. managed_page_count(map) \in 1 .. PageCount
    BY ManagedFacts DEF PhysicalInvariant
  <2>2. search_hint = 1 \/ search_hint \in 1 .. managed_page_count(map) - 1
    BY DEF PhysicalInvariant, PhysicalTypeOK
  <2> DEFINE hints == {first, search_hint}
  <2>3. hints \in SUBSET Nat /\ hints # {}
    BY <1>2, <2>1, <2>2, PhysicalMemoryAssumption
  <2>4. Min(hints) \in hints
    BY <2>3, MinFacts
  <2>5. QED
    BY <1>1, <1>7, <2>2, <2>4
<1>12. PhysicalTypeOK'
  <2>1. page_states' \in [Page -> {"UNAVAILABLE", "FREE", "ALLOCATED", "RECLAIMABLE"}]
    BY <1>1 DEF PhysicalInvariant, PhysicalTypeOK
  <2>2. QED
    BY <1>1, <1>10, <1>11, <2>1 DEF PhysicalInvariant, PhysicalTypeOK
<1>13. ReservedNeverHandedOut'
  BY <1>1 DEF PhysicalInvariant, ReservedNeverHandedOut
<1>14. QED
  BY <1>9, <1>12, <1>13 DEF PhysicalInvariant

(* From the first page on the search overlooks no free run: a run that fits *)
(* is managed, so that the first pass meets it, and counted, so that the    *)
(* request is not refused before (physical_allocate_pages).                 *)
LEMMA SearchOverlooksNothing ==
    ASSUME PhysicalInvariant
    PROVE  SearchFromStartIsComplete
<1> SUFFICES ASSUME search_hint = 1, NEW n \in 1 .. PageCount,
                    NEW p \in 1 .. PageCount - n, Fits(p, n)
             PROVE  Found(n) # NoRun
  BY DEF SearchFromStartIsComplete
<1> DEFINE managed == managed_page_count(map)
<1> DEFINE ahead == Pass(search_hint, managed, n)
<1> DEFINE free == {q \in Page : page_states[q] = "FREE"}
<1>1. PageCount \in Nat /\ n \in Nat \ {0} /\ p \in Nat /\ p + n - 1 \in Nat
  BY PhysicalMemoryAssumption
<1>2. managed \in 1 .. PageCount
  BY ManagedFacts DEF PhysicalInvariant
<1>3. \A q : q \in Run(p, n) <=> q \in Nat /\ p <= q /\ q < p + n
  BY <1>1, RunFacts
<1>4. Run(p, n) \subseteq Page
  BY <1>1, <1>3 DEF Page
<1>5. Run(p, n) \in SUBSET free
  BY <1>4 DEF Fits
<1>6. p + n - 1 \in Run(p, n)
  BY <1>1, <1>3
<1>7. p + n - 1 \in 1 .. managed - 1
  BY <1>4, <1>5, <1>6, KnownPages
<1>8. Cardinality(Run(p, n)) = n
  BY <1>1, RunFacts
<1>9. n <= free_page_count /\ free_page_count \in Nat
  <2>1. free_page_count = Cardinality(free)
    BY DEF PhysicalInvariant, CountersAgree
  <2>2. free \in SUBSET Page
    OBVIOUS
  <2> HIDE DEF free
  <2>3. IsFiniteSet(free) /\ Cardinality(free) \in Nat
    BY <2>2, PagesFinite, PhysicalMemoryAssumption
  <2>4. Cardinality(Run(p, n)) <= Cardinality(free)
    BY <1>5, <2>3, FS_Subset
  <2>5. QED
    BY <1>8, <2>1, <2>3, <2>4
<1>10. p \in ahead
  BY <1>1, <1>2, <1>7, PhysicalMemoryAssumption DEF Pass
<1>11. ahead \in SUBSET Nat /\ 0 \notin ahead
  BY <1>1, <1>2 DEF Pass
<1>12. Found(n) = Min(ahead)
  BY <1>1, <1>9, <1>10 DEF Found
<1> HIDE DEF ahead
<1>13. Min(ahead) \in ahead
  BY <1>10, <1>11, MinFacts
<1>14. QED
  BY <1>11, <1>12, <1>13 DEF NoRun

-----------------------------------------------------------------------------
(* Its clients.                                                            *)

IInv == AllocatorSound /\ MemoryReturned /\ ActiveIsLive

-----------------------------------------------------------------------------
(* Functions that grow by one element or are cut down.                      *)

LEMMA WithRange ==
    ASSUME NEW f, NEW x, NEW y, NEW g, g = With(f, x, y), x \notin DOMAIN f
    PROVE  Range(g) = Range(f) \cup {y}
BY DEF With, Range

(* Cutting elements out of an injective function takes exactly their values *)
(* away.                                                                    *)
LEMMA RestrictFacts ==
    ASSUME NEW f, NEW D,
           \A t, u \in DOMAIN f : f[t] = f[u] => t = u
    PROVE  /\ DOMAIN Restrict(f, DOMAIN f \ D) = DOMAIN f \ D
           /\ \A z \in DOMAIN f \ D : Restrict(f, DOMAIN f \ D)[z] = f[z]
           /\ Range(Restrict(f, DOMAIN f \ D)) = Range(f) \ {f[t] : t \in DOMAIN f \cap D}
<1>1. /\ DOMAIN Restrict(f, DOMAIN f \ D) = DOMAIN f \ D
      /\ \A z \in DOMAIN f \ D : Restrict(f, DOMAIN f \ D)[z] = f[z]
  BY DEF Restrict
<1> DEFINE g == Restrict(f, DOMAIN f \ D)
<1> HIDE DEF g
<1>2. Range(g) = Range(f) \ {f[t] : t \in DOMAIN f \cap D}
  BY <1>1 DEF Range, g
<1>3. QED
  BY <1>1, <1>2 DEF g

-----------------------------------------------------------------------------
(* Tables and pages.                                                        *)

LEMMA PrefixFacts ==
    ASSUME NEW v \in Virtual, NEW k \in 1 .. 3
    PROVE  Prefix(v, k) \in Path /\ IsBelow(v, Prefix(v, k))
<1>1. DOMAIN v = 1 .. 4 /\ \A i \in 1 .. 4 : v[i] \in Nat
  BY DEF Virtual
<1>2. DOMAIN Prefix(v, k) = 1 .. k /\ \A i \in 1 .. k : Prefix(v, k)[i] = v[i]
  BY DEF Prefix
<1>3. Prefix(v, k) \in [1 .. k -> Nat]
  BY <1>1 DEF Prefix
<1>4. Prefix(v, k) \in Path
  <2>1. k = 1 \/ k = 2 \/ k = 3
    OBVIOUS
  <2>2. QED
    BY <1>3, <2>1 DEF Path
<1>5. 1 .. k \subseteq 1 .. 4 /\ 4 \notin 1 .. k /\ 4 \in 1 .. 4
  OBVIOUS
<1>6. IsBelow(v, Prefix(v, k))
  BY <1>1, <1>2, <1>5 DEF IsBelow
<1>7. QED
  BY <1>4, <1>6

(* What is below a table is below the tables above that one.                *)
LEMMA BelowTransitive ==
    ASSUME NEW w, NEW u, NEW t, IsBelow(w, u), IsBelow(u, t)
    PROVE  IsBelow(w, t)
<1>1. DOMAIN t \subseteq DOMAIN w /\ DOMAIN t # DOMAIN w
  BY DEF IsBelow
<1>2. \A i \in DOMAIN t : w[i] = t[i]
  BY DEF IsBelow
<1>3. QED
  BY <1>1, <1>2 DEF IsBelow

(* A page whose last table is missing is unmapped: the tables that stay     *)
(* are still needed by another page (virtual_unmap_pages).                  *)
Needed(p, t) == \E v \in DOMAIN p.leaves : IsBelow(v, t)

(* unmap_one frees every table that the page it takes out leaves empty, so  *)
(* that each table it keeps still leads to a page.                          *)
LEMMA UnmappedNeeded ==
    ASSUME NEW p, NEW v \in DOMAIN p.leaves,
           \A t \in DOMAIN p.tables : Needed(p, t)
    PROVE  \A t \in DOMAIN p.tables \ EmptiedTables(p, v) :
              \E u \in DOMAIN p.leaves \ {v} : IsBelow(u, t)
<1> SUFFICES ASSUME NEW t \in DOMAIN p.tables, t \notin EmptiedTables(p, v)
             PROVE  \E u \in DOMAIN p.leaves \ {v} : IsBelow(u, t)
  OBVIOUS
<1>1. CASE ~IsBelow(v, t)
  BY <1>1 DEF Needed
<1>2. CASE IsBelow(v, t)
  <2>1. PICK u \in (DOMAIN p.leaves \cup DOMAIN p.tables) \ {v} : IsBelow(u, t) /\ ~IsBelow(v, u)
    BY <1>2 DEF EmptiedTables
  <2>2. CASE u \in DOMAIN p.leaves
    BY <2>1, <2>2
  <2>3. CASE u \in DOMAIN p.tables
    <3>1. PICK w \in DOMAIN p.leaves : IsBelow(w, u)
      BY <2>3 DEF Needed
    <3>2. w # v
      BY <2>1, <3>1
    <3>3. IsBelow(w, t)
      BY <2>1, <3>1, BelowTransitive
    <3>4. QED
      BY <3>2, <3>3
  <2>4. QED
    BY <2>1, <2>2, <2>3
<1>3. QED
  BY <1>1, <1>2

-----------------------------------------------------------------------------
(* Modules and the parts of their images.                                   *)

LEMMA SlotFacts == Slot \subseteq Nat \ {0} /\ None \notin Slot
<1>1. Cardinality(Slot) \in Nat
  BY FS_CardinalityType, ProcessesAssumption
<1>2. QED
  BY <1>1, ProcessesAssumption DEF None

(* A module has one part more than segments, the user stack, and no part is *)
(* without pages.                                                           *)
LEMMA PartFacts ==
    ASSUME TypeOK, NEW i \in DOMAIN modules
    PROVE  /\ modules[i] \in ModuleDescriptor
           /\ DOMAIN Parts(modules[i]) = 1 .. Len(modules[i].segments) + 1
           /\ Len(Parts(modules[i])) = Len(modules[i].segments) + 1
           /\ Len(modules[i].segments) \in Nat
           /\ \A k \in DOMAIN Parts(modules[i]) : Parts(modules[i])[k] \in PageRun
<1>1. modules \in Seq(ModuleDescriptor)
  BY ProcessesAssumption DEF TypeOK
<1>2. modules[i] \in ModuleDescriptor
  BY <1>1
<1>3. modules[i].segments \in Seq([pages : PageRun, execute : BOOLEAN])
  BY <1>2 DEF ModuleDescriptor
<1> DEFINE segments == modules[i].segments
<1>4. Len(segments) \in Nat /\ \A k \in 1 .. Len(segments) : segments[k].pages \in PageRun
  <2> DEFINE record == [pages : PageRun, execute : BOOLEAN]
  <2>1. \A r \in record : r.pages \in PageRun
    OBVIOUS
  <2> HIDE DEF record
  <2>2. segments \in Seq(record)
    BY <1>3 DEF record
  <2>3. Len(segments) \in Nat /\ \A k \in 1 .. Len(segments) : segments[k] \in record
    BY <2>2
  <2>4. QED
    BY <2>1, <2>3
<1>5. /\ DOMAIN Parts(modules[i]) = 1 .. Len(segments) + 1
      /\ \A k \in 1 .. Len(segments) + 1 :
           Parts(modules[i])[k] = IF k <= Len(segments) THEN segments[k].pages ELSE UserStack
  BY DEF Parts
<1>6. \A k \in DOMAIN Parts(modules[i]) : Parts(modules[i])[k] \in PageRun
  BY <1>4, <1>5, ProcessesAssumption
<1>7. Len(Parts(modules[i])) = Len(segments) + 1
  <2>1. Parts(modules[i]) = [k \in 1 .. Len(segments) + 1 |->
            IF k <= Len(segments) THEN segments[k].pages ELSE UserStack]
    BY DEF Parts
  <2>2. Len(segments) + 1 \in Nat
    BY <1>4
  <2>3. QED
    BY <2>1, <2>2
<1>8. QED
  BY <1>2, <1>4, <1>5, <1>6, <1>7

(* The part that is being mapped is a run of at least one virtual page.     *)
LEMMA CurrentPart ==
    ASSUME TypeOK, job.module \in DOMAIN modules, job.part \in DOMAIN Parts(Module)
    PROVE  /\ Len(Part) \in Nat \ {0}
           /\ DOMAIN Part = 1 .. Len(Part)
           /\ \A i \in 1 .. Len(Part) : Part[i] \in Virtual
<1>1. Part \in PageRun
  BY PartFacts DEF Part, Module
<1>2. Part \in Seq(Virtual) /\ Part # <<>>
  BY <1>1 DEF PageRun
<1>3. QED
  BY <1>2

(* The module that is tried next is one of those that are left.             *)
LEMMA NextModuleFacts ==
    ASSUME TypeOK, queue # {}
    PROVE  NextModule \in queue
<1> DEFINE rank(i) == system_module_startup_rank(modules[i].role)
<1> DEFINE ranks == {rank(i) : i \in queue}
<1>1. modules \in Seq(ModuleDescriptor)
  BY ProcessesAssumption DEF TypeOK
<1>2. queue \subseteq DOMAIN modules
  BY DEF TypeOK
<1>3. queue \in SUBSET Nat
  BY <1>1, <1>2
<1>4. \A i \in queue : rank(i) \in Nat
  BY DEF system_module_startup_rank
<1> HIDE DEF rank
<1>5. ranks \in SUBSET Nat /\ ranks # {}
  BY <1>4
<1>6. Min(ranks) \in ranks /\ \A r \in ranks : Min(ranks) <= r
  BY <1>5, MinFacts
<1> DEFINE lowest == {i \in queue : rank(i) = Min(ranks)}
<1>7. lowest \in SUBSET Nat /\ lowest # {}
  BY <1>3, <1>6
<1> HIDE DEF lowest
<1>8. Min(lowest) \in lowest /\ \A i \in lowest : Min(lowest) <= i
  BY <1>7, MinFacts
<1>9. \E i \in queue : \A j \in queue : rank(i) < rank(j) \/ (rank(i) = rank(j) /\ i <= j)
  <2>1. Min(lowest) \in queue /\ rank(Min(lowest)) = Min(ranks)
    BY <1>8 DEF lowest
  <2>2. ASSUME NEW j \in queue
        PROVE  \/ rank(Min(lowest)) < rank(j)
               \/ rank(Min(lowest)) = rank(j) /\ Min(lowest) <= j
    <3>1. rank(j) \in Nat /\ Min(ranks) <= rank(j) /\ Min(ranks) \in Nat
      BY <1>4, <1>5, <1>6
    <3>2. CASE rank(j) = Min(ranks)
      <4>1. j \in lowest
        BY <3>2 DEF lowest
      <4>2. QED
        BY <1>8, <2>1, <3>2, <4>1
    <3>3. QED
      BY <2>1, <3>1, <3>2
  <2>3. QED
    BY <2>1, <2>2
<1>10. QED
  BY <1>9 DEF NextModule, rank

-----------------------------------------------------------------------------
(* The ledger of the pages, one column for each kind of holder.             *)

Stacks == [s \in Slot |-> KernelStack(processes[s])]
Spaces == [s \in Slot |-> AddressSpace(processes[s])]

Ledger(states, stack, space, staged, fats, old) ==
    /\ \A p \in Page : states[p] = "ALLOCATED" <=>
         \/ \E s \in Slot : p \in stack[s] \/ p \in space[s]
         \/ p \in staged \/ p \in fats \/ p \in old
    /\ \A s \in Slot : stack[s] \subseteq Page /\ space[s] \subseteq Page
    /\ staged \subseteq Page /\ fats \subseteq Page /\ old \subseteq Page
    /\ \A s, t \in Slot : \A p \in Page :
         /\ p \in stack[s] /\ p \in stack[t] => s = t
         /\ p \in space[s] /\ p \in space[t] => s = t
         /\ ~ (p \in stack[s] /\ p \in space[t])
    /\ \A s \in Slot : \A p \in Page : p \in stack[s] \/ p \in space[s] =>
         p \notin staged /\ p \notin fats /\ p \notin old
    /\ \A p \in Page : /\ p \in staged => p \notin fats /\ p \notin old
                       /\ p \in fats => p \notin old

(* The same, holder by holder.                                              *)
Account(states, held) ==
    /\ \A p \in Page : states[p] = "ALLOCATED" <=> \E h \in Holder : p \in held[h]
    /\ \A g, h \in Holder : g # h => held[g] \cap held[h] = {}
    /\ \A h \in Holder : held[h] \subseteq Page

(* Who holds pages.                                                         *)
StackOf(s) == <<"stack", s>>
SpaceOf(s) == <<"space", s>>
StagedRun == <<"staged", None>>
FatBuffer == <<"fat", None>>
OldBuffer == <<"old fat", None>>

(* These are all the holders of pages.                                      *)
LEMMA HolderFacts ==
    /\ \A s \in Slot : StackOf(s) \in Holder /\ SpaceOf(s) \in Holder
    /\ StagedRun \in Holder /\ FatBuffer \in Holder /\ OldBuffer \in Holder
    /\ \A h \in Holder :
         \/ \E s \in Slot : h = StackOf(s) \/ h = SpaceOf(s)
         \/ h = StagedRun \/ h = FatBuffer \/ h = OldBuffer
<1>1. /\ StagedRun = <<"staged", None>> /\ FatBuffer = <<"fat", None>>
      /\ OldBuffer = <<"old fat", None>>
  BY DEF StagedRun, FatBuffer, OldBuffer
<1>2. \A a, b, c, d : <<a, b>> = <<c, d>> => a = c /\ b = d
  OBVIOUS
<1>3. \A a, b : <<a, b>> \in Holder <=> \/ a \in {"stack", "space"} /\ b \in Slot
                                        \/ a \in {"staged", "fat", "old fat"} /\ b = None
  BY DEF Holder
<1>5. /\ \A s \in Slot : StackOf(s) \in Holder /\ SpaceOf(s) \in Holder
      /\ StagedRun \in Holder /\ FatBuffer \in Holder /\ OldBuffer \in Holder
  BY <1>1, <1>3 DEF StackOf, SpaceOf
<1>6. \A h \in Holder : \/ \E s \in Slot : h = StackOf(s) \/ h = SpaceOf(s)
                       \/ h = StagedRun \/ h = FatBuffer \/ h = OldBuffer
  <2> SUFFICES ASSUME NEW h \in Holder
               PROVE  \/ \E s \in Slot : h = StackOf(s) \/ h = SpaceOf(s)
                      \/ h = StagedRun \/ h = FatBuffer \/ h = OldBuffer
    OBVIOUS
  <2>1. CASE h \in {"stack", "space"} \X Slot
    <3>1. PICK a \in {"stack", "space"}, b \in Slot : h = <<a, b>>
      BY <2>1
    <3>2. CASE a = "stack"
      BY <3>1, <3>2 DEF StackOf
    <3>3. CASE a = "space"
      BY <3>1, <3>3 DEF SpaceOf
    <3>4. QED
      BY <3>1, <3>2, <3>3
  <2>2. CASE h \in {"staged", "fat", "old fat"} \X {None}
    <3> DEFINE kinds == {"staged", "fat", "old fat"}
    <3> DEFINE nobody == {None}
    <3>1. h \in kinds \X nobody
      BY <2>2
    <3> HIDE DEF kinds, nobody
    <3>2. PICK a \in kinds, b \in nobody : h = <<a, b>>
      BY <3>1
    <3>3. b = None
      BY DEF nobody
    <3>4. QED
      BY <1>1, <3>2, <3>3 DEF kinds
  <2>3. QED
    BY <2>1, <2>2 DEF Holder
<1>7. QED
  BY <1>5, <1>6

(* And no two of them are the same.                                         *)
LEMMA HoldersDiffer ==
    /\ \A s, t \in Slot : /\ StackOf(s) # SpaceOf(t)
                          /\ s # t => StackOf(s) # StackOf(t) /\ SpaceOf(s) # SpaceOf(t)
    /\ \A s \in Slot :
         /\ StackOf(s) # StagedRun /\ StackOf(s) # FatBuffer /\ StackOf(s) # OldBuffer
         /\ SpaceOf(s) # StagedRun /\ SpaceOf(s) # FatBuffer /\ SpaceOf(s) # OldBuffer
    /\ StagedRun # FatBuffer /\ StagedRun # OldBuffer /\ FatBuffer # OldBuffer
<1>1. \A a, b, c, d : <<a, b>> = <<c, d>> => a = c /\ b = d
  OBVIOUS
<1>2. \A s, t \in Slot :
        /\ StackOf(s) # SpaceOf(t)
        /\ s # t => StackOf(s) # StackOf(t) /\ SpaceOf(s) # SpaceOf(t)
  BY <1>1 DEF StackOf, SpaceOf
<1>3. \A s \in Slot : StackOf(s) # StagedRun /\ StackOf(s) # FatBuffer /\ StackOf(s) # OldBuffer
  BY <1>1 DEF StackOf, StagedRun, FatBuffer, OldBuffer
<1>4. \A s \in Slot : SpaceOf(s) # StagedRun /\ SpaceOf(s) # FatBuffer /\ SpaceOf(s) # OldBuffer
  BY <1>1 DEF SpaceOf, StagedRun, FatBuffer, OldBuffer
<1>5. StagedRun # FatBuffer /\ StagedRun # OldBuffer /\ FatBuffer # OldBuffer
  BY <1>1 DEF StagedRun, FatBuffer, OldBuffer
<1>6. \A s \in Slot :
         /\ StackOf(s) # StagedRun /\ StackOf(s) # FatBuffer /\ StackOf(s) # OldBuffer
         /\ SpaceOf(s) # StagedRun /\ SpaceOf(s) # FatBuffer /\ SpaceOf(s) # OldBuffer
  BY <1>3, <1>4
<1>7. QED
  BY <1>2, <1>5, <1>6

Lists(held, stack, space, staged, fats, old) ==
    /\ \A s \in Slot : held[StackOf(s)] = stack[s] /\ held[SpaceOf(s)] = space[s]
    /\ held[StagedRun] = staged /\ held[FatBuffer] = fats /\ held[OldBuffer] = old

(* PagesAccounted, stated over all holders, is the ledger with one column   *)
(* for each kind of holder.                                                 *)
LEMMA LedgerIsAccount ==
    ASSUME NEW states, NEW stack, NEW space, NEW staged, NEW fats, NEW old, NEW held,
           Lists(held, stack, space, staged, fats, old)
    PROVE  Account(states, held) <=> Ledger(states, stack, space, staged, fats, old)
<1>1. /\ \A s \in Slot : held[StackOf(s)] = stack[s] /\ held[SpaceOf(s)] = space[s]
      /\ held[StagedRun] = staged /\ held[FatBuffer] = fats /\ held[OldBuffer] = old
  BY DEF Lists
<1>3. ASSUME Account(states, held)
      PROVE  Ledger(states, stack, space, staged, fats, old)
  <2>1. \A p \in Page : states[p] = "ALLOCATED" <=>
          \/ \E s \in Slot : p \in stack[s] \/ p \in space[s]
          \/ p \in staged \/ p \in fats \/ p \in old
    BY <1>1, <1>3, HolderFacts DEF Account
  <2>2. /\ \A s \in Slot : stack[s] \subseteq Page /\ space[s] \subseteq Page
        /\ staged \subseteq Page /\ fats \subseteq Page /\ old \subseteq Page
    BY <1>1, <1>3, HolderFacts DEF Account
  <2>3. \A g, h \in Holder : g # h => held[g] \cap held[h] = {}
    BY <1>3 DEF Account
  <2>4. \A g, h \in Holder : \A p : p \in held[g] /\ p \in held[h] => g = h
    BY <2>3
  <2>5. \A s, t \in Slot : \A p \in Page :
          /\ p \in stack[s] /\ p \in stack[t] => s = t
          /\ p \in space[s] /\ p \in space[t] => s = t
          /\ ~ (p \in stack[s] /\ p \in space[t])
    BY <1>1, <2>4, HolderFacts, HoldersDiffer
  <2>6. \A s \in Slot : \A p \in Page : p \in stack[s] \/ p \in space[s] =>
          p \notin staged /\ p \notin fats /\ p \notin old
    BY <1>1, <2>4, HolderFacts, HoldersDiffer
  <2>7. \A p \in Page : /\ p \in staged => p \notin fats /\ p \notin old
                        /\ p \in fats => p \notin old
    BY <1>1, <2>4, HolderFacts, HoldersDiffer
  <2>8. QED
    BY <2>1, <2>2, <2>5, <2>6, <2>7 DEF Ledger
<1>4. ASSUME Ledger(states, stack, space, staged, fats, old)
      PROVE  Account(states, held)
  <2>1. \A p \in Page : states[p] = "ALLOCATED" <=> \E h \in Holder : p \in held[h]
    BY <1>1, <1>4, HolderFacts DEF Ledger
  <2>2. \A h \in Holder : held[h] \subseteq Page
    BY <1>1, <1>4, HolderFacts DEF Ledger
  <2>3. ASSUME NEW g \in Holder, NEW h \in Holder, g # h PROVE held[g] \cap held[h] = {}
    <3>1. CASE \E s \in Slot : g = StackOf(s)
      BY <1>1, <1>4, <2>3, <3>1, HolderFacts DEF Ledger
    <3>2. CASE \E s \in Slot : g = SpaceOf(s)
      BY <1>1, <1>4, <2>3, <3>2, HolderFacts DEF Ledger
    <3>3. CASE g = StagedRun
      BY <1>1, <1>4, <2>3, <3>3, HolderFacts DEF Ledger
    <3>4. CASE g = FatBuffer
      BY <1>1, <1>4, <2>3, <3>4, HolderFacts DEF Ledger
    <3>5. CASE g = OldBuffer
      BY <1>1, <1>4, <2>3, <3>5, HolderFacts DEF Ledger
    <3>6. QED
      BY <3>1, <3>2, <3>3, <3>4, <3>5, HolderFacts
  <2>4. QED
    BY <2>1, <2>2, <2>3 DEF Account
<1>5. QED
  BY <1>3, <1>4

(* The property of the run, in columns, now and after a step.               *)
LEMMA InColumns ==
    /\ PagesAccounted <=> /\ Ledger(page_states, Stacks, Spaces, Staged, FatPages, fat.old)
                          /\ \A s \in Slot : UsedOnce(processes[s])
    /\ PagesAccounted' <=> /\ Ledger(page_states', Stacks', Spaces', Staged', FatPages', fat'.old)
                           /\ \A s \in Slot : UsedOnce(processes'[s])
<1>1. /\ \A s : /\ StackOf(s)[1] = "stack" /\ StackOf(s)[2] = s
               /\ SpaceOf(s)[1] = "space" /\ SpaceOf(s)[2] = s
      /\ StagedRun[1] = "staged" /\ FatBuffer[1] = "fat" /\ OldBuffer[1] = "old fat"
  <2>1. \A a, b, h : h = <<a, b>> => h[1] = a /\ h[2] = b
    OBVIOUS
  <2>2. \A s : /\ StackOf(s)[1] = "stack" /\ StackOf(s)[2] = s
               /\ SpaceOf(s)[1] = "space" /\ SpaceOf(s)[2] = s
    BY <2>1 DEF StackOf, SpaceOf
  <2>3. StagedRun[1] = "staged" /\ FatBuffer[1] = "fat" /\ OldBuffer[1] = "old fat"
    BY <2>1 DEF StagedRun, FatBuffer, OldBuffer
  <2>4. QED
    BY <2>2, <2>3
<1>2. Lists(Held, Stacks, Spaces, Staged, FatPages, fat.old)
  <2>1. \A h \in Holder :
          /\ h[1] = "stack" => Held[h] = KernelStack(processes[h[2]])
          /\ h[1] = "space" => Held[h] = AddressSpace(processes[h[2]])
          /\ h[1] = "staged" => Held[h] = Staged
          /\ h[1] = "fat" => Held[h] = FatPages
          /\ h[1] = "old fat" => Held[h] = fat.old
    BY DEF Held
  <2>2. ASSUME NEW s \in Slot
        PROVE  Held[StackOf(s)] = Stacks[s] /\ Held[SpaceOf(s)] = Spaces[s]
    <3>1. StackOf(s) \in Holder /\ SpaceOf(s) \in Holder
      BY HolderFacts
    <3>2. /\ Held[StackOf(s)] = KernelStack(processes[StackOf(s)[2]])
          /\ Held[SpaceOf(s)] = AddressSpace(processes[SpaceOf(s)[2]])
      BY <1>1, <2>1, <3>1
    <3>3. QED
      BY <1>1, <3>2 DEF Stacks, Spaces
  <2>3. StagedRun \in Holder /\ FatBuffer \in Holder /\ OldBuffer \in Holder
    BY HolderFacts
  <2>4. QED
    BY <1>1, <2>1, <2>2, <2>3 DEF Lists
<1>3. Lists(Held', Stacks', Spaces', Staged', FatPages', fat'.old)
  <2>1. \A h \in Holder :
          /\ h[1] = "stack" => Held'[h] = KernelStack(processes'[h[2]])
          /\ h[1] = "space" => Held'[h] = AddressSpace(processes'[h[2]])
          /\ h[1] = "staged" => Held'[h] = Staged'
          /\ h[1] = "fat" => Held'[h] = FatPages'
          /\ h[1] = "old fat" => Held'[h] = fat'.old
    BY DEF Held
  <2>2. ASSUME NEW s \in Slot
        PROVE  Held'[StackOf(s)] = Stacks'[s] /\ Held'[SpaceOf(s)] = Spaces'[s]
    <3>1. StackOf(s) \in Holder /\ SpaceOf(s) \in Holder
      BY HolderFacts
    <3>2. /\ Held'[StackOf(s)] = KernelStack(processes'[StackOf(s)[2]])
          /\ Held'[SpaceOf(s)] = AddressSpace(processes'[SpaceOf(s)[2]])
      BY <1>1, <2>1, <3>1
    <3>3. QED
      BY <1>1, <3>2 DEF Stacks, Spaces
  <2>3. StagedRun \in Holder /\ FatBuffer \in Holder /\ OldBuffer \in Holder
    BY HolderFacts
  <2>4. QED
    BY <1>1, <2>1, <2>2, <2>3 DEF Lists
<1>4. Account(page_states, Held) <=> Ledger(page_states, Stacks, Spaces, Staged, FatPages, fat.old)
  BY <1>2, LedgerIsAccount
<1>5. Account(page_states', Held')
        <=> Ledger(page_states', Stacks', Spaces', Staged', FatPages', fat'.old)
  BY <1>3, LedgerIsAccount
<1>6. PagesAccounted <=> Account(page_states, Held) /\ \A s \in Slot : UsedOnce(processes[s])
  BY DEF PagesAccounted, Account
<1>7. PagesAccounted' <=> Account(page_states', Held') /\ \A s \in Slot : UsedOnce(processes'[s])
  BY DEF PagesAccounted, Account
<1>8. QED
  BY <1>4, <1>5, <1>6, <1>7

(* A column in which one slot gains or loses pages.                         *)
Gains(column, column2, s, gained) ==
    \A t \in Slot : \A p : p \in column2[t] <=> p \in column[t] \/ (t = s /\ p \in gained)
Loses(column, column2, s, lost) ==
    \A t \in Slot : \A p : p \in column2[t] <=> p \in column[t] /\ ~ (t = s /\ p \in lost)

(* Pages that were free go to one holder.                                   *)
Taken(states, states2, run) ==
    /\ run \subseteq Page
    /\ \A p \in run : states[p] = "FREE"
    /\ \A p \in Page : states2[p] = "ALLOCATED" <=> states[p] = "ALLOCATED" \/ p \in run

(* Allocated for a kernel stack.                                            *)
LEMMA TakenToStack ==
    ASSUME NEW states, NEW stack, NEW space, NEW staged, NEW fats, NEW old,
           NEW states2, NEW stack2, NEW run, NEW s \in Slot,
           Ledger(states, stack, space, staged, fats, old),
           Taken(states, states2, run),
           Gains(stack, stack2, s, run)
    PROVE  Ledger(states2, stack2, space, staged, fats, old)
<1>1. \A p \in Page : states2[p] = "ALLOCATED" <=>
        \/ \E t \in Slot : p \in stack2[t] \/ p \in space[t]
        \/ p \in staged \/ p \in fats \/ p \in old
  BY DEF Ledger, Taken, Gains
<1>2. /\ \A t \in Slot : stack2[t] \subseteq Page /\ space[t] \subseteq Page
      /\ staged \subseteq Page /\ fats \subseteq Page /\ old \subseteq Page
  BY DEF Ledger, Taken, Gains
<1>3. \A t, u \in Slot : \A p \in Page :
        /\ p \in stack2[t] /\ p \in stack2[u] => t = u
        /\ p \in space[t] /\ p \in space[u] => t = u
        /\ ~ (p \in stack2[t] /\ p \in space[u])
  BY DEF Ledger, Taken, Gains
<1>4. \A t \in Slot : \A p \in Page : p \in stack2[t] \/ p \in space[t] =>
        p \notin staged /\ p \notin fats /\ p \notin old
  BY DEF Ledger, Taken, Gains
<1>5. \A p \in Page : /\ p \in staged => p \notin fats /\ p \notin old
                      /\ p \in fats => p \notin old
  BY DEF Ledger, Taken, Gains
<1>6. QED
  BY <1>1, <1>2, <1>3, <1>4, <1>5 DEF Ledger

(* Allocated for an address space: its root or one of its tables.           *)
LEMMA TakenToSpace ==
    ASSUME NEW states, NEW stack, NEW space, NEW staged, NEW fats, NEW old,
           NEW states2, NEW space2, NEW run, NEW s \in Slot,
           Ledger(states, stack, space, staged, fats, old),
           Taken(states, states2, run),
           Gains(space, space2, s, run)
    PROVE  Ledger(states2, stack, space2, staged, fats, old)
<1>1. \A p \in Page : states2[p] = "ALLOCATED" <=>
        \/ \E t \in Slot : p \in stack[t] \/ p \in space2[t]
        \/ p \in staged \/ p \in fats \/ p \in old
  BY DEF Ledger, Taken, Gains
<1>2. /\ \A t \in Slot : stack[t] \subseteq Page /\ space2[t] \subseteq Page
      /\ staged \subseteq Page /\ fats \subseteq Page /\ old \subseteq Page
  BY DEF Ledger, Taken, Gains
<1>3. \A t, u \in Slot : \A p \in Page :
        /\ p \in stack[t] /\ p \in stack[u] => t = u
        /\ p \in space2[t] /\ p \in space2[u] => t = u
        /\ ~ (p \in stack[t] /\ p \in space2[u])
  BY DEF Ledger, Taken, Gains
<1>4. \A t \in Slot : \A p \in Page : p \in stack[t] \/ p \in space2[t] =>
        p \notin staged /\ p \notin fats /\ p \notin old
  BY DEF Ledger, Taken, Gains
<1>5. \A p \in Page : /\ p \in staged => p \notin fats /\ p \notin old
                      /\ p \in fats => p \notin old
  BY DEF Ledger, Taken, Gains
<1>6. QED
  BY <1>1, <1>2, <1>3, <1>4, <1>5 DEF Ledger

(* Allocated for a part of an image that is about to be mapped.             *)
LEMMA TakenToStaged ==
    ASSUME NEW states, NEW stack, NEW space, NEW fats, NEW old,
           NEW states2, NEW run,
           Ledger(states, stack, space, {}, fats, old),
           Taken(states, states2, run)
    PROVE  Ledger(states2, stack, space, run, fats, old)
BY DEF Ledger, Taken

(* Allocated for a new FAT buffer, while the buffer before it is kept.      *)
LEMMA TakenToFat ==
    ASSUME NEW states, NEW stack, NEW space, NEW staged, NEW fats,
           NEW states2, NEW run,
           Ledger(states, stack, space, staged, fats, {}),
           Taken(states, states2, run)
    PROVE  Ledger(states2, stack, space, staged, run, fats)
BY DEF Ledger, Taken

(* Pages are given back by their holder.                                    *)
Returned(states, states2, back) ==
    \A p \in Page : states2[p] = "ALLOCATED" <=> states[p] = "ALLOCATED" /\ p \notin back

(* Freed tables of an address space.                                        *)
LEMMA ReturnedBySpace ==
    ASSUME NEW states, NEW stack, NEW space, NEW staged, NEW fats, NEW old,
           NEW states2, NEW space2, NEW s \in Slot, NEW back \in SUBSET space[s],
           Ledger(states, stack, space, staged, fats, old),
           Returned(states, states2, back),
           Loses(space, space2, s, back)
    PROVE  Ledger(states2, stack, space2, staged, fats, old)
<1>1. \A p \in Page : states2[p] = "ALLOCATED" <=>
        \/ \E t \in Slot : p \in stack[t] \/ p \in space2[t]
        \/ p \in staged \/ p \in fats \/ p \in old
  BY DEF Ledger, Returned, Loses
<1>2. /\ \A t \in Slot : stack[t] \subseteq Page /\ space2[t] \subseteq Page
      /\ staged \subseteq Page /\ fats \subseteq Page /\ old \subseteq Page
  BY DEF Ledger, Returned, Loses
<1>3. \A t, u \in Slot : \A p \in Page :
        /\ p \in stack[t] /\ p \in stack[u] => t = u
        /\ p \in space2[t] /\ p \in space2[u] => t = u
        /\ ~ (p \in stack[t] /\ p \in space2[u])
  BY DEF Ledger, Returned, Loses
<1>4. \A t \in Slot : \A p \in Page : p \in stack[t] \/ p \in space2[t] =>
        p \notin staged /\ p \notin fats /\ p \notin old
  BY DEF Ledger, Returned, Loses
<1>5. \A p \in Page : /\ p \in staged => p \notin fats /\ p \notin old
                      /\ p \in fats => p \notin old
  BY DEF Ledger, Returned, Loses
<1>6. QED
  BY <1>1, <1>2, <1>3, <1>4, <1>5 DEF Ledger

(* Everything a process had, freed when it is destroyed.                    *)
LEMMA ReturnedByProcess ==
    ASSUME NEW states, NEW stack, NEW space, NEW staged, NEW fats, NEW old,
           NEW states2, NEW stack2, NEW space2, NEW s \in Slot,
           Ledger(states, stack, space, staged, fats, old),
           Returned(states, states2, stack[s] \cup space[s]),
           Loses(stack, stack2, s, stack[s]), Loses(space, space2, s, space[s])
    PROVE  Ledger(states2, stack2, space2, staged, fats, old)
<1>1. \A p \in Page : states2[p] = "ALLOCATED" <=>
        \/ \E t \in Slot : p \in stack2[t] \/ p \in space2[t]
        \/ p \in staged \/ p \in fats \/ p \in old
  BY DEF Ledger, Returned, Loses
<1>2. /\ \A t \in Slot : stack2[t] \subseteq Page /\ space2[t] \subseteq Page
      /\ staged \subseteq Page /\ fats \subseteq Page /\ old \subseteq Page
  BY DEF Ledger, Returned, Loses
<1>3. \A t, u \in Slot : \A p \in Page :
        /\ p \in stack2[t] /\ p \in stack2[u] => t = u
        /\ p \in space2[t] /\ p \in space2[u] => t = u
        /\ ~ (p \in stack2[t] /\ p \in space2[u])
  BY DEF Ledger, Returned, Loses
<1>4. \A t \in Slot : \A p \in Page : p \in stack2[t] \/ p \in space2[t] =>
        p \notin staged /\ p \notin fats /\ p \notin old
  BY DEF Ledger, Returned, Loses
<1>5. \A p \in Page : /\ p \in staged => p \notin fats /\ p \notin old
                      /\ p \in fats => p \notin old
  BY DEF Ledger, Returned, Loses
<1>6. QED
  BY <1>1, <1>2, <1>3, <1>4, <1>5 DEF Ledger

(* Pages of a part that were not mapped, freed after a failure.             *)
LEMMA ReturnedByStaged ==
    ASSUME NEW states, NEW stack, NEW space, NEW staged, NEW fats, NEW old, NEW states2,
           Ledger(states, stack, space, staged, fats, old),
           Returned(states, states2, staged)
    PROVE  Ledger(states2, stack, space, {}, fats, old)
BY DEF Ledger, Returned

(* The old FAT buffer, freed once the mount has the new one.                *)
LEMMA ReturnedByOld ==
    ASSUME NEW states, NEW stack, NEW space, NEW staged, NEW fats, NEW old, NEW states2,
           Ledger(states, stack, space, staged, fats, old),
           Returned(states, states2, old)
    PROVE  Ledger(states2, stack, space, staged, fats, {})
BY DEF Ledger, Returned

(* A page goes from the run that is being mapped to the address space, and  *)
(* back.                                                                    *)
LEMMA MovedToSpace ==
    ASSUME NEW states, NEW stack, NEW space, NEW staged, NEW fats, NEW old,
           NEW space2, NEW s \in Slot, NEW moved \in SUBSET staged,
           Ledger(states, stack, space, staged, fats, old),
           Gains(space, space2, s, moved)
    PROVE  Ledger(states, stack, space2, staged \ moved, fats, old)
<1>1. \A p \in Page : states[p] = "ALLOCATED" <=>
        \/ \E t \in Slot : p \in stack[t] \/ p \in space2[t]
        \/ p \in (staged \ moved) \/ p \in fats \/ p \in old
  BY DEF Ledger, Gains
<1>2. /\ \A t \in Slot : stack[t] \subseteq Page /\ space2[t] \subseteq Page
      /\ (staged \ moved) \subseteq Page /\ fats \subseteq Page /\ old \subseteq Page
  BY DEF Ledger, Gains
<1>3. \A t, u \in Slot : \A p \in Page :
        /\ p \in stack[t] /\ p \in stack[u] => t = u
        /\ p \in space2[t] /\ p \in space2[u] => t = u
        /\ ~ (p \in stack[t] /\ p \in space2[u])
  BY DEF Ledger, Gains
<1>4. \A t \in Slot : \A p \in Page : p \in stack[t] \/ p \in space2[t] =>
        p \notin (staged \ moved) /\ p \notin fats /\ p \notin old
  BY DEF Ledger, Gains
<1>5. \A p \in Page : /\ p \in (staged \ moved) => p \notin fats /\ p \notin old
                      /\ p \in fats => p \notin old
  BY DEF Ledger, Gains
<1>6. QED
  BY <1>1, <1>2, <1>3, <1>4, <1>5 DEF Ledger

(* Unmapped during a roll-back: the page waits to be freed with its run.    *)
LEMMA MovedToStaged ==
    ASSUME NEW states, NEW stack, NEW space, NEW staged, NEW fats, NEW old,
           NEW space2, NEW s \in Slot, NEW moved \in SUBSET space[s],
           Ledger(states, stack, space, staged, fats, old),
           Loses(space, space2, s, moved)
    PROVE  Ledger(states, stack, space2, staged \cup moved, fats, old)
<1>1. \A p \in Page : states[p] = "ALLOCATED" <=>
        \/ \E t \in Slot : p \in stack[t] \/ p \in space2[t]
        \/ p \in (staged \cup moved) \/ p \in fats \/ p \in old
  BY DEF Ledger, Loses
<1>2. /\ \A t \in Slot : stack[t] \subseteq Page /\ space2[t] \subseteq Page
      /\ (staged \cup moved) \subseteq Page /\ fats \subseteq Page /\ old \subseteq Page
  BY DEF Ledger, Loses
<1>3. \A t, u \in Slot : \A p \in Page :
        /\ p \in stack[t] /\ p \in stack[u] => t = u
        /\ p \in space2[t] /\ p \in space2[u] => t = u
        /\ ~ (p \in stack[t] /\ p \in space2[u])
  BY DEF Ledger, Loses
<1>4. \A t \in Slot : \A p \in Page : p \in stack[t] \/ p \in space2[t] =>
        p \notin (staged \cup moved) /\ p \notin fats /\ p \notin old
  BY DEF Ledger, Loses
<1>5. \A p \in Page : /\ p \in (staged \cup moved) => p \notin fats /\ p \notin old
                      /\ p \in fats => p \notin old
  BY DEF Ledger, Loses
<1>6. QED
  BY <1>1, <1>2, <1>3, <1>4, <1>5 DEF Ledger

-----------------------------------------------------------------------------
(* What the allocator's operations mean for the ledger.                     *)

LEMMA TakeIsTaken ==
    ASSUME PhysicalInvariant, NEW n \in Nat \ {0}, Allocated(n)
    PROVE  /\ PhysicalInvariant'
           /\ Taken(page_states, page_states', Run(Found(n), n))
           /\ Found(n) \in Page /\ Found(n) # None
<1>1. Found(n) # NoRun /\ Take(Found(n), n)
  BY DEF Allocated
<1>2. PhysicalInvariant'
  BY <1>1, TakeKeeps
<1>3. /\ Found(n) \in 1 .. managed_page_count(map) - n
      /\ Run(Found(n), n) \subseteq Page
      /\ \A p \in Run(Found(n), n) : page_states[p] = "FREE"
  BY <1>1, FoundFacts
<1>4. page_states' = [p \in Page |-> IF p \in Run(Found(n), n) THEN "ALLOCATED" ELSE page_states[p]]
  BY <1>1 DEF Take
<1>5. Taken(page_states, page_states', Run(Found(n), n))
  BY <1>3, <1>4 DEF Taken
<1>6. managed_page_count(map) \in 1 .. PageCount
  BY ManagedFacts DEF PhysicalInvariant
<1>7. Found(n) \in Page /\ Found(n) # None
  BY <1>3, <1>6, PhysicalMemoryAssumption DEF Page, None
<1>8. QED
  BY <1>2, <1>5, <1>7

(* physical_free_pages returns the pages it is given.                       *)
LEMMA ReleaseIsReturned ==
    ASSUME PhysicalInvariant, NEW back \in SUBSET Page, Release(back)
    PROVE  PhysicalInvariant' /\ Returned(page_states, page_states', back)
<1>1. PhysicalInvariant'
  BY ReleaseKeeps
<1>2. page_states' = [p \in Page |->
          IF p \in {q \in back : page_states[q] = "ALLOCATED"} THEN "FREE" ELSE page_states[p]]
  BY DEF Release
<1>3. QED
  BY <1>1, <1>2 DEF Returned

(* An allocation that fails changes no page.                                *)
LEMMA DeniedKeeps ==
    ASSUME PhysicalInvariant, NEW n, OutOfMemory(n)
    PROVE  PhysicalInvariant' /\ page_states' = page_states
<1>1. page_states' = page_states
  BY DEF OutOfMemory
<1>2. QED
  BY <1>1, OutOfMemoryKeeps

(* A step that leaves the allocator alone changes no page.                  *)
LEMMA PagesStay ==
    ASSUME PhysicalInvariant, UNCHANGED pages
    PROVE  PhysicalInvariant' /\ page_states' = page_states
<1>1. /\ map' = map /\ page_states' = page_states /\ search_hint' = search_hint
      /\ free_page_count' = free_page_count /\ allocated_page_count' = allocated_page_count
  BY DEF pages, counters
<1>2. PhysicalTypeOK'
  BY <1>1 DEF PhysicalInvariant, PhysicalTypeOK
<1>3. CountersAgree' /\ ReservedNeverHandedOut'
  BY <1>1 DEF PhysicalInvariant, CountersAgree, ReservedNeverHandedOut
<1>4. QED
  BY <1>1, <1>2, <1>3 DEF PhysicalInvariant

-----------------------------------------------------------------------------
(* One process of the table changes.                                        *)

ProcessOK(p) ==
    /\ DOMAIN p = DOMAIN Unused
    /\ p.state \in {"UNUSED", "CREATED", "RUNNABLE", "EXITED"}
    /\ p.root \in Page /\ p.kernel_stack \in Page
    /\ DOMAIN p.tables \subseteq Path
    /\ DOMAIN p.leaves \subseteq Virtual
    /\ KernelStack(p) \cup AddressSpace(p) \subseteq Page

Becomes(j, q) ==
    /\ DOMAIN processes' = Slot
    /\ processes'[j] = q
    /\ \A t \in Slot \ {j} : processes'[t] = processes[t]

(* The type of each process, field by field.                                *)
LEMMA ProcessFacts ==
    ASSUME TypeOK, NEW s \in Slot
    PROVE  ProcessOK(processes[s])
BY DEF TypeOK, ProcessOK

(* The fields of a process.                                                 *)
LEMMA UnusedFields ==
    DOMAIN Unused = {"state", "identity", "root", "tables", "leaves", "kernel_stack"}
BY DEF Unused

(* What a change of one process does to the columns of the ledger.          *)
LEMMA ColumnsChange ==
    ASSUME NEW j \in Slot, NEW q, Becomes(j, q), NEW G
    PROVE  /\ KernelStack(q) = KernelStack(processes[j]) => Stacks' = Stacks
           /\ AddressSpace(q) = AddressSpace(processes[j]) => Spaces' = Spaces
           /\ KernelStack(q) = KernelStack(processes[j]) \cup G => Gains(Stacks, Stacks', j, G)
           /\ AddressSpace(q) = AddressSpace(processes[j]) \cup G => Gains(Spaces, Spaces', j, G)
           /\ KernelStack(q) = KernelStack(processes[j]) \ G => Loses(Stacks, Stacks', j, G)
           /\ AddressSpace(q) = AddressSpace(processes[j]) \ G => Loses(Spaces, Spaces', j, G)
<1>1. /\ Stacks = [t \in Slot |-> KernelStack(processes[t])]
      /\ Spaces = [t \in Slot |-> AddressSpace(processes[t])]
      /\ Stacks' = [t \in Slot |-> KernelStack(processes'[t])]
      /\ Spaces' = [t \in Slot |-> AddressSpace(processes'[t])]
  BY DEF Stacks, Spaces
<1>2. /\ KernelStack(processes'[j]) = KernelStack(q)
      /\ AddressSpace(processes'[j]) = AddressSpace(q)
      /\ \A t \in Slot \ {j} : /\ KernelStack(processes'[t]) = KernelStack(processes[t])
                               /\ AddressSpace(processes'[t]) = AddressSpace(processes[t])
  BY DEF Becomes
<1>3. KernelStack(q) = KernelStack(processes[j]) => Stacks' = Stacks
  BY <1>1, <1>2
<1>4. AddressSpace(q) = AddressSpace(processes[j]) => Spaces' = Spaces
  BY <1>1, <1>2
<1>5. KernelStack(q) = KernelStack(processes[j]) \cup G => Gains(Stacks, Stacks', j, G)
  BY <1>1, <1>2 DEF Gains
<1>6. AddressSpace(q) = AddressSpace(processes[j]) \cup G => Gains(Spaces, Spaces', j, G)
  BY <1>1, <1>2 DEF Gains
<1>7. KernelStack(q) = KernelStack(processes[j]) \ G => Loses(Stacks, Stacks', j, G)
  BY <1>1, <1>2 DEF Loses
<1>8. AddressSpace(q) = AddressSpace(processes[j]) \ G => Loses(Spaces, Spaces', j, G)
  BY <1>1, <1>2 DEF Loses
<1>9. QED
  BY <1>3, <1>4, <1>5, <1>6, <1>7, <1>8

-----------------------------------------------------------------------------
(* Steps of the kernel on its own stack and tables.                         *)

Outside == {"user", "syscall", "resume", "finish"}

(* While no process runs, the kernel runs on its own tables and stack.      *)
LEMMA KernelLoaded ==
    ASSUME IInv, pc \notin Outside
    PROVE  /\ cpu.current = None /\ cpu.deferred = None
           /\ cpu.cr3 = KernelRoot /\ cpu.rsp = BootstrapStack
<1>1. SwitchOrdered
  BY DEF IInv, ActiveIsLive
<1>2. cpu.current = None /\ cpu.deferred = None
  BY <1>1 DEF SwitchOrdered, Outside
<1>3. cpu.cr3 = KernelRoot
  BY <1>1, <1>2 DEF SwitchOrdered
<1>4. cpu.rsp = BootstrapStack
  BY <1>1 DEF SwitchOrdered, Outside
<1>5. QED
  BY <1>2, <1>3, <1>4

(* A step of the kernel that ends there leaves them loaded.                 *)
LEMMA KernelStaysLoaded ==
    ASSUME IInv, pc \notin Outside, cpu' = cpu, pc' \notin Outside
    PROVE  ActiveIsLive'
<1>1. /\ cpu'.current = None /\ cpu'.deferred = None
      /\ cpu'.cr3 = KernelRoot /\ cpu'.rsp = BootstrapStack
  BY KernelLoaded
<1>2. LoadedIsLive'
  BY <1>1 DEF LoadedIsLive, Outside
<1>3. SwitchOrdered'
  BY <1>1 DEF SwitchOrdered, Outside
<1>4. QED
  BY <1>2, <1>3 DEF ActiveIsLive

(* What the type invariant says beside the processes.                       *)
RestTyped ==
    /\ task_count \in 0 .. TaskCapacity
    /\ queue \subseteq DOMAIN modules
    /\ job \in [slot : Slot \cup {None}, module : Nat, part : Nat, page : Nat,
                created : SUBSET Path, base : Page]
    /\ fat \in [base : Page, count : Nat, old : SUBSET Page]

(* What the proofs take out of the invariant.                               *)
LEMMA InvariantParts ==
    ASSUME IInv
    PROVE  /\ PhysicalInvariant /\ TypeOK /\ RestTyped
           /\ Ledger(page_states, Stacks, Spaces, Staged, FatPages, fat.old)
           /\ \A s \in Slot : UsedOnce(processes[s])
           /\ TablesNeeded /\ CreationOrdered /\ ProcessesWhole
<1>1. TypeOK /\ CountersAgree /\ ReservedNeverHandedOut
  BY DEF IInv, AllocatorSound
<1>2. PhysicalInvariant
  BY <1>1 DEF PhysicalInvariant, TypeOK
<1>3. PagesAccounted /\ TablesNeeded /\ CreationOrdered /\ ProcessesWhole
  BY DEF IInv, MemoryReturned
<1>4. RestTyped
  BY <1>1 DEF TypeOK, RestTyped
<1>5. QED
  BY <1>1, <1>2, <1>3, <1>4, InColumns

(* The search overlooks nothing in the next state either.                   *)
LEMMA SearchStaysComplete == PhysicalInvariant' => SearchFromStartIsComplete'
<1>1. PhysicalInvariant => SearchFromStartIsComplete
  BY SearchOverlooksNothing
<1>2. QED
  BY <1>1, PTL

(* An invariant state is put together from its parts.                       *)
LEMMA PartsMakeInvariant ==
    ASSUME PhysicalInvariant', modules' \in ModuleTables, DOMAIN processes' = Slot,
           \A s \in Slot : ProcessOK(processes'[s]), RestTyped',
           cpu' \in [cr3 : Int, rsp : Int, entry_stack : Page,
                     current : Slot \cup {None}, deferred : Slot \cup {None}],
           Ledger(page_states', Stacks', Spaces', Staged', FatPages', fat'.old),
           \A s \in Slot : UsedOnce(processes'[s]),
           TablesNeeded', CreationOrdered', ProcessesWhole', ActiveIsLive'
    PROVE  IInv'
<1>1. PhysicalTypeOK' /\ CountersAgree' /\ ReservedNeverHandedOut'
  BY DEF PhysicalInvariant
<1>2. SearchFromStartIsComplete'
  BY SearchStaysComplete
<1>3. TypeOK'
  <2>1. \A s \in Slot :
          /\ DOMAIN processes'[s] = DOMAIN Unused
          /\ processes'[s].state \in {"UNUSED", "CREATED", "RUNNABLE", "EXITED"}
          /\ processes'[s].root \in Page /\ processes'[s].kernel_stack \in Page
          /\ DOMAIN processes'[s].tables \subseteq Path
          /\ DOMAIN processes'[s].leaves \subseteq Virtual
          /\ KernelStack(processes'[s]) \cup AddressSpace(processes'[s]) \subseteq Page
    BY DEF ProcessOK
  <2>2. QED
    BY <1>1, <2>1 DEF TypeOK, RestTyped
<1>4. AllocatorSound'
  BY <1>1, <1>2, <1>3 DEF AllocatorSound
<1>5. PagesAccounted'
  BY InColumns
<1>6. MemoryReturned'
  BY <1>5 DEF MemoryReturned
<1>7. QED
  BY <1>4, <1>6 DEF IInv

(* A process is whole when it has what its state says.                      *)
Whole(p, beingMade) ==
    /\ p.state = "RUNNABLE" => p.root # None /\ p.kernel_stack # None
    /\ p.state = "CREATED" => beingMade
    /\ p.state \in {"UNUSED", "EXITED"} =>
         /\ p.root = None /\ p.kernel_stack = None
         /\ DOMAIN p.tables = {} /\ DOMAIN p.leaves = {}

(* A step that changes one process, the one that is being made if there is  *)
(* one.                                                                     *)
LEMMA TableStep ==
    ASSUME IInv, pc \notin Outside, pc' \notin Outside, cpu' = cpu, modules' = modules,
           PhysicalInvariant', RestTyped',
           NEW j \in Slot, job.slot \in {j, None}, NEW q, Becomes(j, q),
           ProcessOK(q), UsedOnce(q), Whole(q, j = job'.slot),
           \A t \in DOMAIN q.tables : Needed(q, t) \/ (j = job'.slot /\ t \in job'.created),
           fat'.old # {} => pc' = "mounted",
           Ledger(page_states', Stacks', Spaces', Staged', FatPages', fat'.old),
           CreationOrdered'
    PROVE  IInv'
<1>1. /\ TypeOK /\ TablesNeeded /\ ProcessesWhole
      /\ \A s \in Slot : UsedOnce(processes[s])
  BY InvariantParts
<1>2. /\ DOMAIN processes' = Slot /\ processes'[j] = q
      /\ \A t \in Slot \ {j} : processes'[t] = processes[t]
  BY DEF Becomes
<1>3. None \notin Slot
  BY SlotFacts
<1>4. \A s \in Slot : ProcessOK(processes'[s])
  BY <1>1, <1>2, ProcessFacts
<1>5. \A s \in Slot : UsedOnce(processes'[s])
  BY <1>1, <1>2
<1>6. TablesNeeded'
  <2>1. ASSUME NEW s \in Slot, NEW t \in DOMAIN processes'[s].tables
        PROVE  \/ \E v \in DOMAIN processes'[s].leaves : IsBelow(v, t)
               \/ s = job'.slot /\ t \in job'.created
    <3>1. CASE s = j
      BY <1>2, <2>1, <3>1 DEF Needed
    <3>2. CASE s # j
      <4>1. processes'[s] = processes[s] /\ s # job.slot
        BY <1>2, <1>3, <3>2
      <4>2. QED
        BY <1>1, <2>1, <4>1 DEF TablesNeeded
    <3>3. QED
      BY <3>1, <3>2
  <2>2. QED
    BY <2>1 DEF TablesNeeded
<1>7. ProcessesWhole'
  <2>1. \A s \in Slot \ {j} : s # job.slot
    BY <1>3
  <2>2. \A s \in Slot \ {j} :
          /\ processes'[s].state = "RUNNABLE" =>
               processes'[s].root # None /\ processes'[s].kernel_stack # None
          /\ processes'[s].state # "CREATED"
          /\ processes'[s].state \in {"UNUSED", "EXITED"} =>
               /\ processes'[s].root = None /\ processes'[s].kernel_stack = None
               /\ DOMAIN processes'[s].tables = {} /\ DOMAIN processes'[s].leaves = {}
    BY <1>1, <1>2, <2>1 DEF ProcessesWhole
  <2>3. QED
    BY <1>2, <2>2 DEF ProcessesWhole, Whole
<1>8. ActiveIsLive'
  BY KernelStaysLoaded
<1>9. modules' \in ModuleTables
  BY <1>1 DEF TypeOK
<1>10. cpu' \in [cr3 : Int, rsp : Int, entry_stack : Page,
                 current : Slot \cup {None}, deferred : Slot \cup {None}]
  BY <1>1 DEF TypeOK
<1>11. QED
  BY <1>2, <1>4, <1>5, <1>6, <1>7, <1>8, <1>9, <1>10, PartsMakeInvariant

(* A step that changes no process, while none is being made.                *)
LEMMA QuietStep ==
    ASSUME IInv, pc \notin Outside, pc' \notin Outside, pc' \notin InCreation,
           cpu' = cpu, modules' = modules, processes' = processes, job' = NoJob,
           job = NoJob, PhysicalInvariant', RestTyped',
           fat'.old # {} => pc' = "mounted",
           Ledger(page_states', Stacks, Spaces, {}, FatPages', fat'.old)
    PROVE  IInv'
<1>1. /\ TypeOK /\ TablesNeeded /\ ProcessesWhole /\ CreationOrdered
      /\ \A s \in Slot : UsedOnce(processes[s])
  BY InvariantParts
<1>2. \A s \in Slot : ProcessOK(processes'[s])
  BY <1>1, ProcessFacts
<1>3. DOMAIN processes' = Slot
  BY <1>1 DEF TypeOK
<1>4. \A s \in Slot : UsedOnce(processes'[s])
  BY <1>1
<1>5. TablesNeeded'
  BY <1>1 DEF TablesNeeded
<1>6. ProcessesWhole'
  BY <1>1 DEF ProcessesWhole
<1>7. NoJob.base = None /\ NoJob.created = {}
  BY DEF NoJob
<1>8. CreationOrdered'
  BY <1>7 DEF CreationOrdered, InCreation, Mapping
<1>9. Stacks' = Stacks /\ Spaces' = Spaces /\ Staged' = {}
  BY <1>7 DEF Stacks, Spaces, Staged
<1>10. ActiveIsLive'
  BY KernelStaysLoaded
<1>11. modules' \in ModuleTables
  BY <1>1 DEF TypeOK
<1>12. cpu' \in [cr3 : Int, rsp : Int, entry_stack : Page,
                 current : Slot \cup {None}, deferred : Slot \cup {None}]
  BY <1>1 DEF TypeOK
<1>13. Ledger(page_states', Stacks', Spaces', Staged', FatPages', fat'.old)
  BY <1>9
<1>14. QED
  BY <1>2, <1>3, <1>4, <1>5, <1>6, <1>8, <1>10, <1>11, <1>12, <1>13, PartsMakeInvariant

(* Between two creations nothing is staged.                                 *)
LEMMA QuietState ==
    ASSUME IInv, pc \notin InCreation
    PROVE  /\ job = NoJob /\ Staged = {}
           /\ Ledger(page_states, Stacks, Spaces, {}, FatPages, fat.old)
<1>1. /\ CreationOrdered
      /\ Ledger(page_states, Stacks, Spaces, Staged, FatPages, fat.old)
  BY InvariantParts
<1>2. job = NoJob
  BY <1>1 DEF CreationOrdered
<1>3. NoJob.base = None
  BY DEF NoJob
<1>4. Staged = {}
  BY <1>2, <1>3 DEF Staged
<1>5. QED
  BY <1>1, <1>2, <1>4

-----------------------------------------------------------------------------
(* The steps that change no process.                                        *)

(* The counts and the fat buffer are as before.                             *)
LEMMA NothingTaken ==
    ASSUME IInv, pc \notin InCreation, pc \notin Outside, pc' \notin InCreation,
           pc' \notin Outside, pc # "mounted",
           UNCHANGED <<pages, modules, processes, task_count, job, cpu, fat>>, queue' \subseteq queue
    PROVE  IInv'
<1>1. /\ PhysicalInvariant /\ RestTyped /\ ProcessesWhole
  BY InvariantParts
<1>2. job = NoJob /\ Ledger(page_states, Stacks, Spaces, {}, FatPages, fat.old)
  BY QuietState
<1>3. PhysicalInvariant' /\ page_states' = page_states
  BY <1>1, PagesStay
<1>4. RestTyped'
  BY <1>1 DEF RestTyped
<1>5. fat.old = {}
  BY <1>1 DEF ProcessesWhole
<1>6. FatPages' = FatPages /\ fat' = fat
  BY DEF FatPages
<1>7. Ledger(page_states', Stacks, Spaces, {}, FatPages', fat'.old)
  BY <1>2, <1>3, <1>6
<1>8. QED
  BY <1>2, <1>3, <1>4, <1>5, <1>6, <1>7, QuietStep

(* Checking the modules that the loader handed over.                        *)
LEMMA ValidateModulesKeeps ==
    ASSUME IInv, ValidateModules
    PROVE  IInv'
<1>1. pc \notin InCreation /\ pc \notin Outside /\ pc # "mounted"
  BY DEF ValidateModules, InCreation, Mapping, Outside
<1>2. pc' \notin InCreation /\ pc' \notin Outside
  BY DEF ValidateModules, InCreation, Mapping, Outside
<1>3. UNCHANGED <<pages, modules, processes, task_count, job, cpu, fat>> /\ queue' \subseteq queue
  BY DEF ValidateModules
<1>4. QED
  BY <1>1, <1>2, <1>3, NothingTaken

(* The end of the boot: no module is left to be started.                    *)
LEMMA BootDoneKeeps ==
    ASSUME IInv, BootDone
    PROVE  IInv'
<1>1. pc \notin InCreation /\ pc \notin Outside /\ pc # "mounted"
  BY DEF BootDone, InCreation, Mapping, Outside
<1>2. pc' \notin InCreation /\ pc' \notin Outside
  BY DEF BootDone, InCreation, Mapping, Outside
<1>3. UNCHANGED <<pages, modules, processes, task_count, job, cpu, fat>> /\ queue' \subseteq queue
  BY DEF BootDone
<1>4. QED
  BY <1>1, <1>2, <1>3, NothingTaken

(* runtime_mount_ready: the old buffer is still there when the new one is   *)
(* taken.                                                                   *)
LEMMA MountKeeps ==
    ASSUME IInv, NEW n \in FatSizes, runtime_mount_ready(n)
    PROVE  IInv'
<1>1. PhysicalInvariant /\ RestTyped /\ ProcessesWhole
  BY InvariantParts
<1>2. pc = "idle" /\ pc \notin InCreation /\ pc \notin Outside
  BY DEF runtime_mount_ready, InCreation, Mapping, Outside
<1>3. job = NoJob /\ Ledger(page_states, Stacks, Spaces, {}, FatPages, fat.old)
  BY <1>2, QuietState
<1>4. fat.old = {}
  BY <1>1, <1>2 DEF ProcessesWhole
<1>5. n \in Nat \ {0}
  BY ProcessesAssumption
<1>6. cpu' = cpu /\ modules' = modules /\ task_count' = task_count /\ queue' = queue
      /\ processes' = processes /\ job' = job
  BY DEF runtime_mount_ready, Denied
<1>7. fat \in [base : Page, count : Nat, old : SUBSET Page]
  BY <1>1 DEF RestTyped
<1>8. CASE Denied(n, "idle") /\ UNCHANGED fat
  <2>1. pc' = "idle" /\ OutOfMemory(n)
    BY <1>8 DEF Denied
  <2>2. PhysicalInvariant' /\ page_states' = page_states
    BY <1>1, <2>1, DeniedKeeps
  <2>3. FatPages' = FatPages /\ fat' = fat
    BY <1>8 DEF FatPages
  <2>4. RestTyped'
    BY <1>1, <1>6, <2>3 DEF RestTyped
  <2>5. pc' \notin InCreation /\ pc' \notin Outside
    BY <2>1 DEF InCreation, Mapping, Outside
  <2>6. Ledger(page_states', Stacks, Spaces, {}, FatPages', fat'.old)
    BY <1>3, <2>2, <2>3
  <2>7. QED
    BY <1>2, <1>3, <1>4, <1>6, <2>2, <2>3, <2>4, <2>5, <2>6, QuietStep
<1>9. CASE /\ Allocated(n)
           /\ fat' = [base |-> Found(n), count |-> n,
                      old |-> IF fat.base = None THEN {} ELSE Run(fat.base, fat.count)]
           /\ pc' = "mounted"
  <2>1. /\ PhysicalInvariant' /\ Taken(page_states, page_states', Run(Found(n), n))
        /\ Found(n) \in Page /\ Found(n) # None
    BY <1>1, <1>5, <1>9, TakeIsTaken
  <2>2. fat'.old = FatPages /\ fat'.base = Found(n) /\ fat'.count = n
    BY <1>9 DEF FatPages
  <2>3. FatPages' = Run(Found(n), n)
    BY <2>1, <2>2 DEF FatPages
  <2>4. Ledger(page_states', Stacks, Spaces, {}, Run(Found(n), n), FatPages)
    BY <1>3, <1>4, <2>1, TakenToFat
  <2>5. FatPages \subseteq Page
    BY <1>3 DEF Ledger
  <2>6. fat' \in [base : Page, count : Nat, old : SUBSET Page]
    BY <1>5, <1>9, <2>1, <2>5 DEF FatPages
  <2>7. RestTyped'
    BY <1>1, <1>6, <2>6 DEF RestTyped
  <2>8. pc' \notin InCreation /\ pc' \notin Outside
    BY <1>9 DEF InCreation, Mapping, Outside
  <2>9. Ledger(page_states', Stacks, Spaces, {}, FatPages', fat'.old)
    BY <2>2, <2>3, <2>4
  <2>10. QED
    BY <1>2, <1>3, <1>6, <1>9, <2>1, <2>7, <2>8, <2>9, QuietStep
<1>10. QED
  BY <1>8, <1>9 DEF runtime_mount_ready

(* Freeing the FAT of the mount before.                                     *)
LEMMA FreeOldFatKeeps ==
    ASSUME IInv, FreeOldFat
    PROVE  IInv'
<1>1. PhysicalInvariant /\ RestTyped
  BY InvariantParts
<1>2. pc \notin InCreation /\ pc \notin Outside /\ pc' \notin InCreation /\ pc' \notin Outside
  BY DEF FreeOldFat, InCreation, Mapping, Outside
<1>3. job = NoJob /\ Ledger(page_states, Stacks, Spaces, {}, FatPages, fat.old)
  BY <1>2, QuietState
<1>4. fat \in [base : Page, count : Nat, old : SUBSET Page]
  BY <1>1 DEF RestTyped
<1>5. PhysicalInvariant' /\ Returned(page_states, page_states', fat.old)
  BY <1>1, <1>4, ReleaseIsReturned DEF FreeOldFat
<1>6. /\ fat'.old = {} /\ fat'.base = fat.base /\ fat'.count = fat.count
      /\ fat' \in [base : Page, count : Nat, old : SUBSET Page]
  BY <1>4 DEF FreeOldFat
<1>7. cpu' = cpu /\ modules' = modules /\ task_count' = task_count /\ queue' = queue
      /\ processes' = processes /\ job' = job
  BY DEF FreeOldFat
<1>8. RestTyped'
  BY <1>1, <1>6, <1>7 DEF RestTyped
<1>9. FatPages' = FatPages
  BY <1>6 DEF FatPages
<1>10. Ledger(page_states', Stacks, Spaces, {}, FatPages, {})
  BY <1>3, <1>5, ReturnedByOld
<1>11. QED
  BY <1>2, <1>3, <1>5, <1>6, <1>7, <1>8, <1>9, <1>10, QuietStep

(* Reclaiming boot memory.                                                  *)
LEMMA ReclaimStepKeeps ==
    ASSUME IInv, Reclaim
    PROVE  IInv'
<1>1. PhysicalInvariant /\ RestTyped /\ ProcessesWhole
  BY InvariantParts
<1>2. /\ pc = "idle" /\ pc' = "idle" /\ pc \notin InCreation /\ pc \notin Outside
  BY DEF Reclaim, InCreation, Mapping, Outside
<1>3. job = NoJob /\ Ledger(page_states, Stacks, Spaces, {}, FatPages, fat.old)
  BY <1>2, QuietState
<1>4. cpu' = cpu /\ modules' = modules /\ task_count' = task_count /\ queue' = queue
      /\ processes' = processes /\ job' = job /\ fat' = fat
  BY DEF Reclaim
<1>5. PICK first \in Page, n \in 1 .. 2 : physical_reclaim_pages(first, n)
  BY DEF Reclaim
<1>6. PhysicalInvariant'
  BY <1>1, <1>5, ReclaimKeeps
<1>7. \A p \in Page : page_states'[p] = "ALLOCATED" <=> page_states[p] = "ALLOCATED"
  BY <1>5 DEF physical_reclaim_pages
<1>8. Ledger(page_states', Stacks, Spaces, {}, FatPages, fat.old)
  BY <1>3, <1>7 DEF Ledger
<1>9. RestTyped'
  BY <1>1, <1>4 DEF RestTyped
<1>10. FatPages' = FatPages /\ fat'.old = {}
  BY <1>1, <1>2, <1>4 DEF FatPages, ProcessesWhole
<1>11. QED
  BY <1>2, <1>3, <1>4, <1>6, <1>8, <1>9, <1>10, QuietStep

-----------------------------------------------------------------------------
(* What a creation has at each of its steps.                                *)

StageOf(step, p) ==
    /\ step # "destroy" => p.state = "CREATED"
    /\ step \notin {"root", "destroy"} => p.root # None
    /\ step = "root" => p.root = None
    /\ step \notin {"launch", "destroy"} => p.kernel_stack = None
    /\ step = "launch" => p.kernel_stack # None

(* What holds while a process is being created.                             *)
LEMMA CreationFacts ==
    ASSUME IInv, pc \in InCreation
    PROVE  /\ PhysicalInvariant /\ TypeOK /\ RestTyped
           /\ job.slot \in Slot /\ job.module \in DOMAIN modules
           /\ DOMAIN processes = Slot
           /\ StageOf(pc, Creating) /\ ProcessOK(Creating) /\ UsedOnce(Creating)
           /\ Whole(Creating, TRUE)
           /\ \A t \in DOMAIN Creating.tables : Needed(Creating, t) \/ t \in job.created
           /\ pc \notin Mapping => job.base = None /\ Staged = {}
           /\ pc \notin {"map", "undo_tables"} =>
                job.created = {} /\ \A t \in DOMAIN Creating.tables : Needed(Creating, t)
           /\ pc \notin Outside /\ fat.old = {}
           /\ Ledger(page_states, Stacks, Spaces, Staged, FatPages, {})
<1>1. /\ PhysicalInvariant /\ TypeOK /\ RestTyped
      /\ Ledger(page_states, Stacks, Spaces, Staged, FatPages, fat.old)
      /\ \A s \in Slot : UsedOnce(processes[s])
      /\ TablesNeeded /\ CreationOrdered /\ ProcessesWhole
  BY InvariantParts
<1>2. job.slot \in Slot /\ job.module \in DOMAIN modules
  BY <1>1 DEF CreationOrdered
<1>3. StageOf(pc, Creating)
  BY <1>1 DEF CreationOrdered, StageOf
<1>4. DOMAIN processes = Slot
  BY <1>1 DEF TypeOK
<1>5. ProcessOK(Creating) /\ UsedOnce(Creating)
  BY <1>1, <1>2, ProcessFacts DEF Creating
<1>6. Whole(Creating, TRUE)
  BY <1>1, <1>2 DEF ProcessesWhole, Whole, Creating
<1>7. \A t \in DOMAIN Creating.tables : Needed(Creating, t) \/ t \in job.created
  BY <1>1, <1>2 DEF TablesNeeded, Needed, Creating
<1>8. pc \notin Mapping => job.base = None /\ Staged = {}
  BY <1>1 DEF CreationOrdered, Staged
<1>9. pc \notin {"map", "undo_tables"} => job.created = {}
  BY <1>1 DEF CreationOrdered
<1>10. pc \notin Outside /\ pc # "mounted"
  BY DEF InCreation, Mapping, Outside
<1>11. fat.old = {}
  BY <1>1, <1>10 DEF ProcessesWhole
<1>12. QED
  BY <1>1, <1>2, <1>3, <1>4, <1>5, <1>6, <1>7, <1>8, <1>9, <1>10, <1>11

(* A step of a creation that ends where no run is being mapped.             *)
LEMMA PlainStep ==
    ASSUME IInv, pc \notin Outside, pc' \in InCreation \ Mapping,
           cpu' = cpu, modules' = modules, fat' = fat, fat.old = {},
           PhysicalInvariant', RestTyped',
           NEW j \in Slot, job.slot \in {j, None}, job'.slot = j,
           job'.module \in DOMAIN modules,
           pc' \in {"root", "part"} => job'.part \in DOMAIN Parts(modules[job'.module]),
           job'.base = None, job'.created = {},
           NEW q, Becomes(j, q), ProcessOK(q), UsedOnce(q), Whole(q, TRUE), StageOf(pc', q),
           \A t \in DOMAIN q.tables : Needed(q, t),
           Ledger(page_states', Stacks', Spaces', {}, FatPages, {})
    PROVE  IInv'
<1>1. Creating' = q
  BY DEF Creating, Becomes
<1>2. Module' = modules[job'.module]
  BY DEF Module
<1>3. CreationOrdered'
  <2>1. pc' \in InCreation =>
          /\ job'.slot \in Slot /\ job'.module \in DOMAIN modules'
          /\ pc' # "destroy" => Creating'.state = "CREATED"
          /\ pc' \notin {"root", "destroy"} => Creating'.root # None
          /\ pc' = "root" => Creating'.root = None
          /\ pc' \notin {"launch", "destroy"} => Creating'.kernel_stack = None
          /\ pc' = "launch" => Creating'.kernel_stack # None
    BY <1>1 DEF StageOf
  <2>2. pc' \notin Mapping /\ pc' \in InCreation
    OBVIOUS
  <2>3. pc' \in {"root", "part"} \cup Mapping => job'.part \in DOMAIN Parts(Module')
    BY <1>2, <2>2
  <2>4. QED
    BY <2>1, <2>2, <2>3 DEF CreationOrdered
<1>4. Staged' = {} /\ FatPages' = FatPages /\ fat'.old = {}
  BY DEF Staged, FatPages
<1>5. pc' \notin Outside
  BY DEF InCreation, Mapping, Outside
<1>6. Whole(q, j = job'.slot)
  BY DEF Whole
<1>7. Ledger(page_states', Stacks', Spaces', Staged', FatPages', fat'.old)
  BY <1>4
<1>8. QED
  BY <1>3, <1>4, <1>5, <1>6, <1>7, TableStep

(* A step of a creation inside a run that is being mapped.                  *)
LEMMA MappingStep ==
    ASSUME IInv, pc \in InCreation, pc' \in Mapping,
           cpu' = cpu, modules' = modules, fat' = fat,
           PhysicalInvariant', RestTyped',
           job'.slot = job.slot, job'.module = job.module, job'.part = job.part,
           job.part \in DOMAIN Parts(Module),
           job'.base # None, job'.created # {} => pc' \in {"map", "undo_tables"},
           NEW q, Becomes(job.slot, q), ProcessOK(q), UsedOnce(q), Whole(q, TRUE), StageOf(pc', q),
           \A t \in DOMAIN q.tables : Needed(q, t) \/ t \in job'.created,
           job'.page \in DOMAIN Part,
           \A t \in job'.created : t \in DOMAIN q.tables /\ IsBelow(Part[job'.page], t),
           \A i \in 1 .. job'.page - 1 :
              Part[i] \in DOMAIN q.leaves /\ q.leaves[Part[i]] = job'.base + i - 1,
           \A i \in job'.page .. Len(Part), v \in DOMAIN q.leaves :
              q.leaves[v] # job'.base + i - 1,
           Ledger(page_states', Stacks', Spaces',
                  Run(job'.base, Len(Part)) \ Range(q.leaves), FatPages, {})
    PROVE  IInv'
<1>1. /\ job.slot \in Slot /\ job.module \in DOMAIN modules
      /\ pc \notin Outside /\ fat.old = {}
  BY CreationFacts
<1>2. Creating' = q
  BY DEF Creating, Becomes
<1>3. Module' = Module /\ Part' = Part
  BY DEF Module, Part
<1>4. VirtualPage' = Part[job'.page]
  BY <1>3 DEF VirtualPage
<1>5. pc' \in InCreation /\ pc' \notin Outside
  BY DEF InCreation, Mapping, Outside
<1>6. CreationOrdered'
  <2>1. pc' \in InCreation =>
          /\ job'.slot \in Slot /\ job'.module \in DOMAIN modules'
          /\ pc' # "destroy" => Creating'.state = "CREATED"
          /\ pc' \notin {"root", "destroy"} => Creating'.root # None
          /\ pc' = "root" => Creating'.root = None
          /\ pc' \notin {"launch", "destroy"} => Creating'.kernel_stack = None
          /\ pc' = "launch" => Creating'.kernel_stack # None
    BY <1>1, <1>2 DEF StageOf
  <2>2. job'.part \in DOMAIN Parts(Module')
    BY <1>3
  <2>3. /\ job'.page \in DOMAIN Part'
        /\ \A t \in job'.created : t \in DOMAIN Creating'.tables /\ IsBelow(VirtualPage', t)
        /\ \A i \in 1 .. job'.page - 1 : /\ Part'[i] \in DOMAIN Creating'.leaves
                                         /\ Creating'.leaves[Part'[i]] = job'.base + i - 1
        /\ \A i \in job'.page .. Len(Part'), v \in DOMAIN Creating'.leaves :
              Creating'.leaves[v] # job'.base + i - 1
    BY <1>2, <1>3, <1>4
  <2>4. QED
    BY <1>5, <2>1, <2>2, <2>3 DEF CreationOrdered
<1>7. Staged' = Run(job'.base, Len(Part)) \ Range(q.leaves)
  BY <1>2, <1>3 DEF Staged
<1>8. FatPages' = FatPages /\ fat'.old = {}
  BY <1>1 DEF FatPages
<1>9. Whole(q, job.slot = job'.slot)
  BY DEF Whole
<1>10. Ledger(page_states', Stacks', Spaces', Staged', FatPages', fat'.old)
  BY <1>7, <1>8
<1>11. QED
  BY <1>1, <1>5, <1>6, <1>8, <1>9, <1>10, TableStep

-----------------------------------------------------------------------------
(* One field of a process changes.                                          *)

LEMMA FieldFacts ==
    ASSUME NEW p, DOMAIN p = DOMAIN Unused, NEW x
    PROVE  /\ LET q == [p EXCEPT !.state = x]
              IN  /\ DOMAIN q = DOMAIN Unused /\ q.state = x /\ q.root = p.root
                  /\ q.tables = p.tables /\ q.leaves = p.leaves /\ q.kernel_stack = p.kernel_stack
           /\ LET q == [p EXCEPT !.root = x]
              IN  /\ DOMAIN q = DOMAIN Unused /\ q.state = p.state /\ q.root = x
                  /\ q.tables = p.tables /\ q.leaves = p.leaves /\ q.kernel_stack = p.kernel_stack
           /\ LET q == [p EXCEPT !.tables = x]
              IN  /\ DOMAIN q = DOMAIN Unused /\ q.state = p.state /\ q.root = p.root
                  /\ q.tables = x /\ q.leaves = p.leaves /\ q.kernel_stack = p.kernel_stack
           /\ LET q == [p EXCEPT !.leaves = x]
              IN  /\ DOMAIN q = DOMAIN Unused /\ q.state = p.state /\ q.root = p.root
                  /\ q.tables = p.tables /\ q.leaves = x /\ q.kernel_stack = p.kernel_stack
           /\ LET q == [p EXCEPT !.kernel_stack = x]
              IN  /\ DOMAIN q = DOMAIN Unused /\ q.state = p.state /\ q.root = p.root
                  /\ q.tables = p.tables /\ q.leaves = p.leaves /\ q.kernel_stack = x
BY UnusedFields

(* A process that has nothing.                                              *)
Empty(p) ==
    /\ p.root = None /\ p.kernel_stack = None
    /\ DOMAIN p.tables = {} /\ DOMAIN p.leaves = {}

(* A process without memory has every property a process must have.         *)
LEMMA EmptyFacts ==
    ASSUME NEW p, DOMAIN p = DOMAIN Unused, Empty(p),
           p.state \in {"UNUSED", "CREATED", "EXITED"}
    PROVE  /\ ProcessOK(p) /\ UsedOnce(p) /\ Whole(p, TRUE)
           /\ KernelStack(p) = {} /\ AddressSpace(p) = {}
<1>1. KernelStack(p) = {}
  BY DEF KernelStack, Empty
<1>2. Range(p.tables) = {} /\ Range(p.leaves) = {}
  BY DEF Range, Empty
<1>3. AddressSpace(p) = {}
  BY <1>2 DEF AddressSpace, Empty
<1>4. 0 \in Page
  BY PhysicalMemoryAssumption DEF Page
<1>5. ProcessOK(p)
  BY <1>1, <1>3, <1>4 DEF ProcessOK, Empty, None
<1>6. UsedOnce(p)
  BY <1>2 DEF UsedOnce, Empty
<1>7. Whole(p, TRUE)
  BY DEF Whole, Empty
<1>8. QED
  BY <1>1, <1>3, <1>5, <1>6, <1>7

(* Such is an unused slot.                                                  *)
LEMMA UnusedIsEmpty == Empty(Unused) /\ Unused.state = "UNUSED"
<1>1. DOMAIN <<>> = {}
  OBVIOUS
<1>2. QED
  BY <1>1 DEF Empty, Unused

-----------------------------------------------------------------------------
(* The beginning of a creation.                                             *)

LEMMA StartModuleKeeps ==
    ASSUME IInv, StartModule
    PROVE  IInv'
<1> DEFINE m == modules[NextModule]
<1> DEFINE free == {s \in Slot : processes[s].state = "UNUSED"}
<1> DEFINE slot == Min(free)
<1> DEFINE made == [Unused EXCEPT !.state = "CREATED", !.identity = m.identity]
<1>1. /\ pc = "next" /\ queue # {} /\ queue' = queue \ {NextModule}
      /\ UNCHANGED <<pages, modules, task_count, cpu, fat>>
      /\ \/ pc' \in {"next", "panic"} /\ UNCHANGED <<processes, job>>
         \/ /\ free # {} /\ pc' = "root"
            /\ processes' = [processes EXCEPT ![slot] = made]
            /\ job' = [NoJob EXCEPT !.slot = slot, !.module = NextModule]
  BY DEF StartModule, AfterFailure
<1>2. PhysicalInvariant /\ RestTyped /\ TypeOK /\ ProcessesWhole
  BY InvariantParts
<1>3. pc \notin InCreation /\ pc \notin Outside
  BY <1>1 DEF InCreation, Mapping, Outside
<1>4. job = NoJob /\ Ledger(page_states, Stacks, Spaces, {}, FatPages, fat.old)
  BY <1>3, QuietState
<1>5. CASE pc' \in {"next", "panic"} /\ UNCHANGED <<processes, job>>
  <2>1. pc' \notin InCreation /\ pc' \notin Outside
    BY <1>5 DEF InCreation, Mapping, Outside
  <2>2. QED
    BY <1>1, <1>3, <1>5, <2>1, NothingTaken
<1>6. CASE /\ free # {} /\ pc' = "root"
           /\ processes' = [processes EXCEPT ![slot] = made]
           /\ job' = [NoJob EXCEPT !.slot = slot, !.module = NextModule]
  <2>1. slot \in Slot /\ processes[slot].state = "UNUSED"
    <3>1. free \in SUBSET Nat
      BY SlotFacts
    <3>2. slot \in free
      BY <1>6, <3>1, MinFacts
    <3>3. QED
      BY <3>2
  <2>2. NextModule \in queue /\ NextModule \in DOMAIN modules
    BY <1>1, <1>2, NextModuleFacts DEF TypeOK
  <2>3. /\ job'.slot = slot /\ job'.module = NextModule /\ job'.base = None
        /\ job'.created = {} /\ job'.part = 1 /\ job'.page = 1
    BY <1>6 DEF NoJob
  <2>4. DOMAIN made = DOMAIN Unused /\ made.state = "CREATED" /\ Empty(made)
    BY UnusedIsEmpty, UnusedFields DEF Empty
  <2> HIDE DEF made, slot
  <2>5. Becomes(slot, made)
    BY <1>2, <1>6, <2>1 DEF Becomes, TypeOK
  <2>6. /\ ProcessOK(made) /\ UsedOnce(made) /\ Whole(made, TRUE)
        /\ KernelStack(made) = {} /\ AddressSpace(made) = {}
    BY <2>4, EmptyFacts
  <2>7. ProcessOK(processes[slot]) /\ Empty(processes[slot])
    BY <1>2, <2>1, ProcessFacts DEF ProcessesWhole, Empty
  <2>8. KernelStack(processes[slot]) = {} /\ AddressSpace(processes[slot]) = {}
    BY <2>1, <2>7, EmptyFacts DEF ProcessOK
  <2>9. Stacks' = Stacks /\ Spaces' = Spaces
    BY <2>1, <2>5, <2>6, <2>8, ColumnsChange
  <2>10. PhysicalInvariant' /\ page_states' = page_states
    BY <1>1, <1>2, PagesStay
  <2>11. fat.old = {}
    BY <1>1, <1>2 DEF ProcessesWhole
  <2>12. Ledger(page_states', Stacks', Spaces', {}, FatPages, {})
    BY <1>4, <2>9, <2>10, <2>11
  <2>13. StageOf(pc', made)
    BY <1>6, <2>4 DEF StageOf, Empty
  <2>14. RestTyped'
    <3>1. NextModule \in Nat
      <4>1. modules \in Seq(ModuleDescriptor)
        BY <1>2, ProcessesAssumption DEF TypeOK
      <4>2. QED
        BY <2>2, <4>1
    <3>2. 0 \in Page
      BY PhysicalMemoryAssumption DEF Page
    <3>3. job' \in [slot : Slot \cup {None}, module : Nat, part : Nat, page : Nat,
                    created : SUBSET Path, base : Page]
      BY <1>6, <2>1, <3>1, <3>2 DEF NoJob, None
    <3>4. QED
      BY <1>1, <1>2, <3>3 DEF RestTyped
  <2>15. \A t \in DOMAIN made.tables : Needed(made, t)
    BY <2>4 DEF Empty
  <2>16. pc' \in InCreation \ Mapping
    BY <1>6 DEF InCreation, Mapping
  <2>17. job.slot = None
    BY <1>4 DEF NoJob
  <2>18. 1 \in DOMAIN Parts(modules[NextModule])
    BY <1>2, <2>2, PartFacts
  <2>19. QED
    BY <1>1, <1>3, <2>1, <2>2, <2>3, <2>5, <2>6, <2>10, <2>11, <2>12, <2>13, <2>14, <2>15,
       <2>16, <2>17, <2>18, PlainStep
<1>7. QED
  BY <1>1, <1>5, <1>6

(* An allocation fails before any run is being mapped.                      *)
LEMMA DeniedToDestroy ==
    ASSUME IInv, pc \in {"root", "part", "kernel_stack"}, NEW n, Denied(n, "destroy"),
           UNCHANGED <<modules, task_count, queue, cpu, fat>>
    PROVE  IInv'
<1>1. pc \in InCreation /\ pc \notin Mapping
  BY DEF InCreation, Mapping
<1>2. /\ PhysicalInvariant /\ RestTyped /\ DOMAIN processes = Slot
      /\ job.slot \in Slot /\ job.module \in DOMAIN modules
      /\ ProcessOK(Creating) /\ UsedOnce(Creating) /\ Whole(Creating, TRUE)
      /\ job.base = None /\ Staged = {} /\ job.created = {}
      /\ \A t \in DOMAIN Creating.tables : Needed(Creating, t)
      /\ pc \notin Outside /\ fat.old = {}
      /\ Ledger(page_states, Stacks, Spaces, Staged, FatPages, {})
  BY <1>1, CreationFacts
<1>3. OutOfMemory(n) /\ pc' = "destroy" /\ processes' = processes /\ job' = job
  BY DEF Denied
<1>4. PhysicalInvariant' /\ page_states' = page_states
  BY <1>2, <1>3, DeniedKeeps
<1>5. Becomes(job.slot, Creating)
  BY <1>2, <1>3 DEF Becomes, Creating
<1>6. Stacks' = Stacks /\ Spaces' = Spaces
  BY <1>3 DEF Stacks, Spaces
<1>7. RestTyped'
  BY <1>2, <1>3 DEF RestTyped
<1>8. StageOf(pc', Creating)
  BY <1>3 DEF StageOf
<1>9. pc' \in InCreation \ Mapping /\ pc' \notin {"root", "part"}
  BY <1>3 DEF InCreation, Mapping
<1>10. Ledger(page_states', Stacks', Spaces', {}, FatPages, {})
  BY <1>2, <1>4, <1>6
<1>11. QED
  BY <1>2, <1>3, <1>4, <1>5, <1>7, <1>8, <1>9, <1>10, PlainStep

(* A page that was free belongs to no address space.                        *)
LEMMA FreshPage ==
    ASSUME NEW states, NEW stack, NEW space, NEW staged, NEW fats, NEW old,
           Ledger(states, stack, space, staged, fats, old),
           NEW p \in Page, states[p] = "FREE", NEW s \in Slot
    PROVE  p \notin space[s]
BY DEF Ledger

(* Creating the address space, or being denied a page for it.               *)
LEMMA RootKeeps ==
    ASSUME IInv, virtual_address_space_create
    PROVE  IInv'
<1>1. pc = "root" /\ pc \in InCreation /\ pc \notin Mapping
  BY DEF virtual_address_space_create, InCreation, Mapping
<1>2. /\ PhysicalInvariant /\ RestTyped /\ DOMAIN processes = Slot
      /\ job.slot \in Slot /\ job.module \in DOMAIN modules /\ StageOf(pc, Creating)
      /\ ProcessOK(Creating) /\ UsedOnce(Creating) /\ Whole(Creating, TRUE)
      /\ job.base = None /\ Staged = {} /\ job.created = {}
      /\ \A t \in DOMAIN Creating.tables : Needed(Creating, t)
      /\ pc \notin Outside /\ fat.old = {}
      /\ Ledger(page_states, Stacks, Spaces, Staged, FatPages, {})
  BY <1>1, CreationFacts
<1>3. job.part \in DOMAIN Parts(modules[job.module])
  BY <1>1, InvariantParts DEF CreationOrdered, Module
<1>4. UNCHANGED <<modules, task_count, queue, cpu, fat>>
  BY DEF virtual_address_space_create
<1>5. CASE Denied(1, "destroy")
  BY <1>1, <1>4, <1>5, DeniedToDestroy
<1>6. CASE /\ Allocated(1)
           /\ processes' = [processes EXCEPT ![job.slot].root = Found(1)]
           /\ job' = job
           /\ pc' \in {"part", "destroy"}
  <2> DEFINE new == Found(1)
  <2> DEFINE q == [Creating EXCEPT !.root = new]
  <2>1. /\ PhysicalInvariant' /\ Taken(page_states, page_states', Run(new, 1))
        /\ new \in Page /\ new # None
    BY <1>2, <1>6, TakeIsTaken
  <2>2. Run(new, 1) = {new}
    BY <2>1 DEF Run, Page
  <2>3. Becomes(job.slot, q)
    BY <1>2, <1>6 DEF Becomes, Creating
  <2>4. /\ DOMAIN q = DOMAIN Unused /\ q.state = Creating.state /\ q.root = new
        /\ q.tables = Creating.tables /\ q.leaves = Creating.leaves
        /\ q.kernel_stack = Creating.kernel_stack
    BY <1>2, FieldFacts DEF ProcessOK
  <2> HIDE DEF new, q
  <2>5. KernelStack(q) = KernelStack(Creating)
    BY <2>4 DEF KernelStack
  <2>6. AddressSpace(q) = AddressSpace(Creating) \cup {new}
    BY <1>1, <1>2, <2>1, <2>4 DEF AddressSpace, StageOf
  <2>7. Stacks' = Stacks /\ Gains(Spaces, Spaces', job.slot, {new})
    BY <1>2, <2>3, <2>5, <2>6, ColumnsChange DEF Creating
  <2>8. Ledger(page_states', Stacks', Spaces', {}, FatPages, {})
    BY <1>2, <2>1, <2>2, <2>7, TakenToSpace
  <2>9. ProcessOK(q)
    BY <1>2, <2>1, <2>4, <2>5, <2>6 DEF ProcessOK
  <2>10. new \notin AddressSpace(Creating)
    <3>1. page_states[new] = "FREE"
      BY <2>1, <2>2 DEF Taken
    <3>2. new \notin Spaces[job.slot]
      BY <1>2, <2>1, <3>1, FreshPage
    <3>3. QED
      BY <1>2, <3>2 DEF Spaces, Creating
  <2>11. UsedOnce(q)
    BY <1>2, <2>4, <2>10 DEF UsedOnce, AddressSpace
  <2>12. StageOf(pc', q) /\ Whole(q, TRUE)
    BY <1>1, <1>2, <1>6, <2>1, <2>4 DEF StageOf, Whole
  <2>13. \A t \in DOMAIN q.tables : Needed(q, t)
    BY <1>2, <2>4 DEF Needed
  <2>14. RestTyped'
    BY <1>2, <1>4, <1>6 DEF RestTyped
  <2>15. pc' \in InCreation \ Mapping
    BY <1>6 DEF InCreation, Mapping
  <2>16. QED
    BY <1>2, <1>3, <1>4, <1>6, <2>1, <2>3, <2>8, <2>9, <2>11, <2>12, <2>13, <2>14, <2>15, PlainStep
<1>7. QED
  BY <1>5, <1>6 DEF virtual_address_space_create

(* Allocating the kernel stack, or being denied it.                         *)
LEMMA KernelStackKeeps ==
    ASSUME IInv, AllocateKernelStack
    PROVE  IInv'
<1>1. pc = "kernel_stack" /\ pc \in InCreation /\ pc \notin Mapping
  BY DEF AllocateKernelStack, InCreation, Mapping
<1>2. /\ PhysicalInvariant /\ RestTyped /\ DOMAIN processes = Slot
      /\ job.slot \in Slot /\ job.module \in DOMAIN modules /\ StageOf(pc, Creating)
      /\ ProcessOK(Creating) /\ UsedOnce(Creating) /\ Whole(Creating, TRUE)
      /\ job.base = None /\ Staged = {} /\ job.created = {}
      /\ \A t \in DOMAIN Creating.tables : Needed(Creating, t)
      /\ pc \notin Outside /\ fat.old = {}
      /\ Ledger(page_states, Stacks, Spaces, Staged, FatPages, {})
  BY <1>1, CreationFacts
<1>3. UNCHANGED <<modules, task_count, queue, cpu, fat>>
  BY DEF AllocateKernelStack
<1>4. CASE Denied(KernelStackPages, "destroy")
  BY <1>1, <1>3, <1>4, DeniedToDestroy
<1>5. CASE /\ Allocated(KernelStackPages)
           /\ processes' = [processes EXCEPT ![job.slot].kernel_stack = Found(KernelStackPages)]
           /\ job' = job
           /\ pc' = "launch"
  <2> DEFINE new == Found(KernelStackPages)
  <2> DEFINE q == [Creating EXCEPT !.kernel_stack = new]
  <2>1. /\ PhysicalInvariant' /\ Taken(page_states, page_states', Run(new, KernelStackPages))
        /\ new \in Page /\ new # None
    BY <1>2, <1>5, TakeIsTaken, ProcessesAssumption
  <2>2. Run(new, KernelStackPages) \subseteq Page
    BY <2>1 DEF Taken
  <2>3. Becomes(job.slot, q)
    BY <1>2, <1>5 DEF Becomes, Creating
  <2>4. /\ DOMAIN q = DOMAIN Unused /\ q.state = Creating.state /\ q.root = Creating.root
        /\ q.tables = Creating.tables /\ q.leaves = Creating.leaves
        /\ q.kernel_stack = new
    BY <1>2, FieldFacts DEF ProcessOK
  <2> HIDE DEF new, q
  <2>5. AddressSpace(q) = AddressSpace(Creating)
    BY <2>4 DEF AddressSpace
  <2>6. /\ KernelStack(q) = Run(new, KernelStackPages)
        /\ KernelStack(Creating) = {}
    BY <1>1, <1>2, <2>1, <2>4 DEF KernelStack, StageOf
  <2>7. Spaces' = Spaces /\ Gains(Stacks, Stacks', job.slot, Run(new, KernelStackPages))
    BY <1>2, <2>3, <2>5, <2>6, ColumnsChange DEF Creating
  <2>8. Ledger(page_states', Stacks', Spaces', {}, FatPages, {})
    BY <1>2, <2>1, <2>7, TakenToStack
  <2>9. ProcessOK(q)
    BY <1>2, <2>1, <2>2, <2>4, <2>5, <2>6 DEF ProcessOK
  <2>10. UsedOnce(q)
    BY <1>2, <2>4 DEF UsedOnce
  <2>11. StageOf(pc', q) /\ Whole(q, TRUE)
    BY <1>1, <1>2, <1>5, <2>1, <2>4 DEF StageOf, Whole
  <2>12. \A t \in DOMAIN q.tables : Needed(q, t)
    BY <1>2, <2>4 DEF Needed
  <2>13. RestTyped'
    BY <1>2, <1>3, <1>5 DEF RestTyped
  <2>14. pc' \in InCreation \ Mapping /\ pc' \notin {"root", "part"}
    BY <1>5 DEF InCreation, Mapping
  <2>15. QED
    BY <1>2, <1>3, <1>5, <2>1, <2>3, <2>8, <2>9, <2>10, <2>11, <2>12, <2>13, <2>14, PlainStep
<1>6. QED
  BY <1>4, <1>5 DEF AllocateKernelStack

-----------------------------------------------------------------------------
(* The end of a creation, and the steps on processes that are there.        *)

LEMMA EndStep ==
    ASSUME IInv, pc \notin Outside, pc' \notin Outside, pc' \notin InCreation,
           cpu' = cpu, modules' = modules, fat' = fat, fat.old = {},
           PhysicalInvariant', RestTyped',
           NEW j \in Slot, job.slot \in {j, None}, job' = NoJob,
           NEW q, Becomes(j, q), ProcessOK(q), UsedOnce(q), Whole(q, FALSE),
           \A t \in DOMAIN q.tables : Needed(q, t),
           Ledger(page_states', Stacks', Spaces', {}, FatPages, {})
    PROVE  IInv'
<1>1. job'.slot = None /\ job'.base = None /\ job'.created = {}
  BY DEF NoJob
<1>2. CreationOrdered'
  BY <1>1 DEF CreationOrdered, InCreation, Mapping
<1>3. Staged' = {} /\ FatPages' = FatPages /\ fat'.old = {}
  BY <1>1 DEF Staged, FatPages
<1>4. Whole(q, j = job'.slot)
  BY DEF Whole
<1>5. Ledger(page_states', Stacks', Spaces', Staged', FatPages', fat'.old)
  BY <1>3
<1>6. QED
  BY <1>2, <1>3, <1>4, <1>5, TableStep

(* Launching the process, or refusing it when there is no task for it.      *)
LEMMA LaunchKeeps ==
    ASSUME IInv, launch_process
    PROVE  IInv'
<1>1. pc = "launch" /\ pc \in InCreation /\ pc \notin Mapping
  BY DEF launch_process, InCreation, Mapping
<1>2. /\ PhysicalInvariant /\ RestTyped /\ DOMAIN processes = Slot
      /\ job.slot \in Slot /\ job.module \in DOMAIN modules /\ StageOf(pc, Creating)
      /\ ProcessOK(Creating) /\ UsedOnce(Creating) /\ Whole(Creating, TRUE)
      /\ job.base = None /\ Staged = {} /\ job.created = {}
      /\ \A t \in DOMAIN Creating.tables : Needed(Creating, t)
      /\ pc \notin Outside /\ fat.old = {}
      /\ Ledger(page_states, Stacks, Spaces, Staged, FatPages, {})
  BY <1>1, CreationFacts
<1>3. /\ UNCHANGED <<pages, modules, queue, cpu, fat>>
      /\ processes' = [processes EXCEPT ![job.slot].state = "RUNNABLE"]
  BY DEF launch_process
<1> DEFINE q == [Creating EXCEPT !.state = "RUNNABLE"]
<1>4. Becomes(job.slot, q)
  BY <1>2, <1>3 DEF Becomes, Creating
<1>5. /\ DOMAIN q = DOMAIN Unused /\ q.state = "RUNNABLE" /\ q.root = Creating.root
      /\ q.tables = Creating.tables /\ q.leaves = Creating.leaves
      /\ q.kernel_stack = Creating.kernel_stack
  BY <1>2, FieldFacts DEF ProcessOK
<1> HIDE DEF q
<1>6. AddressSpace(q) = AddressSpace(Creating) /\ KernelStack(q) = KernelStack(Creating)
  BY <1>5 DEF AddressSpace, KernelStack
<1>7. Stacks' = Stacks /\ Spaces' = Spaces
  BY <1>2, <1>4, <1>6, ColumnsChange DEF Creating
<1>8. PhysicalInvariant' /\ page_states' = page_states
  BY <1>2, <1>3, PagesStay
<1>9. Ledger(page_states', Stacks', Spaces', {}, FatPages, {})
  BY <1>2, <1>7, <1>8
<1>10. ProcessOK(q) /\ UsedOnce(q)
  BY <1>2, <1>5, <1>6 DEF ProcessOK, UsedOnce
<1>11. Whole(q, TRUE) /\ Whole(q, FALSE) /\ StageOf("destroy", q)
  BY <1>1, <1>2, <1>5 DEF Whole, StageOf
<1>12. \A t \in DOMAIN q.tables : Needed(q, t)
  BY <1>2, <1>5 DEF Needed
<1>13. CASE task_count < TaskCapacity
  <2>1. task_count' = task_count + 1 /\ job' = NoJob /\ pc' = "next"
    BY <1>13 DEF launch_process
  <2>2. pc' \notin Outside /\ pc' \notin InCreation
    BY <2>1 DEF Outside, InCreation, Mapping
  <2>3. RestTyped'
    <3>1. NoJob \in [slot : Slot \cup {None}, module : Nat, part : Nat, page : Nat,
                     created : SUBSET Path, base : Page]
      BY PhysicalMemoryAssumption DEF NoJob, None, Page
    <3>2. task_count' \in 0 .. TaskCapacity
      BY <1>2, <1>13, <2>1, ProcessesAssumption DEF RestTyped
    <3>3. QED
      BY <1>2, <1>3, <2>1, <3>1, <3>2 DEF RestTyped
  <2>4. QED
    BY <1>2, <1>3, <1>4, <1>8, <1>9, <1>10, <1>11, <1>12, <2>1, <2>2, <2>3, EndStep
<1>14. CASE ~ (task_count < TaskCapacity)
  <2>1. task_count' = task_count /\ job' = job /\ pc' = "destroy"
    BY <1>14 DEF launch_process
  <2>2. RestTyped'
    BY <1>2, <1>3, <2>1 DEF RestTyped
  <2>3. pc' \in InCreation \ Mapping /\ pc' \notin {"root", "part"}
    BY <2>1 DEF InCreation, Mapping
  <2>4. QED
    BY <1>2, <1>3, <1>4, <1>8, <1>9, <1>10, <1>11, <1>12, <2>1, <2>2, <2>3, PlainStep
<1>15. QED
  BY <1>13, <1>14

(* A process gives back all it has.                                         *)
LEMMA GivenBack ==
    ASSUME IInv, NEW j \in Slot, NEW q, Becomes(j, q), DOMAIN q = DOMAIN Unused, Empty(q),
           q.state \in {"UNUSED", "EXITED"},
           Release(KernelStack(processes[j]) \cup AddressSpace(processes[j]))
    PROVE  /\ PhysicalInvariant'
           /\ Ledger(page_states', Stacks', Spaces', Staged, FatPages, fat.old)
           /\ ProcessOK(q) /\ UsedOnce(q) /\ Whole(q, FALSE)
<1> DEFINE back == KernelStack(processes[j]) \cup AddressSpace(processes[j])
<1>1. /\ PhysicalInvariant /\ TypeOK
      /\ Ledger(page_states, Stacks, Spaces, Staged, FatPages, fat.old)
  BY InvariantParts
<1>2. back \in SUBSET Page
  BY <1>1, ProcessFacts DEF ProcessOK
<1>3. PhysicalInvariant' /\ Returned(page_states, page_states', back)
  BY <1>1, <1>2, ReleaseIsReturned
<1>4. /\ ProcessOK(q) /\ UsedOnce(q) /\ Whole(q, TRUE)
      /\ KernelStack(q) = {} /\ AddressSpace(q) = {}
  BY EmptyFacts
<1>5. Stacks[j] = KernelStack(processes[j]) /\ Spaces[j] = AddressSpace(processes[j])
  BY DEF Stacks, Spaces
<1>6. /\ KernelStack(q) = KernelStack(processes[j]) \ Stacks[j]
      /\ AddressSpace(q) = AddressSpace(processes[j]) \ Spaces[j]
  BY <1>4, <1>5
<1>7. Loses(Stacks, Stacks', j, Stacks[j])
  BY <1>6, ColumnsChange
<1>8. Loses(Spaces, Spaces', j, Spaces[j])
  BY <1>6, ColumnsChange
<1>9. back = Stacks[j] \cup Spaces[j]
  BY <1>5
<1> HIDE DEF back
<1>10. Returned(page_states, page_states', Stacks[j] \cup Spaces[j])
  BY <1>3, <1>9
<1>11. Ledger(page_states', Stacks', Spaces', Staged, FatPages, fat.old)
  BY <1>1, <1>7, <1>8, <1>10, ReturnedByProcess
<1>12. Whole(q, FALSE)
  BY <1>4 DEF Whole
<1>13. QED
  BY <1>3, <1>4, <1>11, <1>12

(* Destroying a process whose creation failed.                              *)
LEMMA DestroyKeeps ==
    ASSUME IInv, process_destroy
    PROVE  IInv'
<1>1. pc = "destroy" /\ pc \in InCreation /\ pc \notin Mapping
  BY DEF process_destroy, InCreation, Mapping
<1>2. /\ RestTyped /\ DOMAIN processes = Slot /\ job.slot \in Slot
      /\ Staged = {} /\ pc \notin Outside /\ fat.old = {}
  BY <1>1, CreationFacts
<1>3. /\ Release(KernelStack(processes[job.slot]) \cup AddressSpace(processes[job.slot]))
      /\ processes' = [processes EXCEPT ![job.slot] = Unused]
      /\ pc' \in {"next", "panic"} /\ job' = NoJob
      /\ UNCHANGED <<modules, task_count, queue, cpu, fat>>
  BY DEF process_destroy, AfterFailure, Creating
<1>4. Becomes(job.slot, Unused)
  BY <1>2, <1>3 DEF Becomes
<1>5. Empty(Unused) /\ Unused.state = "UNUSED"
  BY UnusedIsEmpty
<1>6. /\ PhysicalInvariant'
      /\ Ledger(page_states', Stacks', Spaces', Staged, FatPages, fat.old)
      /\ ProcessOK(Unused) /\ UsedOnce(Unused) /\ Whole(Unused, FALSE)
  BY <1>2, <1>3, <1>4, <1>5, GivenBack
<1>7. Ledger(page_states', Stacks', Spaces', {}, FatPages, {})
  BY <1>2, <1>6
<1>8. \A t \in DOMAIN Unused.tables : Needed(Unused, t)
  BY <1>5 DEF Empty
<1>9. RestTyped'
  <2>1. NoJob \in [slot : Slot \cup {None}, module : Nat, part : Nat, page : Nat,
                   created : SUBSET Path, base : Page]
    BY PhysicalMemoryAssumption DEF NoJob, None, Page
  <2>2. QED
    BY <1>2, <1>3, <2>1 DEF RestTyped
<1>10. pc' \notin Outside /\ pc' \notin InCreation
  BY <1>3 DEF Outside, InCreation, Mapping
<1>11. QED
  BY <1>2, <1>3, <1>4, <1>6, <1>7, <1>8, <1>9, <1>10, EndStep

(* Collecting a process that has exited.                                    *)
LEMMA CollectKeeps ==
    ASSUME IInv, NEW s \in Slot, process_collect(s)
    PROVE  IInv'
<1>1. pc = "idle" /\ pc' = "idle" /\ pc \notin InCreation /\ pc \notin Outside
  BY DEF process_collect, InCreation, Mapping, Outside
<1>2. PhysicalInvariant /\ RestTyped /\ TypeOK /\ ProcessesWhole
  BY InvariantParts
<1>3. job = NoJob /\ Ledger(page_states, Stacks, Spaces, {}, FatPages, fat.old)
  BY <1>1, QuietState
<1>4. /\ processes[s].state = "EXITED"
      /\ processes' = [processes EXCEPT ![s] = Unused]
      /\ UNCHANGED <<pages, modules, task_count, queue, job, cpu, fat>>
  BY DEF process_collect
<1>5. Empty(processes[s]) /\ ProcessOK(processes[s])
  BY <1>2, <1>4, ProcessFacts DEF ProcessesWhole, Empty
<1>6. KernelStack(processes[s]) = {} /\ AddressSpace(processes[s]) = {}
  BY <1>4, <1>5, EmptyFacts DEF ProcessOK
<1>7. Empty(Unused) /\ Unused.state = "UNUSED"
  BY UnusedIsEmpty
<1>8. /\ ProcessOK(Unused) /\ UsedOnce(Unused) /\ Whole(Unused, TRUE)
      /\ KernelStack(Unused) = {} /\ AddressSpace(Unused) = {}
  BY <1>7, EmptyFacts
<1>9. Becomes(s, Unused)
  BY <1>2, <1>4 DEF Becomes, TypeOK
<1>10. Stacks' = Stacks /\ Spaces' = Spaces
  BY <1>6, <1>8, <1>9, ColumnsChange
<1>11. PhysicalInvariant' /\ page_states' = page_states
  BY <1>2, <1>4, PagesStay
<1>12. fat.old = {}
  BY <1>1, <1>2 DEF ProcessesWhole
<1>13. Ledger(page_states', Stacks', Spaces', {}, FatPages, {})
  BY <1>3, <1>10, <1>11, <1>12
<1>14. RestTyped'
  BY <1>2, <1>4 DEF RestTyped
<1>15. Whole(Unused, FALSE)
  BY <1>7, <1>8 DEF Whole
<1>16. \A t \in DOMAIN Unused.tables : Needed(Unused, t)
  BY <1>7 DEF Empty
<1>17. job.slot = None /\ job' = NoJob
  BY <1>3, <1>4 DEF NoJob
<1>18. QED
  BY <1>1, <1>4, <1>8, <1>9, <1>11, <1>12, <1>13, <1>14, <1>15, <1>16, <1>17, EndStep

-----------------------------------------------------------------------------
(* A page is unmapped, and the tables that held nothing else go with it.    *)

TablePages(p, v) == {p.tables[t] : t \in EmptiedTables(p, v)}

(* unmap_one takes out the page and the tables it leaves empty, and nothing *)
(* else.                                                                    *)
LEMMA UnmapFacts ==
    ASSUME NEW p, ProcessOK(p), UsedOnce(p), \A t \in DOMAIN p.tables : Needed(p, t),
           NEW v \in DOMAIN p.leaves
    PROVE  LET q == Unmapped(p, v)
           IN  /\ ProcessOK(q) /\ UsedOnce(q)
               /\ \A t \in DOMAIN q.tables : Needed(q, t)
               /\ q.state = p.state /\ q.root = p.root /\ q.kernel_stack = p.kernel_stack
               /\ KernelStack(q) = KernelStack(p)
               /\ AddressSpace(q) = AddressSpace(p) \ (TablePages(p, v) \cup {p.leaves[v]})
               /\ DOMAIN q.leaves = DOMAIN p.leaves \ {v}
               /\ \A w \in DOMAIN p.leaves \ {v} : q.leaves[w] = p.leaves[w]
               /\ Range(q.leaves) = Range(p.leaves) \ {p.leaves[v]}
               /\ TablePages(p, v) \subseteq AddressSpace(p)
               /\ p.leaves[v] \in AddressSpace(p)
               /\ p.leaves[v] \notin TablePages(p, v)
<1> DEFINE q == Unmapped(p, v)
<1> DEFINE emptied == EmptiedTables(p, v)
<1> DEFINE tables == Restrict(p.tables, DOMAIN p.tables \ emptied)
<1> DEFINE leaves == Restrict(p.leaves, DOMAIN p.leaves \ {v})
<1>1. DOMAIN p = DOMAIN Unused
  BY DEF ProcessOK
<1>2. q = [p EXCEPT !.leaves = leaves, !.tables = tables]
  BY DEF Unmapped
<1>3. emptied \subseteq DOMAIN p.tables
  BY DEF EmptiedTables
<1>4. /\ \A t, u \in DOMAIN p.tables : p.tables[t] = p.tables[u] => t = u
      /\ \A t, u \in DOMAIN p.leaves : p.leaves[t] = p.leaves[u] => t = u
      /\ \A t \in DOMAIN p.tables, u \in DOMAIN p.leaves : p.tables[t] # p.leaves[u]
      /\ \A t \in DOMAIN p.tables : p.tables[t] # p.root
      /\ \A t \in DOMAIN p.leaves : p.leaves[t] # p.root
  BY DEF UsedOnce, Range
<1>5. /\ DOMAIN tables = DOMAIN p.tables \ emptied
      /\ \A z \in DOMAIN p.tables \ emptied : tables[z] = p.tables[z]
      /\ Range(tables) = Range(p.tables) \ {p.tables[t] : t \in DOMAIN p.tables \cap emptied}
  BY <1>4, RestrictFacts
<1>6. /\ DOMAIN leaves = DOMAIN p.leaves \ {v}
      /\ \A z \in DOMAIN p.leaves \ {v} : leaves[z] = p.leaves[z]
      /\ Range(leaves) = Range(p.leaves) \ {p.leaves[t] : t \in DOMAIN p.leaves \cap {v}}
  BY <1>4, RestrictFacts
<1>7. \A t \in DOMAIN p.tables \ emptied : \E u \in DOMAIN p.leaves \ {v} : IsBelow(u, t)
  BY UnmappedNeeded
<1> HIDE DEF emptied, tables, leaves
<1>8. /\ DOMAIN q = DOMAIN Unused /\ q.state = p.state /\ q.root = p.root
      /\ q.tables = tables /\ q.leaves = leaves /\ q.kernel_stack = p.kernel_stack
  BY <1>1, <1>2, UnusedFields
<1> HIDE DEF q
<1>9. TablePages(p, v) = {p.tables[t] : t \in emptied}
  BY DEF TablePages, emptied
<1>10. Range(q.tables) = Range(p.tables) \ TablePages(p, v)
  BY <1>3, <1>5, <1>8, <1>9
<1>11. Range(q.leaves) = Range(p.leaves) \ {p.leaves[v]}
  BY <1>6, <1>8
<1>12. /\ TablePages(p, v) \subseteq Range(p.tables)
       /\ p.leaves[v] \in Range(p.leaves) /\ p.leaves[v] \notin Range(p.tables)
       /\ \A x \in TablePages(p, v) : x \notin Range(p.leaves) /\ x # p.root
       /\ p.leaves[v] # p.root
  BY <1>3, <1>4, <1>9 DEF Range
<1>13. AddressSpace(q) = AddressSpace(p) \ (TablePages(p, v) \cup {p.leaves[v]})
  BY <1>8, <1>10, <1>11, <1>12 DEF AddressSpace
<1>14. KernelStack(q) = KernelStack(p)
  BY <1>8 DEF KernelStack
<1>15. ProcessOK(q)
  BY <1>5, <1>6, <1>8, <1>13, <1>14 DEF ProcessOK
<1>16. UsedOnce(q)
  BY <1>4, <1>5, <1>6, <1>8, <1>10, <1>11 DEF UsedOnce
<1>17. \A t \in DOMAIN q.tables : Needed(q, t)
  BY <1>5, <1>6, <1>7, <1>8 DEF Needed
<1>18. /\ TablePages(p, v) \subseteq AddressSpace(p) /\ p.leaves[v] \in AddressSpace(p)
       /\ p.leaves[v] \notin TablePages(p, v)
  BY <1>12 DEF AddressSpace
<1>19. /\ DOMAIN q.leaves = DOMAIN p.leaves \ {v}
       /\ \A w \in DOMAIN p.leaves \ {v} : q.leaves[w] = p.leaves[w]
  BY <1>6, <1>8
<1>20. QED
  BY <1>8, <1>11, <1>13, <1>14, <1>15, <1>16, <1>17, <1>18, <1>19 DEF q

(* Unmapping the pages of a process.                                        *)
LEMMA UnmapKeeps ==
    ASSUME IInv, NEW s \in Slot, virtual_unmap_pages(s)
    PROVE  IInv'
<1>1. pc = "idle" /\ pc' = "idle" /\ pc \notin InCreation /\ pc \notin Outside
  BY DEF virtual_unmap_pages, InCreation, Mapping, Outside
<1>2. /\ PhysicalInvariant /\ RestTyped /\ TypeOK /\ ProcessesWhole /\ TablesNeeded
      /\ UsedOnce(processes[s])
  BY InvariantParts
<1>3. job = NoJob /\ Ledger(page_states, Stacks, Spaces, {}, FatPages, fat.old)
  BY <1>1, QuietState
<1>4. job.slot = None
  BY <1>3 DEF NoJob
<1> DEFINE p == processes[s]
<1>5. ProcessOK(p) /\ p.state = "RUNNABLE" /\ Whole(p, FALSE)
  BY <1>2, ProcessFacts DEF virtual_unmap_pages, ProcessesWhole, Whole
<1>6. \A t \in DOMAIN p.tables : Needed(p, t)
  BY <1>2, <1>4, SlotFacts DEF TablesNeeded, Needed
<1>7. PICK v \in DOMAIN p.leaves :
        /\ Release(TablePages(p, v) \cup {p.leaves[v]})
        /\ processes' = [processes EXCEPT ![s] = Unmapped(p, v)]
  BY DEF virtual_unmap_pages, TablePages
<1>8. UNCHANGED <<modules, task_count, queue, job, cpu, fat>>
  BY DEF virtual_unmap_pages
<1> DEFINE q == Unmapped(p, v)
<1> DEFINE back == TablePages(p, v) \cup {p.leaves[v]}
<1>9. Becomes(s, q)
  BY <1>2, <1>7 DEF Becomes, TypeOK
<1>10. /\ ProcessOK(q) /\ UsedOnce(q)
       /\ \A t \in DOMAIN q.tables : Needed(q, t)
       /\ q.state = p.state /\ q.root = p.root /\ q.kernel_stack = p.kernel_stack
       /\ KernelStack(q) = KernelStack(p)
       /\ AddressSpace(q) = AddressSpace(p) \ back
       /\ back \subseteq AddressSpace(p)
  BY <1>2, <1>5, <1>6, UnmapFacts
<1>11. Release(back)
  BY <1>7
<1> HIDE DEF q, back
<1>12. back \in SUBSET Page
  BY <1>5, <1>10 DEF ProcessOK
<1>13. PhysicalInvariant' /\ Returned(page_states, page_states', back)
  BY <1>2, <1>11, <1>12, ReleaseIsReturned
<1>14. Stacks' = Stacks
  BY <1>9, <1>10, ColumnsChange
<1>15. Loses(Spaces, Spaces', s, back)
  BY <1>9, <1>10, ColumnsChange
<1>16. back \in SUBSET Spaces[s]
  BY <1>10 DEF Spaces
<1>17. fat.old = {}
  BY <1>1, <1>2 DEF ProcessesWhole
<1>18. Ledger(page_states', Stacks, Spaces', {}, FatPages, fat.old)
  BY <1>3, <1>13, <1>15, <1>16, ReturnedBySpace
<1>19. Ledger(page_states', Stacks', Spaces', {}, FatPages, {})
  BY <1>14, <1>17, <1>18
<1>20. RestTyped'
  BY <1>2, <1>8 DEF RestTyped
<1>21. Whole(q, FALSE)
  BY <1>5, <1>10 DEF Whole
<1>22. QED
  BY <1>1, <1>3, <1>4, <1>8, <1>9, <1>10, <1>13, <1>17, <1>19, <1>20, <1>21, EndStep

-----------------------------------------------------------------------------
(* A run of pages is being mapped.                                          *)

LEMMA MappingFacts ==
    ASSUME IInv, pc \in Mapping
    PROVE  /\ pc \in InCreation
           /\ job.part \in DOMAIN Parts(Module) /\ job.base # None /\ job.base \in Page
           /\ job.page \in 1 .. Len(Part) /\ Len(Part) \in Nat \ {0}
           /\ DOMAIN Part = 1 .. Len(Part)
           /\ \A i \in 1 .. Len(Part) : Part[i] \in Virtual
           /\ \A t \in job.created : t \in DOMAIN Creating.tables /\ IsBelow(VirtualPage, t)
           /\ \A i \in 1 .. job.page - 1 :
                Part[i] \in DOMAIN Creating.leaves /\ Creating.leaves[Part[i]] = job.base + i - 1
           /\ \A i \in job.page .. Len(Part), v \in DOMAIN Creating.leaves :
                Creating.leaves[v] # job.base + i - 1
           /\ Staged = Run(job.base, Len(Part)) \ Range(Creating.leaves)
           /\ \A p : p \in Staged <=> \E i \in job.page .. Len(Part) : p = job.base + i - 1
<1>1. TypeOK /\ CreationOrdered /\ RestTyped
  BY InvariantParts
<1>2. pc \in InCreation
  BY DEF InCreation
<1>3. job.module \in DOMAIN modules
  BY <1>1, <1>2 DEF CreationOrdered
<1>4. job.part \in DOMAIN Parts(Module) /\ job.base # None
  BY <1>1 DEF CreationOrdered
<1>5. job.base \in Page
  BY <1>1 DEF RestTyped
<1>6. /\ Len(Part) \in Nat \ {0} /\ DOMAIN Part = 1 .. Len(Part)
      /\ \A i \in 1 .. Len(Part) : Part[i] \in Virtual
  BY <1>1, <1>3, <1>4, CurrentPart
<1>7. /\ job.page \in 1 .. Len(Part)
      /\ \A t \in job.created : t \in DOMAIN Creating.tables /\ IsBelow(VirtualPage, t)
      /\ \A i \in 1 .. job.page - 1 :
           Part[i] \in DOMAIN Creating.leaves /\ Creating.leaves[Part[i]] = job.base + i - 1
      /\ \A i \in job.page .. Len(Part), v \in DOMAIN Creating.leaves :
           Creating.leaves[v] # job.base + i - 1
  BY <1>1, <1>6 DEF CreationOrdered
<1>8. Staged = Run(job.base, Len(Part)) \ Range(Creating.leaves)
  BY <1>4 DEF Staged
<1> DEFINE base == job.base
<1> DEFINE page == job.page
<1> DEFINE size == Len(Part)
<1> DEFINE leaves == Creating.leaves
<1> DEFINE part == Part
<1>9. /\ base \in Nat /\ page \in 1 .. size /\ size \in Nat \ {0}
      /\ \A i \in 1 .. page - 1 : part[i] \in DOMAIN leaves /\ leaves[part[i]] = base + i - 1
      /\ \A i \in page .. size, v \in DOMAIN leaves : leaves[v] # base + i - 1
  BY <1>5, <1>6, <1>7 DEF Page
<1> HIDE DEF base, page, size, leaves, part
<1>10. \A p : p \in Run(base, size) <=> \E i \in 1 .. size : p = base + i - 1
  <2>1. \A p \in Run(base, size) : p - base + 1 \in 1 .. size /\ p = base + (p - base + 1) - 1
    BY <1>9 DEF Run
  <2>2. \A i \in 1 .. size : base + i - 1 \in Run(base, size)
    BY <1>9 DEF Run
  <2>3. QED
    BY <2>1, <2>2
<1>11. \A i \in 1 .. size : (base + i - 1) \in Range(leaves) <=> i < page
  <2>1. ASSUME NEW i \in 1 .. size, i < page
        PROVE  (base + i - 1) \in Range(leaves)
    <3>1. i \in 1 .. page - 1
      BY <1>9, <2>1
    <3>2. QED
      BY <1>9, <3>1 DEF Range
  <2>2. ASSUME NEW i \in 1 .. size, ~ (i < page)
        PROVE  (base + i - 1) \notin Range(leaves)
    <3>1. i \in page .. size
      BY <1>9, <2>2
    <3>2. QED
      BY <1>9, <3>1 DEF Range
  <2>3. QED
    BY <2>1, <2>2
<1>12. \A p : p \in Run(base, size) \ Range(leaves) <=> \E i \in page .. size : p = base + i - 1
  <2>1. \A i : i \in page .. size <=> i \in 1 .. size /\ ~ (i < page)
    BY <1>9
  <2>2. QED
    BY <1>10, <1>11, <2>1
<1>13. \A p : p \in Staged <=> \E i \in job.page .. Len(Part) : p = job.base + i - 1
  BY <1>8, <1>12 DEF base, page, size, leaves
<1>14. QED
  BY <1>2, <1>4, <1>5, <1>6, <1>7, <1>8, <1>13

(* A page cannot be mapped: nothing has changed yet.                        *)
LEMMA GiveUp ==
    ASSUME IInv, pc = "map", pc' = "undo_tables", PhysicalInvariant', page_states' = page_states,
           UNCHANGED <<modules, processes, task_count, queue, job, cpu, fat>>
    PROVE  IInv'
<1>1. pc \in Mapping /\ pc' \in Mapping
  BY DEF Mapping
<1>2. /\ pc \in InCreation /\ job.part \in DOMAIN Parts(Module) /\ job.base # None
      /\ job.page \in DOMAIN Part
      /\ \A t \in job.created : t \in DOMAIN Creating.tables /\ IsBelow(Part[job.page], t)
      /\ \A i \in 1 .. job.page - 1 :
           Part[i] \in DOMAIN Creating.leaves /\ Creating.leaves[Part[i]] = job.base + i - 1
      /\ \A i \in job.page .. Len(Part), v \in DOMAIN Creating.leaves :
           Creating.leaves[v] # job.base + i - 1
      /\ Staged = Run(job.base, Len(Part)) \ Range(Creating.leaves)
  BY <1>1, MappingFacts DEF VirtualPage
<1>3. /\ RestTyped /\ DOMAIN processes = Slot /\ job.slot \in Slot
      /\ StageOf(pc, Creating) /\ ProcessOK(Creating) /\ UsedOnce(Creating)
      /\ Whole(Creating, TRUE)
      /\ \A t \in DOMAIN Creating.tables : Needed(Creating, t) \/ t \in job.created
      /\ Ledger(page_states, Stacks, Spaces, Staged, FatPages, {})
  BY <1>2, CreationFacts
<1>4. Becomes(job.slot, Creating)
  BY <1>3 DEF Becomes, Creating
<1>5. Stacks' = Stacks /\ Spaces' = Spaces
  BY DEF Stacks, Spaces
<1>6. RestTyped'
  BY <1>3 DEF RestTyped
<1>7. StageOf(pc', Creating)
  BY <1>3 DEF StageOf
<1>8. Ledger(page_states', Stacks', Spaces',
             Run(job'.base, Len(Part)) \ Range(Creating.leaves), FatPages, {})
  BY <1>2, <1>3, <1>5
<1>9. QED
  BY <1>1, <1>2, <1>3, <1>4, <1>6, <1>7, <1>8, MappingStep

(* Allocating the pages of the next part.                                   *)
LEMMA AllocatePartKeeps ==
    ASSUME IInv, AllocatePart
    PROVE  IInv'
<1>1. pc = "part" /\ pc \in InCreation /\ pc \notin Mapping
  BY DEF AllocatePart, InCreation, Mapping
<1>2. /\ PhysicalInvariant /\ TypeOK /\ RestTyped /\ DOMAIN processes = Slot
      /\ job.slot \in Slot /\ job.module \in DOMAIN modules /\ StageOf(pc, Creating)
      /\ ProcessOK(Creating) /\ UsedOnce(Creating) /\ Whole(Creating, TRUE)
      /\ job.base = None /\ Staged = {} /\ job.created = {}
      /\ \A t \in DOMAIN Creating.tables : Needed(Creating, t)
      /\ Ledger(page_states, Stacks, Spaces, Staged, FatPages, {})
  BY <1>1, CreationFacts
<1>3. job.part \in DOMAIN Parts(Module)
  BY <1>1, InvariantParts DEF CreationOrdered
<1>4. Len(Part) \in Nat \ {0} /\ DOMAIN Part = 1 .. Len(Part)
  BY <1>2, <1>3, CurrentPart
<1>5. UNCHANGED <<modules, task_count, queue, cpu, fat>>
  BY DEF AllocatePart
<1>6. CASE Denied(Len(Part), "destroy")
  BY <1>1, <1>5, <1>6, DeniedToDestroy
<1>7. CASE /\ Allocated(Len(Part))
           /\ job' = [job EXCEPT !.base = Found(Len(Part)), !.page = 1]
           /\ pc' = "map"
           /\ UNCHANGED processes
  <2> DEFINE n == Len(Part)
  <2> DEFINE new == Found(n)
  <2>1. /\ PhysicalInvariant' /\ Taken(page_states, page_states', Run(new, n))
        /\ new \in Page /\ new # None
    BY <1>2, <1>4, <1>7, TakeIsTaken
  <2>2. /\ job'.slot = job.slot /\ job'.module = job.module /\ job'.part = job.part
        /\ job'.base = new /\ job'.page = 1 /\ job'.created = {}
        /\ job' \in [slot : Slot \cup {None}, module : Nat, part : Nat, page : Nat,
                     created : SUBSET Path, base : Page]
    BY <1>2, <1>7, <2>1 DEF RestTyped
  <2> HIDE DEF new, n
  <2>3. Becomes(job.slot, Creating)
    BY <1>2, <1>7 DEF Becomes, Creating
  <2>4. Stacks' = Stacks /\ Spaces' = Spaces
    BY <1>7 DEF Stacks, Spaces
  <2>5. Ledger(page_states', Stacks', Spaces', Run(new, n), FatPages, {})
    BY <1>2, <2>1, <2>4, TakenToStaged
  <2>6. \A p \in Run(new, n) : p \notin Range(Creating.leaves)
    <3>1. \A p \in Run(new, n) : p \in Page /\ page_states[p] = "FREE"
      BY <2>1 DEF Taken
    <3>2. \A p \in Run(new, n) : p \notin Spaces[job.slot]
      BY <1>2, <3>1, FreshPage
    <3>3. Range(Creating.leaves) \subseteq Spaces[job.slot]
      BY <1>2 DEF Spaces, Creating, AddressSpace
    <3>4. QED
      BY <3>2, <3>3
  <2>7. Run(new, n) \ Range(Creating.leaves) = Run(new, n)
    BY <2>6
  <2>8. \A i \in 1 .. n, v \in DOMAIN Creating.leaves : Creating.leaves[v] # new + i - 1
    <3>1. \A i \in 1 .. n : new + i - 1 \in Run(new, n)
      BY <1>4, <2>1 DEF Run, Page, n
    <3>2. \A v \in DOMAIN Creating.leaves : Creating.leaves[v] \in Range(Creating.leaves)
      BY DEF Range
    <3>3. QED
      BY <2>6, <3>1, <3>2
  <2>9. Ledger(page_states', Stacks', Spaces',
               Run(job'.base, n) \ Range(Creating.leaves), FatPages, {})
    BY <2>2, <2>5, <2>7
  <2>10. \A i \in job'.page .. n, v \in DOMAIN Creating.leaves :
            Creating.leaves[v] # job'.base + i - 1
    BY <2>2, <2>8
  <2>11. RestTyped'
    BY <1>2, <1>5, <2>2 DEF RestTyped
  <2>12. StageOf(pc', Creating)
    BY <1>1, <1>2, <1>7 DEF StageOf
  <2>13. pc' \in Mapping
    BY <1>7 DEF Mapping
  <2>14. job'.page \in DOMAIN Part /\ 1 .. job'.page - 1 = {}
    BY <1>4, <2>2
  <2>15. QED
    BY <1>1, <1>2, <1>3, <1>5, <2>1, <2>2, <2>3, <2>9, <2>10, <2>11, <2>12, <2>13, <2>14,
       MappingStep DEF n
<1>8. QED
  BY <1>6, <1>7 DEF AllocatePart

(* Allocating the next table on the way to a page, or giving up.            *)
LEMMA NextTableKeeps ==
    ASSUME IInv, ensure_next_table
    PROVE  IInv'
<1>1. pc = "map" /\ pc \in Mapping /\ Missing # {}
  BY DEF ensure_next_table, Mapping
<1>2. /\ pc \in InCreation /\ job.part \in DOMAIN Parts(Module) /\ job.base # None
      /\ job.page \in 1 .. Len(Part) /\ DOMAIN Part = 1 .. Len(Part)
      /\ \A i \in 1 .. Len(Part) : Part[i] \in Virtual
      /\ \A t \in job.created : t \in DOMAIN Creating.tables /\ IsBelow(VirtualPage, t)
      /\ \A i \in 1 .. job.page - 1 :
           Part[i] \in DOMAIN Creating.leaves /\ Creating.leaves[Part[i]] = job.base + i - 1
      /\ \A i \in job.page .. Len(Part), v \in DOMAIN Creating.leaves :
           Creating.leaves[v] # job.base + i - 1
      /\ Staged = Run(job.base, Len(Part)) \ Range(Creating.leaves)
  BY <1>1, MappingFacts
<1>3. /\ PhysicalInvariant /\ RestTyped /\ DOMAIN processes = Slot /\ job.slot \in Slot
      /\ StageOf(pc, Creating) /\ ProcessOK(Creating) /\ UsedOnce(Creating)
      /\ Whole(Creating, TRUE)
      /\ \A t \in DOMAIN Creating.tables : Needed(Creating, t) \/ t \in job.created
      /\ Ledger(page_states, Stacks, Spaces, Staged, FatPages, {})
  BY <1>2, CreationFacts
<1>4. UNCHANGED <<modules, task_count, queue, cpu, fat>>
  BY DEF ensure_next_table
<1> DEFINE prefix == Prefix(VirtualPage, Min(Missing))
<1>5. /\ prefix \notin DOMAIN Creating.tables /\ prefix \in Path
      /\ IsBelow(VirtualPage, prefix) /\ VirtualPage = Part[job.page]
  <2>1. Missing \in SUBSET Nat
    BY DEF Missing
  <2>2. Min(Missing) \in Missing
    BY <1>1, <2>1, MinFacts
  <2>3. Min(Missing) \in 1 .. 3 /\ prefix \notin DOMAIN Creating.tables
    BY <2>2 DEF Missing
  <2>4. VirtualPage \in Virtual
    BY <1>2 DEF VirtualPage
  <2>5. QED
    BY <2>3, <2>4, PrefixFacts DEF VirtualPage
<1>6. CASE Denied(1, "undo_tables")
  <2>1. OutOfMemory(1) /\ pc' = "undo_tables" /\ UNCHANGED <<processes, job>>
    BY <1>6 DEF Denied
  <2>2. PhysicalInvariant' /\ page_states' = page_states
    BY <1>3, <2>1, DeniedKeeps
  <2>3. QED
    BY <1>1, <1>4, <2>1, <2>2, GiveUp
<1>7. CASE /\ Allocated(1)
           /\ processes' = [processes EXCEPT ![job.slot].tables = With(@, prefix, Found(1))]
           /\ job' = [job EXCEPT !.created = @ \cup {prefix}]
           /\ pc' = pc
  <2> DEFINE new == Found(1)
  <2> DEFINE tables == With(Creating.tables, prefix, new)
  <2> DEFINE q == [Creating EXCEPT !.tables = tables]
  <2>1. /\ PhysicalInvariant' /\ Taken(page_states, page_states', Run(new, 1))
        /\ new \in Page /\ new # None
    BY <1>3, <1>7, TakeIsTaken
  <2>2. Run(new, 1) = {new}
    BY <2>1 DEF Run, Page
  <2>3. Becomes(job.slot, q)
    BY <1>3, <1>7 DEF Becomes, Creating
  <2>4. /\ DOMAIN tables = DOMAIN Creating.tables \cup {prefix}
        /\ tables[prefix] = new
        /\ \A z \in DOMAIN Creating.tables : tables[z] = Creating.tables[z]
        /\ Range(tables) = Range(Creating.tables) \cup {new}
    <3>1. tables = With(Creating.tables, prefix, new) /\ prefix \notin DOMAIN Creating.tables
      BY <1>5
    <3> HIDE DEF tables, prefix, new
    <3>2. /\ DOMAIN tables = DOMAIN Creating.tables \cup {prefix}
          /\ tables[prefix] = new
          /\ \A z \in DOMAIN Creating.tables : tables[z] = Creating.tables[z]
      BY <3>1 DEF With
    <3>3. Range(tables) = Range(Creating.tables) \cup {new}
      BY <3>1, WithRange
    <3>4. QED
      BY <3>2, <3>3
  <2> HIDE DEF prefix, new, tables
  <2>5. /\ DOMAIN q = DOMAIN Unused /\ q.state = Creating.state /\ q.root = Creating.root
        /\ q.tables = tables /\ q.leaves = Creating.leaves
        /\ q.kernel_stack = Creating.kernel_stack
    BY <1>3, FieldFacts DEF ProcessOK
  <2> HIDE DEF q
  <2>6. KernelStack(q) = KernelStack(Creating)
    BY <2>5 DEF KernelStack
  <2>7. AddressSpace(q) = AddressSpace(Creating) \cup {new}
    BY <2>4, <2>5 DEF AddressSpace
  <2>8. Stacks' = Stacks
    BY <1>3, <2>3, <2>6, ColumnsChange DEF Creating
  <2>9. Gains(Spaces, Spaces', job.slot, {new})
    BY <1>3, <2>3, <2>7, ColumnsChange DEF Creating
  <2>10. Ledger(page_states', Stacks', Spaces', Staged, FatPages, {})
    BY <1>3, <2>1, <2>2, <2>8, <2>9, TakenToSpace
  <2>11. ProcessOK(q)
    BY <1>3, <1>5, <2>1, <2>4, <2>5, <2>6, <2>7 DEF ProcessOK
  <2>12. new \notin AddressSpace(Creating)
    <3>1. page_states[new] = "FREE"
      BY <2>1, <2>2 DEF Taken
    <3>2. new \notin Spaces[job.slot]
      BY <1>3, <2>1, <3>1, FreshPage
    <3>3. QED
      BY <1>3, <3>2 DEF Spaces, Creating
  <2>13. UsedOnce(q)
    <3>1. /\ new \notin Range(Creating.tables) /\ new \notin Range(Creating.leaves)
          /\ new # Creating.root
      BY <2>1, <2>12 DEF AddressSpace
    <3>2. \A t \in DOMAIN Creating.tables : Creating.tables[t] # new
      BY <3>1 DEF Range
    <3>3. \A t, u \in DOMAIN q.tables : q.tables[t] = q.tables[u] => t = u
      BY <1>3, <2>4, <2>5, <3>2 DEF UsedOnce
    <3>4. QED
      BY <1>3, <2>4, <2>5, <3>1, <3>3 DEF UsedOnce
  <2>14. /\ job'.slot = job.slot /\ job'.module = job.module /\ job'.part = job.part
         /\ job'.base = job.base /\ job'.page = job.page
         /\ job'.created = job.created \cup {prefix}
         /\ job' \in [slot : Slot \cup {None}, module : Nat, part : Nat, page : Nat,
                      created : SUBSET Path, base : Page]
    BY <1>3, <1>5, <1>7 DEF RestTyped
  <2>15. \A t \in DOMAIN q.tables : Needed(q, t) \/ t \in job'.created
    BY <1>3, <2>4, <2>5, <2>14 DEF Needed
  <2>16. \A t \in job'.created : t \in DOMAIN q.tables /\ IsBelow(Part[job'.page], t)
    BY <1>2, <1>5, <2>4, <2>5, <2>14
  <2>17. RestTyped'
    BY <1>3, <1>4, <2>14 DEF RestTyped
  <2>18. StageOf(pc', q) /\ Whole(q, TRUE)
    BY <1>1, <1>3, <1>7, <2>5 DEF StageOf, Whole
  <2>19. pc' \in Mapping /\ pc' \in {"map", "undo_tables"}
    BY <1>1, <1>7
  <2>20. Ledger(page_states', Stacks', Spaces',
                Run(job'.base, Len(Part)) \ Range(q.leaves), FatPages, {})
    BY <1>2, <2>5, <2>10, <2>14
  <2>21. /\ \A i \in 1 .. job'.page - 1 :
              Part[i] \in DOMAIN q.leaves /\ q.leaves[Part[i]] = job'.base + i - 1
         /\ \A i \in job'.page .. Len(Part), v \in DOMAIN q.leaves :
              q.leaves[v] # job'.base + i - 1
         /\ job'.page \in DOMAIN Part /\ job'.base # None
    BY <1>2, <2>5, <2>14
  <2>22. QED
    BY <1>2, <1>3, <1>4, <2>1, <2>3, <2>11, <2>13, <2>14, <2>15, <2>16, <2>17, <2>18, <2>19,
       <2>20, <2>21, MappingStep
<1>8. QED
  BY <1>6, <1>7 DEF ensure_next_table

(* Entering a page into its table, or finding the place taken.              *)
LEMMA MapKeeps ==
    ASSUME IInv, map_one
    PROVE  IInv'
<1>1. pc = "map" /\ pc \in Mapping /\ Missing = {}
  BY DEF map_one, Mapping
<1>2. /\ pc \in InCreation /\ job.part \in DOMAIN Parts(Module)
      /\ job.base # None /\ job.base \in Page
      /\ job.page \in 1 .. Len(Part) /\ Len(Part) \in Nat \ {0} /\ DOMAIN Part = 1 .. Len(Part)
      /\ \A i \in 1 .. Len(Part) : Part[i] \in Virtual
      /\ \A t \in job.created : t \in DOMAIN Creating.tables /\ IsBelow(VirtualPage, t)
      /\ \A i \in 1 .. job.page - 1 :
           Part[i] \in DOMAIN Creating.leaves /\ Creating.leaves[Part[i]] = job.base + i - 1
      /\ \A i \in job.page .. Len(Part), v \in DOMAIN Creating.leaves :
           Creating.leaves[v] # job.base + i - 1
      /\ Staged = Run(job.base, Len(Part)) \ Range(Creating.leaves)
      /\ \A p : p \in Staged <=> \E i \in job.page .. Len(Part) : p = job.base + i - 1
  BY <1>1, MappingFacts
<1>3. /\ PhysicalInvariant /\ TypeOK /\ RestTyped /\ DOMAIN processes = Slot /\ job.slot \in Slot
      /\ job.module \in DOMAIN modules /\ pc \notin Outside /\ fat.old = {}
      /\ StageOf(pc, Creating) /\ ProcessOK(Creating) /\ UsedOnce(Creating)
      /\ Whole(Creating, TRUE)
      /\ \A t \in DOMAIN Creating.tables : Needed(Creating, t) \/ t \in job.created
      /\ Ledger(page_states, Stacks, Spaces, Staged, FatPages, {})
  BY <1>2, CreationFacts
<1>4. UNCHANGED <<pages, modules, task_count, queue, cpu, fat>>
  BY DEF map_one
<1>5. PhysicalInvariant' /\ page_states' = page_states
  BY <1>3, <1>4, PagesStay
<1>6. CASE VirtualPage \in DOMAIN Creating.leaves
  <2>1. pc' = "undo_tables" /\ UNCHANGED <<processes, job>>
    BY <1>6 DEF map_one
  <2>2. QED
    BY <1>1, <1>4, <1>5, <2>1, GiveUp
<1>7. CASE VirtualPage \notin DOMAIN Creating.leaves
  <2> DEFINE leaf == job.base + job.page - 1
  <2> DEFINE leaves == With(Creating.leaves, VirtualPage, leaf)
  <2> DEFINE q == [Creating EXCEPT !.leaves = leaves]
  <2>1. processes' = [processes EXCEPT ![job.slot].leaves = With(@, VirtualPage, leaf)]
    BY <1>7 DEF map_one
  <2>2. Becomes(job.slot, q)
    BY <1>3, <2>1 DEF Becomes, Creating
  <2>3. /\ DOMAIN leaves = DOMAIN Creating.leaves \cup {VirtualPage}
        /\ leaves[VirtualPage] = leaf
        /\ \A z \in DOMAIN Creating.leaves : leaves[z] = Creating.leaves[z]
        /\ Range(leaves) = Range(Creating.leaves) \cup {leaf}
    <3>1. leaves = With(Creating.leaves, VirtualPage, leaf)
      OBVIOUS
    <3> HIDE DEF leaves, leaf
    <3>2. /\ DOMAIN leaves = DOMAIN Creating.leaves \cup {VirtualPage}
          /\ leaves[VirtualPage] = leaf
          /\ \A z \in DOMAIN Creating.leaves : leaves[z] = Creating.leaves[z]
      BY <1>7, <3>1 DEF With
    <3>3. Range(leaves) = Range(Creating.leaves) \cup {leaf}
      BY <1>7, <3>1, WithRange
    <3>4. QED
      BY <3>2, <3>3
  <2>4. leaf \in Staged /\ leaf \in Int
    BY <1>2 DEF Page
  <2>5. VirtualPage \in Virtual /\ VirtualPage = Part[job.page]
    BY <1>2 DEF VirtualPage
  <2> HIDE DEF leaves
  <2>6. /\ DOMAIN q = DOMAIN Unused /\ q.state = Creating.state /\ q.root = Creating.root
        /\ q.tables = Creating.tables /\ q.leaves = leaves
        /\ q.kernel_stack = Creating.kernel_stack
    BY <1>3, FieldFacts DEF ProcessOK
  <2> HIDE DEF q
  <2>7. KernelStack(q) = KernelStack(Creating)
    BY <2>6 DEF KernelStack
  <2>8. AddressSpace(q) = AddressSpace(Creating) \cup {leaf}
    BY <2>3, <2>6 DEF AddressSpace
  <2>9. Stacks' = Stacks
    BY <1>3, <2>2, <2>7, ColumnsChange DEF Creating
  <2>10. Gains(Spaces, Spaces', job.slot, {leaf})
    BY <1>3, <2>2, <2>8, ColumnsChange DEF Creating
  <2>11. Ledger(page_states', Stacks', Spaces', Staged \ {leaf}, FatPages, {})
    <3>1. {leaf} \in SUBSET Staged
      BY <2>4
    <3>2. Ledger(page_states, Stacks, Spaces', Staged \ {leaf}, FatPages, {})
      BY <1>3, <2>10, <3>1, MovedToSpace
    <3>3. QED
      BY <1>5, <2>9, <3>2
  <2>12. leaf \in Page /\ leaf \notin AddressSpace(Creating)
    <3>1. leaf \in Page /\ leaf \notin Spaces[job.slot]
      BY <1>3, <2>4 DEF Ledger
    <3>2. QED
      BY <1>3, <3>1 DEF Spaces, Creating
  <2>13. leaf # None
    BY <1>2 DEF Page, None
  <2>14. ProcessOK(q)
    BY <1>3, <2>3, <2>5, <2>6, <2>7, <2>8, <2>12 DEF ProcessOK
  <2>15. UsedOnce(q)
    <3>1. /\ leaf \notin Range(Creating.tables) /\ leaf \notin Range(Creating.leaves)
          /\ leaf # Creating.root
      BY <2>12, <2>13 DEF AddressSpace
    <3>2. \A t \in DOMAIN Creating.leaves : Creating.leaves[t] # leaf
      BY <3>1 DEF Range
    <3>3. \A t, u \in DOMAIN q.leaves : q.leaves[t] = q.leaves[u] => t = u
      BY <1>3, <2>3, <2>6, <3>2 DEF UsedOnce
    <3>4. QED
      BY <1>3, <2>3, <2>6, <3>1, <3>3 DEF UsedOnce
  <2>16. \A t \in DOMAIN q.tables : Needed(q, t)
    BY <1>2, <1>3, <2>3, <2>6 DEF Needed
  <2>17. Whole(q, TRUE)
    BY <1>1, <1>3, <2>6 DEF StageOf, Whole
  <2>18. Run(job.base, Len(Part)) \ Range(q.leaves) = Staged \ {leaf}
    BY <1>2, <2>3, <2>6
  <2>19. CASE job.page < Len(Part)
    <3>1. job' = [job EXCEPT !.page = @ + 1, !.created = {}] /\ pc' = pc
      BY <1>7, <2>19 DEF map_one
    <3>2. /\ job'.slot = job.slot /\ job'.module = job.module /\ job'.part = job.part
          /\ job'.base = job.base /\ job'.page = job.page + 1 /\ job'.created = {}
          /\ job' \in [slot : Slot \cup {None}, module : Nat, part : Nat, page : Nat,
                       created : SUBSET Path, base : Page]
      <4>1. job \in [slot : Slot \cup {None}, module : Nat, part : Nat, page : Nat,
                     created : SUBSET Path, base : Page]
        BY <1>3 DEF RestTyped
      <4>2. job.page + 1 \in Nat
        BY <4>1
      <4>3. QED
        BY <3>1, <4>1, <4>2
    <3>3. RestTyped'
      BY <1>3, <1>4, <3>2 DEF RestTyped
    <3>4. StageOf(pc', q)
      BY <1>3, <2>6, <3>1 DEF StageOf
    <3>5. pc' \in Mapping
      BY <1>1, <3>1
    <3>6. Ledger(page_states', Stacks', Spaces',
                 Run(job'.base, Len(Part)) \ Range(q.leaves), FatPages, {})
      BY <2>11, <2>18, <3>2
    <3>7. job'.page \in DOMAIN Part
      BY <1>2, <2>19, <3>2
    <3>8. \A i \in 1 .. job'.page - 1 :
            Part[i] \in DOMAIN q.leaves /\ q.leaves[Part[i]] = job'.base + i - 1
      <4>1. \A i \in 1 .. job'.page - 1 : i \in 1 .. job.page - 1 \/ i = job.page
        BY <1>2, <3>2
      <4>2. QED
        BY <1>2, <2>3, <2>5, <2>6, <3>2, <4>1
    <3>9. \A i \in job'.page .. Len(Part), v \in DOMAIN q.leaves :
            q.leaves[v] # job'.base + i - 1
      <4>1. \A i \in job'.page .. Len(Part) : i \in job.page .. Len(Part) /\ leaf # job.base + i - 1
        BY <1>2, <3>2 DEF Page
      <4>2. QED
        BY <1>2, <2>3, <2>6, <3>2, <4>1
    <3>10. QED
      BY <1>2, <1>3, <1>4, <1>5, <2>2, <2>14, <2>15, <2>16, <2>17, <3>2, <3>3, <3>4, <3>5, <3>6,
         <3>7, <3>8, <3>9, MappingStep
  <2>20. CASE ~ (job.page < Len(Part))
    <3>1. /\ job' = [job EXCEPT !.part = @ + 1, !.page = 1, !.created = {}, !.base = None]
          /\ pc' = IF job.part < Len(Parts(Module)) THEN "part" ELSE "kernel_stack"
      BY <1>7, <2>20 DEF map_one
    <3>2. 0 \in Page
      BY PhysicalMemoryAssumption DEF Page
    <3>3. /\ job'.slot = job.slot /\ job'.module = job.module /\ job'.part = job.part + 1
          /\ job'.base = None /\ job'.created = {}
          /\ job' \in [slot : Slot \cup {None}, module : Nat, part : Nat, page : Nat,
                       created : SUBSET Path, base : Page]
      <4>1. job \in [slot : Slot \cup {None}, module : Nat, part : Nat, page : Nat,
                     created : SUBSET Path, base : Page]
        BY <1>3 DEF RestTyped
      <4>2. job.part + 1 \in Nat
        BY <4>1
      <4>3. QED
        BY <3>1, <3>2, <4>1, <4>2 DEF None
    <3>4. RestTyped'
      BY <1>3, <1>4, <3>3 DEF RestTyped
    <3>5. StageOf(pc', q)
      BY <1>1, <1>3, <2>6, <3>1 DEF StageOf
    <3>6. pc' \in InCreation \ Mapping
      BY <3>1 DEF InCreation, Mapping
    <3>7. Staged \ {leaf} = {}
      <4>1. \A i \in job.page .. Len(Part) : i = job.page
        BY <1>2, <2>20
      <4>2. QED
        BY <1>2, <4>1
    <3>8. Ledger(page_states', Stacks', Spaces', {}, FatPages, {})
      BY <2>11, <3>7
    <3>9. pc' \in {"root", "part"} => job'.part \in DOMAIN Parts(modules[job'.module])
      <4>1. /\ DOMAIN Parts(Module) = 1 .. Len(Parts(Module))
            /\ Len(Parts(Module)) \in Nat
        BY <1>3, PartFacts DEF Module
      <4>2. pc' \in {"root", "part"} => job.part < Len(Parts(Module))
        BY <3>1
      <4>3. job'.part \in Nat /\ job.part \in Nat
        BY <1>3, <3>3 DEF RestTyped
      <4>4. QED
        BY <1>2, <3>3, <4>1, <4>2, <4>3 DEF Module
    <3>10. QED
      BY <1>3, <1>4, <1>5, <2>2, <2>14, <2>15, <2>16, <2>17, <3>3, <3>4, <3>5, <3>6, <3>8, <3>9,
         PlainStep
  <2>21. QED
    BY <2>19, <2>20
<1>8. QED
  BY <1>6, <1>7

(* map_one fails: only the tables it made itself have nothing below them.   *)
LEMMA UndoTablesKeeps ==
    ASSUME IInv, UndoTables
    PROVE  IInv'
<1>1. pc = "undo_tables" /\ pc \in Mapping
  BY DEF UndoTables, Mapping
<1>2. /\ pc \in InCreation /\ job.part \in DOMAIN Parts(Module) /\ job.base # None
      /\ job.page \in 1 .. Len(Part) /\ DOMAIN Part = 1 .. Len(Part)
      /\ \A t \in job.created : t \in DOMAIN Creating.tables
      /\ \A i \in 1 .. job.page - 1 :
           Part[i] \in DOMAIN Creating.leaves /\ Creating.leaves[Part[i]] = job.base + i - 1
      /\ \A i \in job.page .. Len(Part), v \in DOMAIN Creating.leaves :
           Creating.leaves[v] # job.base + i - 1
      /\ Staged = Run(job.base, Len(Part)) \ Range(Creating.leaves)
  BY <1>1, MappingFacts
<1>3. /\ PhysicalInvariant /\ RestTyped /\ DOMAIN processes = Slot /\ job.slot \in Slot
      /\ StageOf(pc, Creating) /\ ProcessOK(Creating) /\ UsedOnce(Creating)
      /\ Whole(Creating, TRUE)
      /\ \A t \in DOMAIN Creating.tables : Needed(Creating, t) \/ t \in job.created
      /\ Ledger(page_states, Stacks, Spaces, Staged, FatPages, {})
  BY <1>2, CreationFacts
<1> DEFINE created == job.created
<1> DEFINE old == Creating.tables
<1> DEFINE tables == Restrict(old, DOMAIN old \ created)
<1> DEFINE back == {old[t] : t \in created}
<1> DEFINE q == [Creating EXCEPT !.tables = tables]
<1>4. /\ UNCHANGED <<modules, task_count, queue, cpu, fat>>
      /\ Release(back)
      /\ processes' = [processes EXCEPT ![job.slot].tables = Restrict(@, DOMAIN @ \ created)]
      /\ job' = [job EXCEPT !.created = {}]
      /\ pc' = "undo_pages"
  BY DEF UndoTables
<1>5. Becomes(job.slot, q)
  BY <1>3, <1>4 DEF Becomes, Creating
<1>6. /\ \A t, u \in DOMAIN old : old[t] = old[u] => t = u
      /\ \A t \in DOMAIN old : old[t] \notin Range(Creating.leaves) /\ old[t] # Creating.root
  BY <1>3 DEF UsedOnce, Range
<1>7. /\ DOMAIN tables = DOMAIN old \ created
      /\ \A z \in DOMAIN old \ created : tables[z] = old[z]
      /\ Range(tables) = Range(old) \ {old[t] : t \in DOMAIN old \cap created}
  BY <1>6, RestrictFacts
<1> HIDE DEF tables
<1>8. /\ DOMAIN q = DOMAIN Unused /\ q.state = Creating.state /\ q.root = Creating.root
      /\ q.tables = tables /\ q.leaves = Creating.leaves
      /\ q.kernel_stack = Creating.kernel_stack
  BY <1>3, FieldFacts DEF ProcessOK
<1> HIDE DEF q
<1>9. created \subseteq DOMAIN old
  BY <1>2
<1>10. Range(tables) = Range(old) \ back
  BY <1>7, <1>9
<1>11. back \subseteq Range(old) /\ \A p \in back : p \notin Range(Creating.leaves) /\ p # Creating.root
  BY <1>6, <1>9 DEF Range
<1> HIDE DEF back
<1>12. KernelStack(q) = KernelStack(Creating)
  BY <1>8 DEF KernelStack
<1>13. AddressSpace(q) = AddressSpace(Creating) \ back /\ back \subseteq AddressSpace(Creating)
  BY <1>8, <1>10, <1>11 DEF AddressSpace
<1>14. back \in SUBSET Page
  BY <1>3, <1>13 DEF ProcessOK
<1>15. PhysicalInvariant' /\ Returned(page_states, page_states', back)
  BY <1>3, <1>4, <1>14, ReleaseIsReturned
<1>16. Stacks' = Stacks
  BY <1>3, <1>5, <1>12, ColumnsChange DEF Creating
<1>17. Loses(Spaces, Spaces', job.slot, back)
  BY <1>3, <1>5, <1>13, ColumnsChange DEF Creating
<1>18. back \in SUBSET Spaces[job.slot]
  BY <1>3, <1>13 DEF Spaces, Creating
<1>19. Ledger(page_states', Stacks, Spaces', Staged, FatPages, {})
  BY <1>3, <1>15, <1>17, <1>18, ReturnedBySpace
<1>20. ProcessOK(q)
  BY <1>3, <1>7, <1>8, <1>12, <1>13 DEF ProcessOK
<1>21. UsedOnce(q)
  BY <1>3, <1>6, <1>7, <1>8, <1>10 DEF UsedOnce
<1>22. \A t \in DOMAIN q.tables : Needed(q, t)
  BY <1>3, <1>7, <1>8 DEF Needed
<1>23. StageOf(pc', q) /\ Whole(q, TRUE)
  BY <1>1, <1>3, <1>4, <1>8 DEF StageOf, Whole
<1>24. /\ job'.slot = job.slot /\ job'.module = job.module /\ job'.part = job.part
       /\ job'.base = job.base /\ job'.page = job.page /\ job'.created = {}
       /\ job' \in [slot : Slot \cup {None}, module : Nat, part : Nat, page : Nat,
                    created : SUBSET Path, base : Page]
  BY <1>3, <1>4 DEF RestTyped
<1>25. RestTyped'
  BY <1>3, <1>4, <1>24 DEF RestTyped
<1>26. pc' \in Mapping
  BY <1>4 DEF Mapping
<1>27. Ledger(page_states', Stacks', Spaces',
              Run(job'.base, Len(Part)) \ Range(q.leaves), FatPages, {})
  BY <1>2, <1>8, <1>16, <1>19, <1>24
<1>28. /\ \A i \in 1 .. job'.page - 1 :
            Part[i] \in DOMAIN q.leaves /\ q.leaves[Part[i]] = job'.base + i - 1
       /\ \A i \in job'.page .. Len(Part), v \in DOMAIN q.leaves :
            q.leaves[v] # job'.base + i - 1
       /\ job'.page \in DOMAIN Part /\ job'.base # None
  BY <1>2, <1>8, <1>24
<1>29. QED
  BY <1>2, <1>3, <1>4, <1>5, <1>15, <1>20, <1>21, <1>22, <1>23, <1>24, <1>25, <1>26, <1>27,
     <1>28, MappingStep

(* virtual_map_pages fails: what it had mapped is the run's again, page by  *)
(* page, until its caller gives back the run.                               *)
LEMMA UndoPagesKeeps ==
    ASSUME IInv, UndoPages
    PROVE  IInv'
<1>1. pc = "undo_pages" /\ pc \in Mapping
  BY DEF UndoPages, Mapping
<1>2. /\ pc \in InCreation /\ job.part \in DOMAIN Parts(Module)
      /\ job.base # None /\ job.base \in Page
      /\ job.page \in 1 .. Len(Part) /\ Len(Part) \in Nat \ {0} /\ DOMAIN Part = 1 .. Len(Part)
      /\ \A i \in 1 .. job.page - 1 :
           Part[i] \in DOMAIN Creating.leaves /\ Creating.leaves[Part[i]] = job.base + i - 1
      /\ \A i \in job.page .. Len(Part), v \in DOMAIN Creating.leaves :
           Creating.leaves[v] # job.base + i - 1
      /\ Staged = Run(job.base, Len(Part)) \ Range(Creating.leaves)
      /\ \A p : p \in Staged <=> \E i \in job.page .. Len(Part) : p = job.base + i - 1
  BY <1>1, MappingFacts
<1>3. /\ PhysicalInvariant /\ RestTyped /\ DOMAIN processes = Slot /\ job.slot \in Slot
      /\ job.module \in DOMAIN modules /\ pc \notin Outside /\ fat.old = {}
      /\ StageOf(pc, Creating) /\ ProcessOK(Creating) /\ UsedOnce(Creating)
      /\ Whole(Creating, TRUE) /\ job.created = {}
      /\ \A t \in DOMAIN Creating.tables : Needed(Creating, t)
      /\ Ledger(page_states, Stacks, Spaces, Staged, FatPages, {})
  BY <1>1, <1>2, CreationFacts
<1>4. UNCHANGED <<modules, task_count, queue, cpu, fat>>
  BY DEF UndoPages
<1>5. CASE job.page > 1
  <2> DEFINE v == Part[job.page - 1]
  <2> DEFINE back == TablePages(Creating, v)
  <2> DEFINE q == Unmapped(Creating, v)
  <2> DEFINE leaf == job.base + job.page - 2
  <2>1. /\ Release(back)
        /\ processes' = [processes EXCEPT ![job.slot] = Unmapped(@, v)]
        /\ job' = [job EXCEPT !.page = @ - 1]
        /\ pc' = pc
    BY <1>5 DEF UndoPages, TablePages
  <2>2. job.page - 1 \in 1 .. job.page - 1
    BY <1>2, <1>5
  <2>3. v \in DOMAIN Creating.leaves /\ Creating.leaves[v] = leaf
    <3>1. v \in DOMAIN Creating.leaves /\ Creating.leaves[v] = job.base + (job.page - 1) - 1
      BY <1>2, <2>2
    <3>2. job.base + (job.page - 1) - 1 = leaf
      BY <1>2 DEF Page
    <3>3. QED
      BY <3>1, <3>2
  <2>4. Becomes(job.slot, q)
    BY <1>3, <2>1 DEF Becomes, Creating
  <2> HIDE DEF v
  <2>5. /\ ProcessOK(q) /\ UsedOnce(q)
        /\ \A t \in DOMAIN q.tables : Needed(q, t)
        /\ q.state = Creating.state /\ q.root = Creating.root
        /\ q.kernel_stack = Creating.kernel_stack
        /\ KernelStack(q) = KernelStack(Creating)
        /\ AddressSpace(q) = AddressSpace(Creating) \ (back \cup {Creating.leaves[v]})
        /\ DOMAIN q.leaves = DOMAIN Creating.leaves \ {v}
        /\ \A w \in DOMAIN Creating.leaves \ {v} : q.leaves[w] = Creating.leaves[w]
        /\ Range(q.leaves) = Range(Creating.leaves) \ {Creating.leaves[v]}
        /\ back \subseteq AddressSpace(Creating)
        /\ Creating.leaves[v] \in AddressSpace(Creating)
        /\ Creating.leaves[v] \notin back
    <3> DEFINE p == Creating
    <3>1. /\ ProcessOK(p) /\ UsedOnce(p) /\ \A t \in DOMAIN p.tables : Needed(p, t)
          /\ v \in DOMAIN p.leaves
      BY <1>3, <2>3
    <3> HIDE DEF p
    <3>2. LET r == Unmapped(p, v)
          IN  /\ ProcessOK(r) /\ UsedOnce(r)
              /\ \A t \in DOMAIN r.tables : Needed(r, t)
              /\ r.state = p.state /\ r.root = p.root /\ r.kernel_stack = p.kernel_stack
              /\ KernelStack(r) = KernelStack(p)
              /\ AddressSpace(r) = AddressSpace(p) \ (TablePages(p, v) \cup {p.leaves[v]})
              /\ DOMAIN r.leaves = DOMAIN p.leaves \ {v}
              /\ \A w \in DOMAIN p.leaves \ {v} : r.leaves[w] = p.leaves[w]
              /\ Range(r.leaves) = Range(p.leaves) \ {p.leaves[v]}
              /\ TablePages(p, v) \subseteq AddressSpace(p)
              /\ p.leaves[v] \in AddressSpace(p)
              /\ p.leaves[v] \notin TablePages(p, v)
      BY <3>1, UnmapFacts, Zenon
    <3>3. QED
      BY <3>2, Zenon DEF p
  <2>6. Release(back)
    BY <2>1
  <2> HIDE DEF q, back, leaf
  <2>7. back \in SUBSET Page
    BY <1>3, <2>5 DEF ProcessOK
  <2>8. PhysicalInvariant' /\ Returned(page_states, page_states', back)
    BY <1>3, <2>6, <2>7, ReleaseIsReturned
  <2>9. Stacks' = Stacks
    BY <1>3, <2>4, <2>5, ColumnsChange DEF Creating
  <2>10. Spaces[job.slot] = AddressSpace(Creating)
    BY <1>3 DEF Spaces, Creating
  <2> DEFINE mid == [t \in Slot |-> IF t = job.slot THEN Spaces[t] \ back ELSE Spaces[t]]
  <2>11. Loses(Spaces, mid, job.slot, back)
    BY DEF Loses
  <2>12. mid[job.slot] = AddressSpace(Creating) \ back
    BY <1>3, <2>10
  <2>13. Loses(Spaces, Spaces', job.slot, back \cup {leaf})
    BY <1>3, <2>3, <2>4, <2>5, ColumnsChange DEF Creating
  <2>14. Loses(mid, Spaces', job.slot, {leaf})
    BY <2>11, <2>13 DEF Loses
  <2> HIDE DEF mid
  <2>15. back \in SUBSET Spaces[job.slot]
    BY <2>5, <2>10
  <2>16. Ledger(page_states', Stacks, mid, Staged, FatPages, {})
    BY <1>3, <2>8, <2>11, <2>15, ReturnedBySpace
  <2>17. {leaf} \in SUBSET mid[job.slot]
    BY <2>3, <2>5, <2>12
  <2>18. Ledger(page_states', Stacks, Spaces', Staged \cup {leaf}, FatPages, {})
    BY <1>3, <2>14, <2>16, <2>17, MovedToStaged
  <2>19. leaf \in Run(job.base, Len(Part))
    BY <1>2, <1>5 DEF leaf, Run, Page
  <2>20. Run(job.base, Len(Part)) \ Range(q.leaves) = Staged \cup {leaf}
    BY <1>2, <2>3, <2>5, <2>19
  <2>21. /\ job'.slot = job.slot /\ job'.module = job.module /\ job'.part = job.part
         /\ job'.base = job.base /\ job'.page = job.page - 1 /\ job'.created = {}
         /\ job' \in [slot : Slot \cup {None}, module : Nat, part : Nat, page : Nat,
                      created : SUBSET Path, base : Page]
    <3>1. job \in [slot : Slot \cup {None}, module : Nat, part : Nat, page : Nat,
                   created : SUBSET Path, base : Page]
      BY <1>3 DEF RestTyped
    <3>2. job.page - 1 \in Nat
      BY <1>2, <1>5
    <3>3. QED
      BY <1>3, <2>1, <3>1, <3>2
  <2>22. RestTyped'
    BY <1>3, <1>4, <2>21 DEF RestTyped
  <2>23. StageOf(pc', q) /\ Whole(q, TRUE)
    BY <1>1, <1>3, <2>1, <2>5 DEF StageOf, Whole
  <2>24. pc' \in Mapping
    BY <1>1, <2>1
  <2>25. Ledger(page_states', Stacks', Spaces',
                Run(job'.base, Len(Part)) \ Range(q.leaves), FatPages, {})
    BY <2>9, <2>18, <2>20, <2>21
  <2>26. job'.page \in DOMAIN Part /\ job'.base # None
    BY <1>2, <1>5, <2>21
  <2>27. \A i \in 1 .. job'.page - 1 :
           Part[i] \in DOMAIN q.leaves /\ q.leaves[Part[i]] = job'.base + i - 1
    <3>1. ASSUME NEW i \in 1 .. job'.page - 1
          PROVE  Part[i] \in DOMAIN q.leaves /\ q.leaves[Part[i]] = job'.base + i - 1
      <4>1. i \in 1 .. job.page - 1
        BY <1>2, <2>21
      <4>2. Part[i] \in DOMAIN Creating.leaves /\ Creating.leaves[Part[i]] = job.base + i - 1
        BY <1>2, <4>1
      <4>3. job.base + i - 1 # leaf
        BY <1>2, <2>21, <4>1 DEF leaf, Page
      <4>4. Part[i] # v
        BY <2>3, <4>2, <4>3
      <4>5. QED
        BY <2>5, <2>21, <4>2, <4>4
    <3>2. QED
      BY <3>1
  <2>28. \A i \in job'.page .. Len(Part), w \in DOMAIN q.leaves :
           q.leaves[w] # job'.base + i - 1
    <3>1. ASSUME NEW i \in job'.page .. Len(Part), NEW w \in DOMAIN q.leaves
          PROVE  q.leaves[w] # job'.base + i - 1
      <4>1. w \in DOMAIN Creating.leaves /\ w # v /\ q.leaves[w] = Creating.leaves[w]
        BY <2>5
      <4>2. CASE i \in job.page .. Len(Part)
        BY <1>2, <2>21, <4>1, <4>2
      <4>3. CASE i = job.page - 1
        <5>1. job.base + i - 1 = leaf
          BY <1>2, <4>3 DEF leaf, Page
        <5>2. Creating.leaves[w] # Creating.leaves[v]
          BY <1>3, <2>3, <4>1 DEF UsedOnce
        <5>3. QED
          BY <2>3, <2>21, <4>1, <5>1, <5>2
      <4>4. QED
        BY <1>2, <2>21, <4>2, <4>3
    <3>2. QED
      BY <3>1
  <2>29. QED
    BY <1>2, <1>3, <1>4, <2>4, <2>5, <2>8, <2>21, <2>22, <2>23, <2>24, <2>25, <2>26, <2>27,
       <2>28, MappingStep
<1>6. CASE ~ (job.page > 1)
  <2>1. /\ Release(Run(job.base, Len(Part)))
        /\ job' = [job EXCEPT !.base = None]
        /\ pc' = "destroy" /\ processes' = processes
    BY <1>6 DEF UndoPages
  <2>2. job.page = 1
    BY <1>2, <1>6
  <2>3. Staged = Run(job.base, Len(Part))
    <3>1. \A i \in 1 .. Len(Part) : job.base + i - 1 \in Staged
      BY <1>2, <2>2
    <3>2. ASSUME NEW p \in Run(job.base, Len(Part))
          PROVE  p \in Staged
      <4>1. \E i \in 1 .. Len(Part) : p = job.base + i - 1
        <5>1. p \in job.base .. job.base + Len(Part) - 1 /\ job.base \in Nat /\ Len(Part) \in Nat
          BY <1>2 DEF Run, Page
        <5> p - job.base + 1 \in 1 .. Len(Part) /\ p = job.base + (p - job.base + 1) - 1
          BY <5>1
        <5> WITNESS p - job.base + 1 \in 1 .. Len(Part)
        <5> QED
          OBVIOUS
      <4>2. QED
        BY <3>1, <4>1
    <3>3. Run(job.base, Len(Part)) \subseteq Staged
      BY <3>2
    <3>4. QED
      BY <1>2, <3>3
  <2>4. Staged \in SUBSET Page
    BY <1>3 DEF Ledger
  <2>5. PhysicalInvariant' /\ Returned(page_states, page_states', Staged)
    BY <1>3, <2>1, <2>3, <2>4, ReleaseIsReturned
  <2>6. Stacks' = Stacks /\ Spaces' = Spaces
    BY <2>1 DEF Stacks, Spaces
  <2>7. Ledger(page_states', Stacks', Spaces', {}, FatPages, {})
    BY <1>3, <2>5, <2>6, ReturnedByStaged
  <2>8. 0 \in Page
    BY PhysicalMemoryAssumption DEF Page
  <2>9. /\ job'.slot = job.slot /\ job'.module = job.module
        /\ job'.base = None /\ job'.created = {}
        /\ job' \in [slot : Slot \cup {None}, module : Nat, part : Nat, page : Nat,
                     created : SUBSET Path, base : Page]
    BY <1>3, <2>1, <2>8 DEF RestTyped, None
  <2>10. RestTyped'
    BY <1>3, <1>4, <2>9 DEF RestTyped
  <2>11. Becomes(job.slot, Creating)
    BY <1>3, <2>1 DEF Becomes, Creating
  <2>12. StageOf(pc', Creating)
    BY <2>1 DEF StageOf
  <2>13. pc' \in InCreation \ Mapping /\ pc' \notin {"root", "part"}
    BY <2>1 DEF InCreation, Mapping
  <2>14. QED
    BY <1>3, <1>4, <2>5, <2>7, <2>9, <2>10, <2>11, <2>12, <2>13, PlainStep
<1>7. QED
  BY <1>5, <1>6

-----------------------------------------------------------------------------
(* Running, calling and leaving.                                            *)

CpuOK(c) == c \in [cr3 : Int, rsp : Int, entry_stack : Page,
                   current : Slot \cup {None}, deferred : Slot \cup {None}]

(* A step of the processor changes what it has loaded and nothing else.     *)
LEMMA ProcessorStep ==
    ASSUME IInv, pc \notin InCreation, pc' \notin InCreation, pc # "mounted",
           UNCHANGED <<pages, modules, processes, task_count, queue, job, fat>>,
           CpuOK(cpu'), ActiveIsLive'
    PROVE  IInv'
<1>1. /\ PhysicalInvariant /\ TypeOK /\ RestTyped
      /\ \A s \in Slot : UsedOnce(processes[s])
      /\ TablesNeeded /\ ProcessesWhole
  BY InvariantParts
<1>2. job = NoJob /\ Ledger(page_states, Stacks, Spaces, {}, FatPages, fat.old)
  BY QuietState
<1>3. PhysicalInvariant' /\ page_states' = page_states
  BY <1>1, PagesStay
<1>4. /\ processes' = processes /\ modules' = modules /\ job' = NoJob /\ fat' = fat
      /\ NoJob.base = None /\ NoJob.created = {}
  BY <1>2 DEF NoJob
<1>5. Stacks' = Stacks /\ Spaces' = Spaces /\ Staged' = {} /\ FatPages' = FatPages
  BY <1>4 DEF Stacks, Spaces, Staged, FatPages
<1>6. Ledger(page_states', Stacks', Spaces', Staged', FatPages', fat'.old)
  BY <1>2, <1>3, <1>4, <1>5
<1>7. RestTyped'
  BY <1>1 DEF RestTyped
<1>8. TablesNeeded'
  BY <1>1, <1>2, <1>4 DEF TablesNeeded
<1>9. CreationOrdered'
  BY <1>4 DEF CreationOrdered, InCreation, Mapping
<1>10. ProcessesWhole'
  BY <1>1, <1>2, <1>4 DEF ProcessesWhole
<1>11. \A s \in Slot : ProcessOK(processes'[s]) /\ UsedOnce(processes'[s])
  BY <1>1, <1>4, ProcessFacts
<1>12. modules' \in ModuleTables /\ DOMAIN processes' = Slot
  BY <1>1, <1>4 DEF TypeOK
<1>13. QED
  BY <1>3, <1>6, <1>7, <1>8, <1>9, <1>10, <1>11, <1>12, PartsMakeInvariant DEF CpuOK

(* What is loaded once a process has been activated.                        *)
LEMMA ActivatedFacts ==
    ASSUME IInv, NEW s \in Runnable
    PROVE  /\ s \in Slot /\ s # None /\ processes[s].state = "RUNNABLE" /\ s # cpu.deferred
           /\ processes[s].kernel_stack # None
           /\ CpuOK(Activated(s))
           /\ Activated(s).cr3 = processes[s].root
           /\ Activated(s).entry_stack = processes[s].kernel_stack
           /\ Activated(s).current = s
           /\ Activated(s).rsp = cpu.rsp /\ Activated(s).deferred = cpu.deferred
<1>1. TypeOK /\ ProcessesWhole
  BY InvariantParts
<1>2. s \in Slot /\ processes[s].state = "RUNNABLE" /\ s # cpu.deferred
  BY DEF Runnable
<1>3. s # None
  BY <1>2, SlotFacts
<1>4. processes[s].kernel_stack # None
  BY <1>1, <1>2 DEF ProcessesWhole
<1>5. processes[s].root \in Page /\ processes[s].kernel_stack \in Page
  BY <1>1, <1>2 DEF TypeOK
<1>6. Page \subseteq Int
  BY DEF Page
<1>7. CpuOK(cpu)
  BY <1>1 DEF TypeOK, CpuOK
<1>8. QED
  BY <1>2, <1>3, <1>4, <1>5, <1>6, <1>7 DEF Activated, CpuOK

(* The parts of ActiveIsLive, for the steps that change them.               *)
LEMMA LoadedFacts ==
    ASSUME IInv
    PROVE  /\ LoadedIsLive /\ SwitchOrdered /\ CpuOK(cpu) /\ TypeOK /\ ProcessesWhole
           /\ pc \in {"user", "syscall"} =>
                /\ cpu.current \in Slot /\ cpu.current # None /\ cpu.deferred = None
                /\ processes[cpu.current].state = "RUNNABLE"
                /\ cpu.cr3 = processes[cpu.current].root
                /\ cpu.entry_stack = processes[cpu.current].kernel_stack
           /\ pc = "user" => cpu.rsp = UserMode
           /\ pc = "syscall" => cpu.rsp = cpu.entry_stack
<1>1. LoadedIsLive /\ SwitchOrdered
  BY DEF IInv, ActiveIsLive
<1>2. TypeOK /\ ProcessesWhole
  BY InvariantParts
<1>3. CpuOK(cpu)
  BY <1>2 DEF TypeOK, CpuOK
<1>4. pc \in {"user", "syscall"} => cpu.current # None /\ cpu.current \in Slot
  BY <1>1, <1>3 DEF SwitchOrdered, CpuOK
<1>5. pc \in {"user", "syscall"} =>
        /\ cpu.deferred = None /\ processes[cpu.current].state = "RUNNABLE"
        /\ cpu.cr3 = processes[cpu.current].root
        /\ cpu.entry_stack = processes[cpu.current].kernel_stack
  BY <1>1, <1>4 DEF SwitchOrdered
<1>6. /\ pc = "user" => cpu.rsp = UserMode
      /\ pc = "syscall" => cpu.rsp = cpu.entry_stack
  BY <1>1 DEF SwitchOrdered
<1>7. QED
  BY <1>1, <1>2, <1>3, <1>4, <1>5, <1>6

(* The scheduler resumes a process.                                         *)
LEMMA RunKeeps ==
    ASSUME IInv, scheduler_run_current
    PROVE  IInv'
<1>1. /\ pc = "idle" /\ pc' = "user"
      /\ UNCHANGED <<pages, modules, processes, task_count, queue, job, fat>>
  BY DEF scheduler_run_current
<1>2. PICK s \in Runnable : cpu' = [Activated(s) EXCEPT !.rsp = UserMode]
  BY DEF scheduler_run_current
<1>3. pc \notin InCreation /\ pc' \notin InCreation /\ pc \notin Outside
  BY <1>1 DEF InCreation, Mapping, Outside
<1>4. cpu.deferred = None
  BY <1>3, KernelLoaded
<1>5. /\ s \in Slot /\ s # None /\ processes[s].state = "RUNNABLE" /\ CpuOK(Activated(s))
      /\ processes[s].kernel_stack # None
      /\ Activated(s).cr3 = processes[s].root
      /\ Activated(s).entry_stack = processes[s].kernel_stack
      /\ Activated(s).current = s /\ Activated(s).deferred = cpu.deferred
  BY ActivatedFacts
<1>6. /\ CpuOK(cpu') /\ cpu'.cr3 = processes'[s].root /\ cpu'.rsp = UserMode
      /\ cpu'.entry_stack = processes'[s].kernel_stack /\ cpu'.current = s
      /\ cpu'.deferred = None /\ processes'[s].state = "RUNNABLE"
      /\ processes'[s].kernel_stack # None
  BY <1>1, <1>2, <1>4, <1>5 DEF CpuOK, UserMode
<1>7. LoadedIsLive'
  BY <1>1, <1>5, <1>6 DEF LoadedIsLive
<1>8. SwitchOrdered'
  BY <1>1, <1>5, <1>6 DEF SwitchOrdered
<1>9. QED
  BY <1>1, <1>3, <1>6, <1>7, <1>8, ProcessorStep DEF ActiveIsLive

(* The timer switches to another process.                                   *)
LEMMA TimerKeeps ==
    ASSUME IInv, scheduler_on_timer_interrupt
    PROVE  IInv'
<1>1. /\ pc = "user" /\ pc' = "user"
      /\ UNCHANGED <<pages, modules, processes, task_count, queue, job, fat>>
  BY DEF scheduler_on_timer_interrupt
<1>2. PICK s \in Runnable : cpu' = Activated(s)
  BY DEF scheduler_on_timer_interrupt
<1>3. pc \notin InCreation /\ pc' \notin InCreation
  BY <1>1 DEF InCreation, Mapping
<1>4. cpu.deferred = None /\ cpu.rsp = UserMode
  BY <1>1, LoadedFacts
<1>5. /\ s \in Slot /\ s # None /\ processes[s].state = "RUNNABLE" /\ CpuOK(Activated(s))
      /\ processes[s].kernel_stack # None
      /\ Activated(s).cr3 = processes[s].root
      /\ Activated(s).entry_stack = processes[s].kernel_stack
      /\ Activated(s).current = s /\ Activated(s).deferred = cpu.deferred
      /\ Activated(s).rsp = cpu.rsp
  BY ActivatedFacts
<1>6. /\ CpuOK(cpu') /\ cpu'.cr3 = processes'[s].root /\ cpu'.rsp = UserMode
      /\ cpu'.entry_stack = processes'[s].kernel_stack /\ cpu'.current = s
      /\ cpu'.deferred = None /\ processes'[s].state = "RUNNABLE"
      /\ processes'[s].kernel_stack # None
  BY <1>1, <1>2, <1>4, <1>5
<1>7. LoadedIsLive'
  BY <1>1, <1>5, <1>6 DEF LoadedIsLive
<1>8. SwitchOrdered'
  BY <1>1, <1>5, <1>6 DEF SwitchOrdered
<1>9. QED
  BY <1>1, <1>3, <1>6, <1>7, <1>8, ProcessorStep DEF ActiveIsLive

(* A system call enters the kernel on the stack of its process.             *)
LEMMA EntryKeeps ==
    ASSUME IInv, SyscallEntry
    PROVE  IInv'
<1>1. /\ pc = "user" /\ pc' = "syscall"
      /\ cpu' = [cpu EXCEPT !.rsp = cpu.entry_stack]
      /\ UNCHANGED <<pages, modules, processes, task_count, queue, job, fat>>
  BY DEF SyscallEntry
<1>2. /\ CpuOK(cpu) /\ cpu.current \in Slot /\ cpu.current # None /\ cpu.deferred = None
      /\ processes[cpu.current].state = "RUNNABLE"
      /\ cpu.cr3 = processes[cpu.current].root
      /\ cpu.entry_stack = processes[cpu.current].kernel_stack
  BY <1>1, LoadedFacts
<1>3. pc \notin InCreation /\ pc' \notin InCreation
  BY <1>1 DEF InCreation, Mapping
<1>4. Page \subseteq Int
  BY DEF Page
<1>5. /\ CpuOK(cpu') /\ cpu'.cr3 = cpu.cr3 /\ cpu'.rsp = cpu.entry_stack
      /\ cpu'.entry_stack = cpu.entry_stack /\ cpu'.current = cpu.current /\ cpu'.deferred = None
  BY <1>1, <1>2, <1>4 DEF CpuOK
<1>6. LoadedIsLive'
  BY <1>1, <1>2, <1>5 DEF LoadedIsLive
<1>7. SwitchOrdered'
  BY <1>1, <1>2, <1>5 DEF SwitchOrdered
<1>8. QED
  BY <1>1, <1>3, <1>5, <1>6, <1>7, ProcessorStep DEF ActiveIsLive

(* The call returns to whoever is to run next; a process that exits is left *)
(* on its stack for one more step.                                          *)
LEMMA DispatchKeeps ==
    ASSUME IInv, syscall_dispatch_frame
    PROVE  IInv'
<1>1. /\ pc = "syscall" /\ pc' = "resume"
      /\ UNCHANGED <<pages, modules, processes, task_count, queue, job, fat>>
  BY DEF syscall_dispatch_frame
<1>2. /\ CpuOK(cpu) /\ cpu.current \in Slot /\ cpu.current # None /\ cpu.deferred = None
      /\ processes[cpu.current].state = "RUNNABLE"
      /\ cpu.entry_stack = processes[cpu.current].kernel_stack
      /\ cpu.rsp = cpu.entry_stack
  BY <1>1, LoadedFacts
<1>3. PICK exits \in BOOLEAN, next \in Slot \cup {None} :
        /\ next \in (IF exits THEN Runnable \ {cpu.current} ELSE Runnable) \cup {None}
        /\ cpu' = [(IF next # None THEN Activated(next)
                    ELSE [cpu EXCEPT !.cr3 = KernelRoot, !.current = None])
                   EXCEPT !.deferred = IF exits THEN cpu.current ELSE @]
  BY DEF syscall_dispatch_frame
<1> DEFINE leaving == IF exits THEN cpu.current ELSE None
<1>4. leaving \in Slot \cup {None} /\ (leaving # None => leaving = cpu.current)
  BY <1>2
<1>5. /\ CpuOK(cpu') /\ cpu'.rsp = cpu.rsp /\ cpu'.deferred = leaving /\ cpu'.current = next
      /\ next = None => cpu'.cr3 = KernelRoot
      /\ next # None =>
           /\ next \in Slot /\ next # leaving /\ processes[next].state = "RUNNABLE"
           /\ cpu'.cr3 = processes[next].root
           /\ cpu'.entry_stack = processes[next].kernel_stack
  <2>1. CASE next = None
    <3>1. cpu' = [[cpu EXCEPT !.cr3 = KernelRoot, !.current = None]
                  EXCEPT !.deferred = IF exits THEN cpu.current ELSE @]
      BY <1>3, <2>1
    <3>2. KernelRoot \in Int
      BY DEF KernelRoot
    <3>3. /\ CpuOK(cpu') /\ cpu'.rsp = cpu.rsp /\ cpu'.deferred = leaving
          /\ cpu'.current = None /\ cpu'.cr3 = KernelRoot
      BY <1>2, <3>1, <3>2 DEF CpuOK
    <3>4. QED
      BY <2>1, <3>3
  <2>2. CASE next # None
    <3>1. cpu' = [Activated(next) EXCEPT !.deferred = IF exits THEN cpu.current ELSE @]
      BY <1>3, <2>2
    <3>2. next \in Runnable /\ next # leaving
      BY <1>3, <2>2
    <3>3. /\ next \in Slot /\ processes[next].state = "RUNNABLE" /\ CpuOK(Activated(next))
          /\ Activated(next).cr3 = processes[next].root
          /\ Activated(next).entry_stack = processes[next].kernel_stack
          /\ Activated(next).current = next /\ Activated(next).rsp = cpu.rsp
          /\ Activated(next).deferred = cpu.deferred
      BY <3>2, ActivatedFacts
    <3>4. /\ CpuOK(cpu') /\ cpu'.rsp = cpu.rsp /\ cpu'.deferred = leaving
          /\ cpu'.current = next /\ cpu'.cr3 = processes[next].root
          /\ cpu'.entry_stack = processes[next].kernel_stack
      BY <1>2, <3>1, <3>3 DEF CpuOK
    <3>5. QED
      BY <2>2, <3>2, <3>3, <3>4
  <2>3. QED
    BY <2>1, <2>2
<1> HIDE DEF leaving
<1>6. pc \notin InCreation /\ pc' \notin InCreation
  BY <1>1 DEF InCreation, Mapping
<1>7. processes' = processes
  BY <1>1
<1>8. LoadedIsLive'
  <2>1. cpu'.cr3 = KernelRoot \/ \E s \in Slot : processes'[s].root = cpu'.cr3
    BY <1>5, <1>7
  <2>2. \E s \in Slot : processes'[s].kernel_stack = cpu'.rsp
    BY <1>2, <1>5, <1>7
  <2>3. QED
    BY <1>1, <2>1, <2>2 DEF LoadedIsLive
<1>9. SwitchOrdered'
  <2>1. \A s \in {cpu'.current, cpu'.deferred} \ {None} : processes'[s].state = "RUNNABLE"
    BY <1>2, <1>4, <1>5, <1>7
  <2>2. cpu'.deferred # None => pc' \in {"resume", "finish"} /\ cpu'.deferred # cpu'.current
    BY <1>1, <1>5
  <2>3. \E s \in Slot : processes'[s].state = "RUNNABLE" /\ processes'[s].kernel_stack = cpu'.rsp
    BY <1>2, <1>5, <1>7
  <2>4. IF cpu'.current = None THEN cpu'.cr3 = KernelRoot
        ELSE /\ pc' \in {"user", "syscall", "resume", "finish"}
             /\ cpu'.cr3 = processes'[cpu'.current].root
             /\ cpu'.entry_stack = processes'[cpu'.current].kernel_stack
    BY <1>1, <1>5, <1>7
  <2>5. QED
    BY <1>1, <2>1, <2>2, <2>3, <2>4 DEF SwitchOrdered
<1>10. QED
  BY <1>1, <1>5, <1>6, <1>8, <1>9, ProcessorStep DEF ActiveIsLive

(* The processor leaves the stack of the call.                              *)
LEMMA ResumeKeeps ==
    ASSUME IInv, x86_64_resume_user_context
    PROVE  IInv'
<1>1. /\ pc = "resume" /\ pc' = "finish"
      /\ cpu' = [cpu EXCEPT !.rsp = IF cpu.current = None THEN BootstrapStack ELSE cpu.entry_stack]
      /\ UNCHANGED <<pages, modules, processes, task_count, queue, job, fat>>
  BY DEF x86_64_resume_user_context
<1>2. LoadedIsLive /\ SwitchOrdered /\ CpuOK(cpu)
  BY LoadedFacts
<1>3. pc \notin InCreation /\ pc' \notin InCreation
  BY <1>1 DEF InCreation, Mapping
<1>4. Page \subseteq Int /\ BootstrapStack \in Int
  BY DEF Page, BootstrapStack
<1>5. /\ CpuOK(cpu') /\ cpu'.cr3 = cpu.cr3 /\ cpu'.entry_stack = cpu.entry_stack
      /\ cpu'.rsp = (IF cpu.current = None THEN BootstrapStack ELSE cpu.entry_stack)
      /\ cpu'.current = cpu.current /\ cpu'.deferred = cpu.deferred
  BY <1>1, <1>2, <1>4 DEF CpuOK
<1>6. /\ cpu.current = None => cpu.cr3 = KernelRoot
      /\ cpu.current # None => /\ cpu.current \in Slot
                               /\ cpu.cr3 = processes[cpu.current].root
                               /\ cpu.entry_stack = processes[cpu.current].kernel_stack
  BY <1>2 DEF SwitchOrdered, CpuOK
<1>7. LoadedIsLive'
  BY <1>1, <1>5, <1>6 DEF LoadedIsLive
<1>8. SwitchOrdered'
  BY <1>1, <1>2, <1>5, <1>6 DEF SwitchOrdered
<1>9. QED
  BY <1>1, <1>3, <1>5, <1>7, <1>8, ProcessorStep DEF ActiveIsLive

(* scheduler_finish_switch: by now neither the tables nor the stack of the  *)
(* process that exits are loaded, and it can give back what it has.         *)
LEMMA FinishKeeps ==
    ASSUME IInv, scheduler_finish_switch
    PROVE  IInv'
<1>1. /\ pc = "finish"
      /\ cpu' = [cpu EXCEPT !.deferred = None, !.rsp = IF cpu.current = None THEN @ ELSE UserMode]
      /\ pc' = IF cpu.current = None THEN "idle" ELSE "user"
      /\ UNCHANGED <<modules, task_count, queue, job, fat>>
  BY DEF scheduler_finish_switch
<1>2. /\ LoadedIsLive /\ SwitchOrdered /\ CpuOK(cpu) /\ TypeOK /\ ProcessesWhole
  BY LoadedFacts
<1>3. pc \notin InCreation /\ pc' \notin InCreation
  BY <1>1 DEF InCreation, Mapping
<1>4. /\ CpuOK(cpu') /\ cpu'.cr3 = cpu.cr3 /\ cpu'.entry_stack = cpu.entry_stack
      /\ cpu'.rsp = (IF cpu.current = None THEN cpu.rsp ELSE UserMode)
      /\ cpu'.current = cpu.current /\ cpu'.deferred = None
  <2> DEFINE stack == IF cpu.current = None THEN cpu.rsp ELSE UserMode
  <2>1. cpu' = [cpu EXCEPT !.deferred = None, !.rsp = stack]
    BY <1>1
  <2>2. stack \in Int
    BY <1>2 DEF CpuOK, UserMode
  <2> HIDE DEF stack
  <2>3. /\ CpuOK(cpu') /\ cpu'.cr3 = cpu.cr3 /\ cpu'.entry_stack = cpu.entry_stack
        /\ cpu'.rsp = stack /\ cpu'.current = cpu.current /\ cpu'.deferred = None
    BY <1>2, <2>1, <2>2 DEF CpuOK
  <2>4. QED
    BY <2>3 DEF stack
<1>5. /\ cpu.current = None => cpu.cr3 = KernelRoot /\ cpu.rsp = BootstrapStack
      /\ cpu.current # None => /\ cpu.current \in Slot /\ cpu.current # cpu.deferred
                               /\ processes[cpu.current].state = "RUNNABLE"
                               /\ processes[cpu.current].kernel_stack # None
                               /\ cpu.cr3 = processes[cpu.current].root
                               /\ cpu.entry_stack = processes[cpu.current].kernel_stack
  <2>1. cpu.current = None => cpu.cr3 = KernelRoot /\ cpu.rsp = BootstrapStack
    BY <1>1, <1>2 DEF SwitchOrdered
  <2>2. cpu.current # None => /\ cpu.current \in Slot /\ cpu.current # cpu.deferred
                              /\ processes[cpu.current].state = "RUNNABLE"
                              /\ cpu.cr3 = processes[cpu.current].root
                              /\ cpu.entry_stack = processes[cpu.current].kernel_stack
    BY <1>2 DEF SwitchOrdered, CpuOK
  <2>3. QED
    BY <1>2, <2>1, <2>2 DEF ProcessesWhole
<1>6. cpu.current # None => processes'[cpu.current] = processes[cpu.current]
  <2>1. CASE cpu.deferred = None
    BY <2>1 DEF scheduler_finish_switch
  <2>2. CASE cpu.deferred # None
    <3>1. processes' = [processes EXCEPT ![cpu.deferred] =
              [Unused EXCEPT !.state = "EXITED", !.identity = processes[cpu.deferred].identity]]
      BY <2>2 DEF scheduler_finish_switch
    <3>2. QED
      BY <1>2, <1>5, <3>1 DEF TypeOK
  <2>3. QED
    BY <2>1, <2>2
<1>7. LoadedIsLive'
  BY <1>1, <1>4, <1>5, <1>6 DEF LoadedIsLive
<1>8. SwitchOrdered'
  BY <1>1, <1>4, <1>5, <1>6 DEF SwitchOrdered
<1>9. ActiveIsLive'
  BY <1>7, <1>8 DEF ActiveIsLive
<1>10. CASE cpu.deferred = None
  <2>1. UNCHANGED <<pages, processes>>
    BY <1>10 DEF scheduler_finish_switch
  <2>2. QED
    BY <1>1, <1>3, <1>4, <1>9, <2>1, ProcessorStep
<1>11. CASE cpu.deferred # None
  <2> DEFINE s == cpu.deferred
  <2> DEFINE p == processes[s]
  <2> DEFINE q == [Unused EXCEPT !.state = "EXITED", !.identity = p.identity]
  <2>1. s \in Slot
    BY <1>2, <1>11 DEF CpuOK
  <2>2. /\ Release(KernelStack(p) \cup AddressSpace(p))
        /\ processes' = [processes EXCEPT ![s] = q]
    BY <1>11 DEF scheduler_finish_switch
  <2>3. DOMAIN q = DOMAIN Unused /\ q.state = "EXITED" /\ Empty(q)
    BY UnusedIsEmpty, UnusedFields DEF Empty
  <2>4. Becomes(s, q)
    BY <1>2, <2>1, <2>2 DEF Becomes, TypeOK
  <2> HIDE DEF q, s
  <2>5. /\ PhysicalInvariant'
        /\ Ledger(page_states', Stacks', Spaces', Staged, FatPages, fat.old)
        /\ ProcessOK(q) /\ UsedOnce(q) /\ Whole(q, FALSE)
    BY <2>1, <2>2, <2>3, <2>4, GivenBack
  <2>6. /\ RestTyped /\ TablesNeeded /\ \A t \in Slot : UsedOnce(processes[t])
    BY InvariantParts
  <2>7. job = NoJob /\ Staged = {}
    BY <1>3, QuietState
  <2>8. /\ modules' = modules /\ job' = NoJob /\ fat' = fat
        /\ NoJob.base = None /\ NoJob.created = {} /\ NoJob.slot = None
    BY <1>1, <2>7 DEF NoJob
  <2>9. Staged' = {} /\ FatPages' = FatPages
    BY <2>8 DEF Staged, FatPages
  <2>10. Ledger(page_states', Stacks', Spaces', Staged', FatPages', fat'.old)
    BY <2>5, <2>7, <2>8, <2>9
  <2>11. RestTyped'
    BY <1>1, <2>6 DEF RestTyped
  <2>12. CreationOrdered'
    BY <1>3, <2>8 DEF CreationOrdered, InCreation, Mapping
  <2>13. /\ DOMAIN processes' = Slot /\ processes'[s] = q
         /\ \A t \in Slot \ {s} : processes'[t] = processes[t]
    BY <2>4 DEF Becomes
  <2>14. \A t \in Slot : ProcessOK(processes'[t]) /\ UsedOnce(processes'[t])
    BY <1>2, <2>5, <2>6, <2>13, ProcessFacts
  <2>15. TablesNeeded'
    BY <2>3, <2>6, <2>7, <2>8, <2>13 DEF TablesNeeded, Empty
  <2>16. ProcessesWhole'
    <3>1. fat'.old # {} => pc' = "mounted"
      BY <1>1, <1>2, <2>8 DEF ProcessesWhole
    <3>2. \A t \in Slot :
            /\ processes'[t].state = "RUNNABLE" =>
                 processes'[t].root # None /\ processes'[t].kernel_stack # None
            /\ processes'[t].state = "CREATED" => t = job'.slot
            /\ processes'[t].state \in {"UNUSED", "EXITED"} =>
                 /\ processes'[t].root = None /\ processes'[t].kernel_stack = None
                 /\ DOMAIN processes'[t].tables = {} /\ DOMAIN processes'[t].leaves = {}
      BY <1>2, <2>3, <2>7, <2>8, <2>13 DEF ProcessesWhole, Empty
    <3>3. QED
      BY <3>1, <3>2 DEF ProcessesWhole
  <2>17. modules' \in ModuleTables
    BY <1>2, <2>8 DEF TypeOK
  <2>18. QED
    BY <1>4, <1>9, <2>5, <2>10, <2>11, <2>12, <2>13, <2>14, <2>15, <2>16, <2>17,
       PartsMakeInvariant DEF CpuOK
<1>12. QED
  BY <1>10, <1>11

-----------------------------------------------------------------------------
(* The invariant.                                                           *)

LEMMA InitialSound == Init => IInv
<1> SUFFICES ASSUME Init
             PROVE  IInv
  OBVIOUS
<1>1. /\ physical_memory_initialize /\ modules \in ModuleTables
      /\ processes = [s \in Slot |-> Unused] /\ task_count = 0 /\ pc = "validate"
      /\ queue = DOMAIN modules /\ job = NoJob
      /\ cpu = [cr3 |-> KernelRoot, rsp |-> BootstrapStack, entry_stack |-> None,
                current |-> None, deferred |-> None]
      /\ fat = [base |-> None, count |-> 0, old |-> {}]
  BY DEF Init
<1>2. PhysicalInvariant
  BY <1>1, InitialInvariant
<1>3. SearchFromStartIsComplete
  BY <1>2, SearchOverlooksNothing
<1>4. Empty(Unused) /\ Unused.state = "UNUSED"
  BY UnusedIsEmpty
<1>5. /\ ProcessOK(Unused) /\ UsedOnce(Unused)
      /\ KernelStack(Unused) = {} /\ AddressSpace(Unused) = {}
  BY <1>4, EmptyFacts
<1>6. \A s \in Slot : processes[s] = Unused
  BY <1>1
<1>7. 0 \in Page
  BY PhysicalMemoryAssumption DEF Page
<1>8. TypeOK
  <2>1. task_count \in 0 .. TaskCapacity /\ queue \subseteq DOMAIN modules
    BY <1>1, ProcessesAssumption
  <2>2. job \in [slot : Slot \cup {None}, module : Nat, part : Nat, page : Nat,
                 created : SUBSET Path, base : Page]
    BY <1>1, <1>7 DEF NoJob, None
  <2>3. CpuOK(cpu)
    BY <1>1, <1>7 DEF CpuOK, None, KernelRoot, BootstrapStack
  <2>4. fat \in [base : Page, count : Nat, old : SUBSET Page]
    BY <1>1, <1>7 DEF None
  <2>5. \A s \in Slot : ProcessOK(processes[s])
    BY <1>5, <1>6
  <2>6. DOMAIN processes = Slot
    BY <1>1
  <2>7. QED
    BY <1>1, <1>2, <2>1, <2>2, <2>3, <2>4, <2>5, <2>6 DEF TypeOK, PhysicalInvariant, ProcessOK, CpuOK
<1>9. NoJob.base = None /\ NoJob.created = {}
  BY DEF NoJob
<1>10. PagesAccounted
  <2>1. \A p \in Page : page_states[p] # "ALLOCATED"
    BY <1>1 DEF physical_memory_initialize, InitialStates
  <2>2. Staged = {} /\ FatPages = {} /\ fat.old = {}
    BY <1>1, <1>9 DEF Staged, FatPages
  <2>3. \A s \in Slot : Stacks[s] = {} /\ Spaces[s] = {}
    BY <1>5, <1>6 DEF Stacks, Spaces
  <2>4. Ledger(page_states, Stacks, Spaces, Staged, FatPages, fat.old)
    BY <2>1, <2>2, <2>3 DEF Ledger
  <2>5. QED
    BY <1>5, <1>6, <2>4, InColumns
<1>11. TablesNeeded
  BY <1>4, <1>6 DEF TablesNeeded, Empty
<1>12. CreationOrdered
  BY <1>1, <1>9 DEF CreationOrdered, InCreation, Mapping
<1>13. ProcessesWhole
  BY <1>1, <1>4, <1>6 DEF ProcessesWhole, Empty
<1>14. ActiveIsLive
  BY <1>1 DEF ActiveIsLive, LoadedIsLive, SwitchOrdered
<1>15. QED
  BY <1>2, <1>3, <1>8, <1>10, <1>11, <1>12, <1>13, <1>14
     DEF IInv, AllocatorSound, MemoryReturned, PhysicalInvariant

(* A step that changes nothing.                                             *)
LEMMA StutteringKeeps ==
    ASSUME IInv, UNCHANGED vars
    PROVE  IInv'
<1>1. UNCHANGED <<pages, modules, processes, task_count, pc, queue, job, cpu, fat>>
  BY DEF vars
<1>2. /\ PhysicalInvariant /\ TypeOK /\ RestTyped
      /\ Ledger(page_states, Stacks, Spaces, Staged, FatPages, fat.old)
      /\ \A s \in Slot : UsedOnce(processes[s])
      /\ TablesNeeded /\ CreationOrdered /\ ProcessesWhole
  BY InvariantParts
<1>3. PhysicalInvariant' /\ page_states' = page_states
  BY <1>1, <1>2, PagesStay
<1>4. Creating' = Creating /\ Module' = Module /\ Part' = Part /\ VirtualPage' = VirtualPage
  BY <1>1 DEF Creating, Module, Part, VirtualPage
<1>5. Stacks' = Stacks /\ Spaces' = Spaces /\ Staged' = Staged /\ FatPages' = FatPages
  BY <1>1, <1>4 DEF Stacks, Spaces, Staged, FatPages
<1>6. Ledger(page_states', Stacks', Spaces', Staged', FatPages', fat'.old)
  BY <1>1, <1>2, <1>3, <1>5
<1>7. RestTyped' /\ TablesNeeded' /\ ProcessesWhole'
  BY <1>1, <1>2 DEF RestTyped, TablesNeeded, ProcessesWhole
<1>8. CreationOrdered'
  BY <1>1, <1>2, <1>4 DEF CreationOrdered
<1>9. ActiveIsLive'
  BY <1>1 DEF IInv, ActiveIsLive, LoadedIsLive, SwitchOrdered
<1>10. \A s \in Slot : ProcessOK(processes'[s]) /\ UsedOnce(processes'[s])
  BY <1>1, <1>2, ProcessFacts
<1>11. modules' \in ModuleTables /\ DOMAIN processes' = Slot /\ CpuOK(cpu')
  BY <1>1, <1>2 DEF TypeOK, CpuOK
<1>12. QED
  BY <1>3, <1>6, <1>7, <1>8, <1>9, <1>10, <1>11, PartsMakeInvariant DEF CpuOK

(* One step for each operation of the boot, of a creation and of a running  *)
(* system.                                                                  *)
LEMMA InvariantStep == IInv /\ [Next]_vars => IInv'
<1> SUFFICES ASSUME IInv, [Next]_vars
             PROVE  IInv'
  OBVIOUS
<1>1. ASSUME Boot
      PROVE  IInv'
  <2>1. CASE ValidateModules \/ StartModule \/ BootDone
    BY <2>1, ValidateModulesKeeps, StartModuleKeeps, BootDoneKeeps
  <2>2. CASE virtual_address_space_create \/ AllocatePart \/ AllocateKernelStack
    BY <2>2, RootKeeps, AllocatePartKeeps, KernelStackKeeps
  <2>3. CASE ensure_next_table \/ map_one
    BY <2>3, NextTableKeeps, MapKeeps
  <2>4. CASE UndoTables \/ UndoPages
    BY <2>4, UndoTablesKeeps, UndoPagesKeeps
  <2>5. CASE launch_process \/ process_destroy
    BY <2>5, LaunchKeeps, DestroyKeeps
  <2>6. QED
    BY <1>1, <2>1, <2>2, <2>3, <2>4, <2>5 DEF Boot, Creation
<1>2. ASSUME Running
      PROVE  IInv'
  <2>1. CASE scheduler_run_current \/ scheduler_on_timer_interrupt
    BY <2>1, RunKeeps, TimerKeeps
  <2>2. CASE SyscallEntry \/ syscall_dispatch_frame
    BY <2>2, EntryKeeps, DispatchKeeps
  <2>3. CASE x86_64_resume_user_context \/ scheduler_finish_switch
    BY <2>3, ResumeKeeps, FinishKeeps
  <2>4. CASE \E s \in Slot : process_collect(s) \/ virtual_unmap_pages(s)
    BY <2>4, CollectKeeps, UnmapKeeps
  <2>5. CASE \E n \in FatSizes : runtime_mount_ready(n)
    BY <2>5, MountKeeps
  <2>6. CASE FreeOldFat \/ Reclaim
    BY <2>6, FreeOldFatKeeps, ReclaimStepKeeps
  <2>7. QED
    BY <1>2, <2>1, <2>2, <2>3, <2>4, <2>5, <2>6 DEF Running
<1>3. CASE Halted \/ scheduler_idle_loop \/ UNCHANGED vars
  BY <1>3, StutteringKeeps DEF Halted, scheduler_idle_loop
<1>4. QED
  BY <1>1, <1>2, <1>3 DEF Next

(* Hence it holds in every reachable state.                                 *)
LEMMA InvariantAlways == Spec => []IInv
<1>1. QED
  BY InitialSound, InvariantStep, PTL DEF Spec

-----------------------------------------------------------------------------
(* The page allocator keeps its books whatever its clients do: the counters *)
(* agree with the page states, no reserved page is ever handed out, and a   *)
(* search that starts at the first page overlooks no free run               *)
(* (kernel/memory/physical.c), for every memory map.                        *)
THEOREM AllocatorStaysSound == Spec => []AllocatorSound
<1>1. IInv => AllocatorSound
  BY DEF IInv
<1>2. QED
  BY <1>1, InvariantAlways, PTL

(* At every step of a boot, of a creation that fails anywhere and of an     *)
(* exit, each allocated page has exactly one owner, no page table is left   *)
(* empty, and what has been begun can still be undone                       *)
(* (process_create_from_module, virtual_map_pages, process_mark_exited).    *)
THEOREM MemoryComesBack == Spec => []MemoryReturned
<1>1. IInv => MemoryReturned
  BY DEF IInv
<1>2. QED
  BY <1>1, InvariantAlways, PTL

(* The tables in CR3 and the stack in use always belong to the kernel or to *)
(* a process that still has them, however many processes exit, block and    *)
(* are preempted (syscall_dispatch_frame, scheduler_finish_switch).         *)
THEOREM ActiveStaysLive == Spec => []ActiveIsLive
<1>1. IInv => ActiveIsLive
  BY DEF IInv
<1>2. QED
  BY <1>1, InvariantAlways, PTL
=============================================================================
