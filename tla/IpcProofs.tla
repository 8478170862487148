----------------------------- MODULE IpcProofs -----------------------------
(***************************************************************************)
(* Proofs about Ipc for every number of processes, endpoints, handles and   *)
(* services and every queue depth: references are counted, messages arrive  *)
(* in order and nobody sleeps through one, a closed handle never resolves   *)
(* again, and a session that looks current is.                              *)
(***************************************************************************)
EXTENDS Ipc, FiniteSetTheorems, TLAPS

(* The inductive invariant without the handle counters: the references keep *)
(* an endpoint in use from being cleared, on which everything else rests.   *)
IInv == NoMessageMissed /\ ReferencesCounted /\ SessionCurrent

-----------------------------------------------------------------------------
(* Arithmetic of a ring: one turn at most is taken off.                     *)
LEMMA Wrap ==
    ASSUME NEW c \in Nat \ {0}, NEW a \in Nat, a < 2 * c
    PROVE  a % c = IF a < c THEN a ELSE a - c
<1>1. CASE a < c
  BY <1>1
<1>2. CASE ~ (a < c)
  BY <1>2
<1>3. QED
  BY <1>1, <1>2

(* Counting up, a slot's counter stays below the mask.                      *)
LEMMA NextCounter ==
    ASSUME NEW n \in Counter
    PROVE  /\ next_generation(n) \in Counter
           /\ n < CounterMask => next_generation(n) = n + 1
<1>1. n + 1 \in Nat /\ CounterMask + 1 \in Nat \ {0} /\ n + 1 < 2 * (CounterMask + 1)
  BY IpcAssumption DEF Counter
<1>2. (n + 1) % (CounterMask + 1) = IF n + 1 < CounterMask + 1 THEN n + 1
                                    ELSE (n + 1) - (CounterMask + 1)
  BY <1>1, Wrap
<1>3. QED
  BY <1>2, IpcAssumption DEF next_generation, Counter

(* Positions of a ring of c places with n messages from h on.               *)
LEMMA RingPositions ==
    ASSUME NEW c \in Nat \ {0}, NEW h \in Nat, h < c, NEW n \in Nat, n <= c
    PROVE  /\ n < c => \A i \in 1 .. n : (h + i - 1) % c # (h + n) % c
           /\ n < c => (((h + n) % c) + 1) % c = (h + (n + 1)) % c
           /\ \A i \in 1 .. c : (((h + 1) % c) + i - 1) % c = (h + (i + 1) - 1) % c
           /\ n > 0 => (h + n) % c = (((h + 1) % c) + (n - 1)) % c
           /\ \A a \in Nat : a % c \in 0 .. c - 1
<1>1. \A a \in Nat : a < 2 * c => a % c = IF a < c THEN a ELSE a - c
  BY Wrap
<1>2. ASSUME NEW i \in 1 .. c PROVE (((h + 1) % c) + i - 1) % c = (h + (i + 1) - 1) % c
  <2>1. (h + 1) % c = IF h + 1 < c THEN h + 1 ELSE (h + 1) - c
    BY <1>1
  <2>2. (((h + 1) % c) + i) - 1 \in Nat /\ (((h + 1) % c) + i) - 1 < 2 * c
    BY <2>1
  <2>3. h + (i + 1) - 1 \in Nat /\ h + (i + 1) - 1 < 2 * c
    OBVIOUS
  <2>4. QED
    BY <1>1, <2>1, <2>2, <2>3
<1>3. ASSUME n < c, NEW i \in 1 .. n PROVE (h + i - 1) % c # (h + n) % c
  <2>1. h + i - 1 \in Nat /\ h + i - 1 < 2 * c /\ h + n \in Nat /\ h + n < 2 * c
    BY <1>3
  <2>2. QED
    BY <1>1, <1>3, <2>1
<1>4. ASSUME n < c PROVE (((h + n) % c) + 1) % c = (h + (n + 1)) % c
  <2>1. h + n \in Nat /\ h + n < 2 * c /\ h + (n + 1) \in Nat /\ h + (n + 1) < 2 * c
    BY <1>4
  <2>2. ((h + n) % c) + 1 \in Nat /\ ((h + n) % c) + 1 < 2 * c
    BY <1>1, <2>1
  <2>3. QED
    BY <1>1, <2>1, <2>2
<1>5. ASSUME n > 0 PROVE (h + n) % c = (((h + 1) % c) + (n - 1)) % c
  <2> DEFINE m == (h + 1) % c
             b == m + (n - 1)
  <2>1. m = IF h + 1 < c THEN h + 1 ELSE (h + 1) - c
    BY <1>1
  <2>2. b \in Nat /\ b < 2 * c
    BY <1>5, <2>1
  <2>3. h + n \in Nat /\ h + n < 2 * c
    OBVIOUS
  <2>4. (h + n) % c = IF h + n < c THEN h + n ELSE h + n - c
    BY <1>1, <2>3
  <2>5. b = IF h + 1 < c THEN h + n ELSE h + n - c
    BY <1>5, <2>1
  <2> HIDE DEF b
  <2>6. b % c = IF b < c THEN b ELSE b - c
    BY <1>1, <2>2
  <2>7. b % c = (h + n) % c
    BY <1>5, <2>2, <2>4, <2>5, <2>6
  <2>8. QED
    BY <2>7 DEF b
<1>6. \A a \in Nat : a % c \in 0 .. c - 1
  OBVIOUS
<1>7. QED
  BY <1>2, <1>3, <1>4, <1>5, <1>6

-----------------------------------------------------------------------------
(* The wait queues: what blocking, waking the first and clearing do to them *)
(* and to the processes.                                                    *)
Place == Endpoint \X Side
Status == {"ready", "blocked", "exited"}

(* A ready process that goes to the end of a queue is blocked in one place. *)
LEMMA QueuedAppend ==
    ASSUME NEW Q \in [Place -> Seq(Process)], NEW P \in [Process -> Status], Queued(Q, P),
           NEW w \in Place, NEW p \in Process, P[p] = "ready"
    PROVE  Queued([Q EXCEPT ![w] = Append(@, p)], [P EXCEPT ![p] = "blocked"])
<1> DEFINE Q2 == [Q EXCEPT ![w] = Append(@, p)]
           P2 == [P EXCEPT ![p] = "blocked"]
           n == Len(Q[w])
<1>1. /\ n \in Nat /\ DOMAIN Q[w] = 1 .. n
      /\ Q2[w] = Append(Q[w], p) /\ DOMAIN Q2[w] = 1 .. n + 1
      /\ \A i \in 1 .. n : Q2[w][i] = Q[w][i]
      /\ Q2[w][n + 1] = p
      /\ \A x \in Place : x # w => Q2[x] = Q[x]
  OBVIOUS
<1>2. \A x \in Place : \A i \in DOMAIN Q[x] : Q[x][i] # p /\ Q[x][i] \in Process
  BY DEF Queued, Place
<1>3. /\ \A x \in Place : \A i : i \in DOMAIN Q2[x] <=> (i \in DOMAIN Q[x] \/ (x = w /\ i = n + 1))
      /\ \A x \in Place : \A i \in DOMAIN Q[x] : Q2[x][i] = Q[x][i]
      /\ n + 1 \notin DOMAIN Q[w]
  BY <1>1
<1>4. P2[p] = "blocked" /\ \A q \in Process : q # p => P2[q] = P[q]
  OBVIOUS
<1>5. Q2[w][n + 1] = p
  BY <1>1
<1> HIDE DEF Q2, P2, n
<1>6. ASSUME NEW q \in Process
      PROVE  P2[q] = "blocked" <=> \E x \in Place : \E i \in DOMAIN Q2[x] : Q2[x][i] = q
  BY <1>2, <1>3, <1>4, <1>5, SMTT(30) DEF Queued, Place
<1>7. ASSUME NEW x \in Place, NEW y \in Place, NEW i \in DOMAIN Q2[x], NEW j \in DOMAIN Q2[y],
             Q2[x][i] = Q2[y][j]
      PROVE  x = y /\ i = j
  <2>1. \A a, b \in Place : \A k \in DOMAIN Q[a], l \in DOMAIN Q[b] :
          Q[a][k] = Q[b][l] => a = b /\ k = l
    BY DEF Queued, Place
  <2>2. \A a \in Place : \A k \in DOMAIN Q2[a] :
          \/ k \in DOMAIN Q[a] /\ Q2[a][k] = Q[a][k] /\ Q2[a][k] # p
          \/ a = w /\ k = n + 1 /\ Q2[a][k] = p
    BY <1>2, <1>3, <1>5
  <2>3. CASE Q2[x][i] = p
    BY <1>7, <2>2, <2>3
  <2>4. CASE Q2[x][i] # p
    <3>1. /\ i \in DOMAIN Q[x] /\ Q2[x][i] = Q[x][i]
          /\ j \in DOMAIN Q[y] /\ Q2[y][j] = Q[y][j]
      BY <1>7, <2>2, <2>4
    <3>2. Q[x][i] = Q[y][j]
      BY <1>7, <3>1
    <3>3. QED
      BY <2>1, <3>1, <3>2
  <2>5. QED
    BY <2>3, <2>4
<1>8. QED
  BY <1>6, <1>7 DEF Queued, Place, Q2, P2

(* The first of a queue leaves it and is ready.                             *)
LEMMA QueuedPop ==
    ASSUME NEW Q \in [Place -> Seq(Process)], NEW P \in [Process -> Status], Queued(Q, P),
           NEW w \in Place, Q[w] # <<>>
    PROVE  Queued([Q EXCEPT ![w] = Tail(@)], [P EXCEPT ![Head(Q[w])] = "ready"])
<1> DEFINE Q2 == [Q EXCEPT ![w] = Tail(@)]
           p == Q[w][1]
           P2 == [P EXCEPT ![p] = "ready"]
           n == Len(Q[w])
<1>1. /\ n \in Nat \ {0} /\ DOMAIN Q[w] = 1 .. n /\ p \in Process
      /\ Q2[w] = Tail(Q[w]) /\ DOMAIN Q2[w] = 1 .. n - 1
      /\ \A i \in 1 .. n - 1 : Q2[w][i] = Q[w][i + 1] /\ i + 1 \in 1 .. n /\ i + 1 # 1
      /\ \A x \in Place : x # w => Q2[x] = Q[x]
  OBVIOUS
<1>2. \A i \in 1 .. n : i # 1 => i - 1 \in 1 .. n - 1 /\ Q2[w][i - 1] = Q[w][i]
  BY <1>1
<1>3. \A x \in Place : \A i \in DOMAIN Q[x] : Q[x][i] = p => x = w /\ i = 1
  BY <1>1 DEF Queued, Place
<1>4. P2[p] = "ready" /\ \A q \in Process : q # p => P2[q] = P[q]
  BY <1>1
<1>5. Head(Q[w]) = p /\ 1 \in 1 .. n
  BY <1>1
<1>6. \A i, j \in 1 .. n - 1 : i + 1 = j + 1 => i = j
  BY <1>1
<1> HIDE DEF Q2, P2, n, p
<1>7. ASSUME NEW q \in Process
      PROVE  P2[q] = "blocked" <=> \E x \in Place : \E i \in DOMAIN Q2[x] : Q2[x][i] = q
  <2>1. ASSUME NEW x \in Place, NEW i \in DOMAIN Q2[x], Q2[x][i] = q PROVE P2[q] = "blocked"
    <3>1. CASE x = w
      <4>1. i \in 1 .. n - 1
        BY <1>1, <3>1
      <4>2. Q[w][i + 1] = q /\ i + 1 \in DOMAIN Q[w] /\ i + 1 # 1
        BY <1>1, <2>1, <3>1, <4>1
      <4>3. QED
        BY <1>3, <1>4, <4>2 DEF Queued, Place
    <3>2. CASE x # w
      <4>1. Q[x][i] = q /\ i \in DOMAIN Q[x]
        BY <1>1, <2>1, <3>2
      <4>2. QED
        BY <1>3, <1>4, <3>2, <4>1 DEF Queued, Place
    <3>3. QED
      BY <3>1, <3>2
  <2>2. ASSUME P2[q] = "blocked" PROVE \E x \in Place : \E i \in DOMAIN Q2[x] : Q2[x][i] = q
    <3>1. q # p /\ P[q] = "blocked"
      BY <1>4, <2>2
    <3>2. PICK x \in Place : \E i \in DOMAIN Q[x] : Q[x][i] = q
      BY <3>1 DEF Queued, Place
    <3>3. PICK i \in DOMAIN Q[x] : Q[x][i] = q
      BY <3>2
    <3>4. CASE x = w
      <4>1. i \in 1 .. n /\ i # 1
        BY <1>1, <3>1, <3>3, <3>4 DEF p
      <4>2. QED
        BY <1>1, <1>2, <3>3, <3>4, <4>1
    <3>5. CASE x # w
      BY <1>1, <3>3, <3>5
    <3>6. QED
      BY <3>4, <3>5
  <2>3. QED
    BY <2>1, <2>2
<1>8. ASSUME NEW x \in Place, NEW y \in Place, NEW i \in DOMAIN Q2[x], NEW j \in DOMAIN Q2[y],
             Q2[x][i] = Q2[y][j]
      PROVE  x = y /\ i = j
  <2>1. \A z \in Place : \A k \in DOMAIN Q2[z] :
          IF z = w THEN /\ k \in 1 .. n - 1 /\ k + 1 \in DOMAIN Q[z] /\ Q2[z][k] = Q[z][k + 1]
                   ELSE k \in DOMAIN Q[z] /\ Q2[z][k] = Q[z][k]
    BY <1>1
  <2>2. \A a, b \in Place : \A k \in DOMAIN Q[a], l \in DOMAIN Q[b] :
          Q[a][k] = Q[b][l] => a = b /\ k = l
    BY DEF Queued, Place
  <2>3. x = y
    <3> DEFINE k == IF x = w THEN i + 1 ELSE i
               l == IF y = w THEN j + 1 ELSE j
    <3>1. k \in DOMAIN Q[x] /\ Q2[x][i] = Q[x][k]
      BY <2>1
    <3>2. l \in DOMAIN Q[y] /\ Q2[y][j] = Q[y][l]
      BY <2>1
    <3> HIDE DEF k, l
    <3>3. QED
      BY <1>8, <2>2, <3>1, <3>2
  <2>4. CASE x = w
    BY <1>6, <1>8, <2>1, <2>2, <2>3, <2>4
  <2>5. CASE x # w
    BY <1>8, <2>1, <2>2, <2>3, <2>5
  <2>6. QED
    BY <2>3, <2>4, <2>5
<1>9. QED
  BY <1>5, <1>7, <1>8 DEF Queued, Place, Q2, P2

(* The queues of the endpoints that are gone are emptied, and just the      *)
(* processes waiting there are blocked no longer.                           *)
Clears(Q, P, Q2, P2, gone) ==
    /\ \A w \in Place : Q2[w] = IF w[1] \in gone THEN <<>> ELSE Q[w]
    /\ \A p \in Process : P2[p] = "blocked" <=>
         P[p] = "blocked" /\ ~ \E w \in Place : w[1] \in gone /\ \E i \in DOMAIN Q[w] : Q[w][i] = p

(* A queue that is cleared lets everyone on it go.                          *)
LEMMA QueuedClear ==
    ASSUME NEW Q \in [Place -> Seq(Process)], NEW P \in [Process -> Status], Queued(Q, P),
           NEW Q2, NEW P2, NEW gone, Clears(Q, P, Q2, P2, gone)
    PROVE  Queued(Q2, P2)
<1> USE DEF Clears
<1>1. \A w \in Place : \A i \in DOMAIN Q2[w] : w[1] \notin gone /\ Q2[w] = Q[w]
  OBVIOUS
<1>2. ASSUME NEW p \in Process
      PROVE  P2[p] = "blocked" <=> \E w \in Place : \E i \in DOMAIN Q2[w] : Q2[w][i] = p
  <2>1. ASSUME P2[p] = "blocked" PROVE \E w \in Place : \E i \in DOMAIN Q2[w] : Q2[w][i] = p
    <3>1. PICK w \in Place : \E i \in DOMAIN Q[w] : Q[w][i] = p
      BY <2>1 DEF Queued, Place
    <3>2. w[1] \notin gone
      BY <2>1, <3>1
    <3>3. QED
      BY <3>1, <3>2
  <2>2. ASSUME NEW w \in Place, NEW i \in DOMAIN Q2[w], Q2[w][i] = p PROVE P2[p] = "blocked"
    <3>1. w[1] \notin gone /\ i \in DOMAIN Q[w] /\ Q[w][i] = p
      BY <1>1, <2>2
    <3>2. P[p] = "blocked"
      BY <3>1 DEF Queued, Place
    <3>3. \A x \in Place : \A j \in DOMAIN Q[x] : Q[x][j] = p => x = w
      BY <3>1 DEF Queued, Place
    <3>4. QED
      BY <3>1, <3>2, <3>3
  <2>3. QED
    BY <2>1, <2>2
<1>3. ASSUME NEW x \in Place, NEW y \in Place, NEW i \in DOMAIN Q2[x], NEW j \in DOMAIN Q2[y],
             Q2[x][i] = Q2[y][j]
      PROVE  x = y /\ i = j
  BY <1>1, <1>3 DEF Queued, Place
<1>4. QED
  BY <1>2, <1>3 DEF Queued, Place

-----------------------------------------------------------------------------
(* Counting references.                                                     *)
HandleTables == [Process -> [HandleSlot -> HandleRecord]]
HoldersOf(hs, e) == {h \in Process \X HandleSlot : hs[h[1]][h[2]].object = e}
RegistrarsOf(ss, e) == {v \in Service : ss[v].endpoint = e}

(* The tables are finite, and so are the sets of references.                *)
LEMMA Finiteness ==
    ASSUME NEW X
    PROVE  /\ \A T \in SUBSET (Process \X HandleSlot) :
                IsFiniteSet(T) /\ Cardinality(T) \in Nat
           /\ \A T \in SUBSET Service : IsFiniteSet(T) /\ Cardinality(T) \in Nat
           /\ \A T \in SUBSET HandleSlot : IsFiniteSet(T) /\ Cardinality(T) \in Nat
           /\ \A e : /\ HoldersOf(X, e) \in SUBSET (Process \X HandleSlot)
                     /\ RegistrarsOf(X, e) \in SUBSET Service
<1>1. IsFiniteSet(HandleSlot)
  BY FS_Interval, IpcAssumption DEF HandleSlot
<1>2. IsFiniteSet(Process \X HandleSlot)
  BY <1>1, FS_Product, IpcAssumption
<1>3. \A S, T : IsFiniteSet(S) /\ T \in SUBSET S => IsFiniteSet(T) /\ Cardinality(T) \in Nat
  BY FS_Subset, FS_CardinalityType
<1>4. QED
  BY <1>1, <1>2, <1>3, IpcAssumption DEF HoldersOf, RegistrarsOf

(* A handle put into a free slot is one more reference.                     *)
LEMMA InsertCount ==
    ASSUME NEW hs \in HandleTables, NEW p \in Process, NEW s \in HandleSlot,
           hs[p][s].object = Null, NEW e \in Endpoint, NEW rights \in SUBSET Right
    PROVE  LET hs2 == Inserted(hs, p, s, e, rights)
           IN  /\ hs2 \in HandleTables
               /\ \A q \in Process, t \in HandleSlot :
                    /\ hs2[q][t].counter = hs[q][t].counter
                    /\ <<q, t>> # <<p, s>> => hs2[q][t] = hs[q][t]
               /\ hs2[p][s].object = e
               /\ \A d \in Endpoint : Cardinality(HoldersOf(hs2, d))
                    = IF d = e THEN Cardinality(HoldersOf(hs, d)) + 1
                      ELSE Cardinality(HoldersOf(hs, d))
<1> DEFINE hs2 == Inserted(hs, p, s, e, rights)
<1>1. /\ hs2[p][s].object = e /\ hs2[p][s].counter = hs[p][s].counter
      /\ \A q \in Process, t \in HandleSlot : <<q, t>> # <<p, s>> => hs2[q][t] = hs[q][t]
      /\ hs2 \in HandleTables
  <2> DEFINE r == [hs[p][s] EXCEPT !.object = e, !.rights = rights]
  <2>1. hs[p] \in [HandleSlot -> HandleRecord] /\ hs[p][s] \in HandleRecord
    BY DEF HandleTables
  <2>2. r \in HandleRecord /\ r.object = e /\ r.counter = hs[p][s].counter
    BY <2>1 DEF HandleRecord
  <2>3. hs2 = [hs EXCEPT ![p] = [hs[p] EXCEPT ![s] = r]]
    BY <2>1 DEF Inserted, HandleTables
  <2> HIDE DEF r, hs2
  <2>4. hs2[p] = [hs[p] EXCEPT ![s] = r] /\ \A q \in Process : q # p => hs2[q] = hs[q]
    BY <2>3 DEF HandleTables
  <2>5. hs2 \in HandleTables
    BY <2>1, <2>2, <2>3 DEF HandleTables
  <2>6. hs2[p][s] = r /\ \A t \in HandleSlot : t # s => hs2[p][t] = hs[p][t]
    BY <2>1, <2>4
  <2>7. QED
    BY <2>2, <2>4, <2>5, <2>6
<1> HIDE DEF hs2
<1>2. HoldersOf(hs2, e) = HoldersOf(hs, e) \cup {<<p, s>>} /\ <<p, s>> \notin HoldersOf(hs, e)
  BY <1>1, IpcAssumption DEF HoldersOf, Endpoint, Null
<1>3. \A d \in Endpoint : d # e => HoldersOf(hs2, d) = HoldersOf(hs, d)
  BY <1>1, IpcAssumption DEF HoldersOf, Endpoint, Null
<1>4. Cardinality(HoldersOf(hs2, e)) = Cardinality(HoldersOf(hs, e)) + 1
  <2>1. IsFiniteSet(HoldersOf(hs, e))
    BY Finiteness
  <2>2. QED
    BY <1>2, <2>1, FS_AddElement
<1>5. QED
  BY <1>1, <1>3, <1>4 DEF hs2

(* A slot that is vacated is one reference less.                            *)
LEMMA VacateCount ==
    ASSUME NEW hs \in HandleTables, NEW p \in Process, NEW s \in HandleSlot
    PROVE  LET hs2 == Vacated(hs, p, s)
           IN  /\ hs2 \in HandleTables
               /\ \A q \in Process, t \in HandleSlot : <<q, t>> # <<p, s>> => hs2[q][t] = hs[q][t]
               /\ hs2[p][s].object = Null
               /\ hs2[p][s].counter = next_generation(hs[p][s].counter)
               /\ \A d \in Endpoint : Cardinality(HoldersOf(hs2, d))
                    = IF d = hs[p][s].object THEN Cardinality(HoldersOf(hs, d)) - 1
                      ELSE Cardinality(HoldersOf(hs, d))
<1> DEFINE hs2 == Vacated(hs, p, s)
           e == hs[p][s].object
<1>0. next_generation(hs[p][s].counter) \in Counter
  BY NextCounter DEF HandleTables, HandleRecord
<1>1. /\ hs2[p][s].object = Null /\ hs2[p][s].counter = next_generation(hs[p][s].counter)
      /\ \A q \in Process, t \in HandleSlot : <<q, t>> # <<p, s>> => hs2[q][t] = hs[q][t]
      /\ hs2 \in HandleTables
  BY <1>0 DEF Vacated, HandleTables, HandleRecord
<1> HIDE DEF hs2
<1>2. HoldersOf(hs2, e) = HoldersOf(hs, e) \ {<<p, s>>} \/ e \notin Endpoint
  BY <1>1, IpcAssumption DEF HoldersOf, Endpoint, Null
<1>3. \A d \in Endpoint : d # e => HoldersOf(hs2, d) = HoldersOf(hs, d)
  BY <1>1, IpcAssumption DEF HoldersOf, Endpoint, Null
<1>4. e \in Endpoint => Cardinality(HoldersOf(hs2, e)) = Cardinality(HoldersOf(hs, e)) - 1
  <2>1. IsFiniteSet(HoldersOf(hs, e)) /\ <<p, s>> \in HoldersOf(hs, e)
    BY Finiteness DEF HoldersOf
  <2>2. QED
    BY <1>2, <2>1, FS_RemoveElement
<1>5. QED
  BY <1>1, <1>3, <1>4 DEF hs2

(* A process that exits gives up as many references as it had handles.      *)
LEMMA ExitCount ==
    ASSUME NEW hs \in HandleTables, NEW p \in Process, NEW hs2,
           \A q \in Process : q # p => hs2[q] = hs[q],
           \A s \in HandleSlot : hs2[p][s].object = Null,
           NEW d \in Endpoint
    PROVE  Cardinality(HoldersOf(hs2, d))
             = Cardinality(HoldersOf(hs, d)) - Cardinality({s \in HandleSlot : hs[p][s].object = d})
<1> DEFINE N == {s \in HandleSlot : hs[p][s].object = d}
<1>1. HoldersOf(hs2, d) = HoldersOf(hs, d) \ ({p} \X N)
  BY IpcAssumption DEF HoldersOf, Endpoint, Null
<1>2. HoldersOf(hs, d) \cap ({p} \X N) = {p} \X N
  BY DEF HoldersOf
<1>3. IsFiniteSet(N) /\ Cardinality(N) \in Nat /\ IsFiniteSet(HoldersOf(hs, d))
  BY Finiteness
<1>4. IsFiniteSet({p}) /\ Cardinality({p}) = 1
  BY FS_Singleton
<1>5. Cardinality({p} \X N) = Cardinality(N)
  <2> HIDE DEF N
  <2>1. Cardinality({p} \X N) = 1 * Cardinality(N)
    BY <1>3, <1>4, FS_Product
  <2>2. QED
    BY <1>3, <2>1
<1> HIDE DEF N
<1>6. Cardinality(HoldersOf(hs, d) \ ({p} \X N))
        = Cardinality(HoldersOf(hs, d)) - Cardinality(HoldersOf(hs, d) \cap ({p} \X N))
  BY <1>3, FS_Difference
<1>7. QED
  BY <1>1, <1>2, <1>5, <1>6 DEF N

(* Registering a service moves one reference to the new endpoint.           *)
LEMMA RegisterCount ==
    ASSUME NEW ss \in [Service -> ServiceRecord], NEW ss2, NEW v \in Service,
           \A w \in Service : w # v => ss2[w].endpoint = ss[w].endpoint,
           ss2[v].endpoint # ss[v].endpoint,
           NEW d \in Endpoint
    PROVE  Cardinality(RegistrarsOf(ss2, d))
             = IF d = ss2[v].endpoint THEN Cardinality(RegistrarsOf(ss, d)) + 1
               ELSE IF d = ss[v].endpoint THEN Cardinality(RegistrarsOf(ss, d)) - 1
               ELSE Cardinality(RegistrarsOf(ss, d))
<1>1. IsFiniteSet(RegistrarsOf(ss, d))
  BY Finiteness
<1>2. CASE d = ss2[v].endpoint
  <2>1. RegistrarsOf(ss2, d) = RegistrarsOf(ss, d) \cup {v} /\ v \notin RegistrarsOf(ss, d)
    BY <1>2 DEF RegistrarsOf
  <2>2. QED
    BY <1>1, <1>2, <2>1, FS_AddElement, ZenonT(30)
<1>3. CASE d # ss2[v].endpoint /\ d = ss[v].endpoint
  <2>1. RegistrarsOf(ss2, d) = RegistrarsOf(ss, d) \ {v} /\ v \in RegistrarsOf(ss, d)
    BY <1>3 DEF RegistrarsOf
  <2>2. QED
    BY <1>1, <1>3, <2>1, FS_RemoveElement
<1>4. CASE d # ss2[v].endpoint /\ d # ss[v].endpoint
  <2>1. RegistrarsOf(ss2, d) = RegistrarsOf(ss, d)
    BY <1>4 DEF RegistrarsOf
  <2>2. QED
    BY <1>4, <2>1
<1>5. QED
  BY <1>2, <1>3, <1>4

-----------------------------------------------------------------------------
(* The endpoint table.                                                      *)
EndpointTable == [Endpoint -> EndpointRecord]

(* Two records of one endpoint that differ in references and revocation.    *)
SameRing(a, b) ==
    /\ b.allocated = a.allocated /\ b.capacity = a.capacity /\ b.owner = a.owner
    /\ b.head = a.head /\ b.tail = a.tail /\ b.count = a.count
    /\ b.receivers = a.receivers /\ b.senders = a.senders /\ b.messages = a.messages

(* A cleared endpoint is free, without messages, references or waiters.     *)
LEMMA ClearedType ==
    /\ ClearedEndpoint \in EndpointRecord
    /\ ~ ClearedEndpoint.allocated /\ ClearedEndpoint.reference_count = 0
    /\ ClearedEndpoint.count = 0
    /\ ClearedEndpoint.receivers = <<>> /\ ClearedEndpoint.senders = <<>>
<1>1. 0 \in 0 .. MaxDepth /\ 0 \in Position
  BY IpcAssumption DEF Position
<1>2. [i \in Position |-> NoMessage] \in [Position -> Message]
  BY DEF Message
<1>3. QED
  BY <1>1, <1>2 DEF ClearedEndpoint, EndpointRecord

(* Retaining changes the count and nothing else.                            *)
LEMMA RetainEffect ==
    ASSUME NEW es \in EndpointTable, NEW e \in Endpoint
    PROVE  LET es2 == endpoint_retain(es, e)
           IN  /\ es2 \in EndpointTable
               /\ \A d \in Endpoint : d # e => es2[d] = es[d]
               /\ SameRing(es[e], es2[e]) /\ es2[e].revoked = es[e].revoked
               /\ es2[e].reference_count = es[e].reference_count + 1
<1> DEFINE r == [es[e] EXCEPT !.reference_count = @ + 1]
<1>1. es[e] \in EndpointRecord
  BY DEF EndpointTable
<1>2. /\ r \in EndpointRecord /\ SameRing(es[e], r) /\ r.revoked = es[e].revoked
      /\ r.reference_count = es[e].reference_count + 1
  BY <1>1, SMTT(30) DEF EndpointRecord, SameRing
<1>3. endpoint_retain(es, e) = [es EXCEPT ![e] = r]
  BY <1>1 DEF endpoint_retain, EndpointTable
<1> HIDE DEF r
<1>4. QED
  BY <1>2, <1>3 DEF EndpointTable

(* Releasing lowers the count, and clears the endpoint with the last        *)
(* reference.                                                               *)
LEMMA ReleaseEffect ==
    ASSUME NEW es \in EndpointTable, NEW e \in Endpoint, es[e].reference_count # 0
    PROVE  LET es2 == endpoint_release(es, e)
           IN  /\ es2 \in EndpointTable
               /\ \A d \in Endpoint : d # e => es2[d] = es[d]
               /\ es[e].reference_count = 1 => es2[e] = ClearedEndpoint
               /\ es[e].reference_count # 1 =>
                    /\ SameRing(es[e], es2[e]) /\ es2[e].revoked = es[e].revoked
                    /\ es2[e].reference_count = es[e].reference_count - 1
<1> DEFINE r == [es[e] EXCEPT !.reference_count = @ - 1]
<1>1. es[e] \in EndpointRecord /\ es[e].reference_count \in Nat
  BY DEF EndpointTable, EndpointRecord
<1>2. /\ r \in EndpointRecord /\ SameRing(es[e], r) /\ r.revoked = es[e].revoked
      /\ r.reference_count = es[e].reference_count - 1
  <2>1. es[e].reference_count - 1 \in Nat
    BY <1>1
  <2>2. QED
    BY <1>1, <2>1 DEF EndpointRecord, SameRing
<1>3. endpoint_release(es, e)
        = [es EXCEPT ![e] = IF es[e].reference_count = 1 THEN ClearedEndpoint ELSE r]
  BY <1>1 DEF endpoint_release, EndpointTable
<1> HIDE DEF r
<1>4. QED
  BY <1>2, <1>3, ClearedType DEF EndpointTable

(* Records of equal fields are equal.                                       *)
LEMMA SameRecord ==
    ASSUME NEW a \in EndpointRecord, NEW b \in EndpointRecord, SameRing(a, b),
           b.revoked = a.revoked, b.reference_count = a.reference_count
    PROVE  b = a
  BY DEF EndpointRecord, SameRing

(* The reference taken for nothing is given back without a trace.           *)
LEMMA RetainRelease ==
    ASSUME NEW es \in EndpointTable, NEW e \in Endpoint, es[e].reference_count # 0
    PROVE  endpoint_release(endpoint_retain(es, e), e) = es
<1> DEFINE es1 == endpoint_retain(es, e)
           es2 == endpoint_release(es1, e)
<1>1. es[e] \in EndpointRecord /\ es[e].reference_count \in Nat
  BY DEF EndpointTable, EndpointRecord
<1>2. /\ es1 \in EndpointTable /\ \A d \in Endpoint : d # e => es1[d] = es[d]
      /\ SameRing(es[e], es1[e]) /\ es1[e].revoked = es[e].revoked
      /\ es1[e].reference_count = es[e].reference_count + 1
  BY RetainEffect
<1> HIDE DEF es1
<1>3. es1[e].reference_count # 0 /\ es1[e].reference_count # 1
  BY <1>1, <1>2
<1>4. /\ es2 \in EndpointTable /\ \A d \in Endpoint : d # e => es2[d] = es1[d]
      /\ SameRing(es1[e], es2[e]) /\ es2[e].revoked = es1[e].revoked
      /\ es2[e].reference_count = es1[e].reference_count - 1
  BY <1>2, <1>3, ReleaseEffect
<1> HIDE DEF es2
<1>5. es2[e] \in EndpointRecord /\ SameRing(es[e], es2[e]) /\ es2[e].revoked = es[e].revoked
      /\ es2[e].reference_count = es[e].reference_count
  BY <1>1, <1>2, <1>4 DEF EndpointTable, SameRing
<1>6. es2[e] = es[e]
  BY <1>1, <1>5, SameRecord
<1>7. \A d \in Endpoint : es2[d] = es[d]
  BY <1>2, <1>4, <1>6
<1>8. es2 = es
  BY <1>4, <1>7 DEF EndpointTable
<1>9. QED
  BY <1>8 DEF es1, es2

-----------------------------------------------------------------------------
(* The wait queues of the endpoint table.                                   *)
LEMMA WaitQueuesType ==
    ASSUME TypeOK
    PROVE  /\ WaitQueues \in [Place -> Seq(Process)]
           /\ \A e \in Endpoint : /\ <<e, "receivers">> \in Place /\ <<e, "senders">> \in Place
                                  /\ WaitQueues[<<e, "receivers">>] = endpoints[e].receivers
                                  /\ WaitQueues[<<e, "senders">>] = endpoints[e].senders
           /\ \A w \in Place : w = <<w[1], "receivers">> \/ w = <<w[1], "senders">>
           /\ \A w \in Place : w[1] \in Endpoint
<1>1. \A e \in Endpoint : endpoints[e].receivers \in Seq(Process) /\ endpoints[e].senders \in Seq(Process)
  BY DEF TypeOK, EndpointRecord
<1>2. QED
  BY <1>1 DEF WaitQueues, Place, Side

(* Waiters, read off the wait queues.                                       *)
LEMMA WaitersQueued ==
    ASSUME TypeOK, NEW e \in Endpoint, NEW p
    PROVE  p \in Waiters(e) <=>
             \E w \in Place : w[1] = e /\ \E i \in DOMAIN WaitQueues[w] : WaitQueues[w][i] = p
<1>1. p \in Waiters(e) <=> \/ \E i \in DOMAIN endpoints[e].receivers : endpoints[e].receivers[i] = p
                          \/ \E i \in DOMAIN endpoints[e].senders : endpoints[e].senders[i] = p
  BY DEF Waiters, InQueue
<1>2. /\ <<e, "receivers">>[1] = e /\ <<e, "senders">>[1] = e
  OBVIOUS
<1>3. ASSUME NEW w \in Place, w[1] = e, NEW i \in DOMAIN WaitQueues[w], WaitQueues[w][i] = p
      PROVE  \/ \E j \in DOMAIN endpoints[e].receivers : endpoints[e].receivers[j] = p
             \/ \E j \in DOMAIN endpoints[e].senders : endpoints[e].senders[j] = p
  BY <1>3, WaitQueuesType
<1>4. ASSUME NEW i \in DOMAIN endpoints[e].receivers, endpoints[e].receivers[i] = p
      PROVE  \E w \in Place : w[1] = e /\ \E j \in DOMAIN WaitQueues[w] : WaitQueues[w][j] = p
  <2>1. <<e, "receivers">> \in Place
    BY WaitQueuesType
  <2> WITNESS <<e, "receivers">> \in Place
  <2> QED
    BY <1>2, <1>4, WaitQueuesType
<1>5. ASSUME NEW i \in DOMAIN endpoints[e].senders, endpoints[e].senders[i] = p
      PROVE  \E w \in Place : w[1] = e /\ \E j \in DOMAIN WaitQueues[w] : WaitQueues[w][j] = p
  <2>1. <<e, "senders">> \in Place
    BY WaitQueuesType
  <2> WITNESS <<e, "senders">> \in Place
  <2> QED
    BY <1>2, <1>5, WaitQueuesType
<1>6. QED
  BY <1>1, <1>3, <1>4, <1>5

(* A step that gives references, takes them or revokes, and clears the      *)
(* endpoints that go, waking who waits there, keeps the messages and the    *)
(* queues of all others.                                                    *)
LEMMA QuietStep ==
    ASSUME NoMessageMissed, TypeOK', NEW gone \in SUBSET Endpoint,
           \A e \in gone : endpoints'[e] = ClearedEndpoint,
           \A e \in Endpoint \ gone :
             \/ endpoints'[e] = endpoints[e]
             \/ endpoints[e].allocated /\ SameRing(endpoints[e], endpoints'[e]),
           pending' = [e \in Endpoint |-> IF e \in gone THEN <<>> ELSE pending[e]],
           \A p \in Process : process'[p] = "blocked" <=>
             process[p] = "blocked" /\ ~ \E e \in gone : p \in Waiters(e)
    PROVE  NoMessageMissed'
<1>0. TypeOK /\ EndpointsSound /\ RingIsQueue /\ BlockedIsQueued /\ ReceiverAwake
  BY DEF NoMessageMissed
<1>1. \A e \in Endpoint \ gone : SameRing(endpoints[e], endpoints'[e]) /\ pending'[e] = pending[e]
  BY DEF SameRing
<1>2. \A e \in gone : /\ ~ endpoints'[e].allocated /\ endpoints'[e].count = 0
                      /\ endpoints'[e].receivers = <<>> /\ endpoints'[e].senders = <<>>
                      /\ pending'[e] = <<>>
  BY ClearedType
<1>3. EndpointsSound'
  <2> SUFFICES ASSUME NEW e \in Endpoint PROVE EndpointsSound!(e)'
    BY DEF EndpointsSound
  <2>1. CASE e \in gone
    BY <1>2, <2>1
  <2>2. CASE e \notin gone
    BY <1>0, <1>1, <2>2 DEF EndpointsSound, SameRing
  <2>3. QED
    BY <2>1, <2>2
<1>4. RingIsQueue'
  <2> SUFFICES ASSUME NEW e \in Endpoint PROVE RingIsQueue!(e)'
    BY DEF RingIsQueue
  <2>1. CASE e \in gone
    BY <1>2, <2>1
  <2>2. CASE e \notin gone
    BY <1>0, <1>1, <2>2 DEF RingIsQueue, SameRing
  <2>3. QED
    BY <2>1, <2>2
<1>5. ReceiverAwake'
  <2> SUFFICES ASSUME NEW e \in Endpoint PROVE ReceiverAwake!(e)'
    BY DEF ReceiverAwake
  <2>1. CASE e \in gone
    BY <1>2, <2>1
  <2>2. CASE e \notin gone
    BY <1>0, <1>1, <2>2 DEF ReceiverAwake, SameRing
  <2>3. QED
    BY <2>1, <2>2
<1>6. BlockedIsQueued'
  <2>1. WaitQueues \in [Place -> Seq(Process)] /\ process \in [Process -> Status]
    BY <1>0, WaitQueuesType DEF TypeOK, Status
  <2>2. \A w \in Place : WaitQueues'[w] = IF w[1] \in gone THEN <<>> ELSE WaitQueues[w]
    BY <1>1, <1>2 DEF WaitQueues, Place, Side, SameRing
  <2>3. \A p \in Process : process'[p] = "blocked" <=>
          process[p] = "blocked"
          /\ ~ \E w \in Place : w[1] \in gone /\ \E i \in DOMAIN WaitQueues[w] : WaitQueues[w][i] = p
    BY <1>0, WaitersQueued
  <2>4. Queued(WaitQueues', process')
    <3> DEFINE Q == WaitQueues
               Q2 == WaitQueues'
               P2 == process'
    <3>1. Queued(Q, process)
      BY <1>0 DEF BlockedIsQueued
    <3>2. /\ Q \in [Place -> Seq(Process)]
          /\ Clears(Q, process, Q2, P2, gone)
      BY <2>1, <2>2, <2>3 DEF Clears
    <3> HIDE DEF Q, Q2, P2
    <3>3. Queued(Q2, P2)
      BY <2>1, <3>1, <3>2, QueuedClear
    <3>4. QED
      BY <3>3 DEF Q2, P2
  <2>5. QED
    BY <2>4 DEF BlockedIsQueued, Queued
<1>7. QED
  BY <1>3, <1>4, <1>5, <1>6 DEF NoMessageMissed

-----------------------------------------------------------------------------
(* Steps that give and take references.                                     *)
References(hs, ss, e) == Cardinality(HoldersOf(hs, e)) + Cardinality(RegistrarsOf(ss, e))

(* References are counted from zero; at zero nobody names the endpoint.     *)
LEMMA ReferencesNat ==
    ASSUME NEW hs, NEW ss, NEW e
    PROVE  /\ Cardinality(HoldersOf(hs, e)) \in Nat /\ Cardinality(RegistrarsOf(ss, e)) \in Nat
           /\ References(hs, ss, e) \in Nat
           /\ References(hs, ss, e) = 0 => HoldersOf(hs, e) = {} /\ RegistrarsOf(ss, e) = {}
<1>1. /\ IsFiniteSet(HoldersOf(hs, e)) /\ Cardinality(HoldersOf(hs, e)) \in Nat
      /\ IsFiniteSet(RegistrarsOf(ss, e)) /\ Cardinality(RegistrarsOf(ss, e)) \in Nat
  BY Finiteness
<1>2. QED
  BY <1>1, FS_EmptySet DEF References

(* The invariant, with its parts and the types they give.                   *)
LEMMA Parts ==
    ASSUME IInv
    PROVE  /\ TypeOK /\ EndpointsSound /\ RingIsQueue /\ BlockedIsQueued /\ ReceiverAwake
           /\ ReferencesCounted /\ RegistryTrusted /\ SessionsAgree
           /\ endpoints \in EndpointTable /\ handles \in HandleTables
           /\ \A e \in Endpoint : /\ endpoints[e].reference_count = References(handles, services, e)
                                  /\ endpoints[e].reference_count \in Nat
                                  /\ endpoints[e].allocated <=> endpoints[e].reference_count > 0
<1>1. /\ TypeOK /\ EndpointsSound /\ RingIsQueue /\ BlockedIsQueued /\ ReceiverAwake
      /\ ReferencesCounted /\ RegistryTrusted /\ SessionsAgree
  BY DEF IInv, NoMessageMissed, SessionCurrent
<1>2. endpoints \in EndpointTable /\ handles \in HandleTables
  BY <1>1 DEF TypeOK, EndpointTable, HandleTables
<1>3. \A e \in Endpoint : /\ endpoints[e].reference_count = References(handles, services, e)
                          /\ endpoints[e].allocated <=> endpoints[e].reference_count > 0
  BY <1>1 DEF ReferencesCounted, References, Holders, HoldersOf, Registrars, RegistrarsOf
<1>4. QED
  BY <1>1, <1>2, <1>3, ReferencesNat

(* What a handle or a service names is allocated.                           *)
LEMMA NamedAllocated ==
    ASSUME IInv
    PROVE  /\ \A p \in Process, s \in HandleSlot : ~Vacant(p, s) =>
                /\ handles[p][s].object \in Endpoint
                /\ endpoints[handles[p][s].object].allocated
                /\ endpoints[handles[p][s].object].reference_count # 0
                /\ handles[p][s].rights \in SUBSET Right
           /\ \A v \in Service : services[v].endpoint # Null =>
                /\ services[v].endpoint \in Endpoint
                /\ endpoints[services[v].endpoint].allocated
                /\ endpoints[services[v].endpoint].reference_count # 0
<1>1. ASSUME NEW p \in Process, NEW s \in HandleSlot, ~Vacant(p, s)
      PROVE  /\ handles[p][s].object \in Endpoint
             /\ endpoints[handles[p][s].object].allocated
             /\ endpoints[handles[p][s].object].reference_count # 0
             /\ handles[p][s].rights \in SUBSET Right
  <2>1. handles[p][s].object \in Endpoint /\ handles[p][s].rights \in SUBSET Right
    BY <1>1, Parts DEF Vacant, HandleTables, HandleRecord
  <2>2. <<p, s>> \in HoldersOf(handles, handles[p][s].object)
    BY DEF HoldersOf
  <2>3. QED
    BY <2>1, <2>2, Parts, ReferencesNat
<1>2. ASSUME NEW v \in Service, services[v].endpoint # Null
      PROVE  /\ services[v].endpoint \in Endpoint
             /\ endpoints[services[v].endpoint].allocated
             /\ endpoints[services[v].endpoint].reference_count # 0
  <2>1. services[v].endpoint \in Endpoint
    BY <1>2, Parts DEF TypeOK, ServiceRecord
  <2>2. v \in RegistrarsOf(services, services[v].endpoint)
    BY DEF RegistrarsOf
  <2>3. QED
    BY <2>1, <2>2, Parts, ReferencesNat
<1>3. QED
  BY <1>1, <1>2

(* How such a step may leave an endpoint.                                   *)
Touched(a, b) ==
    \/ b = ClearedEndpoint
    \/ b = a
    \/ a.allocated /\ SameRing(a, b) /\ b.reference_count > 0

(* What every step that only moves references has to show.                  *)
LEMMA ReferenceStep ==
    ASSUME IInv, TypeOK',
           \A d \in Endpoint : Touched(endpoints[d], endpoints'[d]),
           \A d \in Endpoint : endpoints'[d].reference_count = References(handles', services', d),
           pending' = [e \in Endpoint |-> IF e \in Freed(endpoints') THEN <<>> ELSE pending[e]],
           \A p \in Process : process'[p] = "blocked" <=>
             process[p] = "blocked" /\ ~ \E e \in Freed(endpoints') : p \in Waiters(e)
    PROVE  NoMessageMissed' /\ ReferencesCounted'
<1> DEFINE gone == Freed(endpoints')
<1>1. gone \in SUBSET Endpoint
  BY DEF Freed
<1>2. \A e \in gone : endpoints'[e] = ClearedEndpoint
  BY DEF Freed, Touched, SameRing
<1>3. ASSUME NEW e \in Endpoint \ gone
      PROVE  \/ endpoints'[e] = endpoints[e]
             \/ endpoints[e].allocated /\ SameRing(endpoints[e], endpoints'[e])
  <2>1. CASE endpoints'[e] = ClearedEndpoint
    <3>1. ~ endpoints[e].allocated
      BY <2>1, ClearedType DEF Freed
    <3>2. QED
      BY <2>1, <3>1, Parts DEF EndpointsSound
  <2>2. CASE endpoints'[e] # ClearedEndpoint
    BY <2>2 DEF Touched
  <2>3. QED
    BY <2>1, <2>2
<1>4. NoMessageMissed'
  <2> HIDE DEF gone
  <2>1. /\ pending' = [e \in Endpoint |-> IF e \in gone THEN <<>> ELSE pending[e]]
        /\ \A p \in Process : process'[p] = "blocked" <=>
             process[p] = "blocked" /\ ~ \E e \in gone : p \in Waiters(e)
    BY DEF gone
  <2>2. NoMessageMissed
    BY DEF IInv
  <2>3. QED
    BY <1>1, <1>2, <1>3, <2>1, <2>2, QuietStep
<1>5. \A d \in Endpoint : endpoints'[d].allocated <=> endpoints'[d].reference_count > 0
  BY Parts, ClearedType DEF Touched, SameRing
<1>6. ReferencesCounted'
  <2> SUFFICES ASSUME NEW e \in Endpoint PROVE ReferencesCounted!(e)'
    BY DEF ReferencesCounted
  <2>1. endpoints'[e].reference_count = Cardinality(Holders(e)') + Cardinality(Registrars(e)')
    BY DEF References, Holders, HoldersOf, Registrars, RegistrarsOf
  <2>2. QED
    BY <1>5, <2>1
<1>7. QED
  BY <1>4, <1>6

(* When no endpoint goes, nobody is woken and no queue emptied.             *)
LEMMA NoneFreed ==
    ASSUME TypeOK, UNCHANGED <<pending, process>>,
           \A d \in Endpoint : endpoints[d].allocated => endpoints'[d].allocated
    PROVE  /\ pending' = [e \in Endpoint |-> IF e \in Freed(endpoints') THEN <<>> ELSE pending[e]]
           /\ \A p \in Process : process'[p] = "blocked" <=>
                process[p] = "blocked" /\ ~ \E e \in Freed(endpoints') : p \in Waiters(e)
<1>1. Freed(endpoints') = {}
  BY DEF Freed
<1>2. QED
  BY <1>1 DEF TypeOK

(* The registry and the sessions stand while the services do: what a        *)
(* service names is allocated, so it was not cleared.                       *)
LEMMA RegistryKept ==
    ASSUME IInv, ReferencesCounted', UNCHANGED <<services, session>>,
           \A d \in Endpoint :
             \/ ~ endpoints'[d].allocated \/ ~ endpoints[d].allocated
             \/ endpoints'[d].owner = endpoints[d].owner /\ endpoints'[d].revoked = endpoints[d].revoked
    PROVE  SessionCurrent'
<1>1. \A v \in Service : services[v].endpoint # Null => endpoints'[services[v].endpoint].allocated
  <2> SUFFICES ASSUME NEW v \in Service, services[v].endpoint # Null
               PROVE  endpoints'[services[v].endpoint].allocated
    OBVIOUS
  <2> DEFINE e == services[v].endpoint
  <2>1. e \in Endpoint
    BY NamedAllocated
  <2>2. v \in RegistrarsOf(services', e)
    BY DEF RegistrarsOf
  <2>3. References(handles', services', e) > 0
    BY <2>2, ReferencesNat
  <2>4. endpoints'[e].allocated <=> References(handles', services', e) > 0
    BY <2>1 DEF ReferencesCounted, References, Holders, HoldersOf, Registrars, RegistrarsOf
  <2>5. QED
    BY <2>3, <2>4
<1>2. RegistryTrusted'
  BY <1>1, NamedAllocated, Parts DEF RegistryTrusted
<1>3. SessionsAgree'
  BY Parts DEF SessionsAgree
<1>4. QED
  BY <1>2, <1>3 DEF SessionCurrent

-----------------------------------------------------------------------------
(* A handle as a process holds it is a handle.                              *)
LEMMA HandleType ==
    ASSUME TypeOK, NEW p \in Process, NEW s \in HandleSlot
    PROVE  /\ HandleAt(p, s) \in Handle
           /\ closed \cup {HandleAt(p, s)} \in SUBSET Handle
           /\ IsFiniteSet(closed \cup {HandleAt(p, s)})
<1>1. HandleAt(p, s) \in Handle
  BY DEF HandleAt, Handle, TypeOK, HandleRecord
<1>2. closed \in SUBSET Handle /\ IsFiniteSet(closed)
  BY DEF TypeOK
<1>3. IsFiniteSet(closed \cup {HandleAt(p, s)})
  BY <1>2, FS_AddElement
<1>4. QED
  BY <1>1, <1>2, <1>3

LEMMA CloseStep ==
    ASSUME IInv, NEW p \in Process, NEW s \in HandleSlot, handle_table_close(p, s)
    PROVE  IInv'
<1> DEFINE e == handles[p][s].object
<1>1. /\ ~Vacant(p, s) /\ handles' = Vacated(handles, p, s)
      /\ endpoints' = endpoint_release(endpoints, e)
      /\ WakeWaitersOf(Freed(endpoints')) /\ EmptyQueuesOf(Freed(endpoints'))
      /\ closed' = closed \cup {HandleAt(p, s)}
      /\ UNCHANGED <<services, requests, session>>
  BY DEF handle_table_close
<1>2. e \in Endpoint /\ endpoints[e].allocated /\ endpoints[e].reference_count # 0
  BY <1>1, NamedAllocated
<1>3. /\ endpoints' \in EndpointTable
      /\ \A d \in Endpoint : d # e => endpoints'[d] = endpoints[d]
      /\ endpoints[e].reference_count = 1 => endpoints'[e] = ClearedEndpoint
      /\ endpoints[e].reference_count # 1 =>
           /\ SameRing(endpoints[e], endpoints'[e]) /\ endpoints'[e].revoked = endpoints[e].revoked
           /\ endpoints'[e].reference_count = endpoints[e].reference_count - 1
  BY <1>1, <1>2, Parts, ReleaseEffect
<1>4. /\ handles' \in HandleTables
      /\ \A d \in Endpoint : Cardinality(HoldersOf(handles', d))
           = IF d = e THEN Cardinality(HoldersOf(handles, d)) - 1
             ELSE Cardinality(HoldersOf(handles, d))
  BY <1>1, Parts, VacateCount
<1> HIDE DEF e
<1>5. \A d \in Endpoint : endpoints'[d].reference_count = References(handles', services', d)
  <2> SUFFICES ASSUME NEW d \in Endpoint
               PROVE  endpoints'[d].reference_count = References(handles', services', d)
    OBVIOUS
  <2>1. endpoints[d].reference_count = References(handles, services, d)
    BY Parts
  <2>2. services' = services
    BY <1>1
  <2>3. CASE d = e
    <3>1. Cardinality(HoldersOf(handles, d)) \in Nat /\ Cardinality(RegistrarsOf(services, d)) \in Nat
      BY ReferencesNat
    <3>2. endpoints'[e].reference_count = endpoints[e].reference_count - 1
      BY <1>2, <1>3, ClearedType
    <3>3. QED
      BY <1>4, <2>1, <2>2, <2>3, <3>1, <3>2 DEF References
  <2>4. CASE d # e
    BY <1>3, <1>4, <2>1, <2>2, <2>4 DEF References
  <2>5. QED
    BY <2>3, <2>4
<1>6. \A d \in Endpoint : Touched(endpoints[d], endpoints'[d])
  BY <1>2, <1>3, Parts DEF Touched
<1>7. TypeOK'
  <2>1. closed' \in SUBSET Handle /\ IsFiniteSet(closed')
    BY <1>1, Parts, HandleType
  <2>2. process' \in [Process -> {"ready", "blocked", "exited"}]
    BY <1>1, Parts DEF TypeOK, WakeWaitersOf
  <2>3. pending' \in [Endpoint -> Seq(Message)]
    BY <1>1, Parts DEF TypeOK, EmptyQueuesOf
  <2>4. QED
    BY <1>1, <1>3, <1>4, <2>1, <2>2, <2>3, Parts DEF TypeOK, EndpointTable, HandleTables
<1>8. NoMessageMissed' /\ ReferencesCounted'
  <2>1. /\ pending' = [d \in Endpoint |-> IF d \in Freed(endpoints') THEN <<>> ELSE pending[d]]
        /\ \A q \in Process : process'[q] = "blocked" <=>
             process[q] = "blocked" /\ ~ \E d \in Freed(endpoints') : q \in Waiters(d)
    BY <1>1 DEF EmptyQueuesOf, WakeWaitersOf
  <2>2. QED
    BY <1>5, <1>6, <1>7, <2>1, ReferenceStep
<1>9. SessionCurrent'
  <2>1. \A d \in Endpoint :
          \/ ~ endpoints'[d].allocated
          \/ endpoints'[d].owner = endpoints[d].owner /\ endpoints'[d].revoked = endpoints[d].revoked
    BY <1>2, <1>3, ClearedType DEF SameRing
  <2>2. QED
    BY <1>1, <1>8, <2>1, RegistryKept
<1>10. QED
  BY <1>8, <1>9 DEF IInv

(* A step that gives a handle on an allocated endpoint to a process.        *)
LEMMA HandleGiven ==
    ASSUME IInv, NEW e \in Endpoint, endpoints[e].allocated,
           NEW q \in Process, NEW t \in FirstVacant(q), NEW rights \in SUBSET Right,
           endpoints' = endpoint_retain(endpoints, e),
           handles' = Inserted(handles, q, t, e, rights),
           session' \in [Process -> Session],
           UNCHANGED <<services, process, requests, pending, closed>>
    PROVE  /\ NoMessageMissed' /\ ReferencesCounted'
           /\ \A d \in Endpoint : /\ endpoints'[d].owner = endpoints[d].owner
                                  /\ endpoints'[d].revoked = endpoints[d].revoked
<1>1. t \in HandleSlot /\ handles[q][t].object = Null
  BY DEF FirstVacant, Vacant
<1>2. /\ endpoints' \in EndpointTable
      /\ \A d \in Endpoint : d # e => endpoints'[d] = endpoints[d]
      /\ SameRing(endpoints[e], endpoints'[e]) /\ endpoints'[e].revoked = endpoints[e].revoked
      /\ endpoints'[e].reference_count = endpoints[e].reference_count + 1
  BY Parts, RetainEffect
<1>3. /\ handles' \in HandleTables
      /\ \A d \in Endpoint : Cardinality(HoldersOf(handles', d))
           = IF d = e THEN Cardinality(HoldersOf(handles, d)) + 1
             ELSE Cardinality(HoldersOf(handles, d))
  BY <1>1, Parts, InsertCount
<1>4. \A d \in Endpoint : endpoints'[d].reference_count = References(handles', services', d)
  <2> SUFFICES ASSUME NEW d \in Endpoint
               PROVE  endpoints'[d].reference_count = References(handles', services', d)
    OBVIOUS
  <2>1. endpoints[d].reference_count = References(handles, services, d)
    BY Parts
  <2>2. Cardinality(HoldersOf(handles, d)) \in Nat /\ Cardinality(RegistrarsOf(services, d)) \in Nat
    BY ReferencesNat
  <2>3. QED
    BY <1>2, <1>3, <2>1, <2>2 DEF References
<1>5. \A d \in Endpoint : Touched(endpoints[d], endpoints'[d])
  BY <1>2, Parts DEF Touched
<1>6. TypeOK'
  BY <1>2, <1>3, Parts DEF TypeOK, EndpointTable, HandleTables
<1>7. \A d \in Endpoint : endpoints[d].allocated => endpoints'[d].allocated
  BY <1>2 DEF SameRing
<1>8. NoMessageMissed' /\ ReferencesCounted'
  <2>1. /\ pending' = [d \in Endpoint |-> IF d \in Freed(endpoints') THEN <<>> ELSE pending[d]]
        /\ \A p \in Process : process'[p] = "blocked" <=>
             process[p] = "blocked" /\ ~ \E d \in Freed(endpoints') : p \in Waiters(d)
    BY <1>7, NoneFreed, Parts
  <2>2. QED
    BY <1>4, <1>5, <1>6, <2>1, ReferenceStep
<1>9. QED
  BY <1>2, <1>8 DEF SameRing

(* A step that changes nothing.                                             *)
LEMMA Stutter == ASSUME IInv, UNCHANGED vars PROVE IInv'
<1>1. UNCHANGED <<endpoints, handles, services, process, requests, pending, closed, session>>
  BY DEF vars
<1>2. TypeOK'
  BY <1>1, Parts DEF TypeOK
<1>3. EndpointsSound' /\ RingIsQueue' /\ ReceiverAwake'
  BY <1>1, Parts DEF EndpointsSound, RingIsQueue, ReceiverAwake
<1>4. BlockedIsQueued'
  BY <1>1, Parts DEF BlockedIsQueued, Queued, WaitQueues
<1>5. ReferencesCounted'
  BY <1>1, Parts DEF ReferencesCounted, Holders, Registrars
<1>6. SessionCurrent'
  BY <1>1, Parts DEF SessionCurrent, RegistryTrusted, SessionsAgree
<1>7. QED
  BY <1>2, <1>3, <1>4, <1>5, <1>6 DEF IInv, NoMessageMissed

LEMMA DuplicateStep ==
    ASSUME IInv, NEW p \in Process, NEW s \in HandleSlot, NEW rights,
           handle_table_duplicate(p, s, rights)
    PROVE  IInv'
<1> DEFINE e == handles[p][s].object
           retained == endpoint_retain(endpoints, e)
<1>1. /\ ~Vacant(p, s) /\ rights \subseteq handles[p][s].rights
      /\ UNCHANGED <<services, process, requests, pending, closed, session>>
  BY DEF handle_table_duplicate, ghosts
<1>2. /\ e \in Endpoint /\ endpoints[e].allocated /\ endpoints[e].reference_count # 0
      /\ rights \in SUBSET Right
  BY <1>1, NamedAllocated
<1>3. CASE \E t \in FirstVacant(p) : /\ handles' = Inserted(handles, p, t, e, rights)
                                     /\ endpoints' = retained
  <2>1. PICK t \in FirstVacant(p) : /\ handles' = Inserted(handles, p, t, e, rights)
                                    /\ endpoints' = retained
    BY <1>3
  <2>2. session' \in [Process -> Session]
    BY <1>1, Parts DEF TypeOK
  <2> HIDE DEF e
  <2>3. /\ NoMessageMissed' /\ ReferencesCounted'
        /\ \A d \in Endpoint : /\ endpoints'[d].owner = endpoints[d].owner
                               /\ endpoints'[d].revoked = endpoints[d].revoked
    BY <1>1, <1>2, <2>1, <2>2, HandleGiven
  <2>4. SessionCurrent'
    BY <1>1, <2>3, RegistryKept
  <2>5. QED
    BY <2>3, <2>4 DEF IInv
<1>4. CASE endpoints' = endpoint_release(retained, e) /\ UNCHANGED handles
  <2>1. endpoints' = endpoints
    BY <1>2, <1>4, Parts, RetainRelease
  <2>2. QED
    BY <1>1, <1>4, <2>1, Stutter DEF vars
<1>5. QED
  BY <1>3, <1>4 DEF handle_table_duplicate

LEMMA ConnectStep ==
    ASSUME IInv, NEW p \in Process, NEW v \in Service, ipc_service_connect(p, v)
    PROVE  IInv'
<1> DEFINE e == services[v].endpoint
           retained == endpoint_retain(endpoints, e)
           rights == {"signal", "duplicate", "transfer"}
           mine == [service |-> v, endpoint |-> e, generation |-> services[v].generation]
<1>1. e # Null /\ UNCHANGED <<services, process, requests, pending, closed>>
  BY DEF ipc_service_connect
<1>2. /\ e \in Endpoint /\ endpoints[e].allocated /\ endpoints[e].reference_count # 0
      /\ services[v].generation \in 1 .. MaxGeneration
  BY <1>1, NamedAllocated, Parts DEF TypeOK, ServiceRecord
<1>3. CASE \E s \in FirstVacant(p) :
             /\ handles' = Inserted(handles, p, s, e, rights)
             /\ endpoints' = retained
             /\ session' = [session EXCEPT ![p] = mine]
  <2>1. PICK s \in FirstVacant(p) :
          /\ handles' = Inserted(handles, p, s, e, rights)
          /\ endpoints' = retained
          /\ session' = [session EXCEPT ![p] = mine]
    BY <1>3
  <2>2. mine \in Session /\ rights \in SUBSET Right
    BY <1>2, IpcAssumption DEF Session, Right
  <2>3. mine.service = v /\ mine.endpoint = e /\ mine.generation = services[v].generation
    OBVIOUS
  <2> HIDE DEF mine, rights
  <2>4. /\ session' \in [Process -> Session] /\ session'[p] = mine
        /\ \A q \in Process : q # p => session'[q] = session[q]
    BY <2>1, <2>2, Parts DEF TypeOK
  <2>5. /\ NoMessageMissed' /\ ReferencesCounted'
        /\ \A d \in Endpoint : /\ endpoints'[d].owner = endpoints[d].owner
                               /\ endpoints'[d].revoked = endpoints[d].revoked
    <3> HIDE DEF e
    <3>1. QED
      BY <1>1, <1>2, <2>1, <2>2, <2>4, HandleGiven
  <2>6. RegistryTrusted'
    BY <1>1, <2>5, NamedAllocated, Parts DEF RegistryTrusted
  <2>7. SessionsAgree'
    <3> SUFFICES ASSUME NEW q \in Process PROVE SessionsAgree!(q)'
      BY DEF SessionsAgree
    <3>1. CASE q = p
      BY <1>1, <1>2, <2>3, <2>4, <3>1
    <3>2. CASE q # p
      BY <1>1, <2>4, <3>2, Parts DEF SessionsAgree
    <3>3. QED
      BY <3>1, <3>2
  <2>8. QED
    BY <2>5, <2>6, <2>7 DEF IInv, SessionCurrent
<1>4. CASE endpoints' = endpoint_release(retained, e) /\ UNCHANGED <<handles, session>>
  <2>1. endpoints' = endpoints
    BY <1>2, <1>4, Parts, RetainRelease
  <2>2. QED
    BY <1>1, <1>4, <2>1, Stutter DEF vars
<1>5. QED
  BY <1>3, <1>4 DEF ipc_service_connect

LEMMA TransferStep ==
    ASSUME IInv, NEW p \in Process, NEW q \in Process, NEW s \in HandleSlot, NEW rights,
           NEW close_source \in BOOLEAN, handle_table_transfer(p, q, s, rights, close_source)
    PROVE  IInv'
<1> DEFINE e == handles[p][s].object
           retained == endpoint_retain(endpoints, e)
<1>1. /\ ~Vacant(p, s) /\ rights \subseteq handles[p][s].rights
      /\ UNCHANGED <<services, process, requests, pending, session>>
  BY DEF handle_table_transfer
<1>2. /\ e \in Endpoint /\ endpoints[e].allocated /\ endpoints[e].reference_count # 0
      /\ rights \in SUBSET Right
  BY <1>1, NamedAllocated
<1>3. endpoint_release(retained, e) = endpoints
  BY <1>2, Parts, RetainRelease
<1>4. CASE \E t \in FirstVacant(q) :
             /\ handles' = Inserted(handles, q, t, e, rights)
             /\ endpoints' = retained /\ UNCHANGED closed
  <2>1. PICK t \in FirstVacant(q) :
          /\ handles' = Inserted(handles, q, t, e, rights)
          /\ endpoints' = retained /\ UNCHANGED closed
    BY <1>4
  <2>2. session' \in [Process -> Session]
    BY <1>1, Parts DEF TypeOK
  <2> HIDE DEF e
  <2>3. /\ NoMessageMissed' /\ ReferencesCounted'
        /\ \A d \in Endpoint : /\ endpoints'[d].owner = endpoints[d].owner
                               /\ endpoints'[d].revoked = endpoints[d].revoked
    BY <1>1, <1>2, <2>1, <2>2, HandleGiven
  <2>4. SessionCurrent'
    BY <1>1, <2>3, RegistryKept
  <2>5. QED
    BY <2>3, <2>4 DEF IInv
<1>5. CASE \E t \in FirstVacant(q) :
             /\ handles' = Vacated(Inserted(handles, q, t, e, rights), p, s)
             /\ endpoints' = endpoint_release(retained, e)
             /\ closed' = closed \cup {HandleAt(p, s)}
  <2>1. PICK t \in FirstVacant(q) :
          /\ handles' = Vacated(Inserted(handles, q, t, e, rights), p, s)
          /\ endpoints' = endpoints
          /\ closed' = closed \cup {HandleAt(p, s)}
    BY <1>3, <1>5
  <2> DEFINE hs == Inserted(handles, q, t, e, rights)
  <2>2. t \in HandleSlot /\ handles[q][t].object = Null
    BY DEF FirstVacant, Vacant
  <2>3. /\ hs \in HandleTables
        /\ \A r \in Process, u \in HandleSlot : <<r, u>> # <<q, t>> => hs[r][u] = handles[r][u]
        /\ \A d \in Endpoint : Cardinality(HoldersOf(hs, d))
             = IF d = e THEN Cardinality(HoldersOf(handles, d)) + 1
               ELSE Cardinality(HoldersOf(handles, d))
    BY <1>2, <2>2, Parts, InsertCount
  <2>4. hs[p][s].object = e
    <3>1. <<p, s>> # <<q, t>>
      BY <1>1, <2>2 DEF Vacant
    <3>2. hs[p][s] = handles[p][s]
      BY <2>3, <3>1
    <3>3. QED
      BY <3>2
  <2>5. handles' = Vacated(hs, p, s)
    BY <2>1
  <2> HIDE DEF hs, e
  <2>6. /\ handles' \in HandleTables
        /\ \A d \in Endpoint : Cardinality(HoldersOf(handles', d))
             = IF d = e THEN Cardinality(HoldersOf(hs, d)) - 1 ELSE Cardinality(HoldersOf(hs, d))
    BY <2>3, <2>4, <2>5, VacateCount
  <2>7. \A d \in Endpoint : endpoints'[d].reference_count = References(handles', services', d)
    <3> SUFFICES ASSUME NEW d \in Endpoint
                 PROVE  endpoints'[d].reference_count = References(handles', services', d)
      OBVIOUS
    <3>1. endpoints[d].reference_count = References(handles, services, d)
      BY Parts
    <3>2. Cardinality(HoldersOf(handles, d)) \in Nat
      BY ReferencesNat
    <3>3. Cardinality(HoldersOf(handles', d)) = Cardinality(HoldersOf(handles, d))
      BY <2>3, <2>6, <3>2
    <3>4. QED
      BY <1>1, <2>1, <3>1, <3>3 DEF References
  <2>8. \A d \in Endpoint : Touched(endpoints[d], endpoints'[d])
    BY <2>1 DEF Touched
  <2>9. TypeOK'
    BY <1>1, <2>1, <2>6, HandleType, Parts DEF TypeOK, HandleTables
  <2>10. NoMessageMissed' /\ ReferencesCounted'
    <3>1. /\ pending' = [d \in Endpoint |-> IF d \in Freed(endpoints') THEN <<>> ELSE pending[d]]
          /\ \A r \in Process : process'[r] = "blocked" <=>
               process[r] = "blocked" /\ ~ \E d \in Freed(endpoints') : r \in Waiters(d)
      BY <1>1, <2>1, NoneFreed, Parts
    <3>2. QED
      BY <2>7, <2>8, <2>9, <3>1, ReferenceStep
  <2>11. SessionCurrent'
    BY <1>1, <2>1, <2>10, RegistryKept
  <2>12. QED
    BY <2>10, <2>11 DEF IInv
<1>6. CASE endpoints' = endpoint_release(retained, e) /\ UNCHANGED <<handles, closed>>
  BY <1>1, <1>3, <1>6, Stutter DEF vars
<1>7. QED
  BY <1>4, <1>5, <1>6 DEF handle_table_transfer

-----------------------------------------------------------------------------
(* The registry of services.                                                *)
LEMMA RevokeRelease ==
    ASSUME NEW es \in EndpointTable, NEW e \in Endpoint, es[e].reference_count # 0
    PROVE  LET es2 == endpoint_release([es EXCEPT ![e].revoked = TRUE], e)
           IN  /\ es2 \in EndpointTable
               /\ \A d \in Endpoint : d # e => es2[d] = es[d]
               /\ es[e].reference_count = 1 => es2[e] = ClearedEndpoint
               /\ es[e].reference_count # 1 =>
                    /\ SameRing(es[e], es2[e])
                    /\ es2[e].reference_count = es[e].reference_count - 1
<1> DEFINE r == [es[e] EXCEPT !.revoked = TRUE]
           es1 == [es EXCEPT ![e] = r]
           es2 == endpoint_release(es1, e)
<1>1. es[e] \in EndpointRecord
  BY DEF EndpointTable
<1>2. r \in EndpointRecord /\ SameRing(es[e], r) /\ r.reference_count = es[e].reference_count
  BY <1>1 DEF EndpointRecord, SameRing
<1>3. [es EXCEPT ![e].revoked = TRUE] = es1
  BY <1>1 DEF EndpointTable
<1> HIDE DEF r
<1>4. es1 \in EndpointTable /\ es1[e] = r /\ \A d \in Endpoint : d # e => es1[d] = es[d]
  BY <1>2 DEF EndpointTable
<1> HIDE DEF es1
<1>5. /\ es2 \in EndpointTable
      /\ \A d \in Endpoint : d # e => es2[d] = es1[d]
      /\ es1[e].reference_count = 1 => es2[e] = ClearedEndpoint
      /\ es1[e].reference_count # 1 =>
           /\ SameRing(es1[e], es2[e])
           /\ es2[e].reference_count = es1[e].reference_count - 1
  BY <1>2, <1>4, ReleaseEffect
<1>6. SameRing(es1[e], es2[e]) => SameRing(es[e], es2[e])
  BY <1>2, <1>4 DEF SameRing
<1> HIDE DEF es2
<1>7. QED
  BY <1>2, <1>3, <1>4, <1>5, <1>6 DEF es2

(* A change of one service's registration under a new generation.           *)
LEMMA RegistryChanged ==
    ASSUME IInv, ReferencesCounted', UNCHANGED session, NEW v \in Service,
           \A w \in Service : w # v => services'[w] = services[w],
           services'[v].trusted = services[v].trusted,
           services'[v].generation = services[v].generation + 1,
           services'[v].endpoint \in Endpoint \cup {Null},
           \A d \in Endpoint :
             \/ ~ endpoints'[d].allocated
             \/ /\ endpoints'[d].owner = endpoints[d].owner
                /\ endpoints'[d].revoked = endpoints[d].revoked \/ d = services[v].endpoint,
           services'[v].endpoint # Null =>
             /\ endpoints'[services'[v].endpoint].owner = services[v].trusted
             /\ ~ endpoints'[services'[v].endpoint].revoked
    PROVE  SessionCurrent'
<1>1. ASSUME NEW w \in Service, w # v, services[w].endpoint # Null
      PROVE  endpoints'[services[w].endpoint].allocated
  <2> DEFINE e == services[w].endpoint
  <2>1. e \in Endpoint
    BY <1>1, NamedAllocated
  <2>2. w \in RegistrarsOf(services', e)
    BY <1>1 DEF RegistrarsOf
  <2>3. References(handles', services', e) > 0
    BY <2>2, ReferencesNat
  <2>4. endpoints'[e].allocated <=> References(handles', services', e) > 0
    BY <2>1 DEF ReferencesCounted, References, Holders, HoldersOf, Registrars, RegistrarsOf
  <2>5. QED
    BY <2>3, <2>4
<1>2. RegistryTrusted'
  <2> SUFFICES ASSUME NEW w \in Service PROVE RegistryTrusted!(w)'
    BY DEF RegistryTrusted
  <2>1. CASE w = v
    BY <2>1
  <2>2. CASE w # v /\ services[w].endpoint # Null
    <3> DEFINE e == services[w].endpoint
    <3>1. /\ e \in Endpoint /\ endpoints'[e].allocated
          /\ endpoints[e].owner = services[w].trusted
          /\ endpoints[e].revoked => \E u \in Service \ {w} : services[u].trusted = services[w].trusted
      BY <1>1, <2>2, NamedAllocated, Parts DEF RegistryTrusted
    <3>2. services'[w] = services[w]
      BY <2>2
    <3>3. \A u \in Service : services'[u].trusted = services[u].trusted
      OBVIOUS
    <3>4. endpoints'[e].owner = services'[w].trusted
      BY <3>1, <3>2
    <3>5. CASE e = services[v].endpoint
      <4>1. services[v].trusted = services[w].trusted
        BY <2>2, <3>1, <3>5, Parts DEF RegistryTrusted
      <4>2. QED
        BY <2>2, <3>2, <3>3, <3>4, <4>1
    <3>6. CASE e # services[v].endpoint
      BY <2>2, <3>1, <3>2, <3>3, <3>4, <3>6
    <3>7. QED
      BY <3>5, <3>6
  <2>3. CASE w # v /\ services[w].endpoint = Null
    BY <2>3
  <2>4. QED
    BY <2>1, <2>2, <2>3
<1>3. SessionsAgree'
  <2> SUFFICES ASSUME NEW q \in Process PROVE SessionsAgree!(q)'
    BY DEF SessionsAgree
  <2>1. /\ session[q] \in Session /\ session[q].generation \in Int
        /\ services[v].generation \in Int
    BY Parts DEF TypeOK, Session, ServiceRecord
  <2>2. CASE session[q].endpoint # Null /\ session[q].service = v
    <3>1. session[q].generation <= services[v].generation
      BY <2>2, Parts DEF SessionsAgree
    <3>2. /\ session[q].generation <= services'[v].generation
          /\ session[q].generation # services'[v].generation
      BY <2>1, <3>1
    <3>3. QED
      BY <2>2, <3>2
  <2>3. CASE ~ (session[q].endpoint # Null /\ session[q].service = v)
    BY <2>3, Parts DEF SessionsAgree
  <2>4. QED
    BY <2>2, <2>3
<1>4. QED
  BY <1>2, <1>3 DEF SessionCurrent

(* The service records a registration or its withdrawal leaves.             *)
LEMMA ServiceUpdate ==
    ASSUME IInv, NEW v \in Service, NEW x \in Endpoint \cup {Null},
           NEW y \in Process \cup {NoProcess}, services[v].generation < MaxGeneration,
           services' = [services EXCEPT ![v].endpoint = x, ![v].provider = y,
                                        ![v].generation = @ + 1]
    PROVE  /\ services' \in [Service -> ServiceRecord]
           /\ \A w \in Service : w # v => services'[w] = services[w]
           /\ services'[v].endpoint = x /\ services'[v].trusted = services[v].trusted
           /\ services'[v].generation = services[v].generation + 1
<1> DEFINE r == [services[v] EXCEPT !.endpoint = x, !.provider = y, !.generation = @ + 1]
<1>1. services \in [Service -> ServiceRecord] /\ services[v] \in ServiceRecord
  BY Parts DEF TypeOK
<1>2. services[v].generation + 1 \in 1 .. MaxGeneration
  BY <1>1, IpcAssumption DEF ServiceRecord
<1>3. /\ r \in ServiceRecord /\ r.endpoint = x /\ r.trusted = services[v].trusted
      /\ r.generation = services[v].generation + 1
  BY <1>1, <1>2 DEF ServiceRecord
<1>4. services' = [services EXCEPT ![v] = r]
  BY <1>1
<1> HIDE DEF r
<1>5. QED
  BY <1>1, <1>3, <1>4, ZenonT(30)

LEMMA RegisterStep ==
    ASSUME IInv, NEW p \in Process, NEW v \in Service, NEW s \in HandleSlot,
           ipc_service_register(p, v, s)
    PROVE  IInv'
<1> DEFINE e == handles[p][s].object
           old == services[v].endpoint
           retained == endpoint_retain(endpoints, e)
<1>1. /\ services[v].generation < MaxGeneration /\ services[v].trusted = p
      /\ ~Vacant(p, s) /\ ~endpoints[e].revoked /\ endpoints[e].owner = p /\ old # e
      /\ endpoints' = IF old = Null THEN retained
                      ELSE endpoint_release([retained EXCEPT ![old].revoked = TRUE], old)
      /\ WakeWaitersOf(Freed(endpoints')) /\ EmptyQueuesOf(Freed(endpoints'))
      /\ services' = [services EXCEPT ![v].endpoint = e, ![v].provider = p,
                                      ![v].generation = @ + 1]
      /\ UNCHANGED <<handles, requests, closed, session>>
  BY DEF ipc_service_register, resolve_endpoint
<1>2. /\ e \in Endpoint /\ endpoints[e].allocated /\ endpoints[e].reference_count # 0
      /\ old # Null => /\ old \in Endpoint /\ endpoints[old].allocated
                       /\ endpoints[old].reference_count # 0
      /\ e # Null
  BY <1>1, NamedAllocated DEF Vacant
<1>3. /\ retained \in EndpointTable
      /\ \A d \in Endpoint : d # e => retained[d] = endpoints[d]
      /\ SameRing(endpoints[e], retained[e]) /\ retained[e].revoked = endpoints[e].revoked
      /\ retained[e].reference_count = endpoints[e].reference_count + 1
  BY <1>2, Parts, RetainEffect
<1>4. /\ services' \in [Service -> ServiceRecord]
      /\ \A w \in Service : w # v => services'[w] = services[w]
      /\ services'[v].endpoint = e /\ services'[v].trusted = services[v].trusted
      /\ services'[v].generation = services[v].generation + 1
  BY <1>1, <1>2, ServiceUpdate
<1> HIDE DEF retained, e
<1>5. /\ endpoints' \in EndpointTable
      /\ \A d \in Endpoint : d # e /\ d # old => endpoints'[d] = endpoints[d]
      /\ endpoints'[e] = retained[e]
      /\ old # Null =>
           /\ endpoints[old].reference_count = 1 => endpoints'[old] = ClearedEndpoint
           /\ endpoints[old].reference_count # 1 =>
                /\ SameRing(endpoints[old], endpoints'[old])
                /\ endpoints'[old].reference_count = endpoints[old].reference_count - 1
  <2>1. CASE old = Null
    BY <1>1, <1>3, <2>1
  <2>2. CASE old # Null
    <3>1. retained[old] = endpoints[old] /\ old \in Endpoint
      BY <1>1, <1>2, <1>3, <2>2
    <3> HIDE DEF old
    <3>2. /\ endpoints' = endpoint_release([retained EXCEPT ![old].revoked = TRUE], old)
          /\ retained[old].reference_count # 0
      BY <1>1, <1>2, <2>2, <3>1
    <3>3. /\ endpoints' \in EndpointTable
          /\ \A d \in Endpoint : d # old => endpoints'[d] = retained[d]
          /\ retained[old].reference_count = 1 => endpoints'[old] = ClearedEndpoint
          /\ retained[old].reference_count # 1 =>
               /\ SameRing(retained[old], endpoints'[old])
               /\ endpoints'[old].reference_count = retained[old].reference_count - 1
      BY <1>3, <3>1, <3>2, RevokeRelease
    <3>4. QED
      BY <1>1, <1>2, <1>3, <3>1, <3>3
  <2>3. QED
    BY <2>1, <2>2
<1>6. \A d \in Endpoint : endpoints'[d].reference_count = References(handles', services', d)
  <2> SUFFICES ASSUME NEW d \in Endpoint
               PROVE  endpoints'[d].reference_count = References(handles', services', d)
    OBVIOUS
  <2>1. endpoints[d].reference_count = References(handles, services, d) /\ handles' = handles
    BY <1>1, Parts
  <2>2. Cardinality(HoldersOf(handles, d)) \in Nat /\ Cardinality(RegistrarsOf(services, d)) \in Nat
    BY ReferencesNat
  <2>3. Cardinality(RegistrarsOf(services', d))
          = IF d = e THEN Cardinality(RegistrarsOf(services, d)) + 1
            ELSE IF d = old THEN Cardinality(RegistrarsOf(services, d)) - 1
            ELSE Cardinality(RegistrarsOf(services, d))
    <3>1. services \in [Service -> ServiceRecord] /\ services'[v].endpoint # old
      BY <1>1, <1>4, Parts DEF TypeOK
    <3>2. QED
      BY <1>4, <3>1, RegisterCount
  <2>4. CASE d = e
    BY <1>3, <1>5, <2>1, <2>2, <2>3, <2>4 DEF References
  <2>5. CASE d # e /\ d = old
    <3>1. old # Null
      BY <2>5, IpcAssumption DEF Endpoint, Null
    <3>2. endpoints'[old].reference_count = endpoints[old].reference_count - 1
      BY <1>5, <3>1, ClearedType
    <3>3. QED
      BY <2>1, <2>2, <2>3, <2>5, <3>2 DEF References
  <2>6. CASE d # e /\ d # old
    BY <1>5, <2>1, <2>2, <2>3, <2>6 DEF References
  <2>7. QED
    BY <2>4, <2>5, <2>6
<1>7. \A d \in Endpoint : Touched(endpoints[d], endpoints'[d])
  <2> SUFFICES ASSUME NEW d \in Endpoint PROVE Touched(endpoints[d], endpoints'[d])
    OBVIOUS
  <2>1. endpoints[d].reference_count \in Nat
    BY Parts
  <2>2. CASE d = e
    BY <1>2, <1>3, <1>5, <2>1, <2>2 DEF Touched
  <2>3. CASE d # e /\ d = old
    <3>1. old # Null
      BY <2>3, IpcAssumption DEF Endpoint, Null
    <3>2. QED
      BY <1>2, <1>5, <2>1, <2>3, <3>1 DEF Touched
  <2>4. CASE d # e /\ d # old
    BY <1>5, <2>4 DEF Touched
  <2>5. QED
    BY <2>2, <2>3, <2>4
<1>8. TypeOK'
  <2>1. process' \in [Process -> {"ready", "blocked", "exited"}]
    BY <1>1, Parts DEF TypeOK, WakeWaitersOf
  <2>2. pending' \in [Endpoint -> Seq(Message)]
    BY <1>1, Parts DEF TypeOK, EmptyQueuesOf
  <2>3. QED
    BY <1>1, <1>4, <1>5, <2>1, <2>2, Parts DEF TypeOK, EndpointTable
<1>9. NoMessageMissed' /\ ReferencesCounted'
  <2>1. /\ pending' = [d \in Endpoint |-> IF d \in Freed(endpoints') THEN <<>> ELSE pending[d]]
        /\ \A q \in Process : process'[q] = "blocked" <=>
             process[q] = "blocked" /\ ~ \E d \in Freed(endpoints') : q \in Waiters(d)
    BY <1>1 DEF EmptyQueuesOf, WakeWaitersOf
  <2>2. QED
    BY <1>6, <1>7, <1>8, <2>1, ReferenceStep
<1>10. SessionCurrent'
  <2>1. \A d \in Endpoint :
          \/ ~ endpoints'[d].allocated
          \/ /\ endpoints'[d].owner = endpoints[d].owner
             /\ endpoints'[d].revoked = endpoints[d].revoked \/ d = services[v].endpoint
    <3> SUFFICES ASSUME NEW d \in Endpoint
                 PROVE \/ ~ endpoints'[d].allocated
                       \/ /\ endpoints'[d].owner = endpoints[d].owner
                          /\ endpoints'[d].revoked = endpoints[d].revoked \/ d = services[v].endpoint
      OBVIOUS
    <3>1. CASE d = e
      BY <1>3, <1>5, <3>1 DEF SameRing
    <3>2. CASE d # e /\ d = old
      <4>1. old # Null
        BY <3>2, IpcAssumption DEF Endpoint, Null
      <4>2. QED
        BY <1>5, <3>2, <4>1, ClearedType DEF SameRing
    <3>3. CASE d # e /\ d # old
      BY <1>5, <3>3
    <3>4. QED
      BY <3>1, <3>2, <3>3
  <2>2. endpoints'[e].owner = services[v].trusted /\ ~ endpoints'[e].revoked
    BY <1>1, <1>3, <1>5 DEF SameRing, e
  <2>3. QED
    BY <1>1, <1>2, <1>4, <1>9, <2>1, <2>2, RegistryChanged, ZenonT(30)
<1>11. QED
  BY <1>9, <1>10 DEF IInv

LEMMA UnregisterStep ==
    ASSUME IInv, NEW p \in Process, NEW v \in Service, ipc_service_unregister(p, v)
    PROVE  IInv'
<1> DEFINE old == services[v].endpoint
<1>1. /\ services[v].generation < MaxGeneration /\ old # Null
      /\ endpoints' = endpoint_release([endpoints EXCEPT ![old].revoked = TRUE], old)
      /\ WakeWaitersOf(Freed(endpoints')) /\ EmptyQueuesOf(Freed(endpoints'))
      /\ services' = [services EXCEPT ![v].endpoint = Null, ![v].provider = NoProcess,
                                      ![v].generation = @ + 1]
      /\ UNCHANGED <<handles, requests, closed, session>>
  BY DEF ipc_service_unregister
<1>2. old \in Endpoint /\ endpoints[old].allocated /\ endpoints[old].reference_count # 0
  BY <1>1, NamedAllocated
<1>3. /\ endpoints' \in EndpointTable
      /\ \A d \in Endpoint : d # old => endpoints'[d] = endpoints[d]
      /\ endpoints[old].reference_count = 1 => endpoints'[old] = ClearedEndpoint
      /\ endpoints[old].reference_count # 1 =>
           /\ SameRing(endpoints[old], endpoints'[old])
           /\ endpoints'[old].reference_count = endpoints[old].reference_count - 1
  BY <1>1, <1>2, Parts, RevokeRelease
<1>4. /\ services' \in [Service -> ServiceRecord]
      /\ \A w \in Service : w # v => services'[w] = services[w]
      /\ services'[v].endpoint = Null /\ services'[v].trusted = services[v].trusted
      /\ services'[v].generation = services[v].generation + 1
  BY <1>1, ServiceUpdate
<1>5. \A d \in Endpoint : endpoints'[d].reference_count = References(handles', services', d)
  <2> SUFFICES ASSUME NEW d \in Endpoint
               PROVE  endpoints'[d].reference_count = References(handles', services', d)
    OBVIOUS
  <2>1. endpoints[d].reference_count = References(handles, services, d) /\ handles' = handles
    BY <1>1, Parts
  <2>2. Cardinality(HoldersOf(handles, d)) \in Nat /\ Cardinality(RegistrarsOf(services, d)) \in Nat
    BY ReferencesNat
  <2>3. Cardinality(RegistrarsOf(services', d))
          = IF d = old THEN Cardinality(RegistrarsOf(services, d)) - 1
            ELSE Cardinality(RegistrarsOf(services, d))
    <3>1. services \in [Service -> ServiceRecord]
      BY Parts DEF TypeOK
    <3>2. services'[v].endpoint = Null /\ d # Null /\ services'[v].endpoint # services[v].endpoint
      BY <1>1, <1>4, IpcAssumption DEF Endpoint, Null
    <3>3. \A w \in Service : w # v => services'[w].endpoint = services[w].endpoint
      BY <1>4
    <3>4. QED
      BY <3>1, <3>2, <3>3, RegisterCount
  <2>4. CASE d = old
    <3>1. endpoints'[old].reference_count = endpoints[old].reference_count - 1
      BY <1>3, ClearedType
    <3>2. QED
      BY <2>1, <2>2, <2>3, <2>4, <3>1 DEF References
  <2>5. CASE d # old
    BY <1>3, <2>1, <2>2, <2>3, <2>5 DEF References
  <2>6. QED
    BY <2>4, <2>5
<1>6. \A d \in Endpoint : Touched(endpoints[d], endpoints'[d])
  <2> HIDE DEF old
  <2>1. QED
    BY <1>2, <1>3, Parts DEF Touched
<1>7. TypeOK'
  <2>1. process' \in [Process -> {"ready", "blocked", "exited"}]
    BY <1>1, Parts DEF TypeOK, WakeWaitersOf
  <2>2. pending' \in [Endpoint -> Seq(Message)]
    BY <1>1, Parts DEF TypeOK, EmptyQueuesOf
  <2>3. QED
    BY <1>1, <1>3, <1>4, <2>1, <2>2, Parts DEF TypeOK, EndpointTable
<1>8. NoMessageMissed' /\ ReferencesCounted'
  <2>1. /\ pending' = [d \in Endpoint |-> IF d \in Freed(endpoints') THEN <<>> ELSE pending[d]]
        /\ \A q \in Process : process'[q] = "blocked" <=>
             process[q] = "blocked" /\ ~ \E d \in Freed(endpoints') : q \in Waiters(d)
    BY <1>1 DEF EmptyQueuesOf, WakeWaitersOf
  <2>2. QED
    BY <1>5, <1>6, <1>7, <2>1, ReferenceStep
<1>9. SessionCurrent'
  <2>1. \A d \in Endpoint :
          \/ ~ endpoints'[d].allocated
          \/ /\ endpoints'[d].owner = endpoints[d].owner
             /\ endpoints'[d].revoked = endpoints[d].revoked \/ d = services[v].endpoint
    BY <1>2, <1>3, ClearedType DEF SameRing
  <2>2. QED
    BY <1>1, <1>4, <1>8, <2>1, RegistryChanged
<1>10. QED
  BY <1>8, <1>9 DEF IInv

LEMMA TrustStep ==
    ASSUME IInv, NEW p \in Process, NEW v \in Service, ipc_trust_service(v, p)
    PROVE  IInv'
<1>1. /\ services[v].trusted = NoProcess /\ services' = [services EXCEPT ![v].trusted = p]
      /\ UNCHANGED <<endpoints, handles, process, requests, pending, closed, session>>
  BY DEF ipc_trust_service, ghosts
<1>2. services \in [Service -> ServiceRecord]
  BY Parts DEF TypeOK
<1>3. /\ services' \in [Service -> ServiceRecord]
      /\ \A w \in Service : /\ services'[w].endpoint = services[w].endpoint
                            /\ services'[w].generation = services[w].generation
      /\ \A w \in Service : w # v => services'[w].trusted = services[w].trusted
  BY <1>1, <1>2 DEF ServiceRecord
<1>4. TypeOK'
  BY <1>1, <1>3, Parts DEF TypeOK
<1>5. \A d \in Endpoint : endpoints'[d].reference_count = References(handles', services', d)
  BY <1>1, <1>3, Parts DEF References, HoldersOf, RegistrarsOf
<1>6. NoMessageMissed' /\ ReferencesCounted'
  <2>1. \A d \in Endpoint : Touched(endpoints[d], endpoints'[d])
    BY <1>1 DEF Touched
  <2>2. /\ pending' = [d \in Endpoint |-> IF d \in Freed(endpoints') THEN <<>> ELSE pending[d]]
        /\ \A r \in Process : process'[r] = "blocked" <=>
             process[r] = "blocked" /\ ~ \E d \in Freed(endpoints') : r \in Waiters(d)
    BY <1>1, NoneFreed, Parts
  <2>3. QED
    BY <1>4, <1>5, <2>1, <2>2, ReferenceStep
<1>7. \A w \in Service : services[w].endpoint # Null => services[w].trusted \in Process
  BY NamedAllocated, Parts DEF EndpointsSound, RegistryTrusted
<1>8. services[v].endpoint = Null
  BY <1>1, <1>7, IpcAssumption
<1>9. RegistryTrusted'
  <2> SUFFICES ASSUME NEW w \in Service, services[w].endpoint # Null PROVE RegistryTrusted!(w)'
    BY <1>3 DEF RegistryTrusted
  <2>1. w # v
    BY <1>8
  <2>2. endpoints[services[w].endpoint].revoked =>
          \E u \in Service \ {w} : u # v /\ services[u].trusted = services[w].trusted
    BY <1>1, <1>7, IpcAssumption, Parts DEF RegistryTrusted
  <2>3. QED
    BY <1>1, <1>3, <2>1, <2>2, Parts DEF RegistryTrusted
<1>10. SessionsAgree'
  BY <1>1, <1>3, Parts DEF SessionsAgree
<1>11. QED
  BY <1>6, <1>9, <1>10 DEF IInv, SessionCurrent

LEMMA CreateStep ==
    ASSUME IInv, NEW p \in Process, NEW depth \in 1 .. MaxDepth, ipc_endpoint_create(p, depth)
    PROVE  IInv'
<1> DEFINE r == [ClearedEndpoint EXCEPT !.allocated = TRUE, !.capacity = depth,
                                        !.reference_count = 1, !.owner = p]
<1>1. PICK e \in Endpoint, s \in FirstVacant(p) :
        /\ ~endpoints[e].allocated
        /\ endpoints' = [endpoints EXCEPT ![e] = r]
        /\ handles' = Inserted(handles, p, s, e, Right)
        /\ UNCHANGED <<services, process, requests, pending, closed, session>>
  BY DEF ipc_endpoint_create, ghosts
<1>2. /\ r \in EndpointRecord /\ r.allocated /\ r.capacity = depth /\ r.reference_count = 1
      /\ r.owner = p /\ r.head = 0 /\ r.tail = 0 /\ r.count = 0
      /\ r.receivers = <<>> /\ r.senders = <<>>
  <2>1. r.head = 0 /\ r.tail = 0
    BY DEF ClearedEndpoint
  <2>2. depth \in 0 .. MaxDepth
    BY IpcAssumption
  <2>3. QED
    BY <2>1, <2>2, ClearedType DEF EndpointRecord
<1> HIDE DEF r
<1>3. /\ endpoints' \in EndpointTable /\ endpoints'[e] = r
      /\ \A d \in Endpoint : d # e => endpoints'[d] = endpoints[d]
  BY <1>1, <1>2, Parts DEF EndpointTable
<1>4. s \in HandleSlot /\ handles[p][s].object = Null
  BY DEF FirstVacant, Vacant
<1>5. /\ handles' \in HandleTables
      /\ \A d \in Endpoint : Cardinality(HoldersOf(handles', d))
           = IF d = e THEN Cardinality(HoldersOf(handles, d)) + 1
             ELSE Cardinality(HoldersOf(handles, d))
  BY <1>1, <1>4, Parts, InsertCount
<1>6. endpoints[e] = ClearedEndpoint /\ pending[e] = <<>>
  <2>1. endpoints[e] = ClearedEndpoint
    BY <1>1, Parts DEF EndpointsSound
  <2>2. Len(pending[e]) = 0 /\ pending[e] \in Seq(Message)
    BY <2>1, ClearedType, Parts DEF RingIsQueue, TypeOK
  <2>3. QED
    BY <2>1, <2>2
<1>7. TypeOK'
  BY <1>1, <1>3, <1>5, Parts DEF TypeOK, EndpointTable, HandleTables
<1>8. EndpointsSound'
  <2> SUFFICES ASSUME NEW d \in Endpoint PROVE EndpointsSound!(d)'
    BY DEF EndpointsSound
  <2>1. CASE d = e
    <3>1. 0 = (0 + 0) % depth /\ depth > 0
      BY Wrap
    <3>2. QED
      BY <1>2, <1>3, <2>1, <3>1
  <2>2. CASE d # e
    BY <1>3, <2>2, Parts DEF EndpointsSound
  <2>3. QED
    BY <2>1, <2>2
<1>9. RingIsQueue'
  <2> SUFFICES ASSUME NEW d \in Endpoint PROVE RingIsQueue!(d)'
    BY DEF RingIsQueue
  <2>1. CASE d = e
    BY <1>1, <1>2, <1>3, <1>6, <2>1
  <2>2. CASE d # e
    BY <1>1, <1>3, <2>2, Parts DEF RingIsQueue
  <2>3. QED
    BY <2>1, <2>2
<1>10. ReceiverAwake'
  BY <1>2, <1>3, Parts DEF ReceiverAwake
<1>11. BlockedIsQueued'
  <2>1. WaitQueues' = WaitQueues
    BY <1>2, <1>3, <1>6, ClearedType DEF WaitQueues
  <2>2. process' = process
    BY <1>1
  <2>3. QED
    BY <2>1, <2>2, Parts DEF BlockedIsQueued, Queued
<1>12. ReferencesCounted'
  <2> SUFFICES ASSUME NEW d \in Endpoint PROVE ReferencesCounted!(d)'
    BY DEF ReferencesCounted
  <2>1. /\ endpoints[d].reference_count = References(handles, services, d)
        /\ endpoints[d].allocated <=> endpoints[d].reference_count > 0
    BY Parts
  <2>2. Cardinality(HoldersOf(handles, d)) \in Nat /\ Cardinality(RegistrarsOf(services, d)) \in Nat
    BY ReferencesNat
  <2>3. /\ Cardinality(Holders(d)') = Cardinality(HoldersOf(handles', d))
        /\ Cardinality(Registrars(d)') = Cardinality(RegistrarsOf(services, d))
    BY <1>1 DEF Holders, HoldersOf, Registrars, RegistrarsOf
  <2>4. CASE d = e
    <3>1. endpoints[e].reference_count = 0
      BY <1>6, ClearedType
    <3>2. QED
      BY <1>2, <1>3, <1>5, <2>1, <2>2, <2>3, <2>4, <3>1 DEF References
  <2>5. CASE d # e
    BY <1>3, <1>5, <2>1, <2>2, <2>3, <2>5 DEF References
  <2>6. QED
    BY <2>4, <2>5
<1>13. SessionCurrent'
  <2>1. \A d \in Endpoint :
          \/ ~ endpoints'[d].allocated \/ ~ endpoints[d].allocated
          \/ endpoints'[d].owner = endpoints[d].owner /\ endpoints'[d].revoked = endpoints[d].revoked
    BY <1>1, <1>3
  <2>2. QED
    BY <1>1, <1>12, <2>1, RegistryKept
<1>14. QED
  BY <1>7, <1>8, <1>9, <1>10, <1>11, <1>12, <1>13 DEF IInv, NoMessageMissed

(* The handles a process that exits leaves are finitely many handles.       *)
LEMMA ExitClosed ==
    ASSUME TypeOK, NEW p \in Process, NEW open \in SUBSET HandleSlot
    PROVE  /\ closed \cup {HandleAt(p, s) : s \in open} \in SUBSET Handle
           /\ IsFiniteSet(closed \cup {HandleAt(p, s) : s \in open})
<1> DEFINE T == {HandleAt(p, s) : s \in open}
           f == [s \in open |-> HandleAt(p, s)]
<1>1. IsFiniteSet(open)
  BY Finiteness
<1>2. f \in Surjection(open, T)
  BY DEF Surjection
<1>3. IsFiniteSet(T)
  <2> HIDE DEF T, f
  <2>1. QED
    BY <1>1, <1>2, FS_Surjection
<1>4. T \in SUBSET Handle
  BY HandleType
<1> HIDE DEF T
<1>5. closed \in SUBSET Handle /\ IsFiniteSet(closed)
  BY DEF TypeOK
<1>6. IsFiniteSet(closed \cup T)
  BY <1>3, <1>5, FS_Union
<1>7. QED
  BY <1>4, <1>5, <1>6 DEF T

LEMMA ExitStep ==
    ASSUME IInv, NEW p \in Process, process_mark_exited(p)
    PROVE  IInv'
<1> DEFINE n(e) == Cardinality(SlotsNaming(p, e))
           open == {s \in HandleSlot : ~Vacant(p, s)}
<1>1. /\ process[p] = "ready"
      /\ handles' = [handles EXCEPT ![p] = [s \in HandleSlot |->
                       IF s \in open
                       THEN [object |-> Null, rights |-> {},
                             counter |-> next_generation(handles[p][s].counter)]
                       ELSE handles[p][s]]]
      /\ endpoints' = [e \in Endpoint |->
                       IF n(e) = 0 THEN endpoints[e]
                       ELSE IF endpoints[e].reference_count = n(e) THEN ClearedEndpoint
                       ELSE [endpoints[e] EXCEPT !.reference_count = @ - n(e)]]
      /\ process' = [q \in Process |->
                      IF q = p THEN "exited"
                      ELSE IF \E e \in Freed(endpoints') : q \in Waiters(e) THEN "ready"
                      ELSE process[q]]
      /\ EmptyQueuesOf(Freed(endpoints'))
      /\ closed' = closed \cup {HandleAt(p, s) : s \in open}
      /\ UNCHANGED <<services, requests, session>>
  BY DEF process_mark_exited
<1>2. /\ handles' \in HandleTables
      /\ \A q \in Process : q # p => handles'[q] = handles[q]
      /\ \A s \in HandleSlot : handles'[p][s].object = Null
  <2>1. handles \in HandleTables
    BY Parts
  <2>2. ASSUME NEW s \in HandleSlot
        PROVE  [object |-> Null, rights |-> {}, counter |-> next_generation(handles[p][s].counter)]
                 \in HandleRecord
    <3>1. next_generation(handles[p][s].counter) \in Counter
      BY <2>1, NextCounter DEF HandleTables, HandleRecord
    <3>2. QED
      BY <3>1 DEF HandleRecord
  <2>3. \A s \in HandleSlot : s \notin open => handles[p][s].object = Null /\ handles[p][s] \in HandleRecord
    BY <2>1 DEF Vacant, HandleTables
  <2>4. QED
    BY <1>1, <2>1, <2>2, <2>3 DEF HandleTables
<1>3. ASSUME NEW d \in Endpoint
      PROVE  /\ n(d) \in Nat /\ n(d) <= endpoints[d].reference_count
             /\ References(handles', services', d) = endpoints[d].reference_count - n(d)
             /\ endpoints[d].reference_count \in Nat
  <2>1. SlotsNaming(p, d) = {s \in HandleSlot : handles[p][s].object = d}
    BY DEF SlotsNaming
  <2>2. Cardinality(HoldersOf(handles', d)) = Cardinality(HoldersOf(handles, d)) - n(d)
    BY <1>2, <2>1, Parts, ExitCount
  <2>3. /\ Cardinality(HoldersOf(handles, d)) \in Nat /\ Cardinality(RegistrarsOf(services, d)) \in Nat
        /\ Cardinality(HoldersOf(handles', d)) \in Nat
    BY ReferencesNat
  <2>4. n(d) \in Nat
    BY <2>1, Finiteness
  <2>5. endpoints[d].reference_count = References(handles, services, d) /\ services' = services
    BY <1>1, Parts
  <2> HIDE DEF n
  <2>6. QED
    BY <2>2, <2>3, <2>4, <2>5 DEF References
<1> HIDE DEF n
<1>4. ASSUME NEW d \in Endpoint
      PROVE  /\ endpoints'[d] \in EndpointRecord
             /\ Touched(endpoints[d], endpoints'[d])
             /\ endpoints'[d].reference_count = endpoints[d].reference_count - n(d)
             /\ endpoints'[d] = ClearedEndpoint \/
                  (endpoints'[d].owner = endpoints[d].owner /\ endpoints'[d].revoked = endpoints[d].revoked)
  <2>1. /\ endpoints[d] \in EndpointRecord /\ endpoints[d].reference_count \in Nat
        /\ endpoints[d].allocated <=> endpoints[d].reference_count > 0
    BY Parts DEF EndpointTable
  <2>2. CASE n(d) = 0
    <3>1. endpoints'[d] = endpoints[d]
      BY <1>1, <2>2
    <3>2. QED
      BY <2>1, <2>2, <3>1 DEF Touched
  <2>3. CASE n(d) # 0 /\ endpoints[d].reference_count = n(d)
    <3>1. endpoints'[d] = ClearedEndpoint
      BY <1>1, <2>3
    <3>2. endpoints[d].reference_count - n(d) = 0
      BY <1>3, <2>3
    <3>3. QED
      BY <3>1, <3>2, ClearedType DEF Touched
  <2>4. CASE n(d) # 0 /\ endpoints[d].reference_count # n(d)
    <3> DEFINE k == endpoints[d].reference_count - n(d)
    <3>1. k \in Nat /\ k > 0 /\ endpoints[d].allocated
      BY <1>3, <2>1, <2>4
    <3> DEFINE r == [endpoints[d] EXCEPT !.reference_count = k]
    <3>2. endpoints'[d] = r
      BY <1>1, <2>4
    <3> HIDE DEF k
    <3>3. /\ r \in EndpointRecord /\ SameRing(endpoints[d], r)
          /\ r.revoked = endpoints[d].revoked /\ r.reference_count = k
      BY <2>1, <3>1 DEF EndpointRecord, SameRing
    <3> HIDE DEF r
    <3>4. QED
      BY <3>1, <3>2, <3>3 DEF Touched, SameRing, k
  <2>5. QED
    BY <2>2, <2>3, <2>4
<1>5. TypeOK'
  <2>1. closed' \in SUBSET Handle /\ IsFiniteSet(closed')
    BY <1>1, Parts, ExitClosed
  <2>2. process' \in [Process -> {"ready", "blocked", "exited"}]
    BY <1>1, Parts DEF TypeOK
  <2>3. pending' \in [Endpoint -> Seq(Message)]
    BY <1>1, Parts DEF TypeOK, EmptyQueuesOf
  <2>4. endpoints' \in [Endpoint -> EndpointRecord]
    BY <1>1, <1>4
  <2>5. QED
    BY <1>1, <1>2, <2>1, <2>2, <2>3, <2>4, Parts DEF TypeOK, HandleTables
<1>6. NoMessageMissed' /\ ReferencesCounted'
  <2>1. /\ pending' = [d \in Endpoint |-> IF d \in Freed(endpoints') THEN <<>> ELSE pending[d]]
        /\ \A q \in Process : process'[q] = "blocked" <=>
             process[q] = "blocked" /\ ~ \E d \in Freed(endpoints') : q \in Waiters(d)
    BY <1>1 DEF EmptyQueuesOf
  <2>2. \A d \in Endpoint : endpoints'[d].reference_count = References(handles', services', d)
    BY <1>3, <1>4
  <2>3. QED
    BY <1>4, <1>5, <2>1, <2>2, ReferenceStep
<1>7. SessionCurrent'
  <2>1. \A d \in Endpoint :
          \/ ~ endpoints'[d].allocated \/ ~ endpoints[d].allocated
          \/ endpoints'[d].owner = endpoints[d].owner /\ endpoints'[d].revoked = endpoints[d].revoked
    BY <1>4, ClearedType
  <2>2. QED
    BY <1>1, <1>6, <2>1, RegistryKept
<1>8. QED
  BY <1>6, <1>7 DEF IInv

-----------------------------------------------------------------------------
(* Messages.                                                                *)

(* What resolve_endpoint finds is allocated.                                *)
LEMMA Resolved ==
    ASSUME IInv, NEW p \in Process, NEW s \in HandleSlot, NEW rights,
           resolve_endpoint(p, s, rights)
    PROVE  handles[p][s].object \in Endpoint /\ endpoints[handles[p][s].object].allocated
  BY NamedAllocated DEF resolve_endpoint

(* A step that changes only the ring and the queues of one endpoint keeps   *)
(* the references, the registry and the sessions.                           *)
LEMMA OneEndpoint ==
    ASSUME IInv, NEW e \in Endpoint, endpoints[e].allocated, NEW r \in EndpointRecord,
           endpoints' = [endpoints EXCEPT ![e] = r],
           r.allocated, r.reference_count = endpoints[e].reference_count,
           r.owner = endpoints[e].owner, r.revoked = endpoints[e].revoked,
           UNCHANGED <<handles, services, session>>
    PROVE  /\ endpoints' \in EndpointTable /\ endpoints'[e] = r
           /\ \A d \in Endpoint : d # e => endpoints'[d] = endpoints[d]
           /\ ReferencesCounted' /\ SessionCurrent'
<1>1. /\ endpoints' \in EndpointTable /\ endpoints'[e] = r
      /\ \A d \in Endpoint : d # e => endpoints'[d] = endpoints[d]
  BY Parts DEF EndpointTable
<1>2. \A d \in Endpoint : /\ endpoints'[d].reference_count = endpoints[d].reference_count
                          /\ endpoints'[d].allocated <=> endpoints[d].allocated
  BY <1>1
<1>3. ReferencesCounted'
  <2> SUFFICES ASSUME NEW d \in Endpoint PROVE ReferencesCounted!(d)'
    BY DEF ReferencesCounted
  <2>1. Holders(d)' = Holders(d) /\ Registrars(d)' = Registrars(d)
    BY DEF Holders, Registrars
  <2>2. QED
    BY <1>2, <2>1, Parts DEF ReferencesCounted
<1>4. \A d \in Endpoint :
        \/ ~ endpoints'[d].allocated \/ ~ endpoints[d].allocated
        \/ endpoints'[d].owner = endpoints[d].owner /\ endpoints'[d].revoked = endpoints[d].revoked
  BY <1>1
<1>5. QED
  BY <1>1, <1>3, <1>4, RegistryKept

(* The n messages from h on of a ring of c places are those of the queue.   *)
RingHolds(ring, h, n, c, queue) ==
    Len(queue) = n /\ \A i \in 1 .. n : ring[(h + i - 1) % c] = queue[i]

(* The sound endpoint's ring, with the types its positions have.            *)
LEMMA RingFacts ==
    ASSUME IInv, NEW e \in Endpoint, endpoints[e].allocated
    PROVE  /\ endpoints[e] \in EndpointRecord
           /\ endpoints[e].capacity \in Nat \ {0} /\ endpoints[e].capacity <= MaxDepth
           /\ endpoints[e].head \in Nat /\ endpoints[e].head < endpoints[e].capacity
           /\ endpoints[e].count \in Nat /\ endpoints[e].count <= endpoints[e].capacity
           /\ endpoints[e].tail \in Position
           /\ endpoints[e].tail = (endpoints[e].head + endpoints[e].count) % endpoints[e].capacity
           /\ endpoints[e].owner \in Process
           /\ endpoints[e].receivers \in Seq(Process) /\ endpoints[e].senders \in Seq(Process)
           /\ \A i \in DOMAIN endpoints[e].receivers : endpoints[e].receivers[i] = endpoints[e].owner
           /\ endpoints[e].messages \in [Position -> Message]
           /\ pending[e] \in Seq(Message)
           /\ RingHolds(endpoints[e].messages, endpoints[e].head, endpoints[e].count,
                        endpoints[e].capacity, pending[e])
<1>1. endpoints[e] \in EndpointRecord
  BY Parts DEF EndpointTable
<1>2. /\ endpoints[e].capacity \in 0 .. MaxDepth /\ endpoints[e].head \in Position
      /\ endpoints[e].count \in 0 .. MaxDepth /\ endpoints[e].tail \in Position
      /\ endpoints[e].receivers \in Seq(Process) /\ endpoints[e].senders \in Seq(Process)
      /\ endpoints[e].messages \in [Position -> Message]
  BY <1>1 DEF EndpointRecord
<1>3. /\ endpoints[e].capacity > 0 /\ endpoints[e].count <= endpoints[e].capacity
      /\ endpoints[e].head < endpoints[e].capacity
      /\ endpoints[e].tail = (endpoints[e].head + endpoints[e].count) % endpoints[e].capacity
      /\ endpoints[e].owner \in Process
      /\ \A i \in DOMAIN endpoints[e].receivers : endpoints[e].receivers[i] = endpoints[e].owner
  BY Parts DEF EndpointsSound
<1>4. /\ pending[e] \in Seq(Message) /\ Len(pending[e]) = endpoints[e].count
      /\ \A i \in 1 .. Len(pending[e]) :
           endpoints[e].messages[(endpoints[e].head + i - 1) % endpoints[e].capacity] = pending[e][i]
  BY Parts DEF RingIsQueue, TypeOK
<1>5. endpoints[e].capacity \in Nat \ {0} /\ endpoints[e].capacity <= MaxDepth
      /\ endpoints[e].head \in Nat /\ endpoints[e].count \in Nat
  BY <1>2, <1>3, IpcAssumption DEF Position
<1>6. RingHolds(endpoints[e].messages, endpoints[e].head, endpoints[e].count,
                endpoints[e].capacity, pending[e])
  BY <1>4 DEF RingHolds
<1>7. QED
  BY <1>1, <1>2, <1>3, <1>4, <1>5, <1>6

(* The wait queues of the table after one endpoint's record is replaced.    *)
LEMMA OneEndpointQueues ==
    ASSUME TypeOK, NEW e \in Endpoint, endpoints' \in EndpointTable,
           \A d \in Endpoint : d # e => endpoints'[d] = endpoints[d]
    PROVE  /\ endpoints'[e].senders = endpoints[e].senders =>
                WaitQueues' = [WaitQueues EXCEPT ![<<e, "receivers">>] = endpoints'[e].receivers]
           /\ endpoints'[e].receivers = endpoints[e].receivers =>
                WaitQueues' = [WaitQueues EXCEPT ![<<e, "senders">>] = endpoints'[e].senders]
<1>1. WaitQueues = [w \in Place |-> IF w[2] = "receivers" THEN endpoints[w[1]].receivers
                                    ELSE endpoints[w[1]].senders]
  BY DEF WaitQueues, Place
<1>2. WaitQueues' = [w \in Place |-> IF w[2] = "receivers" THEN endpoints'[w[1]].receivers
                                     ELSE endpoints'[w[1]].senders]
  BY DEF WaitQueues, Place
<1>3. /\ <<e, "receivers">> \in Place /\ <<e, "senders">> \in Place
      /\ \A w \in Place : w[1] \in Endpoint /\ w[2] \in Side
      /\ \A w \in Place : w[1] = e /\ w[2] = "receivers" => w = <<e, "receivers">>
      /\ \A w \in Place : w[1] = e /\ w[2] # "receivers" => w = <<e, "senders">>
      /\ <<e, "receivers">> # <<e, "senders">>
  BY DEF Place, Side
<1>4. \A w \in Place : w[1] # e => WaitQueues'[w] = WaitQueues[w]
  BY <1>1, <1>2, <1>3
<1>5. /\ WaitQueues'[<<e, "receivers">>] = endpoints'[e].receivers
      /\ WaitQueues'[<<e, "senders">>] = endpoints'[e].senders
      /\ WaitQueues[<<e, "receivers">>] = endpoints[e].receivers
      /\ WaitQueues[<<e, "senders">>] = endpoints[e].senders
  BY <1>1, <1>2, <1>3
<1> DEFINE Q == WaitQueues
           Q2 == WaitQueues'
<1>6. Q = [w \in Place |-> Q[w]] /\ Q2 = [w \in Place |-> Q2[w]]
  BY <1>1, <1>2
<1> HIDE DEF Q, Q2
<1>7. ASSUME endpoints'[e].senders = endpoints[e].senders
      PROVE  Q2 = [Q EXCEPT ![<<e, "receivers">>] = endpoints'[e].receivers]
  <2>1. \A w \in Place : w # <<e, "receivers">> => Q2[w] = Q[w]
    BY <1>3, <1>4, <1>5, <1>7 DEF Q, Q2
  <2>2. Q2[<<e, "receivers">>] = endpoints'[e].receivers
    BY <1>5 DEF Q2
  <2>3. QED
    BY <1>3, <1>6, <2>1, <2>2
<1>8. ASSUME endpoints'[e].receivers = endpoints[e].receivers
      PROVE  Q2 = [Q EXCEPT ![<<e, "senders">>] = endpoints'[e].senders]
  <2>1. \A w \in Place : w # <<e, "senders">> => Q2[w] = Q[w]
    BY <1>3, <1>4, <1>5, <1>8 DEF Q, Q2
  <2>2. Q2[<<e, "senders">>] = endpoints'[e].senders
    BY <1>5 DEF Q2
  <2>3. QED
    BY <1>3, <1>6, <2>1, <2>2
<1>9. QED
  BY <1>7, <1>8 DEF Q, Q2

(* Blocking on a queue of an endpoint.                                      *)
LEMMA BlockOn ==
    ASSUME TypeOK, BlockedIsQueued, NEW w \in Place, NEW p \in Process, process[p] = "ready",
           WaitQueues' = [WaitQueues EXCEPT ![w] = Append(WaitQueues[w], p)],
           process' = [process EXCEPT ![p] = "blocked"]
    PROVE  BlockedIsQueued'
<1>1. WaitQueues \in [Place -> Seq(Process)] /\ process \in [Process -> Status]
  BY WaitQueuesType DEF TypeOK, Status
<1>2. Queued(WaitQueues, process)
  BY DEF BlockedIsQueued
<1>3. Queued(WaitQueues', process')
  <2> DEFINE Q == WaitQueues
  <2> HIDE DEF Q
  <2>1. Q \in [Place -> Seq(Process)] /\ Queued(Q, process)
    BY <1>1, <1>2 DEF Q
  <2>2. Queued([Q EXCEPT ![w] = Append(@, p)], [process EXCEPT ![p] = "blocked"])
    BY <1>1, <2>1, QueuedAppend
  <2>3. QED
    BY <2>2 DEF Q
<1>4. QED
  BY <1>3 DEF BlockedIsQueued, Queued

(* Waking the first of a queue of an endpoint, if there is one.             *)
LEMMA WakeFirstOf ==
    ASSUME TypeOK, BlockedIsQueued, NEW w \in Place, WakeFirst(WaitQueues[w]),
           WaitQueues' = [WaitQueues EXCEPT ![w] = Rest(WaitQueues[w])]
    PROVE  BlockedIsQueued' /\ process' \in [Process -> Status]
<1>1. WaitQueues \in [Place -> Seq(Process)] /\ process \in [Process -> Status]
  BY WaitQueuesType DEF TypeOK, Status
<1>2. Queued(WaitQueues, process)
  BY DEF BlockedIsQueued
<1> DEFINE Q == WaitQueues
<1>3. CASE Q[w] = <<>>
  <2>1. process' = process /\ WaitQueues' = WaitQueues
    BY <1>1, <1>3 DEF WakeFirst, Rest
  <2>2. QED
    BY <1>1, <1>2, <2>1 DEF BlockedIsQueued, Queued
<1>4. CASE Q[w] # <<>>
  <2>1. /\ process' = [process EXCEPT ![Head(Q[w])] = "ready"]
        /\ WaitQueues' = [Q EXCEPT ![w] = Tail(Q[w])]
    BY <1>4 DEF WakeFirst, Rest
  <2>2. Q \in [Place -> Seq(Process)] /\ Queued(Q, process)
    BY <1>1, <1>2
  <2> HIDE DEF Q
  <2>3. Queued([Q EXCEPT ![w] = Tail(@)], [process EXCEPT ![Head(Q[w])] = "ready"])
    BY <1>1, <1>4, <2>2, QueuedPop
  <2>4. Queued(WaitQueues', process')
    BY <2>1, <2>3
  <2>5. process' \in [Process -> Status]
    BY <1>1, <2>1 DEF Status
  <2>6. QED
    BY <2>4, <2>5 DEF BlockedIsQueued, Queued
<1>5. QED
  BY <1>3, <1>4

(* What Append and Tail leave of a sequence.                                *)
LEMMA AppendFacts ==
    ASSUME NEW S, NEW q \in Seq(S), NEW m \in S
    PROVE  /\ Append(q, m) \in Seq(S) /\ Len(Append(q, m)) = Len(q) + 1
           /\ Append(q, m)[Len(q) + 1] = m
           /\ \A i \in 1 .. Len(q) : Append(q, m)[i] = q[i]
  OBVIOUS

(* The rest of a queue.                                                     *)
LEMMA TailFacts ==
    ASSUME NEW S, NEW q \in Seq(S), q # <<>>
    PROVE  /\ Tail(q) \in Seq(S) /\ Len(Tail(q)) = Len(q) - 1
           /\ \A i \in 1 .. Len(q) - 1 : Tail(q)[i] = q[i + 1]
  OBVIOUS

(* A message written behind the others, in a ring that is not full.         *)
LEMMA RingAppend ==
    ASSUME NEW c \in Nat \ {0}, c <= MaxDepth, NEW h \in Nat, h < c, NEW n \in Nat, n < c,
           NEW ring \in [Position -> Message], NEW queue \in Seq(Message),
           RingHolds(ring, h, n, c, queue), NEW m \in Message
    PROVE  /\ n + 1 \in 0 .. MaxDepth /\ n + 1 <= c
           /\ (((h + n) % c) + 1) % c \in Position
           /\ (((h + n) % c) + 1) % c = (h + (n + 1)) % c
           /\ [ring EXCEPT ![(h + n) % c] = m] \in [Position -> Message]
           /\ Append(queue, m) \in Seq(Message)
           /\ RingHolds([ring EXCEPT ![(h + n) % c] = m], h, n + 1, c, Append(queue, m))
<1> DEFINE t == (h + n) % c
<1>1. /\ \A i \in 1 .. n : (h + i - 1) % c # t
      /\ (t + 1) % c = (h + (n + 1)) % c
      /\ \A a \in Nat : a % c \in 0 .. c - 1
  <2>1. n <= c
    OBVIOUS
  <2>2. /\ \A i \in 1 .. n : (h + i - 1) % c # (h + n) % c
        /\ (((h + n) % c) + 1) % c = (h + (n + 1)) % c
        /\ \A a \in Nat : a % c \in 0 .. c - 1
    BY <2>1, RingPositions, ZenonT(30)
  <2>3. QED
    BY <2>2
<1>2. MaxDepth \in Nat /\ n + 1 \in 0 .. MaxDepth /\ n + 1 <= c
  BY IpcAssumption
<1>3. \A a \in Nat : a % c \in Position
  <2>1. 0 .. c - 1 \subseteq Position
    BY <1>2 DEF Position
  <2>2. QED
    BY <1>1, <2>1
<1>4. h + n \in Nat /\ h + (n + 1) \in Nat /\ \A i \in 1 .. n : h + i - 1 \in Nat
  OBVIOUS
<1>5. t \in Position /\ (t + 1) % c \in Position
  <2>1. t \in Position
    BY <1>3, <1>4
  <2>2. (h + (n + 1)) % c \in Position
    BY <1>3, <1>4
  <2>3. QED
    BY <1>1, <2>1, <2>2
<1>6. /\ Append(queue, m) \in Seq(Message) /\ Len(Append(queue, m)) = n + 1
      /\ Append(queue, m)[n + 1] = m /\ \A i \in 1 .. n : Append(queue, m)[i] = queue[i]
  BY AppendFacts DEF RingHolds
<1> DEFINE q2 == Append(queue, m)
           ring2 == [ring EXCEPT ![t] = m]
<1>7. /\ ring2 \in [Position -> Message] /\ ring2[t] = m
      /\ \A a \in Position : a # t => ring2[a] = ring[a]
  BY <1>5
<1> HIDE DEF q2, ring2
<1>8. ASSUME NEW i \in 1 .. n + 1 PROVE ring2[(h + i - 1) % c] = q2[i]
  <2>1. CASE i = n + 1
    <3>1. h + i - 1 = h + n
      BY <2>1
    <3>2. QED
      BY <1>6, <1>7, <2>1, <3>1 DEF q2
  <2>2. CASE i \in 1 .. n
    <3>1. (h + i - 1) % c \in Position /\ (h + i - 1) % c # t
      BY <1>1, <1>3, <1>4, <2>2
    <3>2. QED
      BY <1>6, <1>7, <2>2, <3>1 DEF q2, RingHolds
  <2>3. QED
    BY <2>1, <2>2
<1>9. RingHolds(ring2, h, n + 1, c, q2)
  BY <1>6, <1>8 DEF RingHolds, q2
<1>10. QED
  BY <1>1, <1>2, <1>5, <1>6, <1>7, <1>9 DEF q2, ring2

(* The first message taken out of a ring that is not empty.                 *)
LEMMA RingRemove ==
    ASSUME NEW c \in Nat \ {0}, c <= MaxDepth, NEW h \in Nat, h < c, NEW n \in Nat, n <= c, n # 0,
           NEW ring \in [Position -> Message], NEW queue \in Seq(Message),
           RingHolds(ring, h, n, c, queue)
    PROVE  /\ n - 1 \in 0 .. MaxDepth /\ n - 1 <= c
           /\ (h + 1) % c \in Position /\ (h + 1) % c < c
           /\ (h + n) % c = (((h + 1) % c) + (n - 1)) % c
           /\ [ring EXCEPT ![h] = NoMessage] \in [Position -> Message]
           /\ Tail(queue) \in Seq(Message)
           /\ RingHolds([ring EXCEPT ![h] = NoMessage], (h + 1) % c, n - 1, c, Tail(queue))
<1>1. /\ \A i \in 1 .. c : (((h + 1) % c) + i - 1) % c = (h + (i + 1) - 1) % c
      /\ (h + n) % c = (((h + 1) % c) + (n - 1)) % c
      /\ \A a \in Nat : a % c \in 0 .. c - 1
  <2>1. n > 0
    OBVIOUS
  <2>2. QED
    BY <2>1, RingPositions
<1>2. MaxDepth \in Nat /\ n - 1 \in 0 .. MaxDepth /\ n - 1 <= c
  BY IpcAssumption
<1>3. \A a \in Nat : a % c \in Position
  <2>1. 0 .. c - 1 \subseteq Position
    BY <1>2 DEF Position
  <2>2. QED
    BY <1>1, <2>1
<1>4. h + 1 \in Nat /\ \A i \in 1 .. n - 1 : h + (i + 1) - 1 \in Nat /\ i + 1 \in 1 .. n /\ i \in 1 .. c
  OBVIOUS
<1>5. h \in Position /\ (h + 1) % c \in Position /\ (h + 1) % c < c
  <2>1. (h + 1) % c \in Position /\ (h + 1) % c \in 0 .. c - 1
    BY <1>1, <1>3, <1>4
  <2>2. h \in Position
    BY <1>2 DEF Position
  <2>3. QED
    BY <2>1, <2>2
<1>6. queue # <<>> /\ Len(queue) = n
  BY DEF RingHolds
<1>7. /\ Tail(queue) \in Seq(Message) /\ Len(Tail(queue)) = n - 1
      /\ \A i \in 1 .. n - 1 : Tail(queue)[i] = queue[i + 1]
  BY <1>6, TailFacts
<1> DEFINE q2 == Tail(queue)
           ring2 == [ring EXCEPT ![h] = NoMessage]
<1>8. /\ ring2 \in [Position -> Message]
      /\ \A a \in Position : a # h => ring2[a] = ring[a]
  BY <1>5 DEF Message
<1> HIDE DEF q2, ring2
<1>9. ASSUME NEW i \in 1 .. n - 1 PROVE ring2[(((h + 1) % c) + i - 1) % c] = q2[i]
  <2> DEFINE a == h + (i + 1) - 1
  <2>1. (((h + 1) % c) + i - 1) % c = a % c
    BY <1>1, <1>4
  <2>2. a \in Nat /\ a < 2 * c /\ a = h + i
    OBVIOUS
  <2> HIDE DEF a
  <2>3. a % c \in Position
    BY <1>3, <2>2
  <2>4. a % c # h
    <3>1. a % c = IF a < c THEN a ELSE a - c
      BY <2>2, Wrap
    <3>2. CASE a < c
      BY <2>2, <3>1, <3>2
    <3>3. CASE ~ (a < c)
      <4>1. a - c # h
        BY <2>2
      <4>2. QED
        BY <3>1, <3>3, <4>1
    <3>4. QED
      BY <3>2, <3>3
  <2>5. ring2[a % c] = ring[a % c]
    BY <1>8, <2>3, <2>4
  <2>6. ring[a % c] = queue[i + 1]
    BY <1>4 DEF a, RingHolds
  <2>7. QED
    BY <1>7, <2>1, <2>5, <2>6 DEF q2
<1>10. RingHolds(ring2, (h + 1) % c, n - 1, c, q2)
  BY <1>7, <1>9 DEF RingHolds, q2
<1>11. QED
  BY <1>1, <1>2, <1>5, <1>7, <1>8, <1>10 DEF q2, ring2

(* A ring that is sound: what a replaced record of an endpoint must meet.   *)
SoundRing(r, queue) ==
    /\ r.allocated /\ r.capacity > 0 /\ r.count <= r.capacity /\ r.head < r.capacity
    /\ r.tail = (r.head + r.count) % r.capacity
    /\ r.owner \in Process
    /\ \A i \in DOMAIN r.receivers : r.receivers[i] = r.owner
    /\ r.receivers # <<>> => r.count = 0
    /\ RingHolds(r.messages, r.head, r.count, r.capacity, queue)

(* What every step that sends or receives on one endpoint has to show.      *)
LEMMA RingStep ==
    ASSUME IInv, NEW e \in Endpoint, endpoints[e].allocated, NEW r \in EndpointRecord,
           NEW queue \in Seq(Message), SoundRing(r, queue),
           endpoints' = [endpoints EXCEPT ![e] = r], pending' = [pending EXCEPT ![e] = queue],
           r.reference_count = endpoints[e].reference_count,
           r.owner = endpoints[e].owner, r.revoked = endpoints[e].revoked,
           UNCHANGED <<handles, services, closed, session>>, requests' \in 0 .. MaxRequests,
           process' \in [Process -> Status], BlockedIsQueued'
    PROVE  IInv'
<1>1. /\ endpoints' \in EndpointTable /\ endpoints'[e] = r
      /\ \A d \in Endpoint : d # e => endpoints'[d] = endpoints[d]
      /\ ReferencesCounted' /\ SessionCurrent'
  BY OneEndpoint DEF SoundRing
<1>2. /\ pending \in [Endpoint -> Seq(Message)]
      /\ pending' \in [Endpoint -> Seq(Message)] /\ pending'[e] = queue
      /\ \A d \in Endpoint : d # e => pending'[d] = pending[d]
  BY Parts DEF TypeOK
<1>3. TypeOK'
  BY <1>1, <1>2, Parts DEF TypeOK, EndpointTable, Status
<1>4. EndpointsSound'
  <2> SUFFICES ASSUME NEW d \in Endpoint PROVE EndpointsSound!(d)'
    BY DEF EndpointsSound
  <2>1. CASE d = e
    BY <1>1, <2>1 DEF SoundRing
  <2>2. CASE d # e
    BY <1>1, <2>2, Parts DEF EndpointsSound
  <2>3. QED
    BY <2>1, <2>2
<1>5. RingIsQueue'
  <2> SUFFICES ASSUME NEW d \in Endpoint PROVE RingIsQueue!(d)'
    BY DEF RingIsQueue
  <2>1. CASE d = e
    BY <1>1, <1>2, <2>1 DEF SoundRing, RingHolds
  <2>2. CASE d # e
    BY <1>1, <1>2, <2>2, Parts DEF RingIsQueue
  <2>3. QED
    BY <2>1, <2>2
<1>6. ReceiverAwake'
  BY <1>1, Parts DEF ReceiverAwake, SoundRing
<1>7. QED
  BY <1>1, <1>3, <1>4, <1>5, <1>6 DEF IInv, NoMessageMissed

(* A process is on one wait queue once, and only its owner waits to receive *)
(* from an endpoint: there is at most one receiver.                         *)
LEMMA OneReceiver ==
    ASSUME IInv, NEW e \in Endpoint, endpoints[e].allocated
    PROVE  Rest(endpoints[e].receivers) = <<>>
<1> DEFINE q == endpoints[e].receivers
<1>1. q \in Seq(Process) /\ \A i \in DOMAIN q : q[i] = endpoints[e].owner
  BY RingFacts
<1>2. ASSUME NEW i \in DOMAIN q, NEW j \in DOMAIN q PROVE i = j
  <2> DEFINE w == <<e, "receivers">>
  <2>1. w \in Place /\ WaitQueues[w] = q
    BY Parts, WaitQueuesType
  <2>2. Queued(WaitQueues, process)
    BY Parts DEF BlockedIsQueued
  <2>3. WaitQueues[w][i] = WaitQueues[w][j]
    BY <1>1, <1>2, <2>1
  <2> HIDE DEF w
  <2>4. QED
    BY <2>1, <2>2, <2>3 DEF Queued, Place
<1> HIDE DEF q
<1>3. Len(q) \in Nat /\ DOMAIN q = 1 .. Len(q)
  BY <1>1
<1>4. Len(q) <= 1
  <2> SUFFICES ASSUME Len(q) > 1 PROVE FALSE
    BY <1>3
  <2>1. 1 \in DOMAIN q /\ 2 \in DOMAIN q
    BY <1>3
  <2>2. QED
    BY <1>2, <2>1
<1>5. CASE q = <<>>
  BY <1>5 DEF Rest, q
<1>6. CASE q # <<>>
  <2>1. Len(q) = 1
    <3>1. Len(q) # 0
      BY <1>1, <1>6
    <3>2. QED
      BY <1>3, <1>4, <3>1
  <2>2. Tail(q) \in Seq(Process) /\ Len(Tail(q)) = 0
    BY <1>1, <1>6, <2>1, TailFacts
  <2>3. Tail(q) = <<>>
    <3> DEFINE u == Tail(q)
    <3>1. u \in Seq(Process) /\ Len(u) = 0
      BY <2>2
    <3> HIDE DEF u
    <3>2. u = <<>>
      BY <3>1
    <3>3. QED
      BY <3>2 DEF u
  <2>4. QED
    <3>1. Rest(q) = <<>>
      BY <1>6, <2>3 DEF Rest
    <3>2. QED
      BY <3>1 DEF q
<1>7. QED
  BY <1>5, <1>6

LEMMA SendStep ==
    ASSUME IInv, NEW p \in Process, NEW s \in HandleSlot, ipc_send(p, s)
    PROVE  IInv'
<1> DEFINE e == handles[p][s].object
           old == endpoints[e]
           m == [request |-> requests + 1, caller |-> p]
           queue == Append(pending[e], m)
           ring == [old.messages EXCEPT ![old.tail] = m]
           tail == (old.tail + 1) % old.capacity
           r == [old EXCEPT !.messages = ring, !.tail = tail, !.count = old.count + 1,
                            !.receivers = <<>>]
<1>1. /\ process[p] = "ready" /\ requests < MaxRequests
      /\ resolve_endpoint(p, s, {"signal"})
      /\ old.count # old.capacity
      /\ endpoints' = [endpoints EXCEPT ![e] =
                         [old EXCEPT !.messages[old.tail] = m, !.tail = Advance(@, old.capacity),
                                     !.count = @ + 1, !.receivers = Rest(@)]]
      /\ WakeFirst(old.receivers)
      /\ requests' = requests + 1
      /\ pending' = [pending EXCEPT ![e] = Append(@, m)]
      /\ UNCHANGED <<handles, services, closed, session>>
  BY DEF ipc_send
<1>2. e \in Endpoint /\ old.allocated
  BY <1>1, Resolved
<1> HIDE DEF e
<1>3. Rest(old.receivers) = <<>>
  BY <1>2, OneReceiver
<1>4. old \in EndpointRecord
  BY <1>2, RingFacts
<1>5. endpoints' = [endpoints EXCEPT ![e] = r] /\ pending' = [pending EXCEPT ![e] = queue]
  <2>1. pending' = [pending EXCEPT ![e] = queue]
    BY <1>1, <1>2, Parts DEF TypeOK
  <2> DEFINE x == [old EXCEPT !.messages[old.tail] = m, !.tail = Advance(@, old.capacity),
                              !.count = @ + 1, !.receivers = Rest(@)]
  <2>2. endpoints' = [endpoints EXCEPT ![e] = x]
    BY <1>1
  <2>3. x = r
    BY <1>3, <1>4 DEF EndpointRecord, Advance
  <2> HIDE DEF x, r
  <2>4. QED
    BY <2>1, <2>2, <2>3
<1>6. requests' \in 0 .. MaxRequests /\ m \in Message
  <2>1. requests + 1 \in 1 .. MaxRequests
    BY <1>1, Parts, IpcAssumption DEF TypeOK
  <2>2. QED
    BY <1>1, <2>1 DEF Message
<1> HIDE DEF m
<1>7. /\ old.count + 1 \in 0 .. MaxDepth /\ old.count + 1 <= old.capacity
      /\ tail \in Position /\ tail = (old.head + (old.count + 1)) % old.capacity
      /\ ring \in [Position -> Message] /\ queue \in Seq(Message)
      /\ RingHolds(ring, old.head, old.count + 1, old.capacity, queue)
  <2> DEFINE c == old.capacity
             h == old.head
             n == old.count
             t == old.tail
             g == old.messages
             q == pending[e]
  <2>1. /\ c \in Nat \ {0} /\ c <= MaxDepth /\ h \in Nat /\ h < c /\ n \in Nat /\ n <= c
        /\ t = (h + n) % c /\ g \in [Position -> Message] /\ q \in Seq(Message)
        /\ RingHolds(g, h, n, c, q)
    BY <1>2, RingFacts
  <2>2. n # c
    BY <1>1
  <2> HIDE DEF c, h, n, t, g, q, old
  <2>3. n < c
    BY <2>1, <2>2
  <2>4. /\ n + 1 \in 0 .. MaxDepth /\ n + 1 <= c
        /\ (((h + n) % c) + 1) % c \in Position /\ (((h + n) % c) + 1) % c = (h + (n + 1)) % c
        /\ [g EXCEPT ![(h + n) % c] = m] \in [Position -> Message]
        /\ Append(q, m) \in Seq(Message)
        /\ RingHolds([g EXCEPT ![(h + n) % c] = m], h, n + 1, c, Append(q, m))
    BY <1>6, <2>1, <2>3, RingAppend
  <2>5. QED
    BY <2>1, <2>4 DEF c, h, n, t, g, q
<1> HIDE DEF ring, tail, queue
<1>8. /\ r \in EndpointRecord
      /\ r.allocated = old.allocated /\ r.revoked = old.revoked /\ r.capacity = old.capacity
      /\ r.head = old.head /\ r.reference_count = old.reference_count /\ r.owner = old.owner
      /\ r.senders = old.senders /\ r.receivers = <<>> /\ r.tail = tail
      /\ r.count = old.count + 1 /\ r.messages = ring
  <2>1. /\ tail \in Position /\ ring \in [Position -> Message] /\ <<>> \in Seq(Process)
        /\ old.count + 1 \in 0 .. MaxDepth
    BY <1>7
  <2> DEFINE n == old.count + 1
             empty == <<>>
  <2> HIDE DEF old, n, empty
  <2>2. [old EXCEPT !.messages = ring, !.tail = tail, !.count = n, !.receivers = empty] \in EndpointRecord
    BY <1>4, <2>1 DEF EndpointRecord, n, empty
  <2>3. QED
    BY <1>4, <2>2 DEF EndpointRecord, n, empty
<1> HIDE DEF r
<1>9. SoundRing(r, queue)
  <2>1. old.capacity > 0 /\ old.head < old.capacity /\ old.owner \in Process
    BY <1>2, RingFacts
  <2>2. QED
    BY <1>2, <1>7, <1>8, <2>1 DEF SoundRing
<1>10. BlockedIsQueued' /\ process' \in [Process -> Status]
  <2> DEFINE w == <<e, "receivers">>
  <2>1. w \in Place /\ WaitQueues[w] = old.receivers
    BY <1>2, Parts, WaitQueuesType
  <2>2. endpoints' \in EndpointTable /\ endpoints'[e] = r
        /\ \A d \in Endpoint : d # e => endpoints'[d] = endpoints[d]
    BY <1>2, <1>5, <1>8, Parts DEF EndpointTable
  <2>3. WaitQueues' = [WaitQueues EXCEPT ![w] = <<>>]
    BY <1>2, <1>8, <2>2, Parts, OneEndpointQueues
  <2>4. WakeFirst(WaitQueues[w]) /\ WaitQueues' = [WaitQueues EXCEPT ![w] = Rest(WaitQueues[w])]
    BY <1>1, <1>3, <2>1, <2>3
  <2> HIDE DEF w
  <2>5. QED
    BY <2>1, <2>4, Parts, WakeFirstOf
<1>11. endpoints[e].allocated /\ r.reference_count = endpoints[e].reference_count
       /\ r.owner = endpoints[e].owner /\ r.revoked = endpoints[e].revoked
  BY <1>2, <1>8
<1>12. QED
  BY <1>1, <1>2, <1>5, <1>6, <1>7, <1>8, <1>9, <1>10, <1>11, RingStep

LEMMA ReceiveStep ==
    ASSUME IInv, NEW p \in Process, NEW s \in HandleSlot, ipc_receive(p, s)
    PROVE  IInv'
<1> DEFINE e == handles[p][s].object
           old == endpoints[e]
           queue == Tail(pending[e])
           ring == [old.messages EXCEPT ![old.head] = NoMessage]
           head == (old.head + 1) % old.capacity
           waiting == Rest(old.senders)
           r == [old EXCEPT !.messages = ring, !.head = head, !.count = old.count - 1,
                            !.senders = waiting]
<1>1. /\ process[p] = "ready"
      /\ resolve_endpoint(p, s, {"wait"})
      /\ old.count # 0
      /\ endpoints' = [endpoints EXCEPT ![e] =
                         [old EXCEPT !.messages[old.head] = NoMessage, !.head = Advance(@, old.capacity),
                                     !.count = @ - 1, !.senders = Rest(@)]]
      /\ WakeFirst(old.senders)
      /\ pending' = [pending EXCEPT ![e] = Tail(@)]
      /\ UNCHANGED <<handles, services, requests, closed, session>>
  BY DEF ipc_receive
<1>2. e \in Endpoint /\ old.allocated
  BY <1>1, Resolved
<1> HIDE DEF e
<1>3. waiting \in Seq(Process)
  <2>1. old.senders \in Seq(Process)
    BY <1>2, RingFacts
  <2>2. QED
    BY <2>1 DEF Rest
<1>4. old \in EndpointRecord
  BY <1>2, RingFacts
<1>5. endpoints' = [endpoints EXCEPT ![e] = r] /\ pending' = [pending EXCEPT ![e] = queue]
  <2>1. pending' = [pending EXCEPT ![e] = queue]
    BY <1>1, <1>2, Parts DEF TypeOK
  <2> DEFINE x == [old EXCEPT !.messages[old.head] = NoMessage, !.head = Advance(@, old.capacity),
                              !.count = @ - 1, !.senders = Rest(@)]
  <2>2. endpoints' = [endpoints EXCEPT ![e] = x]
    BY <1>1
  <2>3. x = r
    BY <1>4 DEF EndpointRecord, Advance
  <2> HIDE DEF x, r
  <2>4. QED
    BY <2>1, <2>2, <2>3
<1>6. /\ old.count - 1 \in 0 .. MaxDepth /\ old.count - 1 <= old.capacity
      /\ head \in Position /\ head < old.capacity
      /\ old.tail = (head + (old.count - 1)) % old.capacity
      /\ ring \in [Position -> Message] /\ queue \in Seq(Message)
      /\ RingHolds(ring, head, old.count - 1, old.capacity, queue)
  <2> DEFINE c == old.capacity
             h == old.head
             n == old.count
             t == old.tail
             g == old.messages
             q == pending[e]
  <2>1. /\ c \in Nat \ {0} /\ c <= MaxDepth /\ h \in Nat /\ h < c /\ n \in Nat /\ n <= c
        /\ t = (h + n) % c /\ g \in [Position -> Message] /\ q \in Seq(Message)
        /\ RingHolds(g, h, n, c, q)
    BY <1>2, RingFacts
  <2>2. n # 0
    BY <1>1
  <2> HIDE DEF c, h, n, t, g, q, old
  <2>3. /\ n - 1 \in 0 .. MaxDepth /\ n - 1 <= c
        /\ (h + 1) % c \in Position /\ (h + 1) % c < c
        /\ (h + n) % c = (((h + 1) % c) + (n - 1)) % c
        /\ [g EXCEPT ![h] = NoMessage] \in [Position -> Message]
        /\ Tail(q) \in Seq(Message)
        /\ RingHolds([g EXCEPT ![h] = NoMessage], (h + 1) % c, n - 1, c, Tail(q))
    BY <2>1, <2>2, RingRemove
  <2>4. QED
    BY <2>1, <2>3 DEF c, h, n, t, g, q
<1> HIDE DEF ring, head, queue, waiting
<1>7. /\ r \in EndpointRecord
      /\ r.allocated = old.allocated /\ r.revoked = old.revoked /\ r.capacity = old.capacity
      /\ r.tail = old.tail /\ r.reference_count = old.reference_count /\ r.owner = old.owner
      /\ r.receivers = old.receivers /\ r.senders = waiting /\ r.head = head
      /\ r.count = old.count - 1 /\ r.messages = ring
  <2>1. /\ head \in Position /\ ring \in [Position -> Message]
        /\ old.count - 1 \in 0 .. MaxDepth
    BY <1>6
  <2> DEFINE n == old.count - 1
  <2> HIDE DEF old, n
  <2>2. [old EXCEPT !.messages = ring, !.head = head, !.count = n, !.senders = waiting] \in EndpointRecord
    BY <1>3, <1>4, <2>1 DEF EndpointRecord, n
  <2>3. QED
    BY <1>4, <2>2 DEF EndpointRecord, n
<1> HIDE DEF r
<1>8. SoundRing(r, queue)
  <2>1. old.capacity > 0 /\ old.owner \in Process
        /\ \A i \in DOMAIN old.receivers : old.receivers[i] = old.owner
    BY <1>2, RingFacts
  <2>2. old.receivers = <<>>
    BY <1>1, <1>2, Parts DEF ReceiverAwake
  <2>3. QED
    BY <1>2, <1>6, <1>7, <2>1, <2>2 DEF SoundRing
<1>9. BlockedIsQueued' /\ process' \in [Process -> Status]
  <2> DEFINE w == <<e, "senders">>
  <2>1. w \in Place /\ WaitQueues[w] = old.senders
    BY <1>2, Parts, WaitQueuesType
  <2>2. endpoints' \in EndpointTable /\ endpoints'[e] = r
        /\ \A d \in Endpoint : d # e => endpoints'[d] = endpoints[d]
    BY <1>2, <1>5, <1>7, Parts DEF EndpointTable
  <2>3. WaitQueues' = [WaitQueues EXCEPT ![w] = waiting]
    BY <1>2, <1>7, <2>2, Parts, OneEndpointQueues
  <2>4. WakeFirst(WaitQueues[w]) /\ WaitQueues' = [WaitQueues EXCEPT ![w] = Rest(WaitQueues[w])]
    BY <1>1, <2>1, <2>3 DEF waiting
  <2> HIDE DEF w
  <2>5. QED
    BY <2>1, <2>4, Parts, WakeFirstOf
<1>10. endpoints[e].allocated /\ r.reference_count = endpoints[e].reference_count
       /\ r.owner = endpoints[e].owner /\ r.revoked = endpoints[e].revoked
  BY <1>2, <1>7
<1>11. requests' \in 0 .. MaxRequests
  BY <1>1, Parts DEF TypeOK
<1>12. QED
  BY <1>1, <1>2, <1>5, <1>6, <1>7, <1>8, <1>9, <1>10, <1>11, RingStep

(* A process that finds the ring full or empty goes on a wait queue of it.  *)
LEMMA BlockStep ==
    ASSUME IInv, NEW p \in Process, NEW e \in Endpoint, endpoints[e].allocated,
           process[p] = "ready", process' = [process EXCEPT ![p] = "blocked"],
           \/ endpoints' = [endpoints EXCEPT ![e].senders = Append(@, p)]
           \/ /\ endpoints' = [endpoints EXCEPT ![e].receivers = Append(@, p)]
              /\ endpoints[e].count = 0 /\ endpoints[e].owner = p,
           UNCHANGED <<handles, services, requests, ghosts>>
    PROVE  IInv'
<1> DEFINE old == endpoints[e]
           queue == pending[e]
<1>1. /\ old \in EndpointRecord
      /\ old.capacity > 0 /\ old.count <= old.capacity /\ old.head < old.capacity
      /\ old.tail = (old.head + old.count) % old.capacity
      /\ old.owner \in Process
      /\ old.receivers \in Seq(Process) /\ old.senders \in Seq(Process)
      /\ \A i \in DOMAIN old.receivers : old.receivers[i] = old.owner
      /\ queue \in Seq(Message)
      /\ RingHolds(old.messages, old.head, old.count, old.capacity, queue)
  BY RingFacts
<1>2. pending' = [pending EXCEPT ![e] = queue] /\ process' \in [Process -> Status]
  BY Parts DEF TypeOK, Status, ghosts
<1>3. UNCHANGED <<handles, services, closed, session>> /\ requests' \in 0 .. MaxRequests
  BY Parts DEF TypeOK, ghosts
<1>4. old.receivers # <<>> => old.count = 0
  BY Parts DEF ReceiverAwake
<1>5. CASE endpoints' = [endpoints EXCEPT ![e].senders = Append(@, p)]
  <2> DEFINE waiting == Append(old.senders, p)
             r == [old EXCEPT !.senders = waiting]
  <2>1. endpoints' = [endpoints EXCEPT ![e] = r] /\ waiting \in Seq(Process)
    BY <1>1, <1>5
  <2> HIDE DEF waiting
  <2>2. /\ r \in EndpointRecord
        /\ r.allocated = old.allocated /\ r.revoked = old.revoked /\ r.capacity = old.capacity
        /\ r.head = old.head /\ r.tail = old.tail /\ r.count = old.count
        /\ r.reference_count = old.reference_count /\ r.owner = old.owner
        /\ r.receivers = old.receivers /\ r.senders = waiting /\ r.messages = old.messages
    BY <1>1, <2>1 DEF EndpointRecord
  <2> HIDE DEF r
  <2>3. SoundRing(r, queue)
    BY <1>1, <1>4, <2>2 DEF SoundRing
  <2>4. BlockedIsQueued'
    <3> DEFINE w == <<e, "senders">>
    <3>1. w \in Place /\ WaitQueues[w] = old.senders
      BY Parts, WaitQueuesType
    <3>2. endpoints' \in EndpointTable /\ endpoints'[e] = r
          /\ \A d \in Endpoint : d # e => endpoints'[d] = endpoints[d]
      BY <2>1, <2>2, Parts DEF EndpointTable
    <3>3. WaitQueues' = [WaitQueues EXCEPT ![w] = waiting]
      BY <2>2, <3>2, Parts, OneEndpointQueues
    <3>4. WaitQueues' = [WaitQueues EXCEPT ![w] = Append(WaitQueues[w], p)]
      BY <3>1, <3>3 DEF waiting
    <3> HIDE DEF w
    <3>5. QED
      BY <3>1, <3>4, Parts, BlockOn
  <2>5. QED
    BY <1>1, <1>2, <1>3, <2>1, <2>2, <2>3, <2>4, RingStep
<1>6. CASE /\ endpoints' = [endpoints EXCEPT ![e].receivers = Append(@, p)]
           /\ old.count = 0 /\ old.owner = p
  <2> DEFINE waiting == Append(old.receivers, p)
             r == [old EXCEPT !.receivers = waiting]
  <2>1. endpoints' = [endpoints EXCEPT ![e] = r] /\ waiting \in Seq(Process)
        /\ \A i \in DOMAIN waiting : waiting[i] = p
    BY <1>1, <1>6
  <2> HIDE DEF waiting
  <2>2. /\ r \in EndpointRecord
        /\ r.allocated = old.allocated /\ r.revoked = old.revoked /\ r.capacity = old.capacity
        /\ r.head = old.head /\ r.tail = old.tail /\ r.count = old.count
        /\ r.reference_count = old.reference_count /\ r.owner = old.owner
        /\ r.receivers = waiting /\ r.senders = old.senders /\ r.messages = old.messages
    BY <1>1, <2>1 DEF EndpointRecord
  <2> HIDE DEF r
  <2>3. SoundRing(r, queue)
    BY <1>1, <1>6, <2>1, <2>2 DEF SoundRing
  <2>4. BlockedIsQueued'
    <3> DEFINE w == <<e, "receivers">>
    <3>1. w \in Place /\ WaitQueues[w] = old.receivers
      BY Parts, WaitQueuesType
    <3>2. endpoints' \in EndpointTable /\ endpoints'[e] = r
          /\ \A d \in Endpoint : d # e => endpoints'[d] = endpoints[d]
      BY <2>1, <2>2, Parts DEF EndpointTable
    <3>3. WaitQueues' = [WaitQueues EXCEPT ![w] = waiting]
      BY <2>2, <3>2, Parts, OneEndpointQueues
    <3>4. WaitQueues' = [WaitQueues EXCEPT ![w] = Append(WaitQueues[w], p)]
      BY <3>1, <3>3 DEF waiting
    <3> HIDE DEF w
    <3>5. QED
      BY <3>1, <3>4, Parts, BlockOn
  <2>5. QED
    BY <1>1, <1>2, <1>3, <2>1, <2>2, <2>3, <2>4, RingStep
<1>7. QED
  BY <1>5, <1>6

LEMMA SendBlocksStep ==
    ASSUME IInv, NEW p \in Process, NEW s \in HandleSlot, ipc_send_blocks(p, s)
    PROVE  IInv'
<1> DEFINE e == handles[p][s].object
<1>1. /\ process[p] = "ready" /\ resolve_endpoint(p, s, {"signal"})
      /\ endpoints' = [endpoints EXCEPT ![e].senders = Append(@, p)]
      /\ process' = [process EXCEPT ![p] = "blocked"]
      /\ UNCHANGED <<handles, services, requests, ghosts>>
  BY DEF ipc_send_blocks
<1>2. e \in Endpoint /\ endpoints[e].allocated
  BY <1>1, Resolved
<1> HIDE DEF e
<1>3. QED
  BY <1>1, <1>2, BlockStep

LEMMA ReceiveBlocksStep ==
    ASSUME IInv, NEW p \in Process, NEW s \in HandleSlot, ipc_receive_blocks(p, s)
    PROVE  IInv'
<1> DEFINE e == handles[p][s].object
<1>1. /\ process[p] = "ready" /\ resolve_endpoint(p, s, {"wait"})
      /\ endpoints[e].owner = p /\ endpoints[e].count = 0
      /\ endpoints' = [endpoints EXCEPT ![e].receivers = Append(@, p)]
      /\ process' = [process EXCEPT ![p] = "blocked"]
      /\ UNCHANGED <<handles, services, requests, ghosts>>
  BY DEF ipc_receive_blocks
<1>2. e \in Endpoint /\ endpoints[e].allocated
  BY <1>1, Resolved
<1> HIDE DEF e
<1>3. QED
  BY <1>1, <1>2, BlockStep

-----------------------------------------------------------------------------
(* The invariant holds at the start and every step keeps it.                *)
LEMMA InitInvariant == Init => IInv
<1> SUFFICES ASSUME Init PROVE IInv
  OBVIOUS
<1>1. ClearedEndpoint \in EndpointRecord
  BY ClearedType
<1>2. /\ endpoints = [e \in Endpoint |-> ClearedEndpoint]
      /\ \A e \in Endpoint : endpoints[e] = ClearedEndpoint
      /\ \A p \in Process, s \in HandleSlot : handles[p][s].object = Null
      /\ \A v \in Service : services[v].endpoint = Null
      /\ \A p \in Process : session[p].endpoint = Null /\ process[p] = "ready"
      /\ \A e \in Endpoint : pending[e] = <<>>
  BY DEF Init, NoSession
<1>3. TypeOK
  <2>1. endpoints \in [Endpoint -> EndpointRecord]
    BY <1>1, <1>2
  <2>2. handles \in [Process -> [HandleSlot -> HandleRecord]]
    <3>1. [object |-> Null, rights |-> {}, counter |-> 1] \in HandleRecord
      BY IpcAssumption DEF HandleRecord, Counter
    <3>2. QED
      BY <3>1 DEF Init
  <2>3. services \in [Service -> ServiceRecord]
    <3>1. [trusted |-> NoProcess, generation |-> 1, endpoint |-> Null, provider |-> NoProcess]
            \in ServiceRecord
      BY IpcAssumption DEF ServiceRecord
    <3>2. QED
      BY <3>1 DEF Init
  <2>4. session \in [Process -> Session]
    <3>1. NoSession \in Session
      BY IpcAssumption DEF NoSession, Session
    <3>2. QED
      BY <3>1 DEF Init
  <2>5. closed \in SUBSET Handle /\ IsFiniteSet(closed)
    BY FS_EmptySet DEF Init
  <2>6. requests \in 0 .. MaxRequests
    BY IpcAssumption DEF Init
  <2>7. process \in [Process -> {"ready", "blocked", "exited"}] /\ pending \in [Endpoint -> Seq(Message)]
    BY DEF Init
  <2>8. QED
    BY <2>1, <2>2, <2>3, <2>4, <2>5, <2>6, <2>7 DEF TypeOK
<1>4. /\ ~ ClearedEndpoint.allocated /\ ClearedEndpoint.count = 0
      /\ ClearedEndpoint.receivers = <<>> /\ ClearedEndpoint.senders = <<>>
      /\ ClearedEndpoint.reference_count = 0
  BY DEF ClearedEndpoint
<1>5. EndpointsSound /\ RingIsQueue /\ ReceiverAwake
  BY <1>2, <1>4 DEF EndpointsSound, RingIsQueue, ReceiverAwake
<1>6. BlockedIsQueued
  <2>1. \A w \in Endpoint \X Side : WaitQueues[w] = <<>>
    BY <1>2, <1>4 DEF WaitQueues, Side
  <2>2. QED
    BY <1>2, <2>1 DEF BlockedIsQueued, Queued
<1>7. ReferencesCounted
  <2> SUFFICES ASSUME NEW e \in Endpoint PROVE ReferencesCounted!(e)
    BY DEF ReferencesCounted
  <2>1. e # Null
    BY IpcAssumption DEF Endpoint, Null
  <2>2. Holders(e) = {} /\ Registrars(e) = {}
    BY <1>2, <2>1 DEF Holders, Registrars
  <2>3. Cardinality(Holders(e)) = 0 /\ Cardinality(Registrars(e)) = 0
    BY <2>2, FS_EmptySet
  <2>4. QED
    BY <1>2, <1>4, <2>3
<1>8. SessionCurrent
  BY <1>2 DEF SessionCurrent, RegistryTrusted, SessionsAgree
<1>9. QED
  BY <1>3, <1>5, <1>6, <1>7, <1>8 DEF IInv, NoMessageMissed

(* Every step keeps the invariant.                                          *)
LEMMA InvariantStep == IInv /\ [Next]_vars => IInv'
<1> SUFFICES ASSUME IInv, [Next]_vars PROVE IInv'
  OBVIOUS
<1>1. CASE UNCHANGED vars
  BY <1>1, Stutter
<1>2. ASSUME NEW p \in Process, NEW depth \in 1 .. MaxDepth, ipc_endpoint_create(p, depth)
      PROVE  IInv'
  BY <1>2, CreateStep
<1>3. ASSUME NEW p \in Process, NEW s \in HandleSlot, ipc_send(p, s) PROVE IInv'
  BY <1>3, SendStep
<1>4. ASSUME NEW p \in Process, NEW s \in HandleSlot, ipc_send_blocks(p, s) PROVE IInv'
  BY <1>4, SendBlocksStep
<1>5. ASSUME NEW p \in Process, NEW s \in HandleSlot, ipc_receive(p, s) PROVE IInv'
  BY <1>5, ReceiveStep
<1>6. ASSUME NEW p \in Process, NEW s \in HandleSlot, ipc_receive_blocks(p, s) PROVE IInv'
  BY <1>6, ReceiveBlocksStep
<1>7. ASSUME NEW p \in Process, NEW s \in HandleSlot, handle_table_close(p, s) PROVE IInv'
  BY <1>7, CloseStep
<1>8. ASSUME NEW p \in Process, NEW s \in HandleSlot, NEW rights \in ReducedRights,
             handle_table_duplicate(p, s, rights)
      PROVE  IInv'
  BY <1>8, DuplicateStep
<1>9. ASSUME NEW p \in Process, NEW s \in HandleSlot, NEW q \in Process,
             NEW rights \in ReducedRights, NEW close_source \in BOOLEAN,
             handle_table_transfer(p, q, s, rights, close_source)
      PROVE  IInv'
  BY <1>9, TransferStep
<1>10. ASSUME NEW p \in Process, NEW s \in HandleSlot, NEW v \in Service,
              ipc_service_register(p, v, s)
       PROVE  IInv'
  BY <1>10, RegisterStep
<1>11. ASSUME NEW p \in Process, NEW v \in Service, ipc_trust_service(v, p) PROVE IInv'
  BY <1>11, TrustStep
<1>12. ASSUME NEW p \in Process, NEW v \in Service, ipc_service_unregister(p, v) PROVE IInv'
  BY <1>12, UnregisterStep
<1>13. ASSUME NEW p \in Process, NEW v \in Service, ipc_service_connect(p, v) PROVE IInv'
  BY <1>13, ConnectStep
<1>14. ASSUME NEW p \in Process, process_mark_exited(p) PROVE IInv'
  BY <1>14, ExitStep
<1>15. QED
  BY <1>1, <1>2, <1>3, <1>4, <1>5, <1>6, <1>7, <1>8, <1>9, <1>10, <1>11, <1>12, <1>13, <1>14
  DEF Next

(* Hence it holds in every reachable state.                                 *)
LEMMA InvariantHolds == Spec => []IInv
<1>1. QED
  BY InitInvariant, InvariantStep, PTL DEF Spec

(* Messages arrive in the order sent, no receiver sleeps while one waits    *)
(* for it, and every blocked process is on one queue of an endpoint that    *)
(* still exists, however processes close, pass on and exit (ipc_send,       *)
(* ipc_receive, endpoint_release).                                          *)
THEOREM MessagesNotMissed == Spec => []NoMessageMissed
<1>1. IInv => NoMessageMissed
  BY DEF IInv
<1>2. QED
  BY <1>1, InvariantHolds, PTL

(* The count of an endpoint is the number of handles and services that name *)
(* it: it is cleared when the last one goes and not before                  *)
(* (endpoint_retain, endpoint_release).                                     *)
THEOREM ReferencesStayCounted == Spec => []ReferencesCounted
<1>1. IInv => ReferencesCounted
  BY DEF IInv
<1>2. QED
  BY <1>1, InvariantHolds, PTL

(* A client whose recorded generation is the service's talks to the         *)
(* endpoint registered now, which the trusted application owns              *)
(* (ipc_service_register, ipc_service_unregister, ipc_service_connect).     *)
THEOREM SessionsStayCurrent == Spec => []SessionCurrent
<1>1. IInv => SessionCurrent
  BY DEF IInv
<1>2. QED
  BY <1>1, InvariantHolds, PTL

-----------------------------------------------------------------------------
(* Closed handles.  A slot's counter takes one step for each handle closed  *)
(* in it, so it is back at an old value only after CounterMask closes.      *)

(* Who waits is blocked, so waking brings no process back from its exit.    *)
LEMMA WaitersBlocked ==
    ASSUME IInv, NEW e \in Endpoint, NEW p \in Process, p \in Waiters(e)
    PROVE  process[p] = "blocked"
<1>1. PICK w \in Place : \E i \in DOMAIN WaitQueues[w] : WaitQueues[w][i] = p
  BY Parts, WaitersQueued
<1>2. Queued(WaitQueues, process)
  BY Parts DEF BlockedIsQueued
<1>3. QED
  BY <1>1, <1>2 DEF Queued, Place

ExitedKept == \A p \in Process : process'[p] = "exited" <=> process[p] = "exited"

(* Waking the waiters of endpoints brings no exited process back.           *)
LEMMA WakesKeepExited ==
    ASSUME IInv, NEW gone \in SUBSET Endpoint, WakeWaitersOf(gone)
    PROVE  ExitedKept
<1> SUFFICES ASSUME NEW p \in Process PROVE process'[p] = "exited" <=> process[p] = "exited"
  BY DEF ExitedKept
<1>1. CASE \E e \in gone : p \in Waiters(e)
  <2>1. process'[p] = "ready" /\ process[p] = "blocked"
    BY <1>1, WaitersBlocked DEF WakeWaitersOf
  <2>2. QED
    BY <2>1
<1>2. CASE ~ \E e \in gone : p \in Waiters(e)
  BY <1>2 DEF WakeWaitersOf
<1>3. QED
  BY <1>1, <1>2

(* Nor does waking the first of a queue.                                    *)
LEMMA WakeFirstKeepsExited ==
    ASSUME IInv, NEW e \in Endpoint,
           WakeFirst(endpoints[e].receivers) \/ WakeFirst(endpoints[e].senders)
    PROVE  ExitedKept
<1> DEFINE R == endpoints[e].receivers
           S == endpoints[e].senders
<1>1. R \in Seq(Process) /\ S \in Seq(Process) /\ process \in [Process -> Status]
  BY Parts DEF EndpointTable, EndpointRecord, TypeOK, Status
<1>2. /\ \A i \in DOMAIN R : R[i] \in Waiters(e)
      /\ \A i \in DOMAIN S : S[i] \in Waiters(e)
  BY DEF Waiters, InQueue
<1> HIDE DEF R, S
<1>3. /\ R # <<>> => Head(R) \in Process /\ process[Head(R)] = "blocked"
      /\ S # <<>> => Head(S) \in Process /\ process[Head(S)] = "blocked"
  <2>1. ASSUME NEW q \in Seq(Process), q # <<>>, \A i \in DOMAIN q : q[i] \in Waiters(e)
        PROVE  Head(q) \in Process /\ process[Head(q)] = "blocked"
    <3>1. Head(q) = q[1] /\ 1 \in DOMAIN q /\ q[1] \in Process
      BY <2>1
    <3>2. QED
      BY <2>1, <3>1, WaitersBlocked
  <2>2. QED
    BY <1>1, <1>2, <2>1
<1>4. QED
  BY <1>1, <1>3 DEF WakeFirst, ExitedKept, R, S

(* Steps that close no handle keep the counters.                            *)
LEMMA CountersKept ==
    ASSUME TypeOK, CountersAdvance, closed' = closed, ExitedKept,
           \A q \in Process, t \in HandleSlot : handles'[q][t].counter = handles[q][t].counter,
           \A q \in Process, t \in HandleSlot : process[q] = "exited" => handles'[q][t] = handles[q][t]
    PROVE  CountersAdvance'
<1>1. \A h \in closed : h.owner \in Process /\ h.slot \in HandleSlot
  BY DEF TypeOK, Handle
<1> SUFFICES ASSUME NEW p \in Process PROVE CountersAdvance!(p)'
  BY DEF CountersAdvance
<1>2. CASE process[p] = "exited"
  BY <1>2 DEF CountersAdvance, ExitedKept, Vacant
<1>3. CASE process[p] # "exited"
  <2>1. process'[p] # "exited"
    BY <1>3 DEF ExitedKept
  <2>2. /\ \A h \in closed : h.owner = p => h.counter < handles[p][h.slot].counter
        /\ \A s \in HandleSlot : handles[p][s].counter <= 1 + Cardinality(closed)
    BY <1>3 DEF CountersAdvance
  <2>3. QED
    BY <1>1, <2>1, <2>2
<1>4. QED
  BY <1>2, <1>3

(* Closing the handle in one slot moves its counter past the closed one.    *)
LEMMA CountersClosed ==
    ASSUME MaxCloses < CounterMask, TypeOK, CountersAdvance, ExitedKept,
           NEW p \in Process, NEW s \in HandleSlot,
           process[p] # "exited", Cardinality(closed) < MaxCloses,
           closed' = closed \cup {HandleAt(p, s)},
           \A q \in Process, t \in HandleSlot : handles'[q][t].counter =
             IF q = p /\ t = s THEN next_generation(handles[p][s].counter) ELSE handles[q][t].counter,
           \A q \in Process, t \in HandleSlot : process[q] = "exited" => handles'[q][t] = handles[q][t]
    PROVE  CountersAdvance'
<1> DEFINE n == Cardinality(closed)
           c == handles[p][s].counter
<1>1. \A h \in closed : h.owner \in Process /\ h.slot \in HandleSlot /\ h.counter \in Counter
  BY DEF TypeOK, Handle
<1>2. \A q \in Process, t \in HandleSlot : handles[q][t].counter \in Counter
  BY DEF TypeOK, HandleRecord
<1>3. /\ \A h \in closed : h.owner = p => h.counter < handles[p][h.slot].counter
      /\ \A t \in HandleSlot : handles[p][t].counter <= 1 + n
  BY DEF CountersAdvance
<1>4. IsFiniteSet(closed) /\ n \in Nat
  BY FS_CardinalityType DEF TypeOK
<1>5. HandleAt(p, s) \notin closed
  <2>1. HandleAt(p, s).owner = p /\ HandleAt(p, s).slot = s /\ HandleAt(p, s).counter = c
    BY DEF HandleAt
  <2>2. c \in Nat
    BY <1>2 DEF Counter
  <2> HIDE DEF c
  <2>3. QED
    BY <1>3, <2>1, <2>2 DEF c
<1>6. Cardinality(closed') = n + 1
  BY <1>4, <1>5, FS_AddElement
<1>7. next_generation(c) = c + 1 /\ c \in Nat /\ c < CounterMask /\ c <= 1 + n
  <2>1. c \in Counter /\ c <= 1 + n
    BY <1>2, <1>3
  <2> HIDE DEF c, n
  <2>2. c < CounterMask /\ c \in Nat
    <3>1. n < MaxCloses
      BY DEF n
    <3>2. QED
      BY <1>4, <2>1, <3>1, IpcAssumption DEF Counter
  <2>3. QED
    BY <2>1, <2>2, NextCounter
<1> HIDE DEF n, c
<1> SUFFICES ASSUME NEW q \in Process PROVE CountersAdvance!(q)'
  BY DEF CountersAdvance
<1>8. CASE process[q] = "exited"
  BY <1>8 DEF CountersAdvance, ExitedKept, Vacant
<1>9. CASE process[q] # "exited"
  <2>1. process'[q] # "exited"
    BY <1>9 DEF ExitedKept
  <2>2. /\ \A h \in closed : h.owner = q => h.counter < handles[q][h.slot].counter
        /\ \A t \in HandleSlot : handles[q][t].counter <= 1 + n
    BY <1>9 DEF CountersAdvance, n
  <2>3. ASSUME NEW h \in closed', h.owner = q
        PROVE  h.counter < handles'[q][h.slot].counter
    <3>1. CASE h = HandleAt(p, s)
      <4>1. h.owner = p /\ h.slot = s /\ h.counter = c
        BY <3>1 DEF HandleAt, c
      <4>2. handles'[q][h.slot].counter = c + 1
        BY <1>7, <2>3, <4>1 DEF c
      <4>3. QED
        BY <1>7, <4>1, <4>2
    <3>2. CASE h \in closed
      <4>1. h.slot \in HandleSlot /\ h.counter \in Nat /\ h.counter < handles[q][h.slot].counter
        BY <1>1, <2>2, <2>3, <3>2 DEF Counter
      <4>2. CASE q = p /\ h.slot = s
        <5>1. handles'[q][h.slot].counter = c + 1 /\ h.counter < c
          BY <1>7, <4>1, <4>2 DEF c
        <5>2. QED
          BY <1>7, <4>1, <5>1
      <4>3. CASE ~ (q = p /\ h.slot = s)
        BY <4>1, <4>3
      <4>4. QED
        BY <4>2, <4>3
    <3>3. QED
      BY <3>1, <3>2
  <2>4. ASSUME NEW t \in HandleSlot PROVE handles'[q][t].counter <= 1 + Cardinality(closed')
    <3>1. CASE q = p /\ t = s
      <4>1. handles'[q][t].counter = c + 1
        BY <1>7, <3>1 DEF c
      <4>2. QED
        BY <1>4, <1>6, <1>7, <4>1
    <3>2. CASE ~ (q = p /\ t = s)
      <4>1. handles'[q][t].counter = handles[q][t].counter /\ handles[q][t].counter \in Nat
        BY <1>2, <3>2 DEF Counter
      <4>2. handles[q][t].counter <= 1 + n
        BY <2>2
      <4>3. QED
        BY <1>4, <1>6, <4>1, <4>2
    <3>3. QED
      BY <3>1, <3>2
  <2>5. QED
    BY <2>1, <2>3, <2>4
<1>10. QED
  BY <1>8, <1>9

(* Filling a vacant slot of a process that has not left.                    *)
LEMMA CountersInserted ==
    ASSUME IInv, CountersAdvance, NEW q \in Process, process[q] # "exited",
           NEW t \in FirstVacant(q), NEW e \in Endpoint, NEW rights \in SUBSET Right,
           handles' = Inserted(handles, q, t, e, rights), process' = process, closed' = closed
    PROVE  CountersAdvance'
<1>1. handles \in HandleTables /\ t \in HandleSlot /\ handles[q][t].object = Null
  BY Parts DEF FirstVacant, Vacant
<1>2. \A r \in Process, u \in HandleSlot :
        /\ handles'[r][u].counter = handles[r][u].counter
        /\ <<r, u>> # <<q, t>> => handles'[r][u] = handles[r][u]
  BY <1>1, InsertCount
<1>3. \A r \in Process, u \in HandleSlot : process[r] = "exited" => handles'[r][u] = handles[r][u]
  BY <1>2
<1>4. ExitedKept
  BY DEF ExitedKept
<1>5. QED
  BY <1>2, <1>3, <1>4, Parts, CountersKept

(* Steps that leave the handles alone.                                      *)
LEMMA CountersUntouched ==
    ASSUME IInv, CountersAdvance, handles' = handles, closed' = closed, ExitedKept
    PROVE  CountersAdvance'
  BY Parts, CountersKept

(* A process that leaves closes every handle; the others keep theirs.       *)
LEMMA CountersExit ==
    ASSUME IInv, IInv', CountersAdvance, NEW p \in Process, process_mark_exited(p)
    PROVE  CountersAdvance'
<1> DEFINE open == {s \in HandleSlot : ~Vacant(p, s)}
<1>1. /\ process' = [q \in Process |->
                      IF q = p THEN "exited"
                      ELSE IF \E e \in Freed(endpoints') : q \in Waiters(e) THEN "ready"
                      ELSE process[q]]
      /\ handles' = [handles EXCEPT ![p] = [s \in HandleSlot |->
                       IF s \in open
                       THEN [object |-> Null, rights |-> {},
                             counter |-> next_generation(handles[p][s].counter)]
                       ELSE handles[p][s]]]
      /\ closed' = closed \cup {HandleAt(p, s) : s \in open}
  BY DEF process_mark_exited
<1>2. /\ \A s \in HandleSlot : handles'[p][s].object = Null
      /\ \A q \in Process : q # p => handles'[q] = handles[q]
  BY <1>1, Parts DEF HandleTables, Vacant
<1>3. \A h \in closed' : h \in closed \/ h.owner = p
  BY <1>1 DEF HandleAt
<1>4. Cardinality(closed) <= Cardinality(closed') /\ Cardinality(closed) \in Nat /\ Cardinality(closed') \in Nat
  <2>1. IsFiniteSet(closed) /\ IsFiniteSet(closed') /\ closed \in SUBSET closed'
    BY <1>1, Parts DEF IInv, NoMessageMissed, TypeOK
  <2>2. QED
    BY <2>1, FS_Subset, FS_CardinalityType
<1>5. \A q \in Process : q # p => (process'[q] = "exited" <=> process[q] = "exited")
  <2> SUFFICES ASSUME NEW q \in Process, q # p PROVE process'[q] = "exited" <=> process[q] = "exited"
    OBVIOUS
  <2>1. CASE \E e \in Freed(endpoints') : q \in Waiters(e)
    <3>1. process[q] = "blocked"
      BY <2>1, WaitersBlocked DEF Freed
    <3>2. process'[q] = "ready"
      BY <1>1, <2>1
    <3>3. QED
      BY <3>1, <3>2
  <2>2. CASE ~ \E e \in Freed(endpoints') : q \in Waiters(e)
    BY <1>1, <2>2
  <2>3. QED
    BY <2>1, <2>2
<1> SUFFICES ASSUME NEW q \in Process PROVE CountersAdvance!(q)'
  BY DEF CountersAdvance
<1>6. CASE q = p
  BY <1>1, <1>2, <1>6 DEF Vacant
<1>7. CASE q # p /\ process[q] = "exited"
  BY <1>2, <1>5, <1>7 DEF CountersAdvance, Vacant
<1>8. CASE q # p /\ process[q] # "exited"
  <2>1. process'[q] # "exited" /\ handles'[q] = handles[q]
    BY <1>2, <1>5, <1>8
  <2>2. /\ \A h \in closed : h.owner = q => h.counter < handles[q][h.slot].counter
        /\ \A s \in HandleSlot : handles[q][s].counter <= 1 + Cardinality(closed)
        /\ \A s \in HandleSlot : handles[q][s].counter \in Nat
    BY <1>8, Parts DEF CountersAdvance, TypeOK, HandleRecord, Counter
  <2>3. \A s \in HandleSlot : handles'[q][s].counter <= 1 + Cardinality(closed')
    BY <1>4, <2>1, <2>2
  <2>4. \A h \in closed' : h.owner = q => h.counter < handles'[q][h.slot].counter
    BY <1>3, <1>8, <2>1, <2>2
  <2>5. QED
    BY <2>1, <2>3, <2>4
<1>9. QED
  BY <1>6, <1>7, <1>8

LEMMA CountersCloseStep ==
    ASSUME MaxCloses < CounterMask, IInv, CountersAdvance,
           NEW p \in Process, NEW s \in HandleSlot, handle_table_close(p, s)
    PROVE  CountersAdvance'
<1>1. /\ process[p] = "ready" /\ Cardinality(closed) < MaxCloses
      /\ handles' = Vacated(handles, p, s) /\ closed' = closed \cup {HandleAt(p, s)}
      /\ WakeWaitersOf(Freed(endpoints'))
  BY DEF handle_table_close
<1>2. ExitedKept
  BY <1>1, WakesKeepExited DEF Freed
<1>3. /\ \A q \in Process, t \in HandleSlot : <<q, t>> # <<p, s>> => handles'[q][t] = handles[q][t]
      /\ handles'[p][s].counter = next_generation(handles[p][s].counter)
  BY <1>1, Parts, VacateCount
<1>4. /\ \A q \in Process, t \in HandleSlot : handles'[q][t].counter =
           IF q = p /\ t = s THEN next_generation(handles[p][s].counter) ELSE handles[q][t].counter
      /\ \A q \in Process, t \in HandleSlot : process[q] = "exited" => handles'[q][t] = handles[q][t]
  BY <1>1, <1>3
<1>5. process[p] # "exited" /\ TypeOK
  BY <1>1, Parts
<1>6. QED
  BY <1>1, <1>2, <1>4, <1>5, CountersClosed

(* Vacating a slot changes no other, and advances its own counter.         *)
LEMMA VacateSlots ==
    ASSUME NEW hs \in HandleTables, NEW p \in Process, NEW s \in HandleSlot
    PROVE  /\ \A r \in Process, u \in HandleSlot : <<r, u>> # <<p, s>> => Vacated(hs, p, s)[r][u] = hs[r][u]
           /\ Vacated(hs, p, s)[p][s].counter = next_generation(hs[p][s].counter)
  BY VacateCount

LEMMA CountersTransferStep ==
    ASSUME MaxCloses < CounterMask, IInv, CountersAdvance,
           NEW p \in Process, NEW q \in Process, NEW s \in HandleSlot, NEW rights,
           NEW close_source \in BOOLEAN, handle_table_transfer(p, q, s, rights, close_source)
    PROVE  CountersAdvance'
<1> DEFINE e == handles[p][s].object
<1>1. /\ process[p] = "ready" /\ process[q] # "exited" /\ ~Vacant(p, s)
      /\ rights \subseteq handles[p][s].rights /\ process' = process
  BY DEF handle_table_transfer
<1>2. e \in Endpoint /\ rights \in SUBSET Right
  BY <1>1, Parts DEF HandleTables, HandleRecord, Vacant
<1>3. ExitedKept
  BY <1>1 DEF ExitedKept
<1>4. ASSUME NEW t \in FirstVacant(q), handles' = Inserted(handles, q, t, e, rights), closed' = closed
      PROVE  CountersAdvance'
  <2> HIDE DEF e
  <2>1. QED
    BY <1>1, <1>2, <1>4, CountersInserted
<1>5. ASSUME handles' = handles, closed' = closed PROVE CountersAdvance'
  BY <1>3, <1>5, CountersUntouched
<1>6. ASSUME NEW t \in FirstVacant(q), Cardinality(closed) < MaxCloses,
             handles' = Vacated(Inserted(handles, q, t, e, rights), p, s),
             closed' = closed \cup {HandleAt(p, s)}
      PROVE  CountersAdvance'
  <2> DEFINE hs == Inserted(handles, q, t, e, rights)
  <2>1. handles \in HandleTables /\ t \in HandleSlot /\ handles[q][t].object = Null
    BY Parts DEF FirstVacant, Vacant
  <2>2. /\ hs \in HandleTables
        /\ \A r \in Process, u \in HandleSlot :
             /\ hs[r][u].counter = handles[r][u].counter
             /\ <<r, u>> # <<q, t>> => hs[r][u] = handles[r][u]
    <3> HIDE DEF e
    <3>1. QED
      BY <1>2, <2>1, InsertCount
  <2> HIDE DEF hs
  <2>3. handles' = Vacated(hs, p, s)
    BY <1>6 DEF hs
  <2>a. hs \in HandleTables
    BY <2>2
  <2>4. /\ \A r \in Process, u \in HandleSlot : <<r, u>> # <<p, s>> => handles'[r][u] = hs[r][u]
        /\ handles'[p][s].counter = next_generation(hs[p][s].counter)
    BY ONLY <2>3, <2>a, VacateSlots
  <2>5. \A r \in Process, u \in HandleSlot : handles'[r][u].counter =
           IF r = p /\ u = s THEN next_generation(handles[p][s].counter) ELSE handles[r][u].counter
    BY <2>2, <2>4
  <2>6. \A r \in Process, u \in HandleSlot : process[r] = "exited" => handles'[r][u] = handles[r][u]
    BY <1>1, <2>2, <2>4
  <2>7. process[p] # "exited" /\ TypeOK
    BY <1>1, Parts
  <2>8. QED
    BY <1>3, <1>6, <2>5, <2>6, <2>7, CountersClosed
<1>7. \/ handles' = handles /\ closed' = closed
      \/ \E t \in FirstVacant(q) :
           \/ handles' = Inserted(handles, q, t, e, rights) /\ closed' = closed
           \/ /\ Cardinality(closed) < MaxCloses
              /\ handles' = Vacated(Inserted(handles, q, t, e, rights), p, s)
              /\ closed' = closed \cup {HandleAt(p, s)}
  BY DEF handle_table_transfer
<1>8. QED
  BY <1>4, <1>5, <1>6, <1>7

(* Every step keeps the counters ahead of the closed handles.               *)
LEMMA CountersStep ==
    ASSUME MaxCloses < CounterMask, IInv, CountersAdvance, [Next]_vars
    PROVE  CountersAdvance'
<1>1. CASE UNCHANGED vars
  <2>1. handles' = handles /\ closed' = closed /\ ExitedKept
    BY <1>1 DEF vars, ExitedKept
  <2>2. QED
    BY <2>1, CountersUntouched
<1>2. ASSUME NEW p \in Process, NEW depth \in 1 .. MaxDepth, ipc_endpoint_create(p, depth)
      PROVE  CountersAdvance'
  <2>1. PICK e \in Endpoint, t \in FirstVacant(p) :
          /\ process[p] = "ready" /\ handles' = Inserted(handles, p, t, e, Right)
          /\ process' = process /\ closed' = closed
    BY <1>2 DEF ipc_endpoint_create, ghosts
  <2>2. process[p] # "exited" /\ Right \in SUBSET Right
    BY <2>1
  <2>3. QED
    BY <2>1, <2>2, CountersInserted
<1>3. ASSUME NEW p \in Process, NEW s \in HandleSlot, ipc_send(p, s) \/ ipc_receive(p, s)
      PROVE  CountersAdvance'
  <2> DEFINE e == handles[p][s].object
  <2>1. /\ handles' = handles /\ closed' = closed
        /\ resolve_endpoint(p, s, {"signal"}) \/ resolve_endpoint(p, s, {"wait"})
        /\ WakeFirst(endpoints[e].receivers) \/ WakeFirst(endpoints[e].senders)
    BY <1>3 DEF ipc_send, ipc_receive
  <2>2. e \in Endpoint
    BY <2>1, Resolved
  <2> HIDE DEF e
  <2>3. QED
    BY <2>1, <2>2, WakeFirstKeepsExited, CountersUntouched
<1>4. ASSUME NEW p \in Process, NEW s \in HandleSlot,
             ipc_send_blocks(p, s) \/ ipc_receive_blocks(p, s)
      PROVE  CountersAdvance'
  <2>1. /\ handles' = handles /\ closed' = closed /\ process[p] = "ready"
        /\ process' = [process EXCEPT ![p] = "blocked"]
    BY <1>4 DEF ipc_send_blocks, ipc_receive_blocks, ghosts
  <2>2. ExitedKept
    BY <2>1, Parts DEF ExitedKept, TypeOK
  <2>3. QED
    BY <2>1, <2>2, CountersUntouched
<1>5. ASSUME NEW p \in Process, NEW s \in HandleSlot, handle_table_close(p, s)
      PROVE  CountersAdvance'
  BY <1>5, CountersCloseStep
<1>6. ASSUME NEW p \in Process, NEW s \in HandleSlot, NEW rights,
             handle_table_duplicate(p, s, rights)
      PROVE  CountersAdvance'
  <2> DEFINE e == handles[p][s].object
  <2>1. /\ process[p] = "ready" /\ ~Vacant(p, s) /\ rights \subseteq handles[p][s].rights
        /\ process' = process /\ closed' = closed
        /\ \/ \E t \in FirstVacant(p) : handles' = Inserted(handles, p, t, e, rights)
           \/ handles' = handles
    BY <1>6 DEF handle_table_duplicate, ghosts
  <2>2. e \in Endpoint /\ rights \in SUBSET Right /\ process[p] # "exited" /\ ExitedKept
    BY <2>1, Parts DEF HandleTables, HandleRecord, Vacant, ExitedKept
  <2> HIDE DEF e
  <2>3. QED
    BY <2>1, <2>2, CountersInserted, CountersUntouched
<1>7. ASSUME NEW p \in Process, NEW s \in HandleSlot, NEW q \in Process, NEW rights,
             NEW close_source \in BOOLEAN, handle_table_transfer(p, q, s, rights, close_source)
      PROVE  CountersAdvance'
  BY <1>7, CountersTransferStep
<1>8. ASSUME NEW p \in Process, NEW s \in HandleSlot, NEW v \in Service,
             ipc_service_register(p, v, s) \/ ipc_service_unregister(p, v)
      PROVE  CountersAdvance'
  <2>1. handles' = handles /\ closed' = closed /\ WakeWaitersOf(Freed(endpoints'))
    BY <1>8 DEF ipc_service_register, ipc_service_unregister
  <2>2. ExitedKept
    BY <2>1, WakesKeepExited DEF Freed
  <2>3. QED
    BY <2>1, <2>2, CountersUntouched
<1>9. ASSUME NEW p \in Process, NEW v \in Service, ipc_trust_service(v, p)
      PROVE  CountersAdvance'
  <2>1. handles' = handles /\ closed' = closed /\ ExitedKept
    BY <1>9 DEF ipc_trust_service, ghosts, ExitedKept
  <2>2. QED
    BY <2>1, CountersUntouched
<1>10. ASSUME NEW p \in Process, NEW v \in Service, ipc_service_connect(p, v)
       PROVE  CountersAdvance'
  <2> DEFINE e == services[v].endpoint
             given == {"signal", "duplicate", "transfer"}
  <2>1. /\ process[p] = "ready" /\ e # Null /\ process' = process /\ closed' = closed
        /\ \/ \E t \in FirstVacant(p) : handles' = Inserted(handles, p, t, e, given)
           \/ handles' = handles
    BY <1>10 DEF ipc_service_connect
  <2>2. e \in Endpoint /\ given \in SUBSET Right /\ process[p] # "exited" /\ ExitedKept
    BY <2>1, Parts DEF TypeOK, ServiceRecord, Right, ExitedKept
  <2> HIDE DEF e, given
  <2>3. QED
    BY <2>1, <2>2, CountersInserted, CountersUntouched
<1>11. ASSUME NEW p \in Process, process_mark_exited(p) PROVE CountersAdvance'
  <2>1. IInv'
    BY <1>11, ExitStep
  <2>2. QED
    BY <1>11, <2>1, CountersExit
<1>12. ASSUME NEW p \in Process, NEW v \in Service, ipc_service_unregister(p, v)
       PROVE  CountersAdvance'
  <2>1. 1 \in HandleSlot
    BY IpcAssumption DEF HandleSlot
  <2>2. QED
    BY <1>8, <1>12, <2>1
<1>13. QED
  BY <1>1, <1>2, <1>3, <1>4, <1>5, <1>6, <1>7, <1>8, <1>9, <1>10, <1>11, <1>12 DEF Next

(* A closed handle never resolves again although its slot is reused, as     *)
(* long as fewer handles are closed than a slot's counter has values        *)
(* (next_generation, handle_table_close, handle_table_transfer and          *)
(* handle_table_close_all).                                                 *)
THEOREM ClosedHandlesStayRefused ==
    ASSUME MaxCloses < CounterMask
    PROVE  Spec => []StaleHandleRefused
<1>1. Init => CountersAdvance
  <2> SUFFICES ASSUME Init PROVE CountersAdvance
    OBVIOUS
  <2>1. /\ closed = {}
        /\ \A p \in Process : process[p] = "ready"
        /\ \A p \in Process, s \in HandleSlot : handles[p][s].counter = 1
    BY DEF Init
  <2>2. Cardinality(closed) = 0
    BY <2>1, FS_EmptySet
  <2>3. QED
    BY <2>1, <2>2 DEF CountersAdvance
<1>2. IInv /\ CountersAdvance /\ [Next]_vars => CountersAdvance'
  BY CountersStep
<1>3. IInv /\ CountersAdvance => StaleHandleRefused
  <2> SUFFICES ASSUME IInv, CountersAdvance PROVE ClosedNeverResolves
    BY DEF StaleHandleRefused
  <2> SUFFICES ASSUME NEW h \in closed
               PROVE  Vacant(h.owner, h.slot) \/ handles[h.owner][h.slot].counter # h.counter
    BY DEF ClosedNeverResolves
  <2>1. h.owner \in Process /\ h.slot \in HandleSlot /\ h.counter \in Nat
    BY Parts DEF TypeOK, Handle, Counter
  <2>2. QED
    BY <2>1 DEF CountersAdvance
<1>4. QED
  BY <1>1, <1>2, <1>3, InvariantHolds, PTL DEF Spec
=============================================================================
