--------------------------- MODULE DesktopProofs ---------------------------
(***************************************************************************)
(* The desktop for every screen, number of windows, placement, generation  *)
(* limit, queue capacity and line length: the window manager's local       *)
(* adjustments keep the stack dense and the focus on top, no operation     *)
(* forgets a region it has changed, every view has its own window and      *)
(* channel, and the command line takes over from a desktop that ends.      *)
(***************************************************************************)
EXTENDS Desktop, FiniteSetTheorems, WellFoundedInduction, TLAPS

-----------------------------------------------------------------------------
(* Least and greatest elements.                                            *)

(* A set of naturals that is not empty has a least element, and Min is it:  *)
(* the lowest free slot (find_free_window) is free.                         *)
LEMMA LeastFacts ==
    ASSUME NEW T \in SUBSET Nat, T # {}
    PROVE  Min(T) \in T
<1> DEFINE Less == OpToRel(<, Nat)
<1>1. \A x, y \in Nat : y < x => <<y, x>> \in Less
  BY DEF OpToRel
<1>2. IsWellFoundedOn(Less, Nat)
  BY NatLessThanWellFounded
<1> HIDE DEF Less
<1>3. PICK x \in T : \A y \in T : ~ (<<y, x>> \in Less)
  BY <1>2, WFMin
<1>4. ASSUME NEW y \in T PROVE x <= y
  <2>1. x \in Nat /\ y \in Nat /\ ~ (y < x)
    BY <1>1, <1>3
  <2>2. QED
    BY <2>1
<1>5. QED
  BY <1>4 DEF Min

(* Among windows of z-orders up to n there is one that no other exceeds:    *)
(* the one a composition paints last.                                       *)
LEMMA GreatestExists ==
    ASSUME NEW S, S # {}, NEW n \in Nat, NEW f, \A s \in S : f[s] \in 0 .. n
    PROVE  \E s \in S : \A t \in S : f[t] <= f[s]
<1> DEFINE Less == OpToRel(<, Nat)
           T == {n - f[s] : s \in S}
<1>1. \A x, y \in Nat : y < x => <<y, x>> \in Less
  BY DEF OpToRel
<1>2. IsWellFoundedOn(Less, Nat)
  BY NatLessThanWellFounded
<1>3. T \in SUBSET Nat /\ T # {}
  <2>1. \A s \in S : n - f[s] \in Nat
    OBVIOUS
  <2>2. QED
    BY <2>1
<1> HIDE DEF Less
<1>4. PICK x \in T : \A y \in T : ~ (<<y, x>> \in Less)
  BY <1>2, <1>3, WFMin
<1>5. PICK s \in S : x = n - f[s]
  BY <1>4
<1>6. ASSUME NEW t \in S PROVE f[t] <= f[s]
  <2>1. n - f[t] \in T
    OBVIOUS
  <2>2. x \in Nat /\ n - f[t] \in Nat /\ ~ (n - f[t] < x)
    BY <1>1, <1>3, <1>4, <2>1
  <2>3. f[t] \in Int /\ f[s] \in Int
    OBVIOUS
  <2>4. QED
    BY <1>5, <2>2, <2>3
<1>7. QED
  BY <1>6

-----------------------------------------------------------------------------
(* Rectangles: what add_dirty collects covers what was dirty before and    *)
(* what is added.                                                          *)

LEMMA RectFacts ==
    ASSUME NEW a \in Int, NEW b \in Int, NEW w \in Int, NEW h \in Int
    PROVE  /\ Rect(a, b, w, h) \in Rects
           /\ Rect(a, b, w, h).x = a /\ Rect(a, b, w, h).y = b
           /\ Rect(a, b, w, h).w = w /\ Rect(a, b, w, h).h = h
BY DEF Rect, Rects

LEMMA RectFields ==
    ASSUME NEW r \in Rects
    PROVE  r.x \in Int /\ r.y \in Int /\ r.w \in Int /\ r.h \in Int
BY DEF Rects

LEMMA FixedRects == NoRect \in Rects /\ Screen \in Rects
BY WindowManagerAssumption DEF NoRect, Screen, Rect, Rects

LEMMA NoRectEmpty ==
    ASSUME NEW c \in Cells
    PROVE  ~Inside(c, NoRect)
<1>1. c[1] \in Int
  BY WindowManagerAssumption DEF Cells
<1>2. NoRect.x = 0 /\ NoRect.w = 0
  BY DEF NoRect, Rect
<1>3. QED
  BY <1>1, <1>2 DEF Inside

LEMMA ScreenWhole ==
    ASSUME NEW c \in Cells
    PROVE  Inside(c, Screen)
<1>1. c[1] \in 0 .. Width - 1 /\ c[2] \in 0 .. Height - 1 /\ Width \in Int /\ Height \in Int
  BY WindowManagerAssumption DEF Cells
<1>2. Screen.x = 0 /\ Screen.w = Width /\ Screen.y = 0 /\ Screen.h = Height
  BY DEF Screen, Rect
<1>3. QED
  BY <1>1, <1>2 DEF Inside

LEMMA ClippedFacts ==
    ASSUME NEW r \in Rects
    PROVE  /\ Clipped(r) \in Rects
           /\ \A c \in Cells : Inside(c, r) => Inside(c, Clipped(r)) /\ Clipped(r) # NoRect
<1>1. r.x \in Int /\ r.y \in Int /\ r.w \in Int /\ r.h \in Int /\ Width \in Int /\ Height \in Int
  BY RectFields, WindowManagerAssumption
<1> DEFINE left == Larger(r.x, 0)
           top == Larger(r.y, 0)
           right == Smaller(r.x + r.w, Width)
           bottom == Smaller(r.y + r.h, Height)
<1>2. left \in Int /\ top \in Int /\ right \in Int /\ bottom \in Int
  BY <1>1 DEF Larger, Smaller
<1> HIDE DEF left, top, right, bottom
<1>3. Rect(left, top, right - left, bottom - top) \in Rects
  BY <1>2, RectFacts
<1>4. Clipped(r) \in Rects
  BY <1>3, FixedRects DEF Clipped, left, top, right, bottom
<1>5. ASSUME NEW c \in Cells, Inside(c, r)
      PROVE  Inside(c, Clipped(r)) /\ Clipped(r) # NoRect
  <2>1. c[1] \in 0 .. Width - 1 /\ c[2] \in 0 .. Height - 1
    BY WindowManagerAssumption DEF Cells
  <2>2. left <= c[1] /\ c[1] < right /\ top <= c[2] /\ c[2] < bottom
    BY <1>1, <1>5, <2>1 DEF Inside, Larger, Smaller, left, top, right, bottom
  <2>3. left < right /\ top < bottom
    BY <1>2, <2>1, <2>2
  <2>4. Clipped(r) = Rect(left, top, right - left, bottom - top)
    BY <2>3 DEF Clipped, left, top, right, bottom
  <2>5. /\ Clipped(r).x = left /\ Clipped(r).y = top
        /\ Clipped(r).w = right - left /\ Clipped(r).h = bottom - top
    BY <1>2, <2>4, RectFacts
  <2>6. NoRect.w = 0
    BY DEF NoRect, Rect
  <2>7. Inside(c, Clipped(r))
    BY <1>2, <2>1, <2>2, <2>5 DEF Inside
  <2>8. QED
    BY <1>2, <2>3, <2>5, <2>6, <2>7
<1>6. QED
  BY <1>4, <1>5

LEMMA HullFacts ==
    ASSUME NEW r \in Rects, NEW s \in Rects
    PROVE  /\ Hull(r, s) \in Rects
           /\ \A c \in Cells : Inside(c, r) \/ Inside(c, s) => Inside(c, Hull(r, s))
<1>1. /\ r.x \in Int /\ r.y \in Int /\ r.w \in Int /\ r.h \in Int
      /\ s.x \in Int /\ s.y \in Int /\ s.w \in Int /\ s.h \in Int
  BY RectFields
<1> DEFINE left == Smaller(r.x, s.x)
           top == Smaller(r.y, s.y)
           right == Larger(r.x + r.w, s.x + s.w)
           bottom == Larger(r.y + r.h, s.y + s.h)
<1>2. left \in Int /\ top \in Int /\ right \in Int /\ bottom \in Int
  BY <1>1 DEF Larger, Smaller
<1>3. Hull(r, s) = Rect(left, top, right - left, bottom - top)
  BY DEF Hull
<1> HIDE DEF left, top, right, bottom
<1>4. /\ Hull(r, s).x = left /\ Hull(r, s).y = top
      /\ Hull(r, s).w = right - left /\ Hull(r, s).h = bottom - top /\ Hull(r, s) \in Rects
  BY <1>2, <1>3, RectFacts
<1>5. ASSUME NEW c \in Cells, Inside(c, r) \/ Inside(c, s)
      PROVE  Inside(c, Hull(r, s))
  <2>1. c[1] \in Int /\ c[2] \in Int
    BY WindowManagerAssumption DEF Cells
  <2>2. left <= c[1] /\ c[1] < right /\ top <= c[2] /\ c[2] < bottom
    BY <1>1, <1>5, <2>1 DEF Inside, Larger, Smaller, left, top, right, bottom
  <2>3. QED
    BY <1>2, <1>4, <2>1, <2>2 DEF Inside
<1>6. QED
  BY <1>4, <1>5

LEMMA MergedFacts ==
    ASSUME NEW d \in Rects, NEW r \in Rects
    PROVE  /\ Merged(d, r) \in Rects
           /\ \A c \in Cells : Inside(c, d) \/ Inside(c, r) => Inside(c, Merged(d, r))
<1>1. CASE Clipped(r) = NoRect
  <2>1. Merged(d, r) = d
    BY <1>1 DEF Merged
  <2>2. QED
    BY <1>1, <2>1, ClippedFacts
<1>2. CASE Clipped(r) # NoRect /\ d = NoRect
  <2>1. Merged(d, r) = Clipped(r)
    BY <1>2, Zenon DEF Merged
  <2>2. QED
    BY <1>2, <2>1, ClippedFacts, NoRectEmpty
<1>3. CASE Clipped(r) # NoRect /\ d # NoRect
  <2>1. Merged(d, r) = Hull(d, Clipped(r))
    BY <1>3, Zenon DEF Merged
  <2>2. QED
    BY <2>1, ClippedFacts, HullFacts
<1>4. QED
  BY <1>1, <1>2, <1>3

-----------------------------------------------------------------------------
(* Arrays of windows.  Every operation changes some fields of some windows *)
(* and ends in select_top_focus, which changes only who is focused.        *)

Arrays == [Windows -> WindowRecords(Owners \cup {"none"})]
Mgrs == Managers(Owners \cup {"none"})

LEMMA WindowFields ==
    ASSUME NEW r \in WindowRecords(Owners \cup {"none"})
    PROVE  /\ r.allocated \in BOOLEAN /\ r.visible \in BOOLEAN /\ r.focused \in BOOLEAN
           /\ r.generation \in 0 .. GenerationLimit /\ r.z \in Nat /\ r.bounds \in Rects
           /\ r.owner \in Owners \cup {"none"}
BY DEF WindowRecords

LEMMA FocusedUpdate ==
    ASSUME NEW r \in WindowRecords(Owners \cup {"none"}), NEW b \in BOOLEAN
    PROVE  LET q == [r EXCEPT !.focused = b]
           IN  /\ q \in WindowRecords(Owners \cup {"none"}) /\ q.focused = b
               /\ q.allocated = r.allocated /\ q.visible = r.visible
               /\ q.generation = r.generation /\ q.z = r.z /\ q.bounds = r.bounds
               /\ q.owner = r.owner
BY DEF WindowRecords

LEMMA ZUpdate ==
    ASSUME NEW r \in WindowRecords(Owners \cup {"none"}), NEW k \in Nat
    PROVE  LET q == [r EXCEPT !.z = k]
           IN  /\ q \in WindowRecords(Owners \cup {"none"}) /\ q.focused = r.focused
               /\ q.allocated = r.allocated /\ q.visible = r.visible
               /\ q.generation = r.generation /\ q.z = k /\ q.bounds = r.bounds
               /\ q.owner = r.owner
BY DEF WindowRecords

LEMMA VisibleUpdate ==
    ASSUME NEW r \in WindowRecords(Owners \cup {"none"}), NEW b \in BOOLEAN
    PROVE  LET q == [r EXCEPT !.visible = b]
           IN  /\ q \in WindowRecords(Owners \cup {"none"}) /\ q.focused = r.focused
               /\ q.allocated = r.allocated /\ q.visible = b
               /\ q.generation = r.generation /\ q.z = r.z /\ q.bounds = r.bounds
               /\ q.owner = r.owner
BY DEF WindowRecords

LEMMA BoundsUpdate ==
    ASSUME NEW r \in WindowRecords(Owners \cup {"none"}), NEW b \in Rects
    PROVE  LET q == [r EXCEPT !.bounds = b]
           IN  /\ q \in WindowRecords(Owners \cup {"none"}) /\ q.focused = r.focused
               /\ q.allocated = r.allocated /\ q.visible = r.visible
               /\ q.generation = r.generation /\ q.z = r.z /\ q.bounds = b
               /\ q.owner = r.owner
BY DEF WindowRecords

LEMMA FreedUpdate ==
    ASSUME NEW r \in WindowRecords(Owners \cup {"none"})
    PROVE  LET q == [r EXCEPT !.allocated = FALSE, !.visible = FALSE, !.focused = FALSE]
           IN  /\ q \in WindowRecords(Owners \cup {"none"}) /\ q.focused = FALSE
               /\ q.allocated = FALSE /\ q.visible = FALSE
               /\ q.generation = r.generation /\ q.z = r.z /\ q.bounds = r.bounds
               /\ q.owner = r.owner
BY DEF WindowRecords

LEMMA AllocatedMember ==
    ASSUME NEW w, NEW s \in Windows
    PROVE  s \in Allocated(w) <=> w[s].allocated
BY Zenon DEF Allocated

LEMMA VisibleMember ==
    ASSUME NEW w, NEW s \in Windows
    PROVE  s \in Visible(w) <=> w[s].allocated /\ w[s].visible
BY Zenon DEF Allocated, Visible

(* Two arrays that agree on what is allocated and on its z-orders.          *)
SameStack(v, w) ==
    Allocated(v) = Allocated(w) /\ \A s \in Allocated(w) : v[s].z = w[s].z

LEMMA DenseSame ==
    ASSUME NEW v, NEW w, NEW n, SameStack(v, w), Dense(w, n)
    PROVE  Dense(v, n)
<1>1. {v[s].z : s \in Allocated(v)} = {w[s].z : s \in Allocated(w)}
  BY DEF SameStack
<1>2. QED
  BY <1>1 DEF Dense, SameStack

(* select_top_focus: the focused windows are the top visible ones, and      *)
(* nothing else is changed.                                                 *)
LEMMA FocusFacts ==
    ASSUME NEW w \in Arrays
    PROVE  LET f == select_top_focus(w)
           IN  /\ f \in Arrays
               /\ \A s \in Windows :
                     /\ f[s].allocated = w[s].allocated /\ f[s].visible = w[s].visible
                     /\ f[s].generation = w[s].generation /\ f[s].z = w[s].z
                     /\ f[s].bounds = w[s].bounds /\ f[s].owner = w[s].owner
               /\ Allocated(f) = Allocated(w)
               /\ SameStack(f, w)
               /\ \A s \in Windows : f[s].focused <=> IsTop(f, s)
<1> DEFINE top == TopVisibleZ(w)
           on(s) == w[s].allocated /\ w[s].visible /\ w[s].z = top
           f == select_top_focus(w)
<1>1. f = [s \in Windows |-> [w[s] EXCEPT !.focused = on(s)]]
  BY DEF select_top_focus
<1>2. ASSUME NEW s \in Windows
      PROVE  /\ f[s] \in WindowRecords(Owners \cup {"none"})
             /\ f[s].focused = on(s)
             /\ f[s].allocated = w[s].allocated /\ f[s].visible = w[s].visible
             /\ f[s].generation = w[s].generation /\ f[s].z = w[s].z
             /\ f[s].bounds = w[s].bounds /\ f[s].owner = w[s].owner
  <2>1. w[s] \in WindowRecords(Owners \cup {"none"})
    BY DEF Arrays
  <2>2. on(s) \in BOOLEAN
    BY <2>1, WindowFields, Zenon
  <2>3. f[s] = [w[s] EXCEPT !.focused = on(s)]
    BY <1>1
  <2> HIDE DEF f, on
  <2>4. QED
    BY <2>1, <2>2, <2>3, FocusedUpdate
<1>3. f \in Arrays
  <2>1. \A s \in Windows : [w[s] EXCEPT !.focused = on(s)] \in WindowRecords(Owners \cup {"none"})
    <3> SUFFICES ASSUME NEW s \in Windows
                 PROVE  [w[s] EXCEPT !.focused = on(s)] \in WindowRecords(Owners \cup {"none"})
      OBVIOUS
    <3>1. f[s] = [w[s] EXCEPT !.focused = on(s)]
      BY <1>1
    <3> HIDE DEF f, on
    <3>2. QED
      BY <1>2, <3>1
  <2> HIDE DEF on
  <2>2. QED
    BY <1>1, <2>1 DEF Arrays
<1> HIDE DEF f
<1>4. Allocated(f) = Allocated(w) /\ Visible(f) = Visible(w)
  <2>1. \A s \in Windows : /\ s \in Allocated(f) <=> s \in Allocated(w)
                           /\ s \in Visible(f) <=> s \in Visible(w)
    BY <1>2, AllocatedMember, VisibleMember
  <2>2. /\ Allocated(f) \subseteq Windows /\ Allocated(w) \subseteq Windows
        /\ Visible(f) \subseteq Windows /\ Visible(w) \subseteq Windows
    BY DEF Allocated, Visible
  <2>3. QED
    BY <2>1, <2>2
<1>5. TopVisibleZ(f) = top
  <2>1. \A s \in Visible(w) : f[s].z = w[s].z
    BY <1>2 DEF Visible, Allocated
  <2>2. {f[s].z : s \in Visible(f)} = {w[s].z : s \in Visible(w)}
    BY <1>4, <2>1
  <2>3. QED
    BY <2>2 DEF TopVisibleZ
<1>6. ASSUME NEW s \in Windows PROVE f[s].focused <=> IsTop(f, s)
  <2>1. IsTop(f, s) <=> s \in Visible(f) /\ f[s].z = TopVisibleZ(f)
    BY DEF IsTop
  <2>2. IsTop(f, s) <=> s \in Visible(w) /\ w[s].z = top
    BY <1>2, <1>4, <1>5, <2>1, Zenon
  <2>3. on(s) <=> s \in Visible(w) /\ w[s].z = top
    BY VisibleMember, Zenon
  <2>4. QED
    BY <1>2, <2>2, <2>3, Zenon
<1>7. SameStack(f, w)
  BY <1>2, <1>4 DEF SameStack, Allocated
<1>8. QED
  BY <1>2, <1>3, <1>4, <1>6, <1>7 DEF f

-----------------------------------------------------------------------------
(* The z-orders stay 1 .. window_count, each used once.                    *)

LEMMA AllocatedFinite ==
    ASSUME NEW w
    PROVE  IsFiniteSet(Allocated(w)) /\ Allocated(w) \subseteq Windows
<1>1. Allocated(w) \subseteq Windows
  BY DEF Allocated
<1>2. QED
  BY <1>1, WindowManagerAssumption, FS_Subset

LEMMA DenseRange ==
    ASSUME NEW w, NEW n \in Nat, Dense(w, n), NEW s \in Allocated(w)
    PROVE  w[s].z \in 1 .. n
BY DEF Dense

(* The greatest z-order in use is the number of windows.                    *)
LEMMA TopIsCount ==
    ASSUME NEW w, NEW n \in Nat, Dense(w, n)
    PROVE  TopZ(w) = n
<1>1. TopZ(w) = Max((1 .. n) \cup {0})
  BY DEF TopZ, Dense
<1> DEFINE T == (1 .. n) \cup {0}
<1>2. n \in T /\ \A y \in T : n >= y
  OBVIOUS
<1>3. \A x \in T : x \in Int
  OBVIOUS
<1> HIDE DEF T
<1>4. \A x \in T : (\A y \in T : x >= y) => x = n
  BY <1>2, <1>3
<1>5. Max(T) \in T /\ \A y \in T : Max(T) >= y
  BY <1>2 DEF Max
<1>6. QED
  BY <1>1, <1>4, <1>5 DEF T

(* ios_window_create puts the new window on top.                            *)
LEMMA DenseCreate ==
    ASSUME NEW w, NEW v, NEW n \in Nat, Dense(w, n),
           NEW a \in Windows \ Allocated(w),
           Allocated(v) = Allocated(w) \cup {a},
           v[a].z = n + 1, \A s \in Allocated(w) : v[s].z = w[s].z
    PROVE  Dense(v, n + 1)
<1>1. Cardinality(Allocated(v)) = n + 1
  BY AllocatedFinite, FS_AddElement DEF Dense
<1>2. \A s \in Allocated(w) : w[s].z \in 1 .. n
  BY DenseRange
<1>3. {v[s].z : s \in Allocated(v)} = 1 .. (n + 1)
  <2>1. ASSUME NEW s \in Allocated(v) PROVE v[s].z \in 1 .. (n + 1)
    BY <1>2
  <2>2. ASSUME NEW k \in 1 .. (n + 1) PROVE \E s \in Allocated(v) : v[s].z = k
    <3>1. CASE k = n + 1
      BY <3>1
    <3>2. CASE k # n + 1
      <4>1. k \in 1 .. n
        BY <3>2
      <4>2. PICK s \in Allocated(w) : w[s].z = k
        BY <4>1 DEF Dense
      <4>3. QED
        BY <4>2
    <3>3. QED
      BY <3>1, <3>2
  <2>3. QED
    BY <2>1, <2>2
<1>4. ASSUME NEW s \in Allocated(v), NEW t \in Allocated(v), v[s].z = v[t].z
      PROVE  s = t
  <2>1. CASE s = a /\ t # a
    <3>1. v[t].z \in 1 .. n /\ v[s].z = n + 1
      BY <1>2, <2>1
    <3>2. v[t].z # v[s].z
      BY <3>1
    <3>3. QED
      BY <1>4, <3>2
  <2>2. CASE s # a /\ t = a
    <3>1. v[s].z \in 1 .. n /\ v[t].z = n + 1
      BY <1>2, <2>2
    <3>2. v[s].z # v[t].z
      BY <3>1
    <3>3. QED
      BY <1>4, <3>2
  <2>3. CASE s # a /\ t # a
    BY <1>4, <2>3 DEF Dense
  <2>4. QED
    BY <2>1, <2>2, <2>3
<1>5. QED
  BY <1>1, <1>3, <1>4 DEF Dense

(* ios_window_destroy closes the gap the window leaves.                     *)
LEMMA DenseDestroy ==
    ASSUME NEW w, NEW v, NEW n \in Nat, Dense(w, n), NEW a \in Allocated(w),
           Allocated(v) = Allocated(w) \ {a},
           \A s \in Allocated(v) : v[s].z = IF w[s].z > w[a].z THEN w[s].z - 1 ELSE w[s].z
    PROVE  n - 1 \in Nat /\ Dense(v, n - 1)
<1>1. Cardinality(Allocated(v)) = n - 1
  BY AllocatedFinite, FS_RemoveElement DEF Dense
<1>2. \A s \in Allocated(w) : w[s].z \in 1 .. n
  BY DenseRange
<1>3. w[a].z \in 1 .. n /\ n - 1 \in Nat
  BY <1>2
<1>4. \A s \in Allocated(v) : s \in Allocated(w) /\ w[s].z # w[a].z
  BY DEF Dense
<1>5. {v[s].z : s \in Allocated(v)} = 1 .. (n - 1)
  <2>1. ASSUME NEW s \in Allocated(v) PROVE v[s].z \in 1 .. (n - 1)
    <3>1. w[s].z \in 1 .. n /\ w[s].z # w[a].z
      BY <1>2, <1>4
    <3>2. QED
      BY <1>3, <3>1
  <2>2. ASSUME NEW k \in 1 .. (n - 1) PROVE \E s \in Allocated(v) : v[s].z = k
    <3>1. CASE k < w[a].z
      <4>1. k \in 1 .. n
        BY <1>3
      <4>2. PICK s \in Allocated(w) : w[s].z = k
        BY <4>1 DEF Dense
      <4>3. s \in Allocated(v)
        BY <1>3, <3>1, <4>2
      <4>4. v[s].z = k
        BY <1>3, <3>1, <4>2, <4>3
      <4>5. QED
        BY <4>3, <4>4
    <3>2. CASE k >= w[a].z
      <4>1. k + 1 \in 1 .. n
        BY <1>3
      <4>2. PICK s \in Allocated(w) : w[s].z = k + 1
        BY <4>1 DEF Dense
      <4>3. s \in Allocated(v)
        BY <1>3, <3>2, <4>2
      <4>4. v[s].z = k
        BY <1>3, <3>2, <4>2, <4>3
      <4>5. QED
        BY <4>3, <4>4
    <3>3. QED
      BY <1>3, <3>1, <3>2
  <2>3. QED
    BY <2>1, <2>2
<1>6. ASSUME NEW s \in Allocated(v), NEW t \in Allocated(v), v[s].z = v[t].z
      PROVE  s = t
  <2>1. /\ w[s].z \in 1 .. n /\ w[s].z # w[a].z
        /\ w[t].z \in 1 .. n /\ w[t].z # w[a].z
    BY <1>2, <1>4
  <2>2. w[s].z = w[t].z
    BY <1>3, <1>6, <2>1
  <2>3. QED
    BY <1>4, <2>2 DEF Dense
<1>7. QED
  BY <1>1, <1>3, <1>5, <1>6 DEF Dense

(* ios_window_raise takes the window from its place to the top.             *)
LEMMA DenseRaise ==
    ASSUME NEW w, NEW v, NEW n \in Nat, Dense(w, n), NEW a \in Allocated(w),
           Allocated(v) = Allocated(w), v[a].z = n,
           \A s \in Allocated(w) \ {a} :
               v[s].z = IF w[s].z > w[a].z THEN w[s].z - 1 ELSE w[s].z
    PROVE  Dense(v, n)
<1>2. \A s \in Allocated(w) : w[s].z \in 1 .. n
  BY DenseRange
<1>3. w[a].z \in 1 .. n
  BY <1>2
<1>4. \A s \in Allocated(w) \ {a} : w[s].z # w[a].z
  BY DEF Dense
<1>5. ASSUME NEW s \in Allocated(w) \ {a} PROVE v[s].z \in 1 .. (n - 1)
  <2>1. w[s].z \in 1 .. n /\ w[s].z # w[a].z
    BY <1>2, <1>4
  <2>2. QED
    BY <1>3, <2>1
<1>6. {v[s].z : s \in Allocated(v)} = 1 .. n
  <2>1. ASSUME NEW s \in Allocated(v) PROVE v[s].z \in 1 .. n
    <3>1. CASE s = a
      BY <1>3, <3>1
    <3>2. CASE s # a
      BY <1>5, <3>2
    <3>3. QED
      BY <3>1, <3>2
  <2>2. ASSUME NEW k \in 1 .. n PROVE \E s \in Allocated(v) : v[s].z = k
    <3>1. CASE k < w[a].z
      <4>2. PICK s \in Allocated(w) : w[s].z = k
        BY DEF Dense
      <4>3. s \in Allocated(w) \ {a}
        BY <1>3, <3>1, <4>2
      <4>4. v[s].z = k
        BY <1>3, <3>1, <4>2, <4>3
      <4>5. QED
        BY <4>3, <4>4
    <3>2. CASE k >= w[a].z /\ k # n
      <4>1. k + 1 \in 1 .. n
        BY <1>3, <3>2
      <4>2. PICK s \in Allocated(w) : w[s].z = k + 1
        BY <4>1 DEF Dense
      <4>3. s \in Allocated(w) \ {a}
        BY <1>3, <3>2, <4>2
      <4>4. v[s].z = k
        BY <1>3, <3>2, <4>2, <4>3
      <4>5. QED
        BY <4>3, <4>4
    <3>3. QED
      BY <1>3, <3>1, <3>2
  <2>3. QED
    BY <2>1, <2>2
<1>7. ASSUME NEW s \in Allocated(v), NEW t \in Allocated(v), v[s].z = v[t].z
      PROVE  s = t
  <2>1. CASE s = a /\ t # a
    BY <1>5, <1>7, <2>1
  <2>2. CASE s # a /\ t = a
    BY <1>5, <1>7, <2>2
  <2>3. CASE s # a /\ t # a
    <3>1. /\ w[s].z \in 1 .. n /\ w[s].z # w[a].z
          /\ w[t].z \in 1 .. n /\ w[t].z # w[a].z
      BY <1>2, <1>4, <2>3
    <3>2. w[s].z = w[t].z
      BY <1>3, <1>7, <2>3, <3>1
    <3>3. QED
      BY <3>2 DEF Dense
  <2>4. QED
    BY <2>1, <2>2, <2>3
<1>8. QED
  BY <1>6, <1>7 DEF Dense

-----------------------------------------------------------------------------
(* What the screen should show.                                            *)

Sound(m) == m \in Mgrs /\ ZOrdersAreDense(m) /\ FocusIsTop(m)

(* The screen fb shows what a composition would, outside what is dirty.     *)
Current(m, d, fb) == \A c \in Cells : ~Inside(c, m.dirty) => fb[c] = Picture(m, d, c)

(* Two managers show the same surface at a cell.                            *)
SameAt(m, n, c) ==
    /\ Inside(c, PointerRect(m)) <=> Inside(c, PointerRect(n))
    /\ \A s \in Windows : Covers(m, s, c) <=> Covers(n, s, c)
    /\ \A s \in Windows : Covers(m, s, c) => n.windows[s].owner = m.windows[s].owner
    /\ \A s, t \in Windows : Covers(m, s, c) /\ Covers(m, t, c) =>
          (m.windows[s].z <= m.windows[t].z <=> n.windows[s].z <= n.windows[t].z)

(* An operation that turns m into n makes dirty every cell it changes.      *)
Careful(m, n) ==
    \A c \in Cells : ~Inside(c, n.dirty) => ~Inside(c, m.dirty) /\ SameAt(m, n, c)

LEMMA ManagerFields ==
    ASSUME NEW m \in Mgrs
    PROVE  /\ m.windows \in Arrays /\ m.count \in Nat /\ m.dirty \in Rects
           /\ m.pointer.x \in Int /\ m.pointer.y \in Int /\ m.pointer.visible \in BOOLEAN
BY DEF Mgrs, Managers, Arrays

LEMMA SlotFields ==
    ASSUME NEW m \in Mgrs, NEW s \in Windows
    PROVE  /\ m.windows[s] \in WindowRecords(Owners \cup {"none"})
           /\ m.windows[s].allocated \in BOOLEAN /\ m.windows[s].visible \in BOOLEAN
           /\ m.windows[s].generation \in 0 .. GenerationLimit /\ m.windows[s].z \in Nat
           /\ m.windows[s].bounds \in Rects /\ m.windows[s].owner \in Owners \cup {"none"}
<1>1. m.windows[s] \in WindowRecords(Owners \cup {"none"})
  BY ManagerFields DEF Arrays
<1>2. QED
  BY <1>1, WindowFields

LEMMA CoversFacts ==
    ASSUME NEW m, Sound(m), NEW s \in Windows, NEW c
    PROVE  /\ Covers(m, s, c) <=> /\ m.windows[s].allocated /\ m.windows[s].visible
                                  /\ Inside(c, m.windows[s].bounds)
           /\ Covers(m, s, c) => s \in Allocated(m.windows) /\ m.windows[s].z \in 0 .. m.count
<1>1. m.count \in Nat /\ Dense(m.windows, m.count)
  BY ManagerFields DEF Sound, ZOrdersAreDense
<1>2. m.windows[s].allocated => s \in Allocated(m.windows)
  BY AllocatedMember, Zenon
<1>3. s \in Allocated(m.windows) => m.windows[s].z \in 1 .. m.count
  BY <1>1, DenseRange
<1>4. s \in Allocated(m.windows) => m.windows[s].z <= m.count /\ m.windows[s].z \in 0 .. m.count
  BY <1>1, <1>3
<1>5. QED
  BY <1>2, <1>4, Zenon DEF Covers

(* The window that is painted last is the one that is seen.                 *)
LEMMA ComposedIsTop ==
    ASSUME NEW m, Sound(m), NEW d, NEW c, NEW s \in Windows, PaintedLast(m, s, c)
    PROVE  Composed(m, d, c) = <<m.windows[s].owner, d[m.windows[s].owner]>>
<1>1. Dense(m.windows, m.count)
  BY DEF Sound, ZOrdersAreDense
<1>2. ASSUME NEW t \in Windows, PaintedLast(m, t, c) PROVE t = s
  <2>1. Covers(m, s, c) /\ Covers(m, t, c)
    BY <1>2 DEF PaintedLast
  <2>2. s \in Allocated(m.windows) /\ t \in Allocated(m.windows)
    BY <2>1, CoversFacts
  <2>3. m.windows[s].z <= m.windows[t].z /\ m.windows[t].z <= m.windows[s].z
    BY <1>2, <2>1 DEF PaintedLast
  <2>4. m.windows[s].z \in Nat /\ m.windows[t].z \in Nat
    BY SlotFields DEF Sound
  <2>5. m.windows[s].z = m.windows[t].z
    BY <2>3, <2>4
  <2>6. QED
    BY <1>1, <2>2, <2>5 DEF Dense
<1>3. (CHOOSE t \in Windows : PaintedLast(m, t, c)) = s
  <2> DEFINE t == CHOOSE t \in Windows : PaintedLast(m, t, c)
  <2>1. t \in Windows /\ PaintedLast(m, t, c)
    BY Zenon
  <2> HIDE DEF t
  <2>2. t = s
    BY <1>2, <2>1
  <2>3. QED
    BY <2>2 DEF t
<1>4. \E t \in Windows : Covers(m, t, c)
  BY DEF PaintedLast
<1>5. QED
  BY <1>3, <1>4, Zenon DEF Composed

LEMMA TopPainted ==
    ASSUME NEW m, Sound(m), NEW c, NEW o \in Windows, Covers(m, o, c)
    PROVE  \E s \in Windows : PaintedLast(m, s, c)
<1> DEFINE S == {s \in Windows : Covers(m, s, c)}
           f == [s \in S |-> m.windows[s].z]
<1>1. S # {}
  OBVIOUS
<1>2. \A s \in S : f[s] \in 0 .. m.count
  BY CoversFacts
<1>3. m.count \in Nat
  BY ManagerFields DEF Sound
<1> HIDE DEF f
<1>4. PICK s \in S : \A t \in S : f[t] <= f[s]
  BY <1>1, <1>2, <1>3, GreatestExists
<1>5. \A t \in S : f[t] = m.windows[t].z
  BY DEF f
<1>6. QED
  BY <1>4, <1>5 DEF PaintedLast

LEMMA PictureSame ==
    ASSUME NEW m, Sound(m), NEW n, Sound(n), NEW c, SameAt(m, n, c), NEW d, NEW e,
           \A s \in Windows : Covers(m, s, c) => d[m.windows[s].owner] = e[m.windows[s].owner]
    PROVE  Picture(m, d, c) = Picture(n, e, c)
<1>1. Composed(m, d, c) = Composed(n, e, c)
  <2>1. CASE \A s \in Windows : ~Covers(m, s, c)
    <3>1. \A s \in Windows : ~Covers(n, s, c)
      BY <2>1 DEF SameAt
    <3>2. QED
      BY <2>1, <3>1 DEF Composed
  <2>2. CASE \E s \in Windows : Covers(m, s, c)
    <3>1. PICK s \in Windows : PaintedLast(m, s, c)
      BY <2>2, TopPainted
    <3>2. Covers(m, s, c) /\ \A t \in Windows : Covers(m, t, c) => m.windows[t].z <= m.windows[s].z
      BY <3>1 DEF PaintedLast
    <3>3. Covers(n, s, c) /\ \A t \in Windows : Covers(n, t, c) => n.windows[t].z <= n.windows[s].z
      BY <3>2 DEF SameAt
    <3>4. PaintedLast(n, s, c)
      BY <3>3 DEF PaintedLast
    <3>5. /\ Composed(m, d, c) = <<m.windows[s].owner, d[m.windows[s].owner]>>
          /\ Composed(n, e, c) = <<n.windows[s].owner, e[n.windows[s].owner]>>
      BY <3>1, <3>4, ComposedIsTop
    <3>6. n.windows[s].owner = m.windows[s].owner
      BY <3>2 DEF SameAt
    <3>7. QED
      BY <3>2, <3>5, <3>6
  <2>3. QED
    BY <2>1, <2>2
<1>2. QED
  BY <1>1 DEF Picture, SameAt

(* A careful operation leaves the clean cells right.                        *)
LEMMA CarefulKeepsCurrent ==
    ASSUME NEW m, Sound(m), NEW n, Sound(n), Careful(m, n), NEW d, NEW fb, Current(m, d, fb)
    PROVE  Current(n, d, fb)
<1> SUFFICES ASSUME NEW c \in Cells, ~Inside(c, n.dirty)
             PROVE  fb[c] = Picture(n, d, c)
  BY DEF Current
<1>1. ~Inside(c, m.dirty) /\ SameAt(m, n, c)
  BY DEF Careful
<1>2. Picture(m, d, c) = Picture(n, d, c)
  <2>1. PICK e : e = d
    OBVIOUS
  <2>2. \A s \in Windows : Covers(m, s, c) => d[m.windows[s].owner] = e[m.windows[s].owner]
    BY <2>1
  <2>3. Picture(m, d, c) = Picture(n, e, c)
    BY <1>1, <2>2, PictureSame
  <2>4. QED
    BY <2>1, <2>3
<1>3. QED
  BY <1>1, <1>2 DEF Current

(* A client may draw on a surface whose visible windows are dirty.          *)
LEMMA DrawingKeepsCurrent ==
    ASSUME NEW m, Sound(m), NEW d, NEW e, NEW fb, Current(m, d, fb),
           \A s \in Windows, c \in Cells :
               /\ m.windows[s].allocated /\ m.windows[s].visible
               /\ d[m.windows[s].owner] # e[m.windows[s].owner]
               /\ Inside(c, m.windows[s].bounds)
               => Inside(c, m.dirty)
    PROVE  Current(m, e, fb)
<1> SUFFICES ASSUME NEW c \in Cells, ~Inside(c, m.dirty)
             PROVE  fb[c] = Picture(m, e, c)
  BY DEF Current
<1>1. SameAt(m, m, c)
  BY DEF SameAt
<1>2. ASSUME NEW s \in Windows, Covers(m, s, c)
      PROVE  d[m.windows[s].owner] = e[m.windows[s].owner]
  BY <1>2, CoversFacts
<1>3. Picture(m, d, c) = Picture(m, e, c)
  BY <1>1, <1>2, PictureSame
<1>4. QED
  BY <1>3 DEF Current

(* ios_window_compose: the pointer is drawn whole when it touches what is   *)
(* copied, and the rest of the screen was right.                            *)
LEMMA ComposeFacts ==
    ASSUME NEW m, NEW d, NEW fb, Current(m, d, fb)
    PROVE  ios_window_compose(m, d, fb) = [c \in Cells |-> Picture(m, d, c)]
<1> DEFINE touched == Pixels(m.dirty) \cap Pixels(PointerRect(m)) # {}
           cell(c) == IF touched /\ Inside(c, PointerRect(m)) THEN <<"pointer", 0>>
                      ELSE IF Inside(c, m.dirty) THEN Composed(m, d, c) ELSE fb[c]
<1>2. ios_window_compose(m, d, fb) = [c \in Cells |-> cell(c)]
  BY Zenon DEF ios_window_compose
<1> HIDE DEF touched
<1>1. ASSUME NEW c \in Cells PROVE cell(c) = Picture(m, d, c)
  <2>1. CASE Inside(c, PointerRect(m)) /\ Inside(c, m.dirty)
    <3>1. touched
      BY <2>1 DEF Pixels, touched
    <3>2. cell(c) = <<"pointer", 0>>
      BY <2>1, <3>1, Zenon
    <3>3. Picture(m, d, c) = <<"pointer", 0>>
      BY <2>1 DEF Picture
    <3>4. QED
      BY <3>2, <3>3, Zenon
  <2>2. CASE Inside(c, PointerRect(m)) /\ ~Inside(c, m.dirty)
    <3>1. Picture(m, d, c) = <<"pointer", 0>> /\ fb[c] = Picture(m, d, c)
      BY <2>2 DEF Picture, Current
    <3>2. CASE touched
      <4>1. cell(c) = <<"pointer", 0>>
        BY <2>2, <3>2, Zenon
      <4>2. QED
        BY <3>1, <4>1, Zenon
    <3>3. CASE ~touched
      <4>1. cell(c) = fb[c]
        BY <2>2, <3>3, Zenon
      <4>2. QED
        BY <3>1, <4>1, Zenon
    <3>4. QED
      BY <3>2, <3>3, Zenon
  <2>3. CASE ~Inside(c, PointerRect(m)) /\ Inside(c, m.dirty)
    <3>1. cell(c) = Composed(m, d, c)
      BY <2>3, Zenon
    <3>2. Picture(m, d, c) = Composed(m, d, c)
      BY <2>3 DEF Picture
    <3>3. QED
      BY <3>1, <3>2, Zenon
  <2>4. CASE ~Inside(c, PointerRect(m)) /\ ~Inside(c, m.dirty)
    <3>1. cell(c) = fb[c]
      BY <2>4, Zenon
    <3>2. QED
      BY <2>4, <3>1, Zenon DEF Current
  <2>5. QED
    BY <2>1, <2>2, <2>3, <2>4, Zenon
<1> HIDE DEF cell
<1>3. QED
  BY <1>1, <1>2

-----------------------------------------------------------------------------
(* The operations of the window manager: each keeps a manager sound and    *)
(* makes dirty what it changes.                                            *)

(* An operation that changes no window.                                     *)
LEMMA SameWindowsSound ==
    ASSUME NEW m, Sound(m), NEW n \in Mgrs, n.windows = m.windows, n.count = m.count
    PROVE  /\ Sound(n)
           /\ \A s \in Windows, c \in Cells : Covers(n, s, c) <=> Covers(m, s, c)
BY DEF Sound, ZOrdersAreDense, FocusIsTop, Covers

LEMMA DirtyFacts ==
    ASSUME NEW m, Sound(m), NEW r \in Rects
    PROVE  LET n == [m EXCEPT !.dirty = r]
           IN  /\ Sound(n) /\ n.windows = m.windows /\ n.count = m.count
               /\ n.pointer = m.pointer /\ n.dirty = r
               /\ \A c \in Cells : SameAt(m, n, c)
<1> DEFINE n == [m EXCEPT !.dirty = r]
<1>1. m \in Mgrs
  BY DEF Sound
<1>2. /\ n \in Mgrs /\ n.windows = m.windows /\ n.count = m.count
      /\ n.pointer = m.pointer /\ n.dirty = r
  BY <1>1 DEF Mgrs, Managers
<1> HIDE DEF n
<1>3. Sound(n) /\ \A s \in Windows, c \in Cells : Covers(n, s, c) <=> Covers(m, s, c)
  BY <1>2, SameWindowsSound
<1>4. PointerRect(n) = PointerRect(m)
  BY <1>2 DEF PointerRect
<1>5. \A c \in Cells : SameAt(m, n, c)
  BY <1>2, <1>3, <1>4 DEF SameAt
<1>6. QED
  BY <1>2, <1>3, <1>5 DEF n

(* ios_window_compose marks the manager clean.                              *)
LEMMA CleanFacts ==
    ASSUME NEW m, Sound(m)
    PROVE  /\ Sound(Clean(m)) /\ Clean(m).windows = m.windows /\ Clean(m).pointer = m.pointer
           /\ \A d, c : c \in Cells => Picture(Clean(m), d, c) = Picture(m, d, c)
<1> DEFINE n == Clean(m)
<1>1. /\ Sound(n) /\ n.windows = m.windows /\ n.pointer = m.pointer
      /\ \A c \in Cells : SameAt(m, n, c)
  BY FixedRects, DirtyFacts DEF Clean
<1> HIDE DEF n
<1>2. ASSUME NEW d, NEW c \in Cells PROVE Picture(n, d, c) = Picture(m, d, c)
  <2>1. PICK e : e = d
    OBVIOUS
  <2>2. \A s \in Windows : Covers(m, s, c) => d[m.windows[s].owner] = e[m.windows[s].owner]
    BY <2>1
  <2>3. Picture(m, d, c) = Picture(n, e, c)
    BY <1>1, <2>2, PictureSame
  <2>4. QED
    BY <2>1, <2>3
<1>3. QED
  BY <1>1, <1>2 DEF n

(* ios_window_invalidate: the visible window is dirty from then on.         *)
LEMMA InvalidateFacts ==
    ASSUME NEW m, Sound(m), NEW h, h.slot \in Windows
    PROVE  LET n == ios_window_invalidate(m, h)
           IN  /\ Sound(n) /\ n.windows = m.windows /\ n.pointer = m.pointer
               /\ Careful(m, n)
               /\ m.windows[h.slot].visible =>
                     \A c \in Cells : Inside(c, m.windows[h.slot].bounds) => Inside(c, n.dirty)
<1> DEFINE r == InvalidatedRect(m, h)
           n == ios_window_invalidate(m, h)
<1>1. m.dirty \in Rects /\ m.windows[h.slot].bounds \in Rects
  BY ManagerFields, SlotFields DEF Sound
<1>2. r \in Rects /\ (m.windows[h.slot].visible => r = m.windows[h.slot].bounds)
  BY <1>1, FixedRects, Zenon DEF InvalidatedRect
<1>3. n = [m EXCEPT !.dirty = Merged(m.dirty, r)]
  BY DEF ios_window_invalidate, add_dirty
<1> HIDE DEF r, n
<1>4. /\ Merged(m.dirty, r) \in Rects
      /\ \A c \in Cells : Inside(c, m.dirty) \/ Inside(c, r) => Inside(c, Merged(m.dirty, r))
  BY <1>1, <1>2, MergedFacts
<1>5. /\ Sound(n) /\ n.windows = m.windows /\ n.pointer = m.pointer
      /\ n.dirty = Merged(m.dirty, r) /\ \A c \in Cells : SameAt(m, n, c)
  BY <1>3, <1>4, DirtyFacts
<1>6. Careful(m, n)
  BY <1>4, <1>5 DEF Careful
<1>7. QED
  BY <1>2, <1>4, <1>5, <1>6 DEF n

LEMMA PointerRectFacts ==
    ASSUME NEW m \in Mgrs
    PROVE  PointerRect(m) \in Rects
<1>1. m.pointer.x \in Int /\ m.pointer.y \in Int /\ PointerSize \in Int
  BY ManagerFields, WindowManagerAssumption
<1>2. Rect(m.pointer.x, m.pointer.y, PointerSize, PointerSize) \in Rects
  BY <1>1, RectFacts
<1>3. QED
  BY <1>2, FixedRects, Zenon DEF PointerRect

(* ios_window_set_pointer: both places of the pointer are dirty.            *)
LEMMA PointerFacts ==
    ASSUME NEW m, Sound(m), NEW x \in Int, NEW y \in Int, NEW b \in BOOLEAN
    PROVE  LET n == ios_window_set_pointer(m, x, y, b)
           IN  /\ Sound(n) /\ n.windows = m.windows
               /\ n.pointer = [x |-> x, y |-> y, visible |-> b]
               /\ Careful(m, n)
<1> DEFINE p == MovedPointer(m, x, y, b)
           r == Merged(m.dirty, PointerRect(m))
           n == ios_window_set_pointer(m, x, y, b)
<1>1. m \in Mgrs
  BY DEF Sound
<1>2. /\ p \in Mgrs /\ p.windows = m.windows /\ p.count = m.count
      /\ p.dirty = m.dirty /\ p.pointer = [x |-> x, y |-> y, visible |-> b]
  BY <1>1 DEF Mgrs, Managers, MovedPointer
<1>3. n = [p EXCEPT !.dirty = Merged(Merged(p.dirty, PointerRect(m)), PointerRect(p))]
  BY DEF ios_window_set_pointer
<1> HIDE DEF p, n
<1>4. PointerRect(m) \in Rects /\ PointerRect(p) \in Rects /\ m.dirty \in Rects
  BY <1>1, <1>2, PointerRectFacts, ManagerFields
<1>5. r \in Rects /\ \A c \in Cells : Inside(c, m.dirty) \/ Inside(c, PointerRect(m)) => Inside(c, r)
  BY <1>4, MergedFacts
<1> HIDE DEF r
<1> DEFINE q == Merged(r, PointerRect(p))
<1>6. q \in Rects /\ \A c \in Cells : Inside(c, r) \/ Inside(c, PointerRect(p)) => Inside(c, q)
  BY <1>4, <1>5, MergedFacts
<1>7. n = [p EXCEPT !.dirty = q]
  BY <1>2, <1>3 DEF r
<1> HIDE DEF q
<1>8. Sound(p) /\ \A s \in Windows, c \in Cells : Covers(p, s, c) <=> Covers(m, s, c)
  BY <1>2, SameWindowsSound
<1>9. /\ Sound(n) /\ n.windows = p.windows /\ n.pointer = p.pointer /\ n.dirty = q
      /\ n.count = p.count
  BY <1>6, <1>7, <1>8, DirtyFacts
<1>10. \A s \in Windows, c \in Cells : Covers(n, s, c) <=> Covers(m, s, c)
  <2>1. n.windows = m.windows /\ n.count = m.count /\ n \in Mgrs
    BY <1>2, <1>9 DEF Sound
  <2>2. QED
    BY <2>1, SameWindowsSound
<1>11. Careful(m, n)
  <2> SUFFICES ASSUME NEW c \in Cells, ~Inside(c, n.dirty)
               PROVE  ~Inside(c, m.dirty) /\ SameAt(m, n, c)
    BY DEF Careful
  <2>1. ~Inside(c, m.dirty) /\ ~Inside(c, PointerRect(m)) /\ ~Inside(c, PointerRect(p))
    BY <1>5, <1>6, <1>9
  <2>2. PointerRect(n) = PointerRect(p)
    BY <1>9 DEF PointerRect
  <2>3. QED
    BY <1>2, <1>9, <1>10, <2>1, <2>2 DEF SameAt
<1>12. QED
  BY <1>2, <1>9, <1>11 DEF n

(* The manager ios_desktop_start and the boot begin with.                   *)
LEMMA FreshFacts ==
    LET m == ios_window_manager_initialize
    IN  /\ Sound(m) /\ Sound([m EXCEPT !.dirty = NoRect])
        /\ m.dirty = Screen /\ ~m.pointer.visible /\ ~[m EXCEPT !.dirty = NoRect].pointer.visible
        /\ Allocated(m.windows) = {}
        /\ \A s \in Windows : m.windows[s].generation = 0
<1> DEFINE m == ios_window_manager_initialize
<1>1. FreeWindow \in WindowRecords(Owners \cup {"none"})
  BY FixedRects, WindowManagerAssumption DEF FreeWindow, WindowRecords
<1>2. /\ m.windows = [s \in Windows |-> FreeWindow] /\ m.count = 0 /\ m.dirty = Screen
      /\ m.pointer = [x |-> 0, y |-> 0, visible |-> FALSE]
  BY DEF ios_window_manager_initialize
<1>3. m \in Mgrs
  BY <1>1, FixedRects DEF Mgrs, Managers, ios_window_manager_initialize
<1> HIDE DEF m
<1>4. \A s \in Windows : ~m.windows[s].allocated /\ ~m.windows[s].focused
                         /\ m.windows[s].generation = 0
  BY <1>2 DEF FreeWindow
<1>5. Allocated(m.windows) = {} /\ Visible(m.windows) = {}
  BY <1>4, Zenon DEF Allocated, Visible
<1>6. Dense(m.windows, m.count)
  <2>1. Cardinality(Allocated(m.windows)) = 0
    BY <1>5, FS_EmptySet
  <2>2. QED
    BY <1>2, <1>5, <2>1 DEF Dense
<1>7. FocusIsTop(m)
  BY <1>4, <1>5, Zenon DEF FocusIsTop, IsTop
<1>8. Sound(m)
  BY <1>3, <1>6, <1>7 DEF Sound, ZOrdersAreDense
<1>9. ~m.pointer.visible
  BY <1>2
<1>10. Sound([m EXCEPT !.dirty = NoRect]) /\ [m EXCEPT !.dirty = NoRect].pointer = m.pointer
  BY <1>8, FixedRects, DirtyFacts
<1>11. QED
  BY <1>2, <1>4, <1>5, <1>8, <1>9, <1>10 DEF m

(* A manager with new windows, sound when the stack is.                     *)
LEMMA RebuiltSound ==
    ASSUME NEW n \in Mgrs, NEW v \in Arrays, n.windows = select_top_focus(v),
           Dense(v, n.count)
    PROVE  Sound(n)
<1>1. SameStack(n.windows, v) /\ \A s \in Windows : n.windows[s].focused <=> IsTop(n.windows, s)
  BY FocusFacts
<1>2. Dense(n.windows, n.count)
  BY <1>1, DenseSame
<1>3. QED
  BY <1>1, <1>2 DEF Sound, ZOrdersAreDense, FocusIsTop

(* What a window shows is the same in both managers.                        *)
SameWindow(m, n, s) ==
    /\ n.windows[s].allocated = m.windows[s].allocated
    /\ n.windows[s].visible = m.windows[s].visible
    /\ n.windows[s].bounds = m.windows[s].bounds
    /\ n.windows[s].owner = m.windows[s].owner

(* Only a moved, hidden or new window a differs, and it is not at c, before *)
(* or after; the others stay in their order.                                *)
LEMMA SameAtBut ==
    ASSUME NEW m, Sound(m), NEW n, Sound(n), NEW c, n.pointer = m.pointer, NEW a \in Windows,
           ~Covers(m, a, c), ~Covers(n, a, c),
           \A s \in Windows \ {a} : SameWindow(m, n, s),
           \A s, t \in Allocated(m.windows) \ {a} :
               m.windows[s].z <= m.windows[t].z <=> n.windows[s].z <= n.windows[t].z
    PROVE  SameAt(m, n, c)
<1>1. ASSUME NEW s \in Windows PROVE Covers(m, s, c) <=> Covers(n, s, c)
  BY CoversFacts, Zenon DEF SameWindow
<1>2. ASSUME NEW s \in Windows, Covers(m, s, c)
      PROVE  s \in Allocated(m.windows) \ {a} /\ n.windows[s].owner = m.windows[s].owner
  BY <1>2, CoversFacts DEF SameWindow
<1>3. PointerRect(n) = PointerRect(m)
  BY DEF PointerRect
<1>4. QED
  BY <1>1, <1>2, <1>3 DEF SameAt

LEMMA NewSlotFacts ==
    ASSUME NEW m \in Mgrs, HasRoom(m)
    PROVE  /\ NewSlot(m) \in Windows \ Allocated(m.windows)
           /\ NewHandle(m) \in Handles /\ NewHandle(m).slot = NewSlot(m)
           /\ NewHandle(m).generation \in 1 .. GenerationLimit
<1>1. Windows \ Allocated(m.windows) # {}
  BY AllocatedFinite DEF HasRoom
<1>2. NewSlot(m) \in Windows \ Allocated(m.windows)
  BY <1>1, WindowManagerAssumption, LeastFacts DEF NewSlot
<1>3. m.windows[NewSlot(m)].generation \in 0 .. GenerationLimit
  BY <1>2, SlotFields
<1>4. NextGeneration(m.windows[NewSlot(m)].generation) \in 1 .. GenerationLimit
  BY <1>3, WindowManagerAssumption DEF NextGeneration
<1>5. QED
  BY <1>2, <1>4, WindowManagerAssumption DEF NewHandle, Handles

(* ios_window_create.                                                       *)
LEMMA CreateFacts ==
    ASSUME NEW m, Sound(m), HasRoom(m), NEW b \in Rects, NEW o \in Owners
    PROVE  LET n == ios_window_create(m, b, o)
               a == NewSlot(m)
           IN  /\ Sound(n) /\ n.pointer = m.pointer /\ n.dirty = Merged(m.dirty, b)
               /\ a \in Windows \ Allocated(m.windows)
               /\ Allocated(n.windows) = Allocated(m.windows) \cup {a}
               /\ n.windows[a].allocated /\ n.windows[a].owner = o
               /\ n.windows[a].generation = NewHandle(m).generation
               /\ \A s \in Windows \ {a} : /\ SameWindow(m, n, s)
                                           /\ n.windows[s].generation = m.windows[s].generation
               /\ Careful(m, n)
<1> DEFINE a == NewSlot(m)
           new == [allocated |-> TRUE, generation |-> NewHandle(m).generation, visible |-> TRUE,
                   focused |-> FALSE, z |-> TopZ(m.windows) + 1, bounds |-> b, owner |-> o]
           v == [m.windows EXCEPT ![a] = new]
           n == ios_window_create(m, b, o)
<1>1. /\ m \in Mgrs /\ m.windows \in Arrays /\ m.count \in Nat /\ m.dirty \in Rects
      /\ Dense(m.windows, m.count)
  BY ManagerFields DEF Sound, ZOrdersAreDense
<1>2. TopZ(m.windows) = m.count
  BY <1>1, TopIsCount
<1>3. a \in Windows \ Allocated(m.windows) /\ NewHandle(m).generation \in 1 .. GenerationLimit
  BY <1>1, NewSlotFacts
<1>4. /\ new \in WindowRecords(Owners \cup {"none"})
      /\ new.allocated /\ new.z = m.count + 1 /\ new.owner = o /\ new.bounds = b
      /\ new.generation = NewHandle(m).generation
  BY <1>1, <1>2, <1>3, WindowManagerAssumption DEF WindowRecords
<1>5. n = [m EXCEPT !.count = m.count + 1, !.windows = select_top_focus(v),
                    !.dirty = Merged(m.dirty, b)]
  BY DEF ios_window_create
<1> HIDE DEF a, new, n
<1>6. v \in Arrays /\ v[a] = new /\ \A s \in Windows \ {a} : v[s] = m.windows[s]
  BY <1>1, <1>3, <1>4 DEF Arrays
<1> HIDE DEF v
<1>7. select_top_focus(v) \in Arrays
  BY <1>6, FocusFacts
<1>8. /\ Merged(m.dirty, b) \in Rects
      /\ \A c \in Cells : Inside(c, m.dirty) \/ Inside(c, b) => Inside(c, Merged(m.dirty, b))
  BY <1>1, MergedFacts
<1>9. /\ n \in Mgrs /\ n.windows = select_top_focus(v) /\ n.count = m.count + 1
      /\ n.dirty = Merged(m.dirty, b) /\ n.pointer = m.pointer
  <2>1. PICK k, f, r : k = m.count + 1 /\ f = select_top_focus(v) /\ r = Merged(m.dirty, b)
    OBVIOUS
  <2>2. n = [m EXCEPT !.count = k, !.windows = f, !.dirty = r]
    BY <1>5, <2>1
  <2>3. k \in Nat /\ f \in Arrays /\ r \in Rects
    BY <1>1, <1>7, <1>8, <2>1
  <2>4. /\ n \in Mgrs /\ n.windows = f /\ n.count = k
        /\ n.dirty = r /\ n.pointer = m.pointer
    BY <1>1, <2>2, <2>3 DEF Mgrs, Managers, Arrays
  <2>5. QED
    BY <2>1, <2>4
<1>10. \A s \in Windows :
          /\ n.windows[s].allocated = v[s].allocated /\ n.windows[s].visible = v[s].visible
          /\ n.windows[s].generation = v[s].generation /\ n.windows[s].z = v[s].z
          /\ n.windows[s].bounds = v[s].bounds /\ n.windows[s].owner = v[s].owner
  BY <1>6, <1>9, FocusFacts
<1>11. Allocated(v) = Allocated(m.windows) \cup {a}
  <2>1. ASSUME NEW s \in Windows
        PROVE  s \in Allocated(v) <=> s \in Allocated(m.windows) \/ s = a
    <3>1. CASE s = a
      BY <1>4, <1>6, <3>1, AllocatedMember, Zenon
    <3>2. CASE s # a
      <4>1. v[s] = m.windows[s]
        BY <1>6, <3>2
      <4>2. QED
        BY <3>2, <4>1, AllocatedMember, Zenon
    <3>3. QED
      BY <3>1, <3>2
  <2>2. QED
    BY <1>3, <2>1, AllocatedFinite
<1>12. Dense(v, m.count + 1)
  <2>1. v[a].z = m.count + 1 /\ \A s \in Allocated(m.windows) : v[s].z = m.windows[s].z
    BY <1>3, <1>4, <1>6, AllocatedFinite
  <2>2. QED
    BY <1>1, <1>3, <1>11, <2>1, DenseCreate
<1>13. Sound(n)
  BY <1>6, <1>9, <1>12, RebuiltSound
<1>14. Allocated(n.windows) = Allocated(m.windows) \cup {a}
  BY <1>6, <1>9, <1>11, FocusFacts
<1>15. ASSUME NEW s \in Windows \ {a}
       PROVE  SameWindow(m, n, s) /\ n.windows[s].generation = m.windows[s].generation
              /\ n.windows[s].z = m.windows[s].z
  BY <1>6, <1>10 DEF SameWindow
<1>16. Careful(m, n)
  <2> SUFFICES ASSUME NEW c \in Cells, ~Inside(c, n.dirty)
               PROVE  ~Inside(c, m.dirty) /\ SameAt(m, n, c)
    BY DEF Careful
  <2>1. ~Inside(c, m.dirty) /\ ~Inside(c, b)
    BY <1>8, <1>9
  <2>2. ~Covers(m, a, c)
    BY <1>3, CoversFacts
  <2>3. ~Covers(n, a, c)
    BY <1>3, <1>4, <1>6, <1>10, <1>13, <2>1, CoversFacts
  <2>4. \A s, t \in Allocated(m.windows) \ {a} :
            m.windows[s].z <= m.windows[t].z <=> n.windows[s].z <= n.windows[t].z
    BY <1>15, AllocatedFinite
  <2>5. QED
    BY <1>3, <1>9, <1>13, <1>15, <2>1, <2>2, <2>3, <2>4, SameAtBut
<1>17. n.windows[a].allocated /\ n.windows[a].owner = o
       /\ n.windows[a].generation = NewHandle(m).generation
  BY <1>3, <1>4, <1>6, <1>10
<1>18. QED
  BY <1>3, <1>9, <1>13, <1>14, <1>15, <1>16, <1>17 DEF n, a

LEMMA LoweredFacts ==
    ASSUME NEW w \in Arrays, NEW k \in Nat
    PROVE  LET v == Lowered(w, k)
           IN  /\ v \in Arrays
               /\ \A s \in Windows :
                     /\ v[s].allocated = w[s].allocated /\ v[s].visible = w[s].visible
                     /\ v[s].generation = w[s].generation
                     /\ v[s].bounds = w[s].bounds /\ v[s].owner = w[s].owner
               /\ \A s \in Allocated(w) : v[s].z = IF w[s].z > k THEN w[s].z - 1 ELSE w[s].z
               /\ Allocated(v) = Allocated(w)
<1> DEFINE above(s) == w[s].allocated /\ w[s].z > k
           low(s) == IF above(s) THEN [w[s] EXCEPT !.z = w[s].z - 1] ELSE w[s]
           v == Lowered(w, k)
<1>1. v = [s \in Windows |-> low(s)]
  BY DEF Lowered
<1>2. ASSUME NEW s \in Windows
      PROVE  /\ low(s) \in WindowRecords(Owners \cup {"none"})
             /\ low(s).allocated = w[s].allocated /\ low(s).visible = w[s].visible
             /\ low(s).generation = w[s].generation
             /\ low(s).bounds = w[s].bounds /\ low(s).owner = w[s].owner
             /\ s \in Allocated(w) =>
                  low(s).z = IF w[s].z > k THEN w[s].z - 1 ELSE w[s].z
  <2>1. w[s] \in WindowRecords(Owners \cup {"none"}) /\ w[s].z \in Nat
    BY WindowFields DEF Arrays
  <2>2. CASE above(s)
    <3>1. w[s].z > k
      BY <2>2
    <3>2. PICK j : j = w[s].z - 1
      OBVIOUS
    <3>3. j \in Nat
      BY <2>1, <3>1, <3>2
    <3>4. low(s) = [w[s] EXCEPT !.z = j]
      BY <2>2, <3>2
    <3> HIDE DEF low, above
    <3>5. /\ low(s) \in WindowRecords(Owners \cup {"none"}) /\ low(s).z = j
          /\ low(s).allocated = w[s].allocated /\ low(s).visible = w[s].visible
          /\ low(s).generation = w[s].generation
          /\ low(s).bounds = w[s].bounds /\ low(s).owner = w[s].owner
      BY <2>1, <3>3, <3>4, ZUpdate
    <3>6. QED
      BY <3>1, <3>2, <3>5
  <2>3. CASE ~above(s)
    <3>1. low(s) = w[s]
      BY <2>3
    <3>2. s \in Allocated(w) => ~(w[s].z > k)
      BY <2>3, AllocatedMember, Zenon
    <3> HIDE DEF low, above
    <3>3. QED
      BY <2>1, <3>1, <3>2
  <2>4. QED
    BY <2>2, <2>3
<1> HIDE DEF low
<1>3. v \in Arrays /\ \A s \in Windows : v[s] = low(s)
  BY <1>1, <1>2 DEF Arrays
<1> HIDE DEF v
<1>4. Allocated(v) = Allocated(w)
  <2>1. \A s \in Windows : v[s].allocated = w[s].allocated
    BY <1>2, <1>3
  <2>2. QED
    BY <2>1, Zenon DEF Allocated
<1>5. Allocated(w) \subseteq Windows
  BY DEF Allocated
<1>6. QED
  BY <1>2, <1>3, <1>4, <1>5 DEF v

(* ios_window_destroy.                                                      *)
LEMMA DestroyFacts ==
    ASSUME NEW m, Sound(m), NEW h, h.slot \in Allocated(m.windows)
    PROVE  LET n == ios_window_destroy(m, h)
           IN  Sound(n) /\ n.pointer = m.pointer
<1> DEFINE a == h.slot
           w == m.windows[a]
           freed == [w EXCEPT !.allocated = FALSE, !.visible = FALSE, !.focused = FALSE]
           u == [m.windows EXCEPT ![a] = freed]
           v == Lowered(u, w.z)
           n == ios_window_destroy(m, h)
<1>1. /\ m \in Mgrs /\ m.windows \in Arrays /\ m.count \in Nat /\ m.dirty \in Rects
      /\ Dense(m.windows, m.count)
  BY ManagerFields DEF Sound, ZOrdersAreDense
<1>2. a \in Windows
  BY DEF Allocated
<1>3. w \in WindowRecords(Owners \cup {"none"}) /\ w.z \in Nat /\ w.bounds \in Rects
  BY <1>1, <1>2, SlotFields
<1>4. freed \in WindowRecords(Owners \cup {"none"}) /\ freed.allocated = FALSE
  <2> HIDE DEF w
  <2>1. QED
    BY <1>3, FreedUpdate
<1>5. n = [m EXCEPT !.count = m.count - 1, !.windows = select_top_focus(v),
                    !.dirty = IF w.visible THEN Merged(m.dirty, w.bounds) ELSE m.dirty]
  BY DEF ios_window_destroy
<1> HIDE DEF freed, n
<1>6. u \in Arrays /\ u[a] = freed /\ \A s \in Windows \ {a} : u[s] = m.windows[s]
  BY <1>1, <1>2, <1>4 DEF Arrays
<1> HIDE DEF u
<1>7. /\ v \in Arrays /\ Allocated(v) = Allocated(u)
      /\ \A s \in Allocated(u) : v[s].z = IF u[s].z > w.z THEN u[s].z - 1 ELSE u[s].z
  BY <1>3, <1>6, LoweredFacts
<1>8. Allocated(u) = Allocated(m.windows) \ {a}
  <2>1. ASSUME NEW s \in Windows
        PROVE  s \in Allocated(u) <=> s \in Allocated(m.windows) /\ s # a
    <3>1. CASE s = a
      BY <1>4, <1>6, <3>1, AllocatedMember, Zenon
    <3>2. CASE s # a
      <4>1. u[s] = m.windows[s]
        BY <1>6, <3>2
      <4>2. QED
        BY <3>2, <4>1, AllocatedMember, Zenon
    <3>3. QED
      BY <3>1, <3>2
  <2>2. QED
    BY <2>1, AllocatedFinite
<1> HIDE DEF v
<1>9. m.count - 1 \in Nat /\ Dense(v, m.count - 1)
  <2>1. \A s \in Allocated(v) :
          v[s].z = IF m.windows[s].z > m.windows[a].z THEN m.windows[s].z - 1 ELSE m.windows[s].z
    BY <1>6, <1>7, <1>8, AllocatedFinite
  <2>2. Allocated(v) = Allocated(m.windows) \ {a}
    BY <1>7, <1>8
  <2> HIDE DEF w, a
  <2>3. QED
    BY <1>1, <2>1, <2>2, DenseDestroy DEF a
<1>10. n \in Mgrs /\ n.windows = select_top_focus(v) /\ n.count = m.count - 1
       /\ n.pointer = m.pointer
  <2>1. PICK k, f, r : /\ k = m.count - 1 /\ f = select_top_focus(v)
                       /\ r = IF w.visible THEN Merged(m.dirty, w.bounds) ELSE m.dirty
    OBVIOUS
  <2>2. n = [m EXCEPT !.count = k, !.windows = f, !.dirty = r]
    BY <1>5, <2>1
  <2>3. r \in Rects
    BY <1>1, <1>3, <2>1, MergedFacts, Zenon
  <2>4. k \in Nat /\ f \in Arrays
    BY <1>7, <1>9, <2>1, FocusFacts
  <2>5. n \in Mgrs /\ n.windows = f /\ n.count = k /\ n.pointer = m.pointer
    BY <1>1, <2>2, <2>3, <2>4 DEF Mgrs, Managers, Arrays
  <2>6. QED
    BY <2>1, <2>5
<1>11. Sound(n)
  BY <1>7, <1>9, <1>10, RebuiltSound
<1>12. QED
  BY <1>10, <1>11 DEF n

(* What the operations on an existing window leave alone.                   *)
SameHolders(m, n) ==
    /\ Allocated(n.windows) = Allocated(m.windows)
    /\ \A s \in Windows : /\ n.windows[s].allocated = m.windows[s].allocated
                          /\ n.windows[s].generation = m.windows[s].generation
                          /\ n.windows[s].owner = m.windows[s].owner

(* ios_window_raise.                                                        *)
LEMMA RaiseFacts ==
    ASSUME NEW m, Sound(m), NEW h, h.slot \in Allocated(m.windows)
    PROVE  LET n == ios_window_raise(m, h)
           IN  Sound(n) /\ n.pointer = m.pointer /\ SameHolders(m, n) /\ Careful(m, n)
<1> DEFINE a == h.slot
           n == ios_window_raise(m, h)
<1>1. /\ m \in Mgrs /\ m.windows \in Arrays /\ m.count \in Nat /\ m.dirty \in Rects
      /\ Dense(m.windows, m.count)
  BY ManagerFields DEF Sound, ZOrdersAreDense
<1>2. a \in Windows
  BY DEF Allocated
<1>3. /\ m.windows[a] \in WindowRecords(Owners \cup {"none"}) /\ m.windows[a].z \in Nat
      /\ m.windows[a].bounds \in Rects /\ TopZ(m.windows) = m.count
  BY <1>1, <1>2, SlotFields, TopIsCount
<1>4. CASE m.windows[a].z = m.count
  <2>1. n = [m EXCEPT !.windows = select_top_focus(m.windows)]
    BY <1>3, <1>4 DEF ios_window_raise
  <2>2. PICK f : f = select_top_focus(m.windows)
    OBVIOUS
  <2>3. f \in Arrays
    BY <1>1, <2>2, FocusFacts
  <2> HIDE DEF n
  <2>4. n \in Mgrs /\ n.windows = f /\ n.count = m.count /\ n.dirty = m.dirty
        /\ n.pointer = m.pointer
    BY <1>1, <2>1, <2>2, <2>3 DEF Mgrs, Managers, Arrays
  <2>5. Sound(n)
    BY <1>1, <2>2, <2>4, RebuiltSound
  <2>6. SameHolders(m, n) /\ \A s \in Windows : SameWindow(m, n, s) /\ n.windows[s].z = m.windows[s].z
    BY <1>1, <2>2, <2>4, FocusFacts DEF SameHolders, SameWindow
  <2>7. ASSUME NEW c \in Cells PROVE SameAt(m, n, c)
    <3>1. \A s \in Windows : Covers(m, s, c) <=> Covers(n, s, c)
      BY <2>5, <2>6, CoversFacts DEF SameWindow
    <3>2. PointerRect(n) = PointerRect(m)
      BY <2>4 DEF PointerRect
    <3>3. QED
      BY <2>6, <3>1, <3>2 DEF SameAt, SameWindow
  <2>8. Careful(m, n)
    BY <2>4, <2>7 DEF Careful
  <2>9. QED
    BY <2>4, <2>5, <2>6, <2>8 DEF n
<1>5. CASE m.windows[a].z # m.count
  <2> DEFINE l == Lowered(m.windows, m.windows[a].z)
             v == [l EXCEPT ![a].z = m.count]
  <2>1. n = [m EXCEPT !.windows = select_top_focus(v), !.dirty = Merged(m.dirty, m.windows[a].bounds)]
    BY <1>3, <1>5 DEF ios_window_raise
  <2>2. /\ l \in Arrays /\ Allocated(l) = Allocated(m.windows)
        /\ \A s \in Windows :
              /\ l[s].allocated = m.windows[s].allocated /\ l[s].visible = m.windows[s].visible
              /\ l[s].generation = m.windows[s].generation
              /\ l[s].bounds = m.windows[s].bounds /\ l[s].owner = m.windows[s].owner
        /\ \A s \in Allocated(m.windows) :
              l[s].z = IF m.windows[s].z > m.windows[a].z THEN m.windows[s].z - 1
                       ELSE m.windows[s].z
    BY <1>1, <1>3, LoweredFacts
  <2> HIDE DEF l, n
  <2>3. /\ v \in Arrays
        /\ v[a] = [l[a] EXCEPT !.z = m.count] /\ \A s \in Windows \ {a} : v[s] = l[s]
    <3>1. l[a] \in WindowRecords(Owners \cup {"none"})
      BY <1>2, <2>2 DEF Arrays
    <3>2. PICK q : q = [l[a] EXCEPT !.z = m.count]
      OBVIOUS
    <3>3. q \in WindowRecords(Owners \cup {"none"})
      BY <1>1, <3>1, <3>2, ZUpdate
    <3>4. v = [l EXCEPT ![a] = q]
      BY <3>2
    <3> HIDE DEF v
    <3>5. QED
      BY <1>2, <2>2, <3>2, <3>3, <3>4 DEF Arrays
  <2> HIDE DEF v
  <2>4. /\ v[a].z = m.count /\ v[a].allocated = m.windows[a].allocated
        /\ v[a].visible = m.windows[a].visible /\ v[a].generation = m.windows[a].generation
        /\ v[a].bounds = m.windows[a].bounds /\ v[a].owner = m.windows[a].owner
    <3>1. l[a] \in WindowRecords(Owners \cup {"none"})
      BY <1>2, <2>2 DEF Arrays
    <3>2. QED
      BY <1>1, <1>2, <2>2, <2>3, <3>1, ZUpdate
  <2>5. ASSUME NEW s \in Windows
        PROVE  /\ v[s].allocated = m.windows[s].allocated /\ v[s].visible = m.windows[s].visible
               /\ v[s].generation = m.windows[s].generation
               /\ v[s].bounds = m.windows[s].bounds /\ v[s].owner = m.windows[s].owner
    <3>1. CASE s = a
      BY <2>4, <3>1
    <3>2. CASE s # a
      <4>1. v[s] = l[s]
        BY <2>3, <3>2
      <4>2. QED
        BY <2>2, <4>1
    <3>3. QED
      BY <3>1, <3>2
  <2>6. Allocated(v) = Allocated(m.windows)
    BY <2>5, Zenon DEF Allocated
  <2>7. \A s \in Allocated(m.windows) \ {a} :
          v[s].z = IF m.windows[s].z > m.windows[a].z THEN m.windows[s].z - 1 ELSE m.windows[s].z
    BY <2>2, <2>3, AllocatedFinite
  <2>8. Dense(v, m.count)
    BY <1>1, <2>4, <2>6, <2>7, DenseRaise
  <2>9. /\ Merged(m.dirty, m.windows[a].bounds) \in Rects
        /\ \A c \in Cells : Inside(c, m.dirty) \/ Inside(c, m.windows[a].bounds)
              => Inside(c, Merged(m.dirty, m.windows[a].bounds))
    BY <1>1, <1>3, MergedFacts
  <2>10. /\ n \in Mgrs /\ n.windows = select_top_focus(v) /\ n.count = m.count
         /\ n.dirty = Merged(m.dirty, m.windows[a].bounds) /\ n.pointer = m.pointer
    <3>1. PICK f, r : f = select_top_focus(v) /\ r = Merged(m.dirty, m.windows[a].bounds)
      OBVIOUS
    <3>2. f \in Arrays /\ r \in Rects
      BY <2>3, <2>9, <3>1, FocusFacts
    <3>3. n = [m EXCEPT !.windows = f, !.dirty = r]
      BY <2>1, <3>1
    <3>4. n \in Mgrs /\ n.windows = f /\ n.count = m.count /\ n.dirty = r /\ n.pointer = m.pointer
      BY <1>1, <3>2, <3>3 DEF Mgrs, Managers, Arrays
    <3>5. QED
      BY <3>1, <3>4
  <2>11. Sound(n)
    BY <2>3, <2>8, <2>10, RebuiltSound
  <2>12. /\ SameHolders(m, n) /\ \A s \in Windows : SameWindow(m, n, s)
         /\ \A s \in Windows : n.windows[s].z = v[s].z
    BY <2>3, <2>5, <2>6, <2>10, FocusFacts DEF SameHolders, SameWindow
  <2>13. Careful(m, n)
    <3> SUFFICES ASSUME NEW c \in Cells, ~Inside(c, n.dirty)
                 PROVE  ~Inside(c, m.dirty) /\ SameAt(m, n, c)
      BY DEF Careful
    <3>1. ~Inside(c, m.dirty) /\ ~Inside(c, m.windows[a].bounds)
      BY <2>9, <2>10
    <3>2. ~Covers(m, a, c) /\ ~Covers(n, a, c)
      BY <1>2, <2>11, <2>12, <3>1, CoversFacts DEF SameWindow
    <3>3. ASSUME NEW s \in Allocated(m.windows) \ {a}, NEW t \in Allocated(m.windows) \ {a}
          PROVE  m.windows[s].z <= m.windows[t].z <=> n.windows[s].z <= n.windows[t].z
      <4>1. /\ m.windows[s].z \in 1 .. m.count /\ m.windows[t].z \in 1 .. m.count
            /\ m.windows[s].z # m.windows[a].z /\ m.windows[t].z # m.windows[a].z
        BY <1>1, DenseRange DEF Dense
      <4>2. n.windows[s].z = v[s].z /\ n.windows[t].z = v[t].z
        BY <2>12, AllocatedFinite
      <4>3. QED
        BY <1>1, <1>3, <2>7, <4>1, <4>2
    <3>4. QED
      BY <1>2, <2>10, <2>11, <2>12, <3>1, <3>2, <3>3, SameAtBut
  <2>14. QED
    BY <2>10, <2>11, <2>12, <2>13 DEF n
<1>6. QED
  BY <1>4, <1>5

(* ios_window_move: where a visible window was and where it goes is dirty.  *)
LEMMA MoveFacts ==
    ASSUME NEW m, Sound(m), NEW h, h.slot \in Windows, NEW x \in Int, NEW y \in Int
    PROVE  LET n == ios_window_move(m, h, x, y)
           IN  Sound(n) /\ n.pointer = m.pointer /\ SameHolders(m, n) /\ Careful(m, n)
<1> DEFINE a == h.slot
           w == m.windows[a]
           moved == [w.bounds EXCEPT !.x = x, !.y = y]
           r == Merged(m.dirty, w.bounds)
           q == Merged(r, moved)
           dirty == IF w.visible THEN q ELSE m.dirty
           n == ios_window_move(m, h, x, y)
<1>1. /\ m \in Mgrs /\ m.windows \in Arrays /\ m.count \in Nat /\ m.dirty \in Rects
      /\ Dense(m.windows, m.count) /\ FocusIsTop(m)
  BY ManagerFields DEF Sound, ZOrdersAreDense
<1>2. w \in WindowRecords(Owners \cup {"none"}) /\ w.bounds \in Rects /\ w.visible \in BOOLEAN
  BY <1>1, SlotFields
<1>3. moved \in Rects
  BY <1>2 DEF Rects
<1>4. n = [m EXCEPT !.windows = [m.windows EXCEPT ![a] = [w EXCEPT !.bounds = moved]],
                    !.dirty = dirty]
  BY DEF ios_window_move
<1> HIDE DEF moved, n, w
<1>5. r \in Rects /\ \A c \in Cells : Inside(c, m.dirty) \/ Inside(c, w.bounds) => Inside(c, r)
  BY <1>1, <1>2, MergedFacts
<1> HIDE DEF r
<1>6. q \in Rects /\ \A c \in Cells : Inside(c, r) \/ Inside(c, moved) => Inside(c, q)
  BY <1>3, <1>5, MergedFacts
<1> HIDE DEF q
<1>7. PICK g : g = [w EXCEPT !.bounds = moved]
  OBVIOUS
<1>8. /\ g \in WindowRecords(Owners \cup {"none"}) /\ g.focused = w.focused
      /\ g.allocated = w.allocated /\ g.visible = w.visible
      /\ g.generation = w.generation /\ g.z = w.z /\ g.bounds = moved /\ g.owner = w.owner
  BY <1>2, <1>3, <1>7, BoundsUpdate
<1>9. dirty \in Rects
  BY <1>1, <1>6, Zenon
<1> HIDE DEF dirty
<1>10. PICK f : f = [m.windows EXCEPT ![a] = g]
  OBVIOUS
<1>11. f \in Arrays /\ f[a] = g /\ \A s \in Windows \ {a} : f[s] = m.windows[s]
  BY <1>1, <1>8, <1>10 DEF Arrays
<1>12. n = [m EXCEPT !.windows = f, !.dirty = dirty]
  BY <1>4, <1>7, <1>10
<1>13. /\ n \in Mgrs /\ n.windows = f /\ n.count = m.count /\ n.dirty = dirty
       /\ n.pointer = m.pointer
  BY <1>1, <1>9, <1>11, <1>12 DEF Mgrs, Managers, Arrays
<1>14. ASSUME NEW s \in Windows
       PROVE  /\ f[s].allocated = m.windows[s].allocated /\ f[s].visible = m.windows[s].visible
              /\ f[s].focused = m.windows[s].focused
              /\ f[s].generation = m.windows[s].generation /\ f[s].z = m.windows[s].z
              /\ f[s].owner = m.windows[s].owner
              /\ s # a => f[s].bounds = m.windows[s].bounds
  <2>1. CASE s = a
    BY <1>8, <1>11, <2>1 DEF w
  <2>2. CASE s # a
    <3>1. f[s] = m.windows[s]
      BY <1>11, <2>2
    <3>2. QED
      BY <3>1
  <2>3. QED
    BY <2>1, <2>2
<1>15. Allocated(f) = Allocated(m.windows) /\ Visible(f) = Visible(m.windows)
  <2>1. Allocated(f) = Allocated(m.windows)
    BY <1>14, Zenon DEF Allocated
  <2>2. Visible(f) \subseteq Windows /\ Visible(m.windows) \subseteq Windows
    BY DEF Visible, Allocated
  <2>3. \A s \in Windows : s \in Visible(f) <=> s \in Visible(m.windows)
    BY <1>14, VisibleMember
  <2>4. QED
    BY <2>1, <2>2, <2>3
<1>16. Dense(f, m.count)
  <2>1. SameStack(f, m.windows)
    BY <1>14, <1>15, AllocatedFinite DEF SameStack
  <2>2. QED
    BY <1>1, <2>1, DenseSame
<1>17. FocusIsTop(n)
  <2>1. {f[s].z : s \in Visible(f)} = {m.windows[s].z : s \in Visible(m.windows)}
    BY <1>14, <1>15 DEF Visible, Allocated
  <2>2. TopVisibleZ(f) = TopVisibleZ(m.windows)
    BY <2>1 DEF TopVisibleZ
  <2>3. \A s \in Windows : IsTop(f, s) <=> IsTop(m.windows, s)
    BY <1>14, <1>15, <2>2, Zenon DEF IsTop
  <2>4. QED
    BY <1>1, <1>13, <1>14, <2>3, Zenon DEF FocusIsTop
<1>18. Sound(n)
  BY <1>13, <1>16, <1>17 DEF Sound, ZOrdersAreDense
<1>19. SameHolders(m, n)
  BY <1>13, <1>14, <1>15 DEF SameHolders
<1>20. Careful(m, n)
  <2> SUFFICES ASSUME NEW c \in Cells, ~Inside(c, n.dirty)
               PROVE  ~Inside(c, m.dirty) /\ SameAt(m, n, c)
    BY DEF Careful
  <2>1. ~Covers(m, a, c) /\ ~Covers(n, a, c) /\ ~Inside(c, m.dirty)
    <3>1. CASE w.visible
      <4>1. dirty = q
        BY <3>1 DEF dirty
      <4>2. ~Inside(c, m.dirty) /\ ~Inside(c, w.bounds) /\ ~Inside(c, moved)
        BY <1>5, <1>6, <1>13, <4>1
      <4>3. n.windows[a].bounds = moved /\ m.windows[a].bounds = w.bounds
        BY <1>8, <1>11, <1>13 DEF w
      <4>4. QED
        BY <1>18, <4>2, <4>3, CoversFacts
    <3>2. CASE ~w.visible
      <4>1. dirty = m.dirty
        BY <3>2 DEF dirty
      <4>2. ~m.windows[a].visible /\ ~n.windows[a].visible
        BY <1>13, <1>14, <3>2 DEF w
      <4>3. QED
        BY <1>13, <1>18, <4>1, <4>2, CoversFacts
    <3>3. QED
      BY <3>1, <3>2
  <2>2. \A s \in Windows \ {a} : SameWindow(m, n, s)
    BY <1>13, <1>14 DEF SameWindow
  <2>3. \A s, t \in Allocated(m.windows) \ {a} :
            m.windows[s].z <= m.windows[t].z <=> n.windows[s].z <= n.windows[t].z
    BY <1>13, <1>14, AllocatedFinite
  <2>4. QED
    BY <1>13, <1>18, <2>1, <2>2, <2>3, SameAtBut
<1>21. QED
  BY <1>13, <1>18, <1>19, <1>20 DEF n

(* ios_window_set_visible: a window that appears or goes is dirty.          *)
LEMMA VisibleFacts ==
    ASSUME NEW m, Sound(m), NEW h, h.slot \in Windows, NEW b \in BOOLEAN
    PROVE  LET n == ios_window_set_visible(m, h, b)
           IN  Sound(n) /\ n.pointer = m.pointer /\ SameHolders(m, n) /\ Careful(m, n)
<1> DEFINE a == h.slot
           w == m.windows[a]
           r == Merged(m.dirty, w.bounds)
           v == [m.windows EXCEPT ![a] = [w EXCEPT !.visible = b]]
           n == ios_window_set_visible(m, h, b)
<1>1. /\ m \in Mgrs /\ m.windows \in Arrays /\ m.count \in Nat /\ m.dirty \in Rects
      /\ Dense(m.windows, m.count)
  BY ManagerFields DEF Sound, ZOrdersAreDense
<1>2. w \in WindowRecords(Owners \cup {"none"}) /\ w.bounds \in Rects
  BY <1>1, SlotFields
<1>3. CASE w.visible = b
  <2>1. n = m
    BY <1>3, Zenon DEF ios_window_set_visible
  <2>2. SameHolders(m, m)
    BY DEF SameHolders
  <2>3. Careful(m, m)
    BY DEF Careful, SameAt
  <2>4. QED
    BY <2>1, <2>2, <2>3
<1>4. CASE w.visible # b
  <2>1. n = [m EXCEPT !.windows = select_top_focus(v), !.dirty = r]
    BY <1>4, Zenon DEF ios_window_set_visible
  <2> HIDE DEF n, w
  <2>2. r \in Rects /\ \A c \in Cells : Inside(c, m.dirty) \/ Inside(c, w.bounds) => Inside(c, r)
    BY <1>1, <1>2, MergedFacts
  <2> HIDE DEF r
  <2>3. PICK g : g = [w EXCEPT !.visible = b]
    OBVIOUS
  <2>4. /\ g \in WindowRecords(Owners \cup {"none"})
        /\ g.allocated = w.allocated /\ g.generation = w.generation /\ g.z = w.z
        /\ g.bounds = w.bounds /\ g.owner = w.owner
    BY <1>2, <2>3, VisibleUpdate
  <2>5. v = [m.windows EXCEPT ![a] = g]
    BY <2>3
  <2> HIDE DEF v
  <2>6. v \in Arrays /\ v[a] = g /\ \A s \in Windows \ {a} : v[s] = m.windows[s]
    BY <1>1, <2>4, <2>5 DEF Arrays
  <2>7. ASSUME NEW s \in Windows
        PROVE  /\ v[s].allocated = m.windows[s].allocated
               /\ v[s].generation = m.windows[s].generation /\ v[s].z = m.windows[s].z
               /\ v[s].bounds = m.windows[s].bounds /\ v[s].owner = m.windows[s].owner
               /\ s # a => v[s].visible = m.windows[s].visible
    <3>1. CASE s = a
      BY <2>4, <2>6, <3>1 DEF w
    <3>2. CASE s # a
      <4>1. v[s] = m.windows[s]
        BY <2>6, <3>2
      <4>2. QED
        BY <4>1
    <3>3. QED
      BY <3>1, <3>2
  <2>8. Allocated(v) = Allocated(m.windows)
    BY <2>7, Zenon DEF Allocated
  <2>9. Dense(v, m.count)
    <3>1. SameStack(v, m.windows)
      BY <2>7, <2>8, AllocatedFinite DEF SameStack
    <3>2. QED
      BY <1>1, <3>1, DenseSame
  <2>10. /\ n \in Mgrs /\ n.windows = select_top_focus(v) /\ n.count = m.count
         /\ n.dirty = r /\ n.pointer = m.pointer
    <3>1. PICK f : f = select_top_focus(v)
      OBVIOUS
    <3>2. f \in Arrays
      BY <2>6, <3>1, FocusFacts
    <3>3. n = [m EXCEPT !.windows = f, !.dirty = r]
      BY <2>1, <3>1
    <3>4. n \in Mgrs /\ n.windows = f /\ n.count = m.count /\ n.dirty = r /\ n.pointer = m.pointer
      BY <1>1, <2>2, <3>2, <3>3 DEF Mgrs, Managers, Arrays
    <3>5. QED
      BY <3>1, <3>4
  <2>11. Sound(n)
    BY <2>6, <2>9, <2>10, RebuiltSound
  <2>12. \A s \in Windows :
           /\ n.windows[s].allocated = v[s].allocated /\ n.windows[s].visible = v[s].visible
           /\ n.windows[s].generation = v[s].generation /\ n.windows[s].z = v[s].z
           /\ n.windows[s].bounds = v[s].bounds /\ n.windows[s].owner = v[s].owner
    BY <2>6, <2>10, FocusFacts
  <2>13. SameHolders(m, n)
    <3>1. Allocated(n.windows) = Allocated(v)
      BY <2>6, <2>10, FocusFacts
    <3>2. QED
      BY <2>7, <2>8, <2>12, <3>1 DEF SameHolders
  <2>14. Careful(m, n)
    <3> SUFFICES ASSUME NEW c \in Cells, ~Inside(c, n.dirty)
                 PROVE  ~Inside(c, m.dirty) /\ SameAt(m, n, c)
      BY DEF Careful
    <3>1. ~Inside(c, m.dirty) /\ ~Inside(c, w.bounds)
      BY <2>2, <2>10
    <3>2. n.windows[a].bounds = w.bounds /\ m.windows[a].bounds = w.bounds
      BY <2>7, <2>12 DEF w
    <3>3. ~Covers(m, a, c) /\ ~Covers(n, a, c)
      BY <2>11, <3>1, <3>2, CoversFacts
    <3>4. \A s \in Windows \ {a} : SameWindow(m, n, s)
      BY <2>7, <2>12 DEF SameWindow
    <3>5. \A s, t \in Allocated(m.windows) \ {a} :
              m.windows[s].z <= m.windows[t].z <=> n.windows[s].z <= n.windows[t].z
      BY <2>7, <2>12, AllocatedFinite
    <3>6. QED
      BY <2>10, <2>11, <3>1, <3>3, <3>4, <3>5, SameAtBut
  <2>15. QED
    BY <2>10, <2>11, <2>13, <2>14 DEF n
<1>5. QED
  BY <1>3, <1>4

-----------------------------------------------------------------------------
(* The desktop.  What the step relies on, in two parts: where control is   *)
(* and what it holds, and what is on the screen.                           *)

Shells == [gui_running : BOOLEAN, cui_usable : BOOLEAN, line : 0 .. LineLimit]
ViewStates == [running : BOOLEAN, ready : BOOLEAN, handle : Handles]

ControlTypes ==
    /\ shell \in Shells
    /\ active \in BOOLEAN
    /\ drawn \in [Owners -> 0 .. 1]
    /\ view \in [Views -> ViewStates]
    /\ focus \in Views \cup {"none"}
    /\ sessions \in [Viewers -> 0 .. 1]
    /\ queue \in Seq(Reported) /\ Len(queue) <= QueueCapacity
    /\ step \in Steps /\ (At("handle") => Event \in Reported)

ControlInv == ControlTypes /\ ChannelsReturned /\ CommandLineRecovers

ScreenInv ==
    /\ Sound(wm)
    /\ shell.gui_running => Current(wm, drawn, framebuffer)
    /\ RunningViewHasWindow

DesktopInv == ControlInv /\ ScreenInv

LEMMA ShownIsCurrent ==
    ASSUME NEW m, NEW d, NEW fb
    PROVE  Current(m, d, fb) <=> \A c \in Cells \ Pixels(m.dirty) : fb[c] = Picture(m, d, c)
BY Zenon DEF Current, Pixels

LEMMA DesktopInvMeans ==
    DesktopInv <=> ScreenConsistent /\ ViewsHoldTheirOwn /\ CommandLineRecovers
<1>1. TypeOK <=> ControlTypes /\ wm \in Mgrs
  BY Zenon DEF TypeOK, ControlTypes, Shells, ViewStates, Mgrs
<1>2. Sound(wm) <=> wm \in Mgrs /\ StackConsistent
  BY Zenon DEF Sound, StackConsistent
<1>3. CleanCellsAreCurrent <=> (shell.gui_running => Current(wm, drawn, framebuffer))
  BY ShownIsCurrent, Zenon DEF CleanCellsAreCurrent
<1>4. QED
  BY <1>1, <1>2, <1>3, Zenon DEF DesktopInv, ControlInv, ScreenInv, ScreenConsistent, ViewsHoldTheirOwn

-----------------------------------------------------------------------------
(* Types of the pieces.                                                    *)

LEMMA ViewNames ==
    /\ "explorer" \in Views /\ Viewers \subseteq Views /\ Views \subseteq Owners
    /\ "close" \in Owners /\ "close" \notin Views /\ "none" \notin Views
    /\ Views \subseteq {"explorer", "doc", "txt"} /\ "explorer" \notin Viewers
    /\ \A v \in Views : v # "explorer" => v \in Viewers
BY DesktopAssumption DEF Views, Owners

LEMMA BoundsType ==
    ASSUME NEW o \in Owners
    PROVE  Bounds[o] \in Rects
BY DesktopAssumption

Pcs == Phases \cup {"idle", "poll", "pop", "handle", "cleanup", "create", "repaint"}

LEMMA FrameFacts ==
    ASSUME NEW pc \in Pcs
    PROVE  Frame(pc) \in Steps /\ Frame(pc).pc = pc /\ Frame(pc).view = "none"
<1>1. Frame(pc) = [pc |-> pc, event |-> NoEvent, view |-> "none"]
  BY DEF Frame
<1>2. NoEvent \in Reported \cup {NoEvent} /\ "none" \in Views \cup {"none"}
  OBVIOUS
<1>3. QED
  BY <1>1, <1>2 DEF Steps, Pcs

LEMMA WindowsExist == Windows # {}
<1>1. IsFiniteSet({"explorer", "doc", "txt", "close"})
  <2>1. IsFiniteSet({"explorer"})
    BY FS_Singleton
  <2>2. IsFiniteSet({"explorer"} \cup {"doc"})
    BY <2>1, FS_AddElement
  <2>3. IsFiniteSet({"explorer"} \cup {"doc"} \cup {"txt"})
    BY <2>2, FS_AddElement
  <2>4. IsFiniteSet({"explorer"} \cup {"doc"} \cup {"txt"} \cup {"close"})
    BY <2>3, FS_AddElement
  <2>5. {"explorer", "doc", "txt", "close"} = {"explorer"} \cup {"doc"} \cup {"txt"} \cup {"close"}
    OBVIOUS
  <2>6. QED
    BY <2>4, <2>5
<1>2. Owners \subseteq {"explorer", "doc", "txt", "close"}
  BY ViewNames DEF Owners
<1>3. IsFiniteSet(Owners) /\ Owners # {}
  BY <1>1, <1>2, FS_Subset, ViewNames
<1>4. Cardinality(Owners) \in Nat /\ Cardinality(Owners) # 0
  BY <1>3, FS_CardinalityType, FS_EmptySet
<1>5. Cardinality({}) = 0
  BY FS_EmptySet
<1>6. Cardinality(Windows) >= Cardinality(Owners)
  BY DesktopAssumption, Zenon
<1>7. ASSUME Windows = {} PROVE FALSE
  <2>1. Cardinality(Windows) = 0
    BY <1>5, <1>7
  <2>2. QED
    BY <1>4, <1>6, <2>1
<1>8. QED
  BY <1>7

(* The close button is the first window of a desktop.                       *)
LEMMA CloseSlot == CloseButton.slot \in Windows /\ CloseButton.slot = Min(Windows)
BY WindowsExist, WindowManagerAssumption, LeastFacts DEF CloseButton

LEMMA MinOfTwo ==
    ASSUME NEW a \in Nat, NEW b \in Nat
    PROVE  Min({a, b}) \in Nat /\ Min({a, b}) <= a /\ Min({a, b}) <= b
<1>1. \E x \in {a, b} : \A y \in {a, b} : x <= y
  OBVIOUS
<1>2. Min({a, b}) \in {a, b} /\ \A y \in {a, b} : Min({a, b}) <= y
  BY <1>1 DEF Min
<1>3. QED
  BY <1>2

(* input_queue_push drops what does not fit.                                *)
LEMMA PushedFacts ==
    ASSUME queue \in Seq(Reported), NEW events \in Seq(Reported)
    PROVE  Pushed(events) \in Seq(Reported) /\ Len(Pushed(events)) <= QueueCapacity
<1> DEFINE all == queue \o events
           k == Min({QueueCapacity, Len(queue) + Len(events)})
<1>1. all \in Seq(Reported) /\ Len(all) = Len(queue) + Len(events)
  OBVIOUS
<1>2. QueueCapacity \in Nat /\ Len(queue) + Len(events) \in Nat
  BY DesktopAssumption
<1>3. k \in Nat /\ k <= QueueCapacity /\ k <= Len(all)
  BY <1>1, <1>2, MinOfTwo
<1> HIDE DEF all, k
<1>4. SubSeq(all, 1, k) \in Seq(Reported) /\ Len(SubSeq(all, 1, k)) = k
  BY <1>1, <1>3
<1>5. QED
  BY <1>3, <1>4 DEF Pushed, all, k

LEMMA InjectedType == Injected \in Seq(Reported)
<1>1. \A i \in 1 .. 3 : Injected[i] \in Range(Injected)
  BY DEF Range, Injected
<1>2. PICK a, b, c : Injected = <<a, b, c>>
  BY DEF Injected
<1>3. Injected[1] = a /\ Injected[2] = b /\ Injected[3] = c
  BY <1>2
<1>4. a \in Reported /\ b \in Reported /\ c \in Reported
  BY <1>1, <1>3 DEF Reported
<1>5. <<a, b, c>> \in Seq(Reported)
  BY <1>4
<1>6. QED
  BY <1>2, <1>5

(* A pointer event says where the pointer goes.                             *)
LEMMA MoveType ==
    ASSUME NEW e \in Reported, e.kind = "move"
    PROVE  e.at[1] \in Int /\ e.at[2] \in Int
<1>1. CASE e \in Events
  BY <1>1, DesktopAssumption
<1>2. CASE e \in Range(Injected)
  <2>1. PICK i \in DOMAIN Injected : e = Injected[i]
    BY <1>2 DEF Range
  <2>2. i \in 1 .. 3
    BY <2>1 DEF Injected
  <2>3. CASE i = 3
    BY <2>1, <2>3 DEF Injected
  <2>4. CASE i = 1 \/ i = 2
    <3>1. e.kind = "key"
      BY <2>1, <2>4 DEF Injected
    <3>2. QED
      BY <3>1
  <2>5. QED
    BY <2>2, <2>3, <2>4
<1>3. QED
  BY <1>1, <1>2 DEF Reported

-----------------------------------------------------------------------------
(* Starting and stopping.                                                  *)

(* A desktop that has started has the close button and nothing else, and    *)
(* the whole screen is to be painted.                                       *)
StartedManager == ios_window_set_pointer(EmptyDesktop, 0, 0, TRUE)

LEMMA StartedFacts ==
    /\ Sound(StartedManager)
    /\ \A c \in Cells : Inside(c, StartedManager.dirty)
    /\ Allocated(StartedManager.windows) = {CloseButton.slot}
    /\ StartedManager.windows[CloseButton.slot].allocated
    /\ StartedManager.windows[CloseButton.slot].owner = "close"
<1> DEFINE m == ios_window_manager_initialize
           n == EmptyDesktop
           p == StartedManager
<1>1. Sound(m) /\ m.dirty = Screen /\ Allocated(m.windows) = {}
  BY FreshFacts
<1>2. HasRoom(m) /\ NewSlot(m) = CloseButton.slot
  <2>1. Windows \ {} = Windows
    OBVIOUS
  <2>2. QED
    BY <1>1, <2>1, WindowsExist, CloseSlot DEF HasRoom, NewSlot
<1>3. n = ios_window_create(m, Bounds["close"], "close")
  BY DEF EmptyDesktop
<1>4. p = ios_window_set_pointer(n, 0, 0, TRUE)
  BY DEF StartedManager
<1> HIDE DEF m, n, p
<1>5. /\ Sound(n) /\ Careful(m, n)
      /\ Allocated(n.windows) = Allocated(m.windows) \cup {NewSlot(m)}
      /\ n.windows[NewSlot(m)].allocated /\ n.windows[NewSlot(m)].owner = "close"
  <2>1. PICK b : b = Bounds["close"]
    OBVIOUS
  <2>2. b \in Rects /\ "close" \in Owners
    BY <2>1, BoundsType, ViewNames
  <2>3. n = ios_window_create(m, b, "close")
    BY <1>3, <2>1
  <2>4. QED
    BY <1>1, <1>2, <2>2, <2>3, CreateFacts
<1>6. Sound(p) /\ p.windows = n.windows /\ Careful(n, p)
  <2>1. 0 \in Int /\ TRUE \in BOOLEAN
    OBVIOUS
  <2>2. QED
    BY <1>4, <1>5, <2>1, PointerFacts, Zenon
<1>7. ASSUME NEW c \in Cells PROVE Inside(c, p.dirty)
  <2>1. Inside(c, m.dirty)
    BY <1>1, ScreenWhole
  <2>2. Inside(c, n.dirty)
    BY <1>5, <2>1 DEF Careful
  <2>3. QED
    BY <1>6, <2>2 DEF Careful
<1>8. QED
  BY <1>1, <1>2, <1>5, <1>6, <1>7 DEF p

(* ios_desktop_stop leaves a sound manager and no pointer.                  *)
LEMMA StopFacts ==
    ASSUME NEW m, Sound(m), CloseButton.slot \in Allocated(m.windows)
    PROVE  LET n == ios_window_set_pointer(ios_window_destroy(m, CloseButton), 0, 0, FALSE)
           IN  /\ Sound(n) /\ ~n.pointer.visible
               /\ Sound(Clean(n)) /\ ~Clean(n).pointer.visible
<1> DEFINE q == ios_window_destroy(m, CloseButton)
           n == ios_window_set_pointer(q, 0, 0, FALSE)
<1>1. Sound(q)
  BY DestroyFacts
<1> HIDE DEF q
<1>2. Sound(n) /\ n.pointer.visible = FALSE
  <2>1. 0 \in Int /\ FALSE \in BOOLEAN
    OBVIOUS
  <2>2. Sound(n) /\ n.pointer = [x |-> 0, y |-> 0, visible |-> FALSE]
    BY <1>1, <2>1, PointerFacts, Zenon
  <2> HIDE DEF n
  <2>3. QED
    BY <2>2
<1> HIDE DEF n
<1>3. Sound(Clean(n)) /\ Clean(n).pointer = n.pointer
  BY <1>2, CleanFacts
<1>4. ~n.pointer.visible /\ ~Clean(n).pointer.visible
  BY <1>2, <1>3, Zenon
<1>5. QED
  BY <1>2, <1>3, <1>4 DEF n, q

(* A composition on a screen that is current leaves it current and clean.   *)
LEMMA ComposedScreen ==
    ASSUME NEW m, Sound(m), NEW d, NEW fb, Current(m, d, fb)
    PROVE  /\ Sound(Clean(m)) /\ Clean(m).windows = m.windows /\ Clean(m).pointer = m.pointer
           /\ Current(Clean(m), d, ios_window_compose(m, d, fb))
<1>1. ios_window_compose(m, d, fb) = [c \in Cells |-> Picture(m, d, c)]
  BY ComposeFacts
<1>2. /\ Sound(Clean(m)) /\ Clean(m).windows = m.windows /\ Clean(m).pointer = m.pointer
      /\ \A c \in Cells : Picture(Clean(m), d, c) = Picture(m, d, c)
  BY CleanFacts
<1>3. Current(Clean(m), d, ios_window_compose(m, d, fb))
  BY <1>1, <1>2 DEF Current
<1>4. QED
  BY <1>2, <1>3

-----------------------------------------------------------------------------
(* The first state.                                                        *)

LEMMA InitEstablishes == Init => DesktopInv
<1> SUFFICES ASSUME Init PROVE DesktopInv
  OBVIOUS
<1>1. /\ shell = [gui_running |-> FALSE, cui_usable |-> TRUE, line |-> 0]
      /\ active = FALSE /\ wm = [ios_window_manager_initialize EXCEPT !.dirty = NoRect]
      /\ drawn = [o \in Owners |-> 0]
      /\ view = [v \in Views |-> [running |-> FALSE, ready |-> v \in config.ready, handle |-> NoHandle]]
      /\ focus = "none" /\ sessions = [v \in Viewers |-> 0] /\ queue = <<>> /\ step = Frame("idle")
  BY DEF Init
<1>2. step \in Steps /\ step.pc = "idle" /\ ~shell.gui_running
  BY <1>1, FrameFacts DEF Pcs
<1>3. NoHandle \in Handles
  BY WindowManagerAssumption DEF NoHandle, Handles
<1>4. view \in [Views -> ViewStates] /\ \A v \in Views : view[v].running = FALSE
  BY <1>1, <1>3 DEF ViewStates
<1>5. ControlTypes
  <2>1. 0 \in 0 .. LineLimit /\ 0 <= QueueCapacity
    BY DesktopAssumption
  <2>2. shell \in Shells /\ active \in BOOLEAN
    BY <1>1, <2>1 DEF Shells
  <2>3. drawn \in [Owners -> 0 .. 1] /\ sessions \in [Viewers -> 0 .. 1]
    BY <1>1
  <2>4. queue \in Seq(Reported) /\ Len(queue) <= QueueCapacity
    BY <1>1, <2>1
  <2>5. QED
    BY <1>1, <1>2, <1>4, <2>2, <2>3, <2>4 DEF ControlTypes, At
<1>6. \A v \in Views : ~view[v].running
  BY <1>4, Zenon
<1>7. ChannelsReturned
  BY <1>1, <1>2, <1>6, ViewNames DEF ChannelsReturned, AtCreate, At
<1>8. ~wm.pointer.visible /\ Sound(wm)
  BY <1>1, FreshFacts
<1>9. CommandLineRecovers
  BY <1>1, <1>2, <1>6, <1>8, ViewNames DEF CommandLineRecovers, At
<1>10. ScreenInv
  BY <1>2, <1>8 DEF ScreenInv, RunningViewHasWindow
<1>11. QED
  BY <1>5, <1>7, <1>9, <1>10 DEF DesktopInv, ControlInv

-----------------------------------------------------------------------------
(* Where control is and what it holds.                                     *)

LEMMA GotoFacts ==
    ASSUME NEW pc \in Pcs, Goto(pc)
    PROVE  step' \in Steps /\ step'.pc = pc
BY FrameFacts DEF Goto

LEMMA ShellFields ==
    ASSUME NEW s \in Shells
    PROVE  /\ s.gui_running \in BOOLEAN /\ s.cui_usable \in BOOLEAN /\ s.line \in 0 .. LineLimit
           /\ \A b \in BOOLEAN : /\ [s EXCEPT !.gui_running = b] \in Shells
                                 /\ [s EXCEPT !.gui_running = b].gui_running = b
           /\ \A k \in 0 .. LineLimit : /\ [s EXCEPT !.line = k] \in Shells
                                        /\ [s EXCEPT !.line = k].gui_running = s.gui_running
BY DEF Shells

LEMMA ViewFields ==
    ASSUME ControlInv, NEW v \in Views
    PROVE  /\ view[v] \in ViewStates /\ view[v].running \in BOOLEAN /\ view[v].ready \in BOOLEAN
           /\ view[v].handle \in Handles
<1>1. view[v] \in ViewStates
  BY DEF ControlInv, ControlTypes
<1>2. QED
  BY <1>1 DEF ViewStates

(* A step that starts and stops nothing.                                    *)
LEMMA QuietControl ==
    ASSUME ControlInv, UNCHANGED <<active, view, sessions>>,
           shell' \in Shells, shell'.gui_running = shell.gui_running,
           drawn' \in [Owners -> 0 .. 1], focus' \in Views \cup {"none"},
           focus' # focus => focus' \in Views /\ view[focus'].running /\ shell.gui_running,
           ~shell.gui_running => ~wm'.pointer.visible,
           queue' \in Seq(Reported), Len(queue') <= QueueCapacity,
           step' \in Steps, step'.pc = "handle" => step'.event \in Reported,
           step.pc # "create", step'.pc # "create",
           shell.gui_running /\ step'.pc \in {"doc", "txt", "repaint"} => view["explorer"].running
    PROVE  ControlInv'
<1>1. ControlTypes'
  BY DEF ControlInv, ControlTypes, At, Event
<1>2. ChannelsReturned'
  BY DEF ControlInv, ChannelsReturned, AtCreate, At
<1>3. CommandLineRecovers'
  BY Zenon DEF ControlInv, CommandLineRecovers, At
<1>4. QED
  BY <1>1, <1>2, <1>3 DEF ControlInv

(* The desktop starts: from the command line or the test channel.           *)
LEMMA StartControl ==
    ASSUME ControlInv, UNCHANGED <<drawn, view, focus, sessions>>,
           active', shell' \in Shells, shell'.gui_running, ~shell.gui_running,
           active' \in BOOLEAN,
           queue' \in Seq(Reported), Len(queue') <= QueueCapacity,
           step' \in Steps, step'.pc \in {"poll", "pop"}, step.pc \in {"poll", "handle"}
    PROVE  ControlInv'
<1>1. ControlTypes'
  BY DEF ControlInv, ControlTypes, At, Event
<1>2. ChannelsReturned'
  BY DEF ControlInv, ChannelsReturned, AtCreate, At
<1>3. CommandLineRecovers'
  BY DEF ControlInv, CommandLineRecovers, At
<1>4. QED
  BY <1>1, <1>2, <1>3 DEF ControlInv

(* The views and the desktop stop, when it runs or in every step without    *)
(* it: what the viewers held is given back.                                 *)
LEMMA StoppedFacts ==
    ASSUME ControlInv, step.pc # "create", StopViews
    PROVE  /\ view' \in [Views -> ViewStates] /\ \A v \in Views : ~view'[v].running
           /\ sessions' = [v \in Viewers |-> 0] /\ focus' = "none"
<1>1. ASSUME NEW v \in Views
      PROVE  view'[v] \in ViewStates /\ ~view'[v].running
  <2>1. view[v] \in ViewStates
    BY ViewFields
  <2>2. view'[v] = [view[v] EXCEPT !.running = FALSE]
    BY DEF StopViews, Stopped
  <2>3. QED
    BY <2>1, <2>2 DEF ViewStates
<1>2. ASSUME NEW v \in Viewers PROVE sessions'[v] = 0
  <2>1. sessions[v] = IF view[v].running THEN 1 ELSE 0
    BY DEF ControlInv, ChannelsReturned, AtCreate, At
  <2>2. sessions'[v] = IF view[v].running THEN sessions[v] - 1 ELSE sessions[v]
    BY DEF StopViews, Disconnected
  <2>3. CASE view[v].running
    BY <2>1, <2>2, <2>3
  <2>4. CASE ~view[v].running
    BY <2>1, <2>2, <2>4
  <2>5. QED
    BY <2>3, <2>4
<1>3. sessions' = [v \in Viewers |-> 0]
  <2>1. sessions' = [v \in Viewers |-> sessions'[v]]
    BY DEF StopViews, Disconnected
  <2>2. QED
    BY <1>2, <2>1
<1>4. view' \in [Views -> ViewStates]
  <2>1. view' = [v \in Views |-> view'[v]]
    BY DEF StopViews, Stopped
  <2>2. QED
    BY <1>1, <2>1
<1>5. QED
  BY <1>1, <1>3, <1>4 DEF StopViews

LEMMA StoppedControl ==
    ASSUME ControlInv, step.pc # "create", StopViews, UNCHANGED <<drawn, queue>>,
           shell' \in Shells, ~shell'.gui_running, active' = FALSE, ~wm'.pointer.visible,
           step' \in Steps, step'.pc # "create", step'.pc # "handle"
    PROVE  ControlInv'
<1>1. /\ view' \in [Views -> ViewStates] /\ \A v \in Views : ~view'[v].running
      /\ sessions' = [v \in Viewers |-> 0] /\ focus' = "none"
  BY StoppedFacts
<1>2. sessions' \in [Viewers -> 0 .. 1]
  BY <1>1
<1>3. ControlTypes'
  BY <1>1, <1>2 DEF ControlInv, ControlTypes, At
<1>4. ChannelsReturned'
  BY <1>1, ViewNames DEF ChannelsReturned, AtCreate, At
<1>5. CommandLineRecovers'
  BY <1>1, ViewNames DEF CommandLineRecovers, At
<1>6. QED
  BY <1>3, <1>4, <1>5 DEF ControlInv

LEMMA OpenControl ==
    ASSUME ControlInv, OpenView
    PROVE  ControlInv'
<1>1. PICK v \in Views :
        /\ step.pc = v /\ Needed(v) /\ view[v].ready
        /\ step' = [Frame("create") EXCEPT !.view = v]
        /\ drawn' = [drawn EXCEPT ![v] = 0]
        /\ sessions' = [w \in Viewers |-> IF w = v THEN sessions[w] + 1 ELSE sessions[w]]
  BY DEF OpenView, At
<1>2. UNCHANGED <<config, shell, active, wm, framebuffer, view, focus, queue>>
  BY DEF OpenView
<1>3. shell.gui_running /\ ~view[v].running
  BY <1>1 DEF Needed
<1>4. step.pc # "create" /\ v \in {"explorer", "doc", "txt"}
  BY <1>1, ViewNames
<1>5. step' \in Steps /\ step'.pc = "create" /\ step'.view = v
  <2>1. Frame("create") \in Steps /\ Frame("create").pc = "create"
    BY FrameFacts DEF Pcs
  <2>2. QED
    BY <1>1, <2>1 DEF Steps
<1>6. drawn' \in [Owners -> 0 .. 1]
  BY <1>1, ViewNames DEF ControlInv, ControlTypes
<1>7. ASSUME NEW w \in Viewers
      PROVE  sessions'[w] \in 0 .. 1 /\ sessions'[w] = IF view[w].running \/ w = v THEN 1 ELSE 0
  <2>1. sessions[w] = IF view[w].running THEN 1 ELSE 0
    BY <1>4 DEF ControlInv, ChannelsReturned, AtCreate, At
  <2>2. CASE w = v
    <3>1. sessions[w] = 0
      BY <1>3, <2>1, <2>2
    <3>2. sessions'[w] = sessions[w] + 1
      BY <1>1, <2>2
    <3>3. QED
      BY <2>2, <3>1, <3>2
  <2>3. CASE w # v
    <3>1. sessions'[w] = sessions[w]
      BY <1>1, <2>3
    <3>2. QED
      BY <2>1, <2>3, <3>1
  <2>4. QED
    BY <2>2, <2>3
<1>8. sessions' \in [Viewers -> 0 .. 1]
  <2>1. sessions' = [w \in Viewers |-> sessions'[w]]
    BY <1>1
  <2>2. QED
    BY <1>7, <2>1
<1>9. ControlTypes'
  BY <1>2, <1>5, <1>6, <1>8 DEF ControlInv, ControlTypes, At
<1>10. ChannelsReturned'
  BY <1>2, <1>5, <1>7 DEF ChannelsReturned, AtCreate, At
<1>11. v # "explorer" => view["explorer"].running
  BY <1>1, <1>3, <1>4 DEF ControlInv, CommandLineRecovers
<1>12. CommandLineRecovers'
  BY <1>2, <1>3, <1>5, <1>11 DEF ControlInv, CommandLineRecovers, At
<1>13. QED
  BY <1>9, <1>10, <1>12 DEF ControlInv

LEMMA AfterFacts ==
    ASSUME NEW v \in Views
    PROVE  After(v) \in {"doc", "txt", "repaint"} /\ After(v) \in Pcs
BY DEF After, Pcs, Phases

(* The state of the view that was created.                                  *)
LEMMA CreatedView ==
    ASSUME ControlInv, NEW v \in Views, NEW h \in Handles,
           view' = [view EXCEPT ![v].running = TRUE, ![v].handle = h]
    PROVE  /\ view' \in [Views -> ViewStates] /\ view'[v].running /\ view'[v].handle = h
           /\ \A w \in Views : w # v => view'[w] = view[w]
<1>1. view \in [Views -> ViewStates] /\ view[v] \in ViewStates
  BY ViewFields DEF ControlInv, ControlTypes
<1>2. PICK q : q = [view[v] EXCEPT !.running = TRUE, !.handle = h]
  OBVIOUS
<1>3. q \in ViewStates /\ q.running /\ q.handle = h
  BY <1>1, <1>2 DEF ViewStates
<1>4. view' = [view EXCEPT ![v] = q]
  BY <1>1, <1>2
<1>5. QED
  BY <1>1, <1>3, <1>4

LEMMA CreateControl ==
    ASSUME ControlInv, wm \in Mgrs, CreateView, wm'.pointer = wm.pointer
    PROVE  ControlInv'
<1>1. PICK v \in Views :
        /\ AtCreate(v) /\ HasRoom(wm)
        /\ view' = [view EXCEPT ![v].running = TRUE, ![v].handle = NewHandle(wm)]
        /\ focus' = v /\ Goto(After(v))
  BY DEF CreateView
<1>2. UNCHANGED <<config, shell, active, drawn, framebuffer, sessions, queue>>
  BY DEF CreateView
<1>3. step.pc = "create" /\ step.view = v
  BY <1>1 DEF AtCreate, At
<1>4. shell.gui_running /\ (v # "explorer" => view["explorer"].running) /\ ~view[v].running
  BY <1>3 DEF ControlInv, CommandLineRecovers, At
<1>5. /\ view' \in [Views -> ViewStates] /\ view'[v].running
      /\ \A w \in Views : w # v => view'[w] = view[w]
  <2>1. NewHandle(wm) \in Handles
    BY <1>1, NewSlotFacts
  <2>2. QED
    BY <1>1, <2>1, CreatedView
<1>6. step' \in Steps /\ step'.pc \in {"doc", "txt", "repaint"}
  BY <1>1, AfterFacts, GotoFacts
<1>7. ControlTypes'
  BY <1>1, <1>2, <1>5, <1>6 DEF ControlInv, ControlTypes, At
<1>8. ASSUME NEW w \in Viewers
      PROVE  sessions'[w] = IF view'[w].running THEN 1 ELSE 0
  <2>1. sessions[w] = IF view[w].running \/ w = v THEN 1 ELSE 0
    BY <1>3 DEF ControlInv, ChannelsReturned, AtCreate, At
  <2>2. w \in Views
    BY ViewNames
  <2>3. CASE w = v
    BY <1>2, <1>5, <2>1, <2>3
  <2>4. CASE w # v
    <3>1. view'[w] = view[w]
      BY <1>5, <2>2, <2>4
    <3>2. QED
      BY <1>2, <2>1, <2>4, <3>1
  <2>5. QED
    BY <2>3, <2>4
<1>9. ChannelsReturned'
  BY <1>6, <1>8 DEF ChannelsReturned, AtCreate, At
<1>10. view'["explorer"].running
  <2>1. CASE v = "explorer"
    BY <1>5, <2>1
  <2>2. CASE v # "explorer"
    BY <1>4, <1>5, <2>2, ViewNames
  <2>3. QED
    BY <2>1, <2>2
<1>11. active' <=> shell'.gui_running
  BY <1>2 DEF ControlInv, CommandLineRecovers
<1>12. CommandLineRecovers'
  BY <1>1, <1>2, <1>4, <1>5, <1>6, <1>10, <1>11 DEF CommandLineRecovers, At
<1>13. QED
  BY <1>7, <1>9, <1>12 DEF ControlInv

LEMMA ViewerFailsControl ==
    ASSUME ControlInv, ViewerFails
    PROVE  ControlInv'
<1>1. PICK v \in Viewers :
        /\ AtCreate(v)
        /\ view' = [view EXCEPT ![v].ready = FALSE]
        /\ sessions' = [sessions EXCEPT ![v] = sessions[v] - 1]
        /\ Goto(After(v))
  BY DEF ViewerFails
<1>2. UNCHANGED <<config, shell, active, wm, drawn, framebuffer, focus, queue>>
  BY DEF ViewerFails
<1>3. step.pc = "create" /\ step.view = v /\ v \in Views /\ v # "explorer"
  BY <1>1, ViewNames DEF AtCreate, At
<1>4. shell.gui_running /\ view["explorer"].running /\ ~view[v].running
  BY <1>3 DEF ControlInv, CommandLineRecovers, At
<1>5. /\ view' \in [Views -> ViewStates]
      /\ \A w \in Views : view'[w].running <=> view[w].running
  <2>1. view \in [Views -> ViewStates] /\ view[v] \in ViewStates
    BY <1>3, ViewFields DEF ControlInv, ControlTypes
  <2>2. PICK q : q = [view[v] EXCEPT !.ready = FALSE]
    OBVIOUS
  <2>3. q \in ViewStates /\ (q.running <=> view[v].running)
    BY <2>1, <2>2 DEF ViewStates
  <2>4. view' = [view EXCEPT ![v] = q]
    BY <1>1, <2>2
  <2>5. QED
    BY <2>1, <2>3, <2>4
<1>6. step' \in Steps /\ step'.pc \in {"doc", "txt", "repaint"}
  BY <1>1, <1>3, AfterFacts, GotoFacts
<1>7. ASSUME NEW w \in Viewers
      PROVE  sessions'[w] \in 0 .. 1 /\ sessions'[w] = IF view'[w].running THEN 1 ELSE 0
  <2>1. sessions[w] = IF view[w].running \/ w = v THEN 1 ELSE 0
    BY <1>3 DEF ControlInv, ChannelsReturned, AtCreate, At
  <2>2. w \in Views /\ sessions \in [Viewers -> 0 .. 1]
    BY ViewNames DEF ControlInv, ControlTypes
  <2>3. CASE w = v
    <3>1. sessions'[w] = 0
      BY <1>1, <2>1, <2>2, <2>3
    <3>2. ~view'[w].running
      BY <1>4, <1>5, <2>2, <2>3
    <3>3. QED
      BY <3>1, <3>2
  <2>4. CASE w # v
    <3>1. sessions'[w] = sessions[w]
      BY <1>1, <2>2, <2>4
    <3>2. CASE view[w].running
      BY <1>5, <2>1, <2>2, <3>1, <3>2
    <3>3. CASE ~view[w].running
      BY <1>5, <2>1, <2>2, <2>4, <3>1, <3>3
    <3>4. QED
      BY <3>2, <3>3
  <2>5. QED
    BY <2>3, <2>4
<1>8. sessions' \in [Viewers -> 0 .. 1]
  <2>1. sessions' = [w \in Viewers |-> sessions'[w]]
    BY <1>1 DEF ControlInv, ControlTypes
  <2>2. QED
    BY <1>7, <2>1
<1>9. ControlTypes'
  BY <1>2, <1>5, <1>6, <1>8 DEF ControlInv, ControlTypes, At
<1>10. ChannelsReturned'
  BY <1>6, <1>7 DEF ChannelsReturned, AtCreate, At
<1>11. active' <=> shell'.gui_running
  BY <1>2 DEF ControlInv, CommandLineRecovers
<1>12. CommandLineRecovers'
  <2>1. focus' # "none" => view'[focus'].running
    BY <1>2, <1>5 DEF ControlInv, ControlTypes, CommandLineRecovers
  <2>2. view'["explorer"].running
    BY <1>4, <1>5, ViewNames
  <2>3. QED
    BY <1>2, <1>4, <1>6, <1>11, <2>1, <2>2 DEF CommandLineRecovers, At
<1>13. QED
  BY <1>9, <1>10, <1>12 DEF ControlInv

-----------------------------------------------------------------------------
(* What is on the screen.                                                  *)

(* Without a desktop the screen is the command line's.                      *)
LEMMA NoDesktopScreen ==
    ASSUME Sound(wm'), ~shell'.gui_running
    PROVE  ScreenInv'
BY DEF ScreenInv, RunningViewHasWindow

LEMMA KeptScreen ==
    ASSUME ScreenInv, UNCHANGED <<wm, drawn, framebuffer, view>>,
           shell'.gui_running = shell.gui_running
    PROVE  ScreenInv'
BY DEF ScreenInv, RunningViewHasWindow

(* On the running desktop the windows of the views are where they were.     *)
LEMMA HeldScreen ==
    ASSUME ControlInv, ScreenInv, shell.gui_running, view' = view,
           Sound(wm'), SameHolders(wm, wm'), Current(wm', drawn', framebuffer')
    PROVE  ScreenInv'
<1>1. ASSUME NEW v \in Views, view'[v].running
      PROVE  IsWindow(wm', view'[v].handle) /\ wm'.windows[view'[v].handle.slot].owner = v
  <2>1. IsWindow(wm, view[v].handle) /\ wm.windows[view[v].handle.slot].owner = v
    BY <1>1 DEF ScreenInv, RunningViewHasWindow
  <2>2. view[v].handle.slot \in Windows
    BY <2>1 DEF IsWindow
  <2>3. QED
    BY <2>1, <2>2, Zenon DEF IsWindow, SameHolders
<1>2. /\ wm'.windows[CloseButton.slot].allocated
      /\ wm'.windows[CloseButton.slot].owner = "close"
  BY CloseSlot, Zenon DEF ScreenInv, RunningViewHasWindow, SameHolders
<1>3. ASSUME NEW s \in Allocated(wm'.windows) \ {CloseButton.slot}
      PROVE  \E v \in Views : view'[v].running /\ view'[v].handle.slot = s
  BY <1>3 DEF ScreenInv, RunningViewHasWindow, SameHolders
<1>4. CloseButton' = CloseButton
  BY DEF CloseButton
<1>5. RunningViewHasWindow'
  BY <1>1, <1>2, <1>3, <1>4, Zenon DEF RunningViewHasWindow
<1>6. QED
  BY <1>5 DEF ScreenInv

LEMMA SameHoldersRefl ==
    ASSUME NEW m, NEW n, n.windows = m.windows
    PROVE  SameHolders(m, n)
BY DEF SameHolders

(* A window whose owner is a view is the window of that view.               *)
LEMMA OwnerSlot ==
    ASSUME ScreenInv, shell.gui_running, NEW m, SameHolders(wm, m),
           NEW s \in Windows, m.windows[s].allocated, m.windows[s].owner \in Views
    PROVE  /\ view[m.windows[s].owner].running
           /\ s = view[m.windows[s].owner].handle.slot
<1>1. wm.windows[s].allocated /\ wm.windows[s].owner = m.windows[s].owner
  BY DEF SameHolders
<1>2. s \in Allocated(wm.windows)
  BY <1>1, AllocatedMember, Zenon
<1>3. s # CloseButton.slot
  BY <1>1, ViewNames DEF ScreenInv, RunningViewHasWindow
<1>4. PICK v \in Views : view[v].running /\ view[v].handle.slot = s
  BY <1>2, <1>3 DEF ScreenInv, RunningViewHasWindow
<1>5. wm.windows[s].owner = v
  BY <1>4 DEF ScreenInv, RunningViewHasWindow
<1>6. QED
  BY <1>1, <1>4, <1>5

(* Drawing for a view that has no window, or whose window is dirty.         *)
LEMMA DrawnScreen ==
    ASSUME ControlInv, ScreenInv, shell.gui_running, NEW m, Sound(m), SameHolders(wm, m),
           NEW v \in Views, NEW new, Current(m, drawn, framebuffer),
           \/ ~view[v].running \/ new = drawn[v]
           \/ LET h == view[v].handle
              IN  m.windows[h.slot].visible =>
                     \A c \in Cells : Inside(c, m.windows[h.slot].bounds) => Inside(c, m.dirty)
    PROVE  Current(m, [drawn EXCEPT ![v] = new], framebuffer)
<1> DEFINE e == [drawn EXCEPT ![v] = new]
<1>1. drawn \in [Owners -> 0 .. 1] /\ v \in Owners
  BY ViewNames DEF ControlInv, ControlTypes
<1>2. ASSUME NEW s \in Windows, NEW c \in Cells,
             m.windows[s].allocated, m.windows[s].visible,
             drawn[m.windows[s].owner] # e[m.windows[s].owner],
             Inside(c, m.windows[s].bounds)
      PROVE  Inside(c, m.dirty)
  <2>1. m.windows[s].owner = v
    <3>1. PICK o : o = m.windows[s].owner
      OBVIOUS
    <3>2. o \in Owners \cup {"none"}
      BY <3>1, SlotFields DEF Sound
    <3>3. o \in Owners
      <4>1. wm.windows[s].allocated /\ wm.windows[s].owner = o
        BY <1>2, <3>1 DEF SameHolders
      <4>2. s \in Allocated(wm.windows)
        BY <4>1, AllocatedMember, Zenon
      <4>3. CASE s = CloseButton.slot
        BY <4>1, <4>3, ViewNames DEF ScreenInv, RunningViewHasWindow
      <4>4. CASE s # CloseButton.slot
        <5>1. PICK u \in Views : view[u].running /\ view[u].handle.slot = s
          BY <4>2, <4>4 DEF ScreenInv, RunningViewHasWindow
        <5>2. wm.windows[s].owner = u
          BY <5>1 DEF ScreenInv, RunningViewHasWindow
        <5>3. QED
          BY <4>1, <5>1, <5>2, ViewNames
      <4>5. QED
        BY <4>3, <4>4
    <3>4. drawn[o] # e[o]
      BY <1>2, <3>1
    <3>5. QED
      BY <1>1, <3>1, <3>3, <3>4
  <2>2. view[v].running /\ s = view[v].handle.slot
    BY <1>2, <2>1, OwnerSlot
  <2>3. new # drawn[v]
    BY <1>1, <1>2, <2>1
  <2>4. QED
    BY <1>2, <2>2, <2>3
<1> HIDE DEF e
<1>3. Current(m, e, framebuffer)
  <2>1. \A s \in Windows, c \in Cells :
          /\ m.windows[s].allocated /\ m.windows[s].visible
          /\ drawn[m.windows[s].owner] # e[m.windows[s].owner]
          /\ Inside(c, m.windows[s].bounds)
          => Inside(c, m.dirty)
    BY <1>2, Zenon
  <2>2. QED
    BY <2>1, DrawingKeepsCurrent
<1>4. QED
  BY <1>3 DEF e

-----------------------------------------------------------------------------
(* Every step, action by action.                                           *)

LEMMA ControlFacts ==
    ASSUME ControlInv
    PROVE  /\ shell \in Shells /\ shell.gui_running \in BOOLEAN /\ active \in BOOLEAN
           /\ (active <=> shell.gui_running)
           /\ drawn \in [Owners -> 0 .. 1] /\ focus \in Views \cup {"none"}
           /\ queue \in Seq(Reported) /\ Len(queue) <= QueueCapacity /\ step \in Steps
           /\ ~shell.gui_running =>
                 ~wm.pointer.visible /\ focus = "none" /\ \A v \in Views : ~view[v].running
<1>1. shell.gui_running \in BOOLEAN
  BY ShellFields DEF ControlInv, ControlTypes
<1>2. QED
  BY <1>1 DEF ControlInv, ControlTypes, CommandLineRecovers

LEMMA IdleStep ==
    ASSUME DesktopInv, runtime_idle
    PROVE  DesktopInv'
<1>1. step.pc = "idle" /\ step' \in Steps /\ step'.pc = "poll"
  BY GotoFacts DEF runtime_idle, Running, Pcs
<1>2. ControlInv'
  BY <1>1, ControlFacts, QuietControl DEF runtime_idle, DesktopInv
<1>3. ScreenInv'
  BY KeptScreen DEF runtime_idle, DesktopInv
<1>4. QED
  BY <1>2, <1>3 DEF DesktopInv

LEMMA PollEventStep ==
    ASSUME DesktopInv, PollEvent
    PROVE  DesktopInv'
<1>1. /\ step.pc = "poll"
      /\ UNCHANGED <<config, shell, active, wm, drawn, framebuffer, view, focus, sessions, step>>
  BY DEF PollEvent, At
<1>2. PICK e \in Events : queue' = Pushed(<<e>>)
  BY DEF PollEvent
<1>3. <<e>> \in Seq(Reported)
  BY DEF Reported
<1>4. queue' \in Seq(Reported) /\ Len(queue') <= QueueCapacity
  BY <1>2, <1>3, ControlFacts, PushedFacts DEF DesktopInv
<1>5. ControlInv'
  BY <1>1, <1>4, ControlFacts, QuietControl DEF DesktopInv
<1>6. ScreenInv'
  BY <1>1, KeptScreen DEF DesktopInv
<1>7. QED
  BY <1>5, <1>6 DEF DesktopInv

LEMMA PollEndsStep ==
    ASSUME DesktopInv, PollEnds
    PROVE  DesktopInv'
<1>1. step.pc = "poll" /\ step' \in Steps /\ step'.pc = "pop"
  BY GotoFacts DEF PollEnds, At, Pcs
<1>2. ControlInv'
  BY <1>1, ControlFacts, QuietControl DEF PollEnds, DesktopInv
<1>3. ScreenInv'
  BY KeptScreen DEF PollEnds, DesktopInv
<1>4. QED
  BY <1>2, <1>3 DEF DesktopInv

LEMMA PopStep ==
    ASSUME DesktopInv, input_queue_pop
    PROVE  DesktopInv'
<1>1. /\ step.pc = "pop"
      /\ UNCHANGED <<config, shell, active, wm, drawn, framebuffer, view, focus, sessions>>
  BY DEF input_queue_pop, At
<1>2. queue \in Seq(Reported) /\ Len(queue) <= QueueCapacity /\ QueueCapacity \in Nat
  BY ControlFacts, DesktopAssumption DEF DesktopInv
<1>3. /\ queue' \in Seq(Reported) /\ Len(queue') <= QueueCapacity
      /\ step' \in Steps /\ step'.pc \in {"handle", "cleanup"}
      /\ step'.pc = "handle" => step'.event \in Reported
  <2>1. CASE /\ queue # <<>> /\ queue' = Tail(queue)
             /\ step' = [Frame("handle") EXCEPT !.event = Head(queue)]
    <3>1. Head(queue) \in Reported /\ Tail(queue) \in Seq(Reported) /\ Len(Tail(queue)) <= QueueCapacity
      BY <1>2, <2>1
    <3>2. Frame("handle") \in Steps /\ Frame("handle").pc = "handle"
      BY FrameFacts DEF Pcs
    <3>3. step' \in Steps /\ step'.pc = "handle" /\ step'.event = Head(queue)
      BY <2>1, <3>1, <3>2 DEF Steps
    <3>4. QED
      BY <2>1, <3>1, <3>3
  <2>2. CASE queue = <<>> /\ Goto("cleanup") /\ UNCHANGED queue
    BY <1>2, <2>2, GotoFacts DEF Pcs
  <2>3. QED
    BY <2>1, <2>2 DEF input_queue_pop
<1>4. ControlInv'
  BY <1>1, <1>3, ControlFacts, QuietControl DEF DesktopInv
<1>5. ScreenInv'
  BY <1>1, KeptScreen DEF DesktopInv
<1>6. QED
  BY <1>4, <1>5 DEF DesktopInv

LEMMA SkipStep ==
    ASSUME DesktopInv, SkipView
    PROVE  DesktopInv'
<1>1. PICK v \in Phases : step.pc = v /\ ~(v \in Views /\ Needed(v)) /\ Goto(After(v))
  BY DEF SkipView, At
<1>2. UNCHANGED <<config, shell, active, wm, drawn, framebuffer, view, focus, sessions, queue>>
  BY DEF SkipView
<1>3. v \in {"explorer", "doc", "txt"} /\ step.pc # "create"
  BY <1>1 DEF Phases
<1>4. After(v) \in {"doc", "txt", "repaint"} /\ After(v) \in Pcs
  BY <1>3 DEF After, Pcs, Phases
<1>5. step' \in Steps /\ step'.pc \in {"doc", "txt", "repaint"}
  BY <1>1, <1>4, GotoFacts
<1>6. shell.gui_running => view["explorer"].running
  <2>1. CASE v = "explorer"
    BY <1>1, <2>1, ViewNames DEF Needed
  <2>2. CASE v # "explorer"
    BY <1>1, <1>3, <2>2 DEF DesktopInv, ControlInv, CommandLineRecovers
  <2>3. QED
    BY <2>1, <2>2
<1>7. ControlInv'
  BY <1>2, <1>3, <1>5, <1>6, ControlFacts, QuietControl DEF DesktopInv
<1>8. ScreenInv'
  BY <1>2, KeptScreen DEF DesktopInv
<1>9. QED
  BY <1>7, <1>8 DEF DesktopInv

(* What StartSucceeds puts on the screen.                                   *)
LEMMA StartScreen ==
    ASSUME DesktopInv, StartSucceeds, shell'.gui_running, UNCHANGED <<drawn, view>>
    PROVE  ~shell.gui_running /\ active' /\ active' \in BOOLEAN /\ ScreenInv'
<1>1. ~shell.gui_running /\ active' = TRUE
  BY DEF StartSucceeds, CanStart
<1>2. /\ framebuffer' = ios_window_compose(StartedManager, drawn, framebuffer)
      /\ wm' = Clean(StartedManager)
  BY DEF StartSucceeds, Compose, StartedManager
<1>3. Sound(StartedManager) /\ Current(StartedManager, drawn, framebuffer)
  BY StartedFacts DEF Current
<1>4. /\ Sound(wm') /\ wm'.windows = StartedManager.windows
      /\ Current(wm', drawn, framebuffer')
  BY <1>2, <1>3, ComposedScreen
<1>5. \A v \in Views : ~view'[v].running
  BY <1>1, ControlFacts DEF DesktopInv
<1>6. /\ Allocated(wm'.windows) = {CloseButton.slot} /\ wm'.windows[CloseButton.slot].allocated
      /\ wm'.windows[CloseButton.slot].owner = "close" /\ CloseButton' = CloseButton
  BY <1>4, StartedFacts DEF CloseButton
<1>7. RunningViewHasWindow'
  BY <1>5, <1>6 DEF RunningViewHasWindow
<1>8. QED
  BY <1>1, <1>4, <1>7 DEF ScreenInv

LEMMA TestStartStep ==
    ASSUME DesktopInv, test_action_start_gui
    PROVE  DesktopInv'
<1>1. /\ step.pc = "poll" /\ StartSucceeds /\ shell' = [shell EXCEPT !.gui_running = TRUE]
      /\ queue' = Pushed(Injected)
      /\ UNCHANGED <<config, drawn, view, focus, sessions, step>>
  BY DEF test_action_start_gui, At
<1>2. shell' \in Shells /\ shell'.gui_running
  <2>1. shell \in Shells
    BY ControlFacts DEF DesktopInv
  <2>2. QED
    BY <1>1, <2>1 DEF Shells
<1>3. ~shell.gui_running /\ active' /\ active' \in BOOLEAN /\ ScreenInv'
  BY <1>1, <1>2, StartScreen
<1>4. queue' \in Seq(Reported) /\ Len(queue') <= QueueCapacity
  BY <1>1, ControlFacts, PushedFacts, InjectedType DEF DesktopInv
<1>5. ControlInv'
  BY <1>1, <1>2, <1>3, <1>4, ControlFacts, StartControl DEF DesktopInv
<1>6. QED
  BY <1>3, <1>5 DEF DesktopInv

LEMMA TestRecoveryStep ==
    ASSUME DesktopInv, test_action_gui_recovery
    PROVE  DesktopInv'
<1>1. /\ step.pc = "poll" /\ ~shell.gui_running
      /\ wm' = Clean(ios_window_set_pointer(ios_window_destroy(StartedManager, CloseButton), 0, 0, FALSE))
      /\ active' = FALSE
      /\ view' = [view EXCEPT !["explorer"].running = FALSE]
      /\ UNCHANGED <<config, shell, drawn, focus, sessions, queue, step>>
  BY DEF test_action_gui_recovery, At, CanStart, StartedManager
<1>2. Sound(wm') /\ ~wm'.pointer.visible
  BY <1>1, StartedFacts, StopFacts
<1>3. ~view["explorer"].running /\ view["explorer"] \in ViewStates /\ view \in [Views -> ViewStates]
  BY <1>1, ControlFacts, ViewFields, ViewNames DEF DesktopInv, ControlInv, ControlTypes
<1>4. view' = view
  <2>1. PICK q : q = [view["explorer"] EXCEPT !.running = FALSE]
    OBVIOUS
  <2>2. q = view["explorer"]
    <3>1. view["explorer"].running = FALSE
      BY <1>3 DEF ViewStates
    <3>2. QED
      BY <1>3, <2>1, <3>1 DEF ViewStates
  <2>3. view' = [view EXCEPT !["explorer"] = q]
    BY <1>1, <2>1
  <2>4. QED
    BY <1>3, <2>2, <2>3
<1>5. active' = active
  BY <1>1, ControlFacts DEF DesktopInv
<1>6. ControlInv'
  BY <1>1, <1>2, <1>4, <1>5, ControlFacts, QuietControl DEF DesktopInv
<1>7. ScreenInv'
  BY <1>1, <1>2, NoDesktopScreen
<1>8. QED
  BY <1>6, <1>7 DEF DesktopInv

(* On the running desktop the close button can be destroyed.                *)
LEMMA CloseAllocated ==
    ASSUME ScreenInv, shell.gui_running
    PROVE  Sound(wm) /\ CloseButton.slot \in Allocated(wm.windows)
BY CloseSlot, AllocatedMember, Zenon DEF ScreenInv, RunningViewHasWindow

LEMMA CloseStep ==
    ASSUME DesktopInv, CloseDesktop
    PROVE  DesktopInv'
<1>1. /\ step.pc = "handle" /\ shell.gui_running /\ Goto("pop") /\ UNCHANGED <<config, drawn, queue>>
      /\ StopViews /\ active' = FALSE
      /\ shell' = [shell EXCEPT !.gui_running = FALSE, !.cui_usable = TRUE]
      /\ IF active THEN \E m \in ios_desktop_stop : wm' = Clean(m) ELSE UNCHANGED wm
  BY DEF CloseDesktop, return_from_gui_to_cui, At
<1>2. active /\ shell \in Shells
  BY <1>1, ControlFacts DEF DesktopInv
<1>3. wm' = Clean(ios_window_set_pointer(ios_window_destroy(wm, CloseButton), 0, 0, FALSE))
  BY <1>1, <1>2 DEF ios_desktop_stop
<1>4. Sound(wm') /\ ~wm'.pointer.visible
  BY <1>1, <1>3, CloseAllocated, StopFacts DEF DesktopInv
<1>5. shell' \in Shells /\ ~shell'.gui_running
  BY <1>1, <1>2 DEF Shells
<1>6. step' \in Steps /\ step'.pc = "pop"
  BY <1>1, GotoFacts DEF Pcs
<1>7. ControlInv'
  BY <1>1, <1>4, <1>5, <1>6, StoppedControl DEF DesktopInv
<1>8. ScreenInv'
  BY <1>4, <1>5, NoDesktopScreen
<1>9. QED
  BY <1>7, <1>8 DEF DesktopInv

LEMMA CleanupStep ==
    ASSUME DesktopInv, Cleanup
    PROVE  DesktopInv'
<1>1. /\ step.pc = "cleanup" /\ Goto("explorer")
      /\ IF shell.gui_running THEN UNCHANGED <<view, sessions, focus>> ELSE StopViews
      /\ UNCHANGED <<config, shell, active, wm, drawn, framebuffer, queue>>
  BY DEF Cleanup, At
<1>2. step' \in Steps /\ step'.pc = "explorer"
  BY <1>1, GotoFacts DEF Pcs, Phases
<1>3. CASE shell.gui_running
  <2>1. UNCHANGED <<view, sessions, focus>>
    BY <1>1, <1>3
  <2>2. ControlInv'
    BY <1>1, <1>2, <2>1, ControlFacts, QuietControl DEF DesktopInv
  <2>3. ScreenInv'
    BY <1>1, <2>1, KeptScreen DEF DesktopInv
  <2>4. QED
    BY <2>2, <2>3 DEF DesktopInv
<1>4. CASE ~shell.gui_running
  <2>1. StopViews /\ active = FALSE /\ ~wm.pointer.visible /\ shell \in Shells
    BY <1>1, <1>4, ControlFacts DEF DesktopInv
  <2>2. ControlInv'
    BY <1>1, <1>2, <1>4, <2>1, StoppedControl DEF DesktopInv
  <2>3. ScreenInv'
    BY <1>1, <1>4, NoDesktopScreen DEF DesktopInv, ScreenInv
  <2>4. QED
    BY <2>2, <2>3 DEF DesktopInv
<1>5. QED
  BY <1>3, <1>4

LEMMA MoveStep ==
    ASSUME DesktopInv, MovePointer
    PROVE  DesktopInv'
<1>1. /\ step.pc = "handle" /\ shell.gui_running /\ step.event.kind = "move"
      /\ wm' = ios_window_set_pointer(wm, step.event.at[1], step.event.at[2], TRUE)
      /\ Goto("pop")
      /\ UNCHANGED <<config, shell, active, drawn, framebuffer, view, focus, sessions, queue>>
  BY DEF MovePointer, At, Event
<1>2. step.event \in Reported
  BY <1>1 DEF DesktopInv, ControlInv, ControlTypes, At, Event
<1>3. PICK x, y : x = step.event.at[1] /\ y = step.event.at[2]
  OBVIOUS
<1>4. x \in Int /\ y \in Int
  BY <1>1, <1>2, <1>3, MoveType
<1>5. Sound(wm) /\ Current(wm, drawn, framebuffer)
  BY <1>1 DEF DesktopInv, ScreenInv
<1>6. Sound(wm') /\ wm'.windows = wm.windows /\ Careful(wm, wm')
  <2>1. wm' = ios_window_set_pointer(wm, x, y, TRUE)
    BY <1>1, <1>3
  <2>2. TRUE \in BOOLEAN
    OBVIOUS
  <2>3. QED
    BY <1>4, <1>5, <2>1, <2>2, PointerFacts, Zenon
<1>7. step' \in Steps /\ step'.pc = "pop"
  BY <1>1, GotoFacts DEF Pcs
<1>8. ControlInv'
  BY <1>1, <1>7, ControlFacts, QuietControl DEF DesktopInv
<1>9. Current(wm', drawn', framebuffer')
  BY <1>1, <1>5, <1>6, CarefulKeepsCurrent
<1>10. ScreenInv'
  BY <1>1, <1>6, <1>9, SameHoldersRefl, HeldScreen DEF DesktopInv
<1>11. QED
  BY <1>8, <1>10 DEF DesktopInv

LEMMA RepaintStep ==
    ASSUME DesktopInv, ios_desktop_repaint
    PROVE  DesktopInv'
<1>1. /\ step.pc = "repaint" /\ Goto("idle")
      /\ IF shell.gui_running
         THEN wm' = Clean(wm) /\ framebuffer' = ios_window_compose(wm, drawn, framebuffer)
         ELSE UNCHANGED <<wm, framebuffer>>
      /\ UNCHANGED <<config, shell, active, drawn, view, focus, sessions, queue>>
  BY DEF ios_desktop_repaint, At, Compose
<1>2. step' \in Steps /\ step'.pc = "idle"
  BY <1>1, GotoFacts DEF Pcs
<1>3. ~shell.gui_running => ~wm'.pointer.visible
  BY <1>1, ControlFacts DEF DesktopInv
<1>4. ControlInv'
  BY <1>1, <1>2, <1>3, ControlFacts, QuietControl DEF DesktopInv
<1>5. CASE shell.gui_running
  <2>1. Sound(wm) /\ Current(wm, drawn, framebuffer)
    BY <1>5 DEF DesktopInv, ScreenInv
  <2>2. Sound(wm') /\ wm'.windows = wm.windows /\ Current(wm', drawn', framebuffer')
    BY <1>1, <1>5, <2>1, ComposedScreen
  <2>3. QED
    BY <1>1, <1>4, <1>5, <2>2, SameHoldersRefl, HeldScreen DEF DesktopInv
<1>6. CASE ~shell.gui_running
  BY <1>1, <1>4, <1>6, KeptScreen DEF DesktopInv
<1>7. QED
  BY <1>5, <1>6

LEMMA OpenStep ==
    ASSUME DesktopInv, OpenView
    PROVE  DesktopInv'
<1>1. PICK v \in Views : Needed(v) /\ drawn' = [drawn EXCEPT ![v] = 0]
  BY DEF OpenView
<1>2. UNCHANGED <<config, shell, active, wm, framebuffer, view, focus, queue>>
  BY DEF OpenView
<1>3. shell.gui_running /\ ~view[v].running
  BY <1>1 DEF Needed
<1>4. Sound(wm) /\ Current(wm, drawn, framebuffer) /\ SameHolders(wm, wm)
  BY <1>3, SameHoldersRefl DEF DesktopInv, ScreenInv
<1>5. Current(wm, [drawn EXCEPT ![v] = 0], framebuffer)
  BY <1>3, <1>4, DrawnScreen DEF DesktopInv
<1>6. ScreenInv'
  BY <1>1, <1>2, <1>3, <1>4, <1>5, HeldScreen DEF DesktopInv
<1>7. QED
  BY <1>6, OpenControl DEF DesktopInv

LEMMA ExplorerFailsStep ==
    ASSUME DesktopInv, ExplorerFails
    PROVE  DesktopInv'
<1>1. /\ (step.pc = "explorer" /\ Needed("explorer")) \/ AtCreate("explorer")
      /\ Goto("doc") /\ UNCHANGED <<config, drawn, view, focus, sessions, queue>>
      /\ active' = FALSE
      /\ shell' = [shell EXCEPT !.gui_running = FALSE, !.cui_usable = TRUE]
      /\ IF active THEN \E m \in ios_desktop_stop : Compose(m, drawn)
         ELSE UNCHANGED <<wm, framebuffer>>
  BY DEF ExplorerFails, ios_shell_stop_gui, At
<1>2. shell.gui_running /\ ~view["explorer"].running
  BY <1>1 DEF Needed, AtCreate, At, DesktopInv, ControlInv, CommandLineRecovers
<1>3. active /\ shell \in Shells
  BY <1>2, ControlFacts DEF DesktopInv
<1>4. wm' = Clean(ios_window_set_pointer(ios_window_destroy(wm, CloseButton), 0, 0, FALSE))
  BY <1>1, <1>3 DEF ios_desktop_stop, Compose
<1>5. Sound(wm') /\ ~wm'.pointer.visible
  BY <1>2, <1>4, CloseAllocated, StopFacts DEF DesktopInv
<1>6. shell' \in Shells /\ ~shell'.gui_running
  BY <1>1, <1>3 DEF Shells
<1>7. step' \in Steps /\ step'.pc = "doc"
  BY <1>1, GotoFacts DEF Pcs, Phases
<1>8. \A v \in Views : ~view[v].running
  BY <1>2 DEF DesktopInv, ControlInv, CommandLineRecovers
<1>9. focus = "none"
  BY <1>8, ControlFacts DEF DesktopInv, ControlInv, CommandLineRecovers
<1>10. step.pc = "create" => step.view \notin Viewers
  BY <1>1, ViewNames DEF AtCreate, At
<1>11. ControlTypes'
  BY <1>1, <1>6, <1>7 DEF DesktopInv, ControlInv, ControlTypes, At
<1>12. ChannelsReturned'
  BY <1>1, <1>7, <1>8, <1>10, ViewNames DEF DesktopInv, ControlInv, ChannelsReturned, AtCreate, At
<1>13. CommandLineRecovers'
  BY <1>1, <1>5, <1>6, <1>7, <1>8, <1>9, ViewNames DEF CommandLineRecovers, At
<1>14. ScreenInv'
  BY <1>5, <1>6, NoDesktopScreen
<1>15. QED
  BY <1>11, <1>12, <1>13, <1>14 DEF DesktopInv, ControlInv

LEMMA ViewerFailsStep ==
    ASSUME DesktopInv, ViewerFails
    PROVE  DesktopInv'
<1>1. PICK v \in Viewers : view' = [view EXCEPT ![v].ready = FALSE]
  BY DEF ViewerFails
<1>2. UNCHANGED <<config, shell, active, wm, drawn, framebuffer, focus, queue>>
  BY DEF ViewerFails
<1>3. \A w \in Views : view'[w].handle = view[w].handle /\ (view'[w].running <=> view[w].running)
  <2>1. v \in Views /\ view[v] \in ViewStates /\ view \in [Views -> ViewStates]
    BY ViewNames, ViewFields DEF DesktopInv, ControlInv, ControlTypes
  <2>2. PICK q : q = [view[v] EXCEPT !.ready = FALSE]
    OBVIOUS
  <2>3. q.handle = view[v].handle /\ (q.running <=> view[v].running)
    BY <2>1, <2>2 DEF ViewStates
  <2>4. view' = [view EXCEPT ![v] = q]
    BY <1>1, <2>2
  <2>5. QED
    BY <2>1, <2>3, <2>4
<1>4. CloseButton' = CloseButton
  BY DEF CloseButton
<1>5. RunningViewHasWindow'
  BY <1>2, <1>3, <1>4, Zenon DEF RunningViewHasWindow, DesktopInv, ScreenInv
<1>6. ScreenInv'
  BY <1>2, <1>5 DEF DesktopInv, ScreenInv
<1>7. QED
  BY <1>6, ViewerFailsControl DEF DesktopInv

LEMMA CreateStep ==
    ASSUME DesktopInv, CreateView
    PROVE  DesktopInv'
<1>1. PICK v \in Views :
        /\ AtCreate(v) /\ HasRoom(wm) /\ wm' = ios_window_create(wm, Bounds[v], v)
        /\ view' = [view EXCEPT ![v].running = TRUE, ![v].handle = NewHandle(wm)]
  BY DEF CreateView
<1>2. UNCHANGED <<config, shell, active, drawn, framebuffer, sessions, queue>>
  BY DEF CreateView
<1>3. shell.gui_running /\ ~view[v].running
  BY <1>1 DEF AtCreate, At, DesktopInv, ControlInv, CommandLineRecovers
<1>4. Sound(wm) /\ wm \in Mgrs /\ Current(wm, drawn, framebuffer) /\ RunningViewHasWindow
  BY <1>3 DEF DesktopInv, ScreenInv, Sound
<1>5. PICK a, b : a = NewSlot(wm) /\ b = Bounds[v]
  OBVIOUS
<1>6. b \in Rects /\ v \in Owners
  BY <1>5, BoundsType, ViewNames
<1>7. /\ Sound(wm') /\ wm'.pointer = wm.pointer
      /\ a \in Windows \ Allocated(wm.windows)
      /\ Allocated(wm'.windows) = Allocated(wm.windows) \cup {a}
      /\ wm'.windows[a].allocated /\ wm'.windows[a].owner = v
      /\ wm'.windows[a].generation = NewHandle(wm).generation
      /\ \A s \in Windows \ {a} : /\ SameWindow(wm, wm', s)
                                  /\ wm'.windows[s].generation = wm.windows[s].generation
      /\ Careful(wm, wm')
  <2>1. PICK n : n = wm'
    OBVIOUS
  <2>2. n = ios_window_create(wm, b, v) /\ HasRoom(wm)
    BY <1>1, <1>5, <2>1
  <2>3. /\ Sound(n) /\ n.pointer = wm.pointer
        /\ NewSlot(wm) \in Windows \ Allocated(wm.windows)
        /\ Allocated(n.windows) = Allocated(wm.windows) \cup {NewSlot(wm)}
        /\ n.windows[NewSlot(wm)].allocated /\ n.windows[NewSlot(wm)].owner = v
        /\ n.windows[NewSlot(wm)].generation = NewHandle(wm).generation
        /\ \A s \in Windows \ {NewSlot(wm)} :
              SameWindow(wm, n, s) /\ n.windows[s].generation = wm.windows[s].generation
        /\ Careful(wm, n)
    BY <1>4, <1>6, <2>2, CreateFacts
  <2>4. QED
    BY <1>5, <2>1, <2>3
<1>8. /\ NewHandle(wm) \in Handles /\ NewHandle(wm).slot = a
      /\ NewHandle(wm).generation \in 1 .. GenerationLimit
  BY <1>1, <1>4, <1>5, NewSlotFacts
<1>9. /\ view'[v].running /\ view'[v].handle = NewHandle(wm)
      /\ \A w \in Views : w # v => view'[w] = view[w]
  BY <1>1, <1>8, CreatedView DEF DesktopInv
<1>10. ControlInv'
  BY <1>4, <1>7, CreateControl DEF DesktopInv
<1>11. Current(wm', drawn', framebuffer')
  BY <1>2, <1>4, <1>7, CarefulKeepsCurrent
<1>12. ASSUME NEW w \in Views, view'[w].running
       PROVE  IsWindow(wm', view'[w].handle) /\ wm'.windows[view'[w].handle.slot].owner = w
  <2>1. CASE w = v
    <3>1. NewHandle(wm).generation # 0
      BY <1>8
    <3>2. view'[w].handle = NewHandle(wm) /\ NewHandle(wm).slot = a /\ a \in Windows
      BY <1>7, <1>8, <1>9, <2>1
    <3>3. QED
      BY <1>7, <2>1, <3>1, <3>2 DEF IsWindow
  <2>2. CASE w # v
    <3>1. view'[w] = view[w]
      BY <1>9, <2>2
    <3>2. IsWindow(wm, view[w].handle) /\ wm.windows[view[w].handle.slot].owner = w
      BY <1>3, <1>4, <1>12, <3>1 DEF RunningViewHasWindow
    <3>3. PICK s : s = view[w].handle.slot
      OBVIOUS
    <3>4. /\ s \in Windows /\ wm.windows[s].allocated /\ view[w].handle.generation # 0
          /\ wm.windows[s].generation = view[w].handle.generation
      BY <3>2, <3>3 DEF IsWindow
    <3>5. s \in Windows \ {a}
      BY <1>7, <3>4, AllocatedMember
    <3>6. SameWindow(wm, wm', s) /\ wm'.windows[s].generation = wm.windows[s].generation
      BY <1>7, <3>5
    <3>7. wm'.windows[s].allocated /\ wm'.windows[s].owner = w
      BY <3>2, <3>3, <3>4, <3>6 DEF SameWindow
    <3>8. QED
      BY <3>1, <3>3, <3>4, <3>6, <3>7 DEF IsWindow
  <2>3. QED
    BY <2>1, <2>2
<1>13. CloseButton.slot \in Allocated(wm.windows) /\ CloseButton.slot \in Windows \ {a}
  BY <1>3, <1>7, CloseAllocated, CloseSlot DEF DesktopInv
<1>14. wm'.windows[CloseButton.slot].allocated /\ wm'.windows[CloseButton.slot].owner = "close"
  <2>1. SameWindow(wm, wm', CloseButton.slot)
    BY <1>7, <1>13
  <2>2. wm.windows[CloseButton.slot].allocated /\ wm.windows[CloseButton.slot].owner = "close"
    BY <1>3, <1>4 DEF RunningViewHasWindow
  <2>3. QED
    BY <2>1, <2>2 DEF SameWindow
<1>15. ASSUME NEW s \in Allocated(wm'.windows) \ {CloseButton.slot}
       PROVE  \E w \in Views : view'[w].running /\ view'[w].handle.slot = s
  <2>1. CASE s = a
    BY <1>8, <1>9, <2>1
  <2>2. CASE s # a
    <3>1. s \in Allocated(wm.windows) \ {CloseButton.slot}
      BY <1>7, <2>2
    <3>2. PICK w \in Views : view[w].running /\ view[w].handle.slot = s
      BY <1>3, <1>4, <3>1 DEF RunningViewHasWindow
    <3>3. view'[w] = view[w]
      BY <1>3, <1>9, <3>2
    <3>4. QED
      BY <3>2, <3>3
  <2>3. QED
    BY <2>1, <2>2
<1>16. CloseButton' = CloseButton
  BY DEF CloseButton
<1>17. RunningViewHasWindow'
  BY <1>12, <1>14, <1>15, <1>16, Zenon DEF RunningViewHasWindow
<1>18. QED
  BY <1>7, <1>10, <1>11, <1>17 DEF DesktopInv, ScreenInv

(* A view that runs has its window in every manager with the same holders.  *)
LEMMA ViewWindow ==
    ASSUME ScreenInv, shell.gui_running, NEW v \in Views, view[v].running,
           NEW m, SameHolders(wm, m)
    PROVE  /\ IsWindow(m, view[v].handle) /\ view[v].handle.slot \in Windows
           /\ view[v].handle.slot \in Allocated(m.windows)
<1>1. IsWindow(wm, view[v].handle)
  BY DEF ScreenInv, RunningViewHasWindow
<1>2. view[v].handle.slot \in Windows
  BY <1>1 DEF IsWindow
<1>3. IsWindow(m, view[v].handle)
  BY <1>1, <1>2, Zenon DEF IsWindow, SameHolders
<1>4. QED
  BY <1>2, <1>3, AllocatedMember, Zenon DEF IsWindow

LEMMA SameHoldersTrans ==
    ASSUME NEW l, NEW m, NEW n, SameHolders(l, m), SameHolders(m, n)
    PROVE  SameHolders(l, n)
BY DEF SameHolders

LEMMA RouteStep ==
    ASSUME DesktopInv, RouteEvent
    PROVE  DesktopInv'
<1>1. /\ step.pc = "handle" /\ shell.gui_running /\ Goto("pop")
      /\ UNCHANGED <<config, shell, active, framebuffer, view, sessions, queue>>
  BY DEF RouteEvent, At
<1>2. step' \in Steps /\ step'.pc = "pop"
  BY <1>1, GotoFacts DEF Pcs
<1>3. Sound(wm) /\ Current(wm, drawn, framebuffer) /\ SameHolders(wm, wm)
  BY <1>1, SameHoldersRefl DEF DesktopInv, ScreenInv
<1>4. CASE UNCHANGED <<wm, drawn, focus>>
  <2>1. ControlInv'
    BY <1>1, <1>2, <1>4, ControlFacts, QuietControl DEF DesktopInv
  <2>2. ScreenInv'
    BY <1>1, <1>4, KeptScreen DEF DesktopInv
  <2>3. QED
    BY <2>1, <2>2 DEF DesktopInv
<1>5. ASSUME NEW v \in Receivers, NEW succeeds \in BOOLEAN, NEW new \in 0 .. 1,
             new # drawn[v] => succeeds,
             drawn' = [drawn EXCEPT ![v] = new],
             focus' = v \/ focus' = focus,
             NEW m, m = Raised(v) \/ m = wm,
             wm' = IF succeeds THEN Repainted(m, v) ELSE m
      PROVE  DesktopInv'
  <2>1. v \in Views /\ view[v].running
    BY <1>5 DEF Receivers
  <2>2. IsWindow(wm, view[v].handle) /\ view[v].handle.slot \in Allocated(wm.windows)
    BY <1>1, <1>3, <2>1, ViewWindow DEF DesktopInv
  <2>3. Sound(m) /\ SameHolders(wm, m) /\ Careful(wm, m)
    <3>1. CASE m = wm
      <4>1. Careful(wm, wm)
        BY DEF Careful, SameAt
      <4>2. QED
        BY <1>3, <3>1, <4>1
    <3>2. CASE m = Raised(v)
      <4>1. m = ios_window_raise(wm, view[v].handle)
        BY <2>2, <3>2 DEF Raised
      <4>2. QED
        BY <1>3, <2>2, <4>1, RaiseFacts
    <3>3. QED
      BY <1>5, <3>1, <3>2
  <2>4. Current(m, drawn, framebuffer)
    BY <1>3, <2>3, CarefulKeepsCurrent
  <2>5. /\ Sound(wm') /\ SameHolders(wm, wm') /\ Current(wm', drawn, framebuffer)
        /\ \/ new = drawn[v]
           \/ LET h == view[v].handle
              IN  wm'.windows[h.slot].visible =>
                    \A c \in Cells : Inside(c, wm'.windows[h.slot].bounds) => Inside(c, wm'.dirty)
    <3>1. CASE succeeds
      <4>1. IsWindow(m, view[v].handle) /\ view[v].handle.slot \in Windows
        BY <1>1, <2>1, <2>3, ViewWindow DEF DesktopInv
      <4>2. wm' = ios_window_invalidate(m, view[v].handle)
        BY <1>5, <3>1, <4>1 DEF Repainted
      <4>3. PICK n : n = wm'
        OBVIOUS
      <4>4. /\ Sound(n) /\ n.windows = m.windows /\ Careful(m, n)
            /\ m.windows[view[v].handle.slot].visible =>
                 \A c \in Cells : Inside(c, m.windows[view[v].handle.slot].bounds) => Inside(c, n.dirty)
        BY <2>3, <4>1, <4>2, <4>3, InvalidateFacts
      <4>5. SameHolders(wm, n)
        BY <2>3, <4>4, SameHoldersRefl, SameHoldersTrans
      <4>6. Current(n, drawn, framebuffer)
        BY <2>3, <2>4, <4>4, CarefulKeepsCurrent
      <4>7. QED
        BY <4>3, <4>4, <4>5, <4>6
    <3>2. CASE ~succeeds
      <4>1. wm' = m /\ new = drawn[v]
        BY <1>5, <3>2
      <4>2. QED
        BY <2>3, <2>4, <4>1
    <3>3. QED
      BY <3>1, <3>2
  <2>6. Current(wm', drawn', framebuffer')
    <3>1. PICK n : n = wm'
      OBVIOUS
    <3>2. /\ Sound(n) /\ SameHolders(wm, n) /\ Current(n, drawn, framebuffer)
          /\ \/ ~view[v].running \/ new = drawn[v]
             \/ LET h == view[v].handle
                IN  n.windows[h.slot].visible =>
                      \A c \in Cells : Inside(c, n.windows[h.slot].bounds) => Inside(c, n.dirty)
      BY <2>5, <3>1
    <3>3. ControlInv /\ ScreenInv
      BY DEF DesktopInv
    <3>4. Current(n, [drawn EXCEPT ![v] = new], framebuffer)
      BY <1>1, <2>1, <3>2, <3>3, DrawnScreen, Zenon
    <3>5. QED
      BY <1>1, <1>5, <3>1, <3>4
  <2>7. ScreenInv'
    BY <1>1, <2>5, <2>6, HeldScreen DEF DesktopInv
  <2>8. drawn' \in [Owners -> 0 .. 1]
    BY <1>5, <2>1, ControlFacts, ViewNames DEF DesktopInv
  <2>9. focus' \in Views \cup {"none"} /\ (focus' # focus => focus' \in Views /\ view[focus'].running)
    BY <1>5, <2>1, ControlFacts DEF DesktopInv
  <2>10. ControlInv'
    BY <1>1, <1>2, <2>8, <2>9, ControlFacts, QuietControl DEF DesktopInv
  <2>11. QED
    BY <2>7, <2>10 DEF DesktopInv
<1>6. QED
  <2>1. CASE \E v \in Receivers, succeeds \in BOOLEAN, new \in 0 .. 1 :
               /\ new # drawn[v] => succeeds /\ Event.pressed
               /\ drawn' = [drawn EXCEPT ![v] = new]
               /\ LET pressed == Event.kind = "button" /\ Event.pressed
                  IN  /\ focus' = IF pressed THEN v ELSE focus
                      /\ \E m \in {IF pressed THEN Raised(v) ELSE wm} :
                            wm' = IF succeeds THEN Repainted(m, v) ELSE m
    <3>1. PICK v \in Receivers, succeeds \in BOOLEAN, new \in 0 .. 1 :
               /\ new # drawn[v] => succeeds /\ Event.pressed
               /\ drawn' = [drawn EXCEPT ![v] = new]
               /\ LET pressed == Event.kind = "button" /\ Event.pressed
                  IN  /\ focus' = IF pressed THEN v ELSE focus
                      /\ \E m \in {IF pressed THEN Raised(v) ELSE wm} :
                            wm' = IF succeeds THEN Repainted(m, v) ELSE m
      BY <2>1
    <3>2. new # drawn[v] => succeeds
      BY <3>1
    <3>3. focus' = v \/ focus' = focus
      BY <3>1
    <3>4. PICK m : (m = Raised(v) \/ m = wm) /\ wm' = IF succeeds THEN Repainted(m, v) ELSE m
      BY <3>1
    <3>5. QED
      BY <1>5, <3>1, <3>2, <3>3, <3>4, Zenon
  <2>2. QED
    BY <1>4, <2>1, Zenon DEF RouteEvent

(* A line that is typed stays within the buffer of the command line.        *)
TypedLine ==
    CASE IsKey("enter")                               -> 0
      [] IsKey("backspace") /\ shell.line > 0          -> shell.line - 1
      [] IsKey("text") /\ shell.line < LineLimit       -> shell.line + 1
      [] OTHER                                         -> shell.line

LEMMA TypedLineType ==
    ASSUME shell.line \in 0 .. LineLimit
    PROVE  TypedLine \in 0 .. LineLimit
<1> DEFINE k == shell.line
<1>1. k \in 0 .. LineLimit /\ LineLimit \in Nat
  BY DesktopAssumption
<1>2. IsKey("enter") => ~IsKey("backspace") /\ ~IsKey("text")
  BY DEF IsKey
<1>3. IsKey("backspace") => ~IsKey("text")
  BY DEF IsKey
<1>4. 0 \in 0 .. LineLimit
  BY <1>1
<1>5. k > 0 => k - 1 \in 0 .. LineLimit
  BY <1>1
<1>6. k < LineLimit => k + 1 \in 0 .. LineLimit
  BY <1>1
<1>7. CASE IsKey("enter")
  <2>1. TypedLine = 0
    BY <1>2, <1>7, Zenon DEF TypedLine
  <2>2. QED
    BY <1>4, <2>1
<1>8. CASE IsKey("backspace") /\ k > 0
  <2>1. TypedLine = k - 1
    BY <1>2, <1>3, <1>8, Zenon DEF TypedLine
  <2>2. QED
    BY <1>5, <1>8, <2>1
<1>9. CASE IsKey("text") /\ k < LineLimit
  <2>1. TypedLine = k + 1
    BY <1>2, <1>3, <1>9, Zenon DEF TypedLine
  <2>2. QED
    BY <1>6, <1>9, <2>1
<1>10. CASE ~IsKey("enter") /\ ~(IsKey("backspace") /\ k > 0) /\ ~(IsKey("text") /\ k < LineLimit)
  <2>1. TypedLine = k
    BY <1>10, Zenon DEF TypedLine
  <2>2. QED
    BY <1>1, <2>1
<1>11. QED
  BY <1>7, <1>8, <1>9, <1>10, Zenon

LEMMA ConsoleStep ==
    ASSUME DesktopInv, ConsoleFeed
    PROVE  DesktopInv'
<1>1. /\ step.pc = "handle" /\ ~shell.gui_running /\ Goto("pop")
      /\ UNCHANGED <<config, drawn, view, focus, sessions, queue>>
  BY DEF ConsoleFeed, At
<1>2. step' \in Steps /\ step'.pc = "pop"
  BY <1>1, GotoFacts DEF Pcs
<1>3. /\ shell \in Shells /\ shell.line \in 0 .. LineLimit /\ active = FALSE
      /\ ~wm.pointer.visible /\ Sound(wm) /\ 0 \in 0 .. LineLimit
  BY <1>1, ControlFacts, ShellFields, DesktopAssumption DEF DesktopInv, ScreenInv
<1>4. CASE StartSucceeds /\ shell' = [shell EXCEPT !.gui_running = TRUE, !.line = 0]
  <2>1. shell' \in Shells /\ shell'.gui_running
    BY <1>3, <1>4 DEF Shells
  <2>2. active' /\ active' \in BOOLEAN /\ ScreenInv'
    BY <1>1, <1>4, <2>1, StartScreen
  <2>3. ControlInv'
    BY <1>1, <1>2, <2>1, <2>2, ControlFacts, StartControl DEF DesktopInv
  <2>4. QED
    BY <2>2, <2>3 DEF DesktopInv
<1>5. CASE StartFails /\ shell' = [shell EXCEPT !.line = 0]
  <2>1. shell' \in Shells /\ shell'.gui_running = shell.gui_running
    BY <1>3, <1>5, ShellFields
  <2>2. active' = active
    BY <1>3, <1>5 DEF StartFails
  <2>3. Sound(wm') /\ ~wm'.pointer.visible
    <3>1. CASE CanStart
      BY <1>5, <3>1, FreshFacts DEF StartFails
    <3>2. CASE ~CanStart
      BY <1>3, <1>5, <3>2 DEF StartFails
    <3>3. QED
      BY <3>1, <3>2
  <2>4. ControlInv'
    BY <1>1, <1>2, <2>1, <2>2, <2>3, ControlFacts, QuietControl DEF DesktopInv
  <2>5. ScreenInv'
    BY <1>1, <2>1, <2>3, NoDesktopScreen
  <2>6. QED
    BY <2>4, <2>5 DEF DesktopInv
<1>6. CASE shell' = [shell EXCEPT !.line = TypedLine] /\ UNCHANGED <<active, wm>>
  <2>1. TypedLine \in 0 .. LineLimit
    BY <1>3, TypedLineType
  <2>2. shell' \in Shells /\ shell'.gui_running = shell.gui_running
    BY <1>3, <1>6, <2>1, ShellFields
  <2>3. ControlInv'
    BY <1>1, <1>2, <1>3, <1>6, <2>2, ControlFacts, QuietControl DEF DesktopInv
  <2>4. ScreenInv'
    BY <1>1, <1>3, <1>6, <2>2, NoDesktopScreen
  <2>5. QED
    BY <2>3, <2>4 DEF DesktopInv
<1>7. QED
  BY <1>4, <1>5, <1>6, Zenon DEF ConsoleFeed, ExecuteGui, TypedLine

LEMMA ClientStep ==
    ASSUME DesktopInv, ClientCall
    PROVE  DesktopInv'
<1>1. /\ step.pc = "idle" /\ shell.gui_running /\ view["explorer"].running
      /\ UNCHANGED <<config, shell, active, drawn, framebuffer, view, focus, sessions, queue, step>>
  BY DEF ClientCall, Running
<1>2. Sound(wm) /\ Current(wm, drawn, framebuffer) /\ SameHolders(wm, wm)
  BY <1>1, SameHoldersRefl DEF DesktopInv, ScreenInv
<1>3. PICK h : h = view["explorer"].handle
  OBVIOUS
<1>4. h.slot \in Windows
  BY <1>1, <1>2, <1>3, ViewNames, ViewWindow DEF DesktopInv
<1>5. PICK n : n = wm'
  OBVIOUS
<1>6. Sound(n) /\ n.pointer = wm.pointer /\ SameHolders(wm, n) /\ Careful(wm, n)
  <2>1. CASE \E p \in Spots : wm' = ios_window_move(wm, h, p[1], p[2])
    <3>1. PICK p \in Spots : wm' = ios_window_move(wm, h, p[1], p[2])
      BY <2>1
    <3>2. PICK x, y : x = p[1] /\ y = p[2]
      OBVIOUS
    <3>3. x \in Int /\ y \in Int
      BY <3>2, DesktopAssumption
    <3>4. n = ios_window_move(wm, h, x, y)
      BY <1>5, <3>1, <3>2
    <3>5. QED
      BY <1>2, <1>4, <3>3, <3>4, MoveFacts
  <2>2. CASE \E b \in BOOLEAN : wm' = ios_window_set_visible(wm, h, b)
    <3>1. PICK b \in BOOLEAN : n = ios_window_set_visible(wm, h, b)
      BY <1>5, <2>2
    <3>2. QED
      BY <1>2, <1>4, <3>1, VisibleFacts
  <2>3. QED
    BY <1>3, <2>1, <2>2, Zenon DEF ClientCall
<1>7. Current(n, drawn, framebuffer)
  BY <1>2, <1>6, CarefulKeepsCurrent
<1>8. ScreenInv'
  BY <1>1, <1>5, <1>6, <1>7, HeldScreen DEF DesktopInv
<1>9. ControlInv'
  BY <1>1, ControlFacts, QuietControl DEF DesktopInv
<1>10. QED
  BY <1>8, <1>9 DEF DesktopInv

LEMMA RenderStep ==
    ASSUME DesktopInv, ios_window_render_owned
    PROVE  DesktopInv'
<1>1. /\ step.pc = "idle" /\ shell.gui_running /\ view["explorer"].running
      /\ UNCHANGED <<config, shell, active, view, focus, sessions, queue, step>>
  BY DEF ios_window_render_owned, Running
<1>2. PICK new \in 0 .. 1 : drawn' = [drawn EXCEPT !["explorer"] = new]
  BY DEF ios_window_render_owned
<1>3. PICK m : m = ios_window_invalidate(wm, view["explorer"].handle)
  OBVIOUS
<1>4. wm' = Clean(m) /\ framebuffer' = ios_window_compose(m, drawn', framebuffer)
  BY <1>3 DEF ios_window_render_owned, Compose
<1>5. Sound(wm) /\ Current(wm, drawn, framebuffer) /\ SameHolders(wm, wm)
  BY <1>1, SameHoldersRefl DEF DesktopInv, ScreenInv
<1>6. view["explorer"].handle.slot \in Windows /\ "explorer" \in Views
  BY <1>1, <1>5, ViewNames, ViewWindow DEF DesktopInv
<1>7. /\ Sound(m) /\ m.windows = wm.windows /\ m.pointer = wm.pointer /\ Careful(wm, m)
      /\ wm.windows[view["explorer"].handle.slot].visible =>
           \A c \in Cells : Inside(c, wm.windows[view["explorer"].handle.slot].bounds)
               => Inside(c, m.dirty)
  BY <1>3, <1>5, <1>6, InvalidateFacts
<1>8. Current(m, drawn, framebuffer) /\ SameHolders(wm, m)
  BY <1>5, <1>7, CarefulKeepsCurrent, SameHoldersRefl
<1>9. Current(m, drawn', framebuffer)
  <2>1. LET h == view["explorer"].handle
        IN  m.windows[h.slot].visible =>
              \A c \in Cells : Inside(c, m.windows[h.slot].bounds) => Inside(c, m.dirty)
    BY <1>7
  <2>2. ControlInv /\ ScreenInv
    BY DEF DesktopInv
  <2>3. Current(m, [drawn EXCEPT !["explorer"] = new], framebuffer)
    BY <1>1, <1>6, <1>7, <1>8, <2>1, <2>2, DrawnScreen, Zenon
  <2>4. QED
    BY <1>2, <2>3
<1>10. /\ Sound(wm') /\ wm'.windows = m.windows /\ wm'.pointer = m.pointer
       /\ Current(wm', drawn', framebuffer')
  BY <1>4, <1>7, <1>9, ComposedScreen
<1>11. ScreenInv'
  BY <1>1, <1>7, <1>10, SameHoldersRefl, HeldScreen DEF DesktopInv
<1>12. drawn' \in [Owners -> 0 .. 1]
  BY <1>2, ControlFacts, ViewNames DEF DesktopInv
<1>13. ControlInv'
  BY <1>1, <1>12, ControlFacts, QuietControl DEF DesktopInv
<1>14. QED
  BY <1>11, <1>13 DEF DesktopInv

-----------------------------------------------------------------------------
(* The theorems.                                                           *)

LEMMA NextKeeps ==
    ASSUME DesktopInv, [Next]_vars
    PROVE  DesktopInv'
<1>1. CASE runtime_idle
  BY <1>1, IdleStep
<1>2. CASE PollEvent
  BY <1>2, PollEventStep
<1>3. CASE test_action_start_gui
  BY <1>3, TestStartStep
<1>4. CASE test_action_gui_recovery
  BY <1>4, TestRecoveryStep
<1>5. CASE StepUnderWay
  <2>1. CASE PollEnds
    BY <2>1, PollEndsStep
  <2>2. CASE input_queue_pop
    BY <2>2, PopStep
  <2>3. CASE CloseDesktop
    BY <2>3, CloseStep
  <2>4. CASE RouteEvent
    BY <2>4, RouteStep
  <2>5. CASE MovePointer
    BY <2>5, MoveStep
  <2>6. CASE ConsoleFeed
    BY <2>6, ConsoleStep
  <2>7. CASE Cleanup
    BY <2>7, CleanupStep
  <2>8. CASE SkipView
    BY <2>8, SkipStep
  <2>9. CASE OpenView
    BY <2>9, OpenStep
  <2>10. CASE CreateView
    BY <2>10, CreateStep
  <2>11. CASE ExplorerFails
    BY <2>11, ExplorerFailsStep
  <2>12. CASE ViewerFails
    BY <2>12, ViewerFailsStep
  <2>13. CASE ios_desktop_repaint
    BY <2>13, RepaintStep
  <2>14. QED
    BY <1>5, <2>1, <2>2, <2>3, <2>4, <2>5, <2>6, <2>7, <2>8, <2>9, <2>10, <2>11, <2>12, <2>13
       DEF StepUnderWay
<1>6. CASE ClientCall
  BY <1>6, ClientStep
<1>7. CASE ios_window_render_owned
  BY <1>7, RenderStep
<1>8. CASE UNCHANGED vars
  BY <1>8, Zenon DEF vars, DesktopInv, ControlInv, ControlTypes, ChannelsReturned,
       CommandLineRecovers, ScreenInv, RunningViewHasWindow, CloseButton, AtCreate, At, Event
<1>9. QED
  BY <1>1, <1>2, <1>3, <1>4, <1>5, <1>6, <1>7, <1>8 DEF Next

(* However often the desktop is started, used, closed and started again     *)
(* (ios_kernel_runtime_step), the screen, the windows, the views and the    *)
(* command line agree.                                                      *)
THEOREM Invariance == Spec => []DesktopInv
<1>1. Init => DesktopInv
  BY InitEstablishes
<1>2. DesktopInv /\ [Next]_vars => DesktopInv'
  BY NextKeeps
<1>3. QED
  BY <1>1, <1>2, PTL DEF Spec

(* Whatever sequence of creations, raises, moves, hidings, drawings and     *)
(* restarts came before, the z-orders are 1 .. window_count, the top        *)
(* visible window has the focus, and every cell that is not dirty shows     *)
(* what a composition of everything would show (window_manager.c,           *)
(* compositor.c).                                                           *)
THEOREM Screen_is_consistent == Spec => []ScreenConsistent
<1>1. DesktopInv => ScreenConsistent
  BY DesktopInvMeans
<1>2. QED
  BY <1>1, Invariance, PTL

(* Every view that runs has a window of its own on this desktop, and every  *)
(* viewer a channel exactly while it runs or is being created (runtime.c).  *)
THEOREM Views_hold_their_own == Spec => []ViewsHoldTheirOwn
<1>1. DesktopInv => ViewsHoldTheirOwn
  BY DesktopInvMeans
<1>2. QED
  BY <1>1, Invariance, PTL

(* Whatever fails and whenever the desktop is closed, no view, focus,       *)
(* pointer or desktop module is left to the command line (runtime.c,        *)
(* bootstrap.c).                                                            *)
THEOREM Command_line_recovers == Spec => []CommandLineRecovers
<1>1. DesktopInv => CommandLineRecovers
  BY DesktopInvMeans
<1>2. QED
  BY <1>1, Invariance, PTL
=============================================================================
