--------------------------- MODULE WindowManager ---------------------------
(***************************************************************************)
(* The retained window manager and its compositor (gui/window/             *)
(* window_manager.c, gui/window/compositor.c): windows behind handles of   *)
(* slot and generation, a stack of z-orders without gaps, focus on the top *)
(* visible window, and one dirty rectangle that decides which pixels the   *)
(* next composition copies to the framebuffer.                             *)
(*                                                                         *)
(* A manager is a record; an operation is an operator that returns the     *)
(* next manager.  Pixels are the cells of a small grid, and what a client  *)
(* has drawn on its surface is one value for the whole surface, so a cell  *)
(* of the framebuffer is the desktop colour, the pointer, or the owner of  *)
(* a window together with the drawing that was copied from its surface.    *)
(***************************************************************************)
EXTENDS Integers, FiniteSets, FiniteSetsExt

CONSTANTS Width, Height,       \* the framebuffer, IOS_RUNTIME_FRAMEBUFFER_*
          Windows,             \* slots 0 .. IOS_WINDOW_CAPACITY - 1
          GenerationLimit,     \* the largest generation, 2^16 - 1 in the code
          PointerSize          \* IOS_WINDOW_POINTER_WIDTH and _HEIGHT

ASSUME WindowManagerAssumption ==
    /\ Width \in Nat \ {0} /\ Height \in Nat \ {0} /\ PointerSize \in Nat \ {0}
    /\ GenerationLimit \in Nat \ {0}
    /\ Windows \subseteq Nat /\ IsFiniteSet(Windows)

Cells == (0 .. Width - 1) \X (0 .. Height - 1)
Rect(x, y, w, h) == [x |-> x, y |-> y, w |-> w, h |-> h]
Screen == Rect(0, 0, Width, Height)
NoRect == Rect(0, 0, 0, 0)

Inside(c, r) == /\ r.x <= c[1] /\ c[1] < r.x + r.w
                /\ r.y <= c[2] /\ c[2] < r.y + r.h
Pixels(r) == {c \in Cells : Inside(c, r)}

Larger(a, b) == IF a >= b THEN a ELSE b
Smaller(a, b) == IF a <= b THEN a ELSE b

Clipped(r) ==
    LET left == Larger(r.x, 0)
        top == Larger(r.y, 0)
        right == Smaller(r.x + r.w, Width)
        bottom == Smaller(r.y + r.h, Height)
    IN  IF left < right /\ top < bottom
        THEN Rect(left, top, right - left, bottom - top)
        ELSE NoRect

Hull(r, s) ==
    LET left == Smaller(r.x, s.x)
        top == Smaller(r.y, s.y)
    IN  Rect(left, top, Larger(r.x + r.w, s.x + s.w) - left, Larger(r.y + r.h, s.y + s.h) - top)

(* What add_dirty leaves in the manager: dirty_valid is false exactly when *)
(* dirty is empty.                                                         *)
Merged(dirty, r) ==
    CASE Clipped(r) = NoRect -> dirty
      [] dirty = NoRect      -> Clipped(r)
      [] OTHER               -> Hull(dirty, Clipped(r))

add_dirty(wm, r) == [wm EXCEPT !.dirty = Merged(@, r)]

FreeWindow == [allocated |-> FALSE, generation |-> 0, visible |-> FALSE, focused |-> FALSE,
               z |-> 0, bounds |-> NoRect, owner |-> "none"]

ios_window_manager_initialize ==
    [windows |-> [s \in Windows |-> FreeWindow], count |-> 0, dirty |-> Screen,
     pointer |-> [x |-> 0, y |-> 0, visible |-> FALSE]]

(* What the C types of a window and of the manager allow.                  *)
Rects == [x : Int, y : Int, w : Int, h : Int]
WindowRecords(owners) ==
    [allocated : BOOLEAN, generation : 0 .. GenerationLimit, visible : BOOLEAN, focused : BOOLEAN,
     z : Nat, bounds : Rects, owner : owners]
Managers(owners) ==
    [windows : [Windows -> WindowRecords(owners)], count : Nat, dirty : Rects,
     pointer : [x : Int, y : Int, visible : BOOLEAN]]

Handles == [slot : Windows \cup {-1}, generation : 0 .. GenerationLimit]
NoHandle == [slot |-> -1, generation |-> 0]
IsWindow(wm, h) ==
    /\ h.slot \in Windows /\ h.generation # 0
    /\ wm.windows[h.slot].allocated /\ wm.windows[h.slot].generation = h.generation

Allocated(windows) == {s \in Windows : windows[s].allocated}
Visible(windows) == {s \in Allocated(windows) : windows[s].visible}
TopZ(windows) == Max({windows[s].z : s \in Allocated(windows)} \cup {0})
TopVisibleZ(windows) == Max({windows[s].z : s \in Visible(windows)} \cup {0})
IsTop(windows, s) == s \in Visible(windows) /\ windows[s].z = TopVisibleZ(windows)

select_top_focus(windows) ==
    LET top == TopVisibleZ(windows)
    IN  [s \in Windows |->
            [windows[s] EXCEPT !.focused = windows[s].allocated /\ windows[s].visible
                                           /\ windows[s].z = top]]

(* The windows above a z-order move down by one.                           *)
Lowered(windows, above) ==
    [s \in Windows |-> IF windows[s].allocated /\ windows[s].z > above
                       THEN [windows[s] EXCEPT !.z = @ - 1] ELSE windows[s]]
-----------------------------------------------------------------------------
(* Operations.  Each is called with a handle that find_window accepts.     *)

HasRoom(wm) == Allocated(wm.windows) # Windows
NewSlot(wm) == Min(Windows \ Allocated(wm.windows))
NextGeneration(g) == IF g = GenerationLimit THEN 1 ELSE g + 1
NewHandle(wm) ==
    [slot |-> NewSlot(wm), generation |-> NextGeneration(wm.windows[NewSlot(wm)].generation)]

ios_window_create(wm, bounds, owner) ==
    LET new == [allocated |-> TRUE, generation |-> NewHandle(wm).generation, visible |-> TRUE,
                focused |-> FALSE, z |-> TopZ(wm.windows) + 1, bounds |-> bounds, owner |-> owner]
    IN  [wm EXCEPT !.count = @ + 1,
                   !.windows = select_top_focus([@ EXCEPT ![NewSlot(wm)] = new]),
                   !.dirty = Merged(@, bounds)]

ios_window_destroy(wm, h) ==
    LET w == wm.windows[h.slot]
        freed == [w EXCEPT !.allocated = FALSE, !.visible = FALSE, !.focused = FALSE]
    IN  [wm EXCEPT !.count = @ - 1,
                   !.windows = select_top_focus(Lowered([@ EXCEPT ![h.slot] = freed], w.z)),
                   !.dirty = IF w.visible THEN Merged(@, w.bounds) ELSE @]

ios_window_move(wm, h, x, y) ==
    LET w == wm.windows[h.slot]
        moved == [w.bounds EXCEPT !.x = x, !.y = y]
    IN  [wm EXCEPT !.windows[h.slot].bounds = moved,
                   !.dirty = IF w.visible THEN Merged(Merged(@, w.bounds), moved) ELSE @]

ios_window_set_visible(wm, h, visible) ==
    IF wm.windows[h.slot].visible = visible THEN wm
    ELSE [wm EXCEPT !.windows = select_top_focus([@ EXCEPT ![h.slot].visible = visible]),
                    !.dirty = Merged(@, wm.windows[h.slot].bounds)]

ios_window_raise(wm, h) ==
    LET w == wm.windows[h.slot]
        top == TopZ(wm.windows)
    IN  IF w.z = top THEN [wm EXCEPT !.windows = select_top_focus(@)]
        ELSE [wm EXCEPT !.windows = select_top_focus([Lowered(@, w.z) EXCEPT ![h.slot].z = top]),
                        !.dirty = Merged(@, w.bounds)]

(* The rectangle that ios_window_invalidate adds when the whole client     *)
(* surface has changed, the only use the kernel makes of it.               *)
InvalidatedRect(wm, h) ==
    IF wm.windows[h.slot].visible THEN wm.windows[h.slot].bounds ELSE NoRect
ios_window_invalidate(wm, h) == add_dirty(wm, InvalidatedRect(wm, h))

PointerRect(wm) ==
    IF wm.pointer.visible THEN Rect(wm.pointer.x, wm.pointer.y, PointerSize, PointerSize)
    ELSE NoRect
MovedPointer(wm, x, y, visible) ==
    [wm EXCEPT !.pointer = [x |-> x, y |-> y, visible |-> visible]]

(* Faulty: the place the pointer leaves is not made dirty.               *)
ios_window_set_pointer_forgets_old_place(wm, x, y, visible) ==
    LET moved == MovedPointer(wm, x, y, visible)
    IN  [moved EXCEPT !.dirty = Merged(@, PointerRect(moved))]

ios_window_set_pointer(wm, x, y, visible) ==
    LET moved == MovedPointer(wm, x, y, visible)
    IN  [moved EXCEPT !.dirty = Merged(Merged(@, PointerRect(wm)), PointerRect(moved))]

-----------------------------------------------------------------------------
(* Composition.  drawn maps an owner to what is on its surface.            *)

Covers(wm, s, c) ==
    LET w == wm.windows[s]
    IN  w.allocated /\ w.visible /\ w.z <= wm.count /\ Inside(c, w.bounds)

(* The shadow surface: windows painted from z-order 1 to window_count, so  *)
(* the last one painted stays.                                             *)
PaintedLast(wm, s, c) ==
    Covers(wm, s, c) /\ \A o \in Windows : Covers(wm, o, c) => wm.windows[o].z <= wm.windows[s].z
Composed(wm, drawn, c) ==
    IF \E s \in Windows : Covers(wm, s, c)
    THEN LET top == wm.windows[CHOOSE s \in Windows : PaintedLast(wm, s, c)]
         IN  <<top.owner, drawn[top.owner]>>
    ELSE <<"desktop", 0>>

Picture(wm, drawn, c) ==
    IF Inside(c, PointerRect(wm)) THEN <<"pointer", 0>> ELSE Composed(wm, drawn, c)

(* Only the dirty rectangle is copied; a pointer that touches it is drawn  *)
(* whole.                                                                  *)
ios_window_compose(wm, drawn, framebuffer) ==
    LET touched == Pixels(wm.dirty) \cap Pixels(PointerRect(wm)) # {}
    IN  [c \in Cells |->
            IF touched /\ Inside(c, PointerRect(wm)) THEN <<"pointer", 0>>
            ELSE IF Inside(c, wm.dirty) THEN Composed(wm, drawn, c) ELSE framebuffer[c]]

Clean(wm) == [wm EXCEPT !.dirty = NoRect]

-----------------------------------------------------------------------------
(* Properties of a manager, stated of the state by the modules that use it.*)

(* The z-orders of the windows are 1 .. window_count: ios_window_compose   *)
(* paints exactly these, so a gap or a duplicate would leave a window out. *)
Dense(windows, n) ==
    /\ n = Cardinality(Allocated(windows))
    /\ {windows[s].z : s \in Allocated(windows)} = 1 .. n
    /\ \A s, t \in Allocated(windows) : windows[s].z = windows[t].z => s = t
ZOrdersAreDense(wm) == Dense(wm.windows, wm.count)

(* One window is focused, the top visible one, when there is one.          *)
FocusIsTop(wm) == \A s \in Windows : wm.windows[s].focused <=> IsTop(wm.windows, s)
=============================================================================
