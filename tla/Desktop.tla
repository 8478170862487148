------------------------------ MODULE Desktop ------------------------------
(***************************************************************************)
(* The kernel's runtime step as the graphical desktop sees it              *)
(* (kernel/runtime.c, shell/bootstrap.c, gui/desktop/desktop.c,            *)
(* cui/console.c): one step polls the devices into the input queue, takes  *)
(* every event from it, gives each to the command line or to the desktop,  *)
(* starts the views that are not running and composes the screen.          *)
(*                                                                         *)
(* A step runs from the idle loop to its end; the timer, whose tick        *)
(* function runs the same step, is left to the module Input.               *)
(*                                                                         *)
(* The production configuration is modelled, launch_terminal = false.      *)
(* The command that starts the desktop is a line of GuiLine characters.    *)
(***************************************************************************)
EXTENDS WindowManager, Sequences, SequencesExt

CONSTANTS Viewers,          \* the filtered viewers, doc and txt
          Bounds,           \* where the runtime puts each window
          Events,           \* the input events a device may report
          Spots,            \* where ios_window_move may put a window
          QueueCapacity,    \* IOS_INPUT_QUEUE_CAPACITY
          GuiLine,          \* length of the command "gui"
          LineLimit,        \* IOS_CUI_MAX_PAYLOAD
          Configurations    \* what the boot found: see Init

Views == {"explorer"} \cup Viewers
Owners == Views \cup {"close"}

ASSUME DesktopAssumption ==
    /\ Viewers \subseteq {"doc", "txt"}
    /\ \A o \in Owners : Bounds[o] \in Rects
    /\ Spots \subseteq Int \X Int
    /\ \A e \in Events : e.kind = "move" => e.at \in Int \X Int
    /\ QueueCapacity \in Nat \ {0}
    /\ LineLimit \in Nat /\ GuiLine \in 1 .. LineLimit
    /\ Cardinality(Windows) >= Cardinality(Owners)
    /\ \A v, w \in Owners : v # w => Pixels(Bounds[v]) \cap Pixels(Bounds[w]) = {}

VARIABLES config,        \* what start_gui and the views find, fixed at boot
          shell,         \* gui_running, cui_usable, and the command line
          active,        \* desktop.active
          wm,            \* desktop.window_manager
          drawn,         \* what each client has on its surface
          framebuffer,   \* the cells of the screen
          view,          \* *_view_running, *_ready, *_native_window
          focus,         \* gui_focus
          sessions,      \* channels each viewer has open to the shell
          queue,         \* input
          step           \* where the step is, with its local variables

vars == <<config, shell, active, wm, drawn, framebuffer, view, focus, sessions, queue, step>>

NoEvent == [kind |-> "none"]
Frame(pc) == [pc |-> pc, event |-> NoEvent, view |-> "none"]
Text == [c \in Cells |-> <<"text", 0>>]

Init ==
    /\ config \in Configurations
    /\ shell = [gui_running |-> FALSE, cui_usable |-> TRUE, line |-> 0]
    /\ active = FALSE
    /\ wm = [ios_window_manager_initialize EXCEPT !.dirty = NoRect]
    /\ drawn = [o \in Owners |-> 0]
    /\ framebuffer = Text
    /\ view = [v \in Views |-> [running |-> FALSE, ready |-> v \in config.ready,
                                handle |-> NoHandle]]
    /\ focus = "none"
    /\ sessions = [v \in Viewers |-> 0]
    /\ queue = <<>>
    /\ step = Frame("idle")

-----------------------------------------------------------------------------
(* Where the step is.                                                      *)

Running == step.pc # "idle"
At(pc) == step.pc = pc
AtCreate(v) == At("create") /\ step.view = v
Goto(pc) == step' = Frame(pc)

-----------------------------------------------------------------------------
(* Starting and stopping the desktop.                                      *)

(* The result of a composition, for the manager m.                         *)
Compose(m, d) == \E n \in {m} : /\ framebuffer' = ios_window_compose(n, d, framebuffer)
                               /\ wm' = Clean(n)

(* ios_desktop_start: the old manager is forgotten, handles and all.       *)
EmptyDesktop == ios_window_create(ios_window_manager_initialize, Bounds["close"], "close")
CloseButton == [slot |-> Min(Windows), generation |-> 1]

(* ios_shell_start_gui, without the terminal.  A framebuffer of another    *)
(* size than the shadow surface fails in ios_desktop_start, and the        *)
(* desktop of the last time, already cleared, is not active.               *)
CanStart == shell.cui_usable /\ ~shell.gui_running /\ config.available

StartSucceeds ==
    /\ CanStart /\ config.surfaces_match
    /\ active' = TRUE
    /\ \E m \in {EmptyDesktop} : Compose(ios_window_set_pointer(m, 0, 0, TRUE), drawn)

StartFails ==
    /\ ~(CanStart /\ config.surfaces_match)
    /\ active' = (active /\ ~CanStart)
    /\ framebuffer' = Text
    /\ wm' = IF CanStart THEN [ios_window_manager_initialize EXCEPT !.dirty = NoRect] ELSE wm

(* The line that was typed is forgotten whatever came of it.               *)
ExecuteGui ==
    \/ StartSucceeds /\ shell' = [shell EXCEPT !.gui_running = TRUE, !.line = 0]
    \/ StartFails /\ shell' = [shell EXCEPT !.line = 0]

(* ios_desktop_stop as ios_shell_stop_gui calls it: the close button goes, *)
(* the windows of the views stay allocated in the manager that stops.  The *)
(* one manager that results, as a set.                                     *)
ios_desktop_stop ==
    {ios_window_set_pointer(m, 0, 0, FALSE) : m \in {ios_window_destroy(wm, CloseButton)}}

(* Faulty: the desktop is left as it is.                                 *)
ios_shell_stop_gui_leaves_desktop ==
    /\ wm' = wm /\ framebuffer' = framebuffer
    /\ active' = active
    /\ shell' = [shell EXCEPT !.gui_running = FALSE]

ios_shell_stop_gui ==
    /\ IF active THEN \E m \in ios_desktop_stop : Compose(m, drawn)
       ELSE UNCHANGED <<wm, framebuffer>>
    /\ active' = FALSE
    /\ shell' = [shell EXCEPT !.gui_running = FALSE, !.cui_usable = TRUE]

(* Viewers give their channel back before they are forgotten.              *)
Disconnected == [v \in Viewers |-> IF view[v].running THEN sessions[v] - 1 ELSE sessions[v]]
Stopped == [v \in Views |-> [view[v] EXCEPT !.running = FALSE]]

(* Faulty: the explorer is not stopped.                                  *)
StopViews_keeps_explorer ==
             /\ view' = [v \in Views |-> IF v \in Viewers THEN Stopped[v] ELSE view[v]]
             /\ sessions' = Disconnected
             /\ focus' = "none"

StopViews == /\ view' = Stopped
             /\ sessions' = Disconnected
             /\ focus' = "none"

(* return_from_gui_to_cui: the text console clears the screen and prompts. *)
return_from_gui_to_cui ==
    /\ StopViews
    /\ active' = FALSE
    /\ shell' = [shell EXCEPT !.gui_running = FALSE, !.cui_usable = TRUE]
    /\ IF active THEN \E m \in ios_desktop_stop : wm' = Clean(m) ELSE UNCHANGED wm
    /\ framebuffer' = Text

-----------------------------------------------------------------------------
(* Polling.                                                                *)
(* A device reports an event; a full queue drops it.  The Hyper-V devices  *)
(* are read until they are empty, so a step may poll several events.       *)
Pushed(events) == SubSeq(queue \o events, 1, Min({QueueCapacity, Len(queue) + Len(events)}))

PollEvent ==
    /\ At("poll")
    /\ \E e \in Events : queue' = Pushed(<<e>>)
    /\ UNCHANGED <<config, shell, active, wm, drawn, framebuffer, view, focus, sessions, step>>

PollEnds ==
    /\ At("poll") /\ Goto("pop")
    /\ UNCHANGED <<config, shell, active, wm, drawn, framebuffer, view, focus, sessions, queue>>

(* The two commands of the test channel that concern the desktop, where    *)
(* they succeed: a failure goes to the serial line.                        *)
Injected == <<[kind |-> "key", code |-> "text", pressed |-> TRUE],
              [kind |-> "key", code |-> "text", pressed |-> FALSE],
              [kind |-> "move", at |-> <<1, 0>>]>>

test_action_start_gui ==
    /\ At("poll")
    /\ StartSucceeds
    /\ shell' = [shell EXCEPT !.gui_running = TRUE]
    /\ queue' = Pushed(Injected)
    /\ UNCHANGED <<config, drawn, view, focus, sessions, step>>

test_action_gui_recovery ==
    /\ At("poll") /\ CanStart /\ config.surfaces_match
    /\ LET started == ios_window_set_pointer(EmptyDesktop, 0, 0, TRUE)
           stopped == ios_window_set_pointer(ios_window_destroy(started, CloseButton), 0, 0, FALSE)
       IN  /\ wm' = Clean(stopped)
           /\ framebuffer' = [c \in Cells |-> Picture(stopped, drawn, c)]
    /\ active' = FALSE
    /\ view' = [view EXCEPT !["explorer"].running = FALSE]
    /\ UNCHANGED <<config, shell, drawn, focus, sessions, queue, step>>

-----------------------------------------------------------------------------
(* Taking and handling events.                                             *)

(* input_queue_pop, with interrupts disabled.                              *)
input_queue_pop ==
    /\ At("pop")
    /\ \/ /\ queue # <<>>
          /\ queue' = Tail(queue)
          /\ step' = [Frame("handle") EXCEPT !.event = Head(queue)]
       \/ queue = <<>> /\ Goto("cleanup") /\ UNCHANGED queue
    /\ UNCHANGED <<config, shell, active, wm, drawn, framebuffer, view, focus, sessions>>

Event == step.event
IsKey(code) == Event.kind = "key" /\ Event.code = code /\ Event.pressed

(* Faulty: only the button is looked at.                                 *)
CloseRequested_by_button ==
    Event.kind = "button" /\ Event.button = "left" /\ Event.pressed
       /\ Inside(Event.at, Bounds["close"])

(* ios_desktop_handle_input.                                               *)
CloseRequested ==
    \/ IsKey("escape")
    \/ Event.kind = "button" /\ Event.button = "left" /\ Event.pressed
       /\ Inside(Event.at, Bounds["close"])
CloseDesktop ==
    /\ At("handle") /\ shell.gui_running /\ CloseRequested
    /\ return_from_gui_to_cui
    /\ Goto("pop")
    /\ UNCHANGED <<config, drawn, queue>>

(* The view an event is for: the focused one for a key, the one under the  *)
(* pointer for a button.                                                   *)
Receivers ==
    IF Event.kind = "key" THEN {v \in Views : view[v].running /\ focus = v}
    ELSE {v \in Views : view[v].running /\ Inside(Event.at, Bounds[v])}

Raised(v) == IF IsWindow(wm, view[v].handle) THEN ios_window_raise(wm, view[v].handle) ELSE wm
Repainted(m, v) ==
    IF IsWindow(m, view[v].handle) THEN ios_window_invalidate(m, view[v].handle) ELSE m

(* route_*_key and route_*_pointer: the view may draw something new when   *)
(* its handler succeeds, and is repainted then.  A press focuses it.       *)
RouteEvent ==
    /\ At("handle") /\ shell.gui_running /\ ~CloseRequested /\ Event.kind # "move"
    /\ Goto("pop")
    /\ \/ /\ Receivers = {} /\ Goto("pop")
          /\ UNCHANGED <<wm, drawn, focus>>
       \/ \E v \in Receivers, succeeds \in BOOLEAN, new \in 0 .. 1 :
             /\ new # drawn[v] => succeeds /\ Event.pressed
             /\ drawn' = [drawn EXCEPT ![v] = new]
             /\ LET pressed == Event.kind = "button" /\ Event.pressed
                IN  /\ focus' = IF pressed THEN v ELSE focus
                    /\ \E m \in {IF pressed THEN Raised(v) ELSE wm} :
                          wm' = IF succeeds THEN Repainted(m, v) ELSE m
    /\ UNCHANGED <<config, shell, active, framebuffer, view, sessions, queue>>
MovePointer ==
    /\ At("handle") /\ shell.gui_running /\ Event.kind = "move"
    /\ wm' = ios_window_set_pointer(wm, Event.at[1], Event.at[2], TRUE)
    /\ Goto("pop")
    /\ UNCHANGED <<config, shell, active, drawn, framebuffer, view, focus, sessions, queue>>

(* ios_cui_console_feed and, for the event that starts the desktop,        *)
(* execute_line.  Every line but GuiLine fails and prints an error.        *)
ConsoleFeed ==
    /\ At("handle") /\ ~shell.gui_running
    /\ Goto("pop")
    /\ \/ IsKey("enter") /\ shell.line = GuiLine /\ ExecuteGui
       \/ /\ ~(IsKey("enter") /\ shell.line = GuiLine)
          /\ shell' = [shell EXCEPT !.line =
                CASE IsKey("enter")                     -> 0
                  [] IsKey("backspace") /\ @ > 0         -> @ - 1
                  [] IsKey("text") /\ @ < LineLimit      -> @ + 1
                  [] OTHER                               -> @]
          /\ framebuffer' = IF shell' # shell THEN Text ELSE framebuffer
          /\ UNCHANGED <<active, wm>>
    /\ UNCHANGED <<config, drawn, view, focus, sessions, queue>>

-----------------------------------------------------------------------------
(* The end of a step.                                                      *)

Cleanup ==
    /\ At("cleanup") /\ Goto("explorer")
    /\ IF shell.gui_running THEN UNCHANGED <<view, sessions, focus>> ELSE StopViews
    /\ UNCHANGED <<config, shell, active, wm, drawn, framebuffer, queue>>

Needed(v) == shell.gui_running /\ ~view[v].running /\ (v \in Viewers => view[v].ready)
After(v) == IF v = "explorer" THEN "doc" ELSE IF v = "doc" THEN "txt" ELSE "repaint"
Phases == {"explorer", "doc", "txt"}

SkipView ==
    /\ \E v \in Phases : At(v) /\ ~(v \in Views /\ Needed(v)) /\ Goto(After(v))
    /\ UNCHANGED <<config, shell, active, wm, drawn, framebuffer, view, focus, sessions, queue>>

(* start_file_explorer_view and start_*_viewer_view up to the window: the  *)
(* viewer opens its channel, the view is read and drawn.                   *)
OpenView ==
    /\ \E v \in Views :
          /\ At(v) /\ Needed(v) /\ view[v].ready
          /\ step' = [Frame("create") EXCEPT !.view = v]
          /\ drawn' = [drawn EXCEPT ![v] = 0]
          /\ sessions' = [w \in Viewers |-> IF w = v THEN sessions[w] + 1 ELSE sessions[w]]
    /\ UNCHANGED <<config, shell, active, wm, framebuffer, view, focus, queue>>

(* Then the window is created, on the desktop that is there now.           *)
CreateView ==
    /\ \E v \in Views :
          /\ AtCreate(v)
          /\ HasRoom(wm)
          /\ wm' = ios_window_create(wm, Bounds[v], v)
          /\ view' = [view EXCEPT ![v].running = TRUE, ![v].handle = NewHandle(wm)]
          /\ focus' = v
          /\ Goto(After(v))
    /\ UNCHANGED <<config, shell, active, drawn, framebuffer, sessions, queue>>
(* Reading, drawing or the window failed.  A viewer closes its channel and *)
(* is not tried again; without the explorer the desktop stops.             *)
ExplorerFails ==
    /\ (At("explorer") /\ Needed("explorer")) \/ AtCreate("explorer")
    /\ ios_shell_stop_gui
    /\ Goto("doc")
    /\ UNCHANGED <<config, drawn, view, focus, sessions, queue>>
ViewerFails ==
    /\ \E v \in Viewers :
          /\ AtCreate(v)
          /\ view' = [view EXCEPT ![v].ready = FALSE]
          /\ sessions' = [sessions EXCEPT ![v] = @ - 1]
          /\ Goto(After(v))
    /\ UNCHANGED <<config, shell, active, wm, drawn, framebuffer, focus, queue>>
(* ios_desktop_repaint; the step then lets the shell service answer one    *)
(* request and returns.                                                    *)
ios_desktop_repaint ==
    /\ At("repaint")
    /\ Goto("idle")
    /\ IF shell.gui_running THEN Compose(wm, drawn) ELSE UNCHANGED <<wm, framebuffer>>
    /\ UNCHANGED <<config, shell, active, drawn, view, focus, sessions, queue>>

-----------------------------------------------------------------------------
(* Operations of the window manager that no part of the kernel calls yet:  *)
(* they are offered to the owner of a window, here the explorer.           *)

ClientCall ==
    /\ ~Running /\ shell.gui_running /\ view["explorer"].running
    /\ LET h == view["explorer"].handle
       IN  \/ \E p \in Spots : wm' = ios_window_move(wm, h, p[1], p[2])
           \/ \E b \in BOOLEAN : wm' = ios_window_set_visible(wm, h, b)
    /\ wm' # wm
    /\ UNCHANGED <<config, shell, active, drawn, framebuffer, view, focus, sessions, queue, step>>

(* ios_window_render_owned, reached through ios_gui_view_dispatch.         *)
ios_window_render_owned ==
    /\ ~Running /\ shell.gui_running /\ view["explorer"].running
    /\ \E new \in 0 .. 1 : drawn' = [drawn EXCEPT !["explorer"] = new]
    /\ Compose(ios_window_invalidate(wm, view["explorer"].handle), drawn')
    /\ UNCHANGED <<config, shell, active, view, focus, sessions, queue, step>>

StepUnderWay ==
    \/ PollEnds \/ input_queue_pop \/ CloseDesktop \/ RouteEvent \/ MovePointer
    \/ ConsoleFeed \/ Cleanup \/ SkipView \/ OpenView \/ CreateView
    \/ ExplorerFails \/ ViewerFails \/ ios_desktop_repaint

(* runtime_idle: the idle loop enters a step.                              *)
runtime_idle ==
    /\ ~Running /\ Goto("poll")
    /\ UNCHANGED <<config, shell, active, wm, drawn, framebuffer, view, focus, sessions, queue>>

Next ==
    \/ runtime_idle \/ PollEvent \/ test_action_start_gui \/ test_action_gui_recovery
    \/ StepUnderWay \/ ClientCall \/ ios_window_render_owned

(* The idle loop runs a step after every interrupt, and a step goes on     *)
(* until it returns.  A device has only finitely many events at a time, so *)
(* polling ends.                                                           *)
Spec == Init /\ [][Next]_vars /\ WF_vars(runtime_idle) /\ WF_vars(StepUnderWay)

-----------------------------------------------------------------------------
(* Properties.                                                             *)

(* The state components range over what the C types allow: slots and       *)
(* generations of handles, one focus, a bounded queue and line.            *)
Reported == Events \cup Range(Injected)
Steps == [pc : Phases \cup {"idle", "poll", "pop", "handle", "cleanup", "create", "repaint"},
          event : Reported \cup {NoEvent}, view : Views \cup {"none"}]
TypeOK ==
    /\ shell \in [gui_running : BOOLEAN, cui_usable : BOOLEAN, line : 0 .. LineLimit]
    /\ active \in BOOLEAN
    /\ wm \in Managers(Owners \cup {"none"})
    /\ drawn \in [Owners -> 0 .. 1]
    /\ view \in [Views -> [running : BOOLEAN, ready : BOOLEAN, handle : Handles]]
    /\ focus \in Views \cup {"none"}
    /\ sessions \in [Viewers -> 0 .. 1]
    /\ queue \in Seq(Reported) /\ Len(queue) <= QueueCapacity
    /\ step \in Steps /\ (At("handle") => Event \in Reported)

(* Windows stack without gaps and the top visible one has the focus,       *)
(* whatever creations, raises, moves and hidings came before               *)
(* (window_manager.c keeps both by local adjustments).                     *)
StackConsistent == ZOrdersAreDense(wm) /\ FocusIsTop(wm)

(* While the desktop runs, every cell that is not marked dirty already     *)
(* shows what a composition of everything would show: no operation forgets *)
(* a region it has changed (add_dirty and its callers).                    *)
CleanCellsAreCurrent ==
    shell.gui_running =>
        \A c \in Cells \ Pixels(wm.dirty) : framebuffer[c] = Picture(wm, drawn, c)

(* A view that runs on the running desktop has a window there that is its  *)
(* own: its handle cannot be one of an earlier desktop, whose slots and    *)
(* generations the next one uses again (ios_desktop_start).  A window that *)
(* is not the close button belongs to a view that runs.                    *)
RunningViewHasWindow ==
    shell.gui_running =>
        /\ \A v \in Views : view[v].running =>
              IsWindow(wm, view[v].handle) /\ wm.windows[view[v].handle.slot].owner = v
        /\ wm.windows[CloseButton.slot].allocated /\ wm.windows[CloseButton.slot].owner = "close"
        /\ \A s \in Allocated(wm.windows) \ {CloseButton.slot} :
              \E v \in Views : view[v].running /\ view[v].handle.slot = s

(* A viewer holds a channel to the shell exactly while its view runs or is *)
(* being created: every failure and every way of closing gives it back.    *)
ChannelsReturned ==
    \A v \in Viewers : sessions[v] = IF view[v].running \/ AtCreate(v) THEN 1 ELSE 0

(* Whatever fails and whenever the desktop is closed, the command line is  *)
(* alone in charge from then on: the desktop module is stopped, the        *)
(* pointer hidden, and no view is left running or focused.  No view runs   *)
(* or is created without the explorer, the only one whose failure ends the *)
(* desktop, so none is left behind by that.                                *)
CommandLineRecovers ==
    /\ active <=> shell.gui_running
    /\ ~shell.gui_running =>
          /\ ~wm.pointer.visible
          /\ focus = "none" /\ \A v \in Views : ~view[v].running
    /\ focus # "none" => view[focus].running
    /\ ~view["explorer"].running => \A v \in Views : ~view[v].running
    /\ shell.gui_running /\ step.pc \in {"doc", "txt", "repaint"} => view["explorer"].running
    /\ At("create") =>
          /\ shell.gui_running /\ step.view \in Views /\ ~view[step.view].running
          /\ step.view # "explorer" => view["explorer"].running

(* Escape always leads back to the command line: the event cannot be taken *)
(* by a view or stay in the queue.                                         *)
Escape == [kind |-> "key", code |-> "escape", pressed |-> TRUE]
EscapeClosesDesktop ==
    (shell.gui_running /\ queue # <<>> /\ Head(queue) = Escape) ~> ~shell.gui_running

(* A desktop that runs gets its explorer or is stopped.                    *)
ExplorerOrCommandLine ==
    shell.gui_running ~> (view["explorer"].running \/ ~shell.gui_running)

(* The window manager's state fits together and the screen shows it.       *)
ScreenConsistent == TypeOK /\ StackConsistent /\ CleanCellsAreCurrent

(* A view has the window and the channel it needs, and no other has: also  *)
(* after failures and in the next desktop (runtime.c, desktop.c).          *)
ViewsHoldTheirOwn == RunningViewHasWindow /\ ChannelsReturned

(* The desktop comes up or gives way, and Escape always ends it.           *)
DesktopGivesWay == EscapeClosesDesktop /\ ExplorerOrCommandLine
=============================================================================
