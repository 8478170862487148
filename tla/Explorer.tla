------------------------------ MODULE Explorer ------------------------------
(***************************************************************************)
(* The file explorer's window and the directories it walks through:         *)
(* gui/file_explorer/model.c, window.c and client.c, started by             *)
(* kernel/runtime.c over the namespace.  The two viewers run the same code   *)
(* on a view of one type of file, so a window here shows either.  While the  *)
(* desktop is up the console takes no command, and the directories a window *)
(* has read do not change under it.                                         *)
(***************************************************************************)
EXTENDS Namespace

CONSTANTS EntryCapacity,        \* IOS_FILE_EXPLORER_ENTRY_CAPACITY
          HistoryCapacity,      \* IOS_FILE_EXPLORER_HISTORY_CAPACITY
          Columns, Rows,        \* whole cells that fit in the window
          StripRows,            \* rows that only begin in it: 1 when space is left below
          DesktopFrom           \* bound: current directories the desktop is started from

ASSUME ExplorerAssumption ==
    /\ {EntryCapacity, HistoryCapacity, Columns, Rows} \subseteq Nat \ {0}
    /\ StripRows \in {0, 1}

VARIABLES gui,          \* the desktop is up, with the window in it
          window        \* struct ios_file_explorer_window and its model

vars == <<nsVars, gui, window>>

RootLocation == [base |-> "/", rank |-> 1]
Closed == [view |-> None, handle |-> Root, entries |-> <<>>, selected |-> 0, history |-> <<>>,
           first |-> 0, location |-> RootLocation, locations |-> <<>>, pending |-> 0]

\* The entries of a directory as refresh_directory keeps them: the view as far
\* as there is room for it, with the labels those entries need among themselves.
Shown(view, d) ==
    LET read == ios_file_explorer_client_file_view(fs, d, view, EntryCapacity).read
        label(k) == ios_display_safe_entries_disambiguate(fs, d, Range(read), k)
    IN  [i \in DOMAIN read |-> [id |-> Identity(fs, d, read[i]), label |-> label(read[i])]]

\* refresh_directory; a read that fails leaves the model as it was
refresh_directory(w, d) ==
    [w EXCEPT !.handle = d, !.entries = Shown(w.view, d), !.selected = 0]

\* the gui command, and start_file_explorer_view: with no volume the window is
\* up and empty.  The window has nothing to do with the current directory.
StartView(view) ==
    /\ ~gui
    /\ cwd \in DesktopFrom
    /\ gui' = TRUE
    /\ window' = LET w == [Closed EXCEPT !.view = view]
                 IN  IF mounted THEN refresh_directory(w, Root) ELSE w
    /\ status' = "ok"
    /\ UNCHANGED <<fs, mounted, cwd, cwdIdentity, lost>>

-----------------------------------------------------------------------------
\* activate_selection and ios_file_explorer_model_activate
Enter(w, i) == [refresh_directory(w, w.entries[i].id.cluster) EXCEPT
    !.history = Append(@, w.handle),
    !.locations = Append(@, w.location),
    !.location = w.entries[i].label,
    !.first = 0]

activate_selection(w) ==
    IF w.entries[w.selected].id.kind # "directory" \/ Len(w.history) >= HistoryCapacity
    THEN w ELSE Enter(w, w.selected)

navigate_back(w) ==
    IF w.history = <<>> THEN w
    ELSE [refresh_directory(w, Last(w.history)) EXCEPT
            !.history = Front(@), !.location = Last(w.locations),
            !.locations = Front(@), !.first = 0]

\* a repaint after an event that succeeded starts again at the top when the
\* first visible entry is gone
Rendered(w) == IF w.first >= Len(w.entries) THEN [w EXCEPT !.first = 0] ELSE w

\* rows are counted from 0 here, entries from 1
ensure_selection_visible(w) ==
    LET selected == w.selected - 1
        row == selected \div Columns
    IN  CASE selected < w.first -> [w EXCEPT !.first = row * Columns]
          [] selected >= w.first + Columns * Rows -> [w EXCEPT !.first = (row - Rows + 1) * Columns]
          [] OTHER -> w

Keys == {"left", "right", "up", "down"}

\* fault: the remembered click is kept.
KeepClick(w) == w

DropClick(w) == [w EXCEPT !.pending = 0]

ArrowKey(w, key) ==
    LET count == Len(w.entries)
        index == IF w.selected = 0 THEN 0 ELSE w.selected - 1
        moved == CASE key = "left" /\ index > 0 -> index - 1
                   [] key = "right" /\ index + 1 < count -> index + 1
                   [] key = "up" /\ index >= Columns -> index - Columns
                   [] key = "down" /\ index + Columns < count -> index + Columns
                   [] OTHER -> index
    IN  IF count = 0 THEN DropClick(w)
        ELSE ensure_selection_visible([DropClick(w) EXCEPT !.selected = moved + 1])

\* a press on a cell: the second one on the same entry, soon enough, opens it
Press(w, cell, soon) ==
    LET index == w.first + cell + 1
        at == [w EXCEPT !.selected = index]
    IN  IF index > Len(w.entries) THEN DropClick(w)
        ELSE IF w.pending = index /\ soon
             THEN activate_selection([at EXCEPT !.pending = 0])
        ELSE [at EXCEPT !.pending = index]

Handle(w) == gui /\ window' = Rendered(w) /\ UNCHANGED <<nsVars, gui>>

Pointer == \E cell \in 0 .. Columns * (Rows + StripRows) - 1, soon \in BOOLEAN :
              Handle(Press(window, cell, soon))
Arrow == \E key \in Keys : Handle(ArrowKey(window, key))
EnterKey == window.selected # 0 /\ Handle(activate_selection(DropClick(window)))
BackspaceKey == Handle(navigate_back(DropClick(window)))
OtherKey == Handle(DropClick(window))

StopView == gui /\ gui' = FALSE /\ window' = Closed /\ UNCHANGED nsVars

ExplorerInit == Init /\ gui = FALSE /\ window = Closed

Next ==
    \/ ~gui /\ Command /\ UNCHANGED <<gui, window>>
    \/ \E view \in Views : view.operation # "search" /\ StartView(view)
    \/ Pointer
    \/ Arrow
    \/ EnterKey
    \/ BackspaceKey
    \/ OtherKey
    \/ StopView

Spec == ExplorerInit /\ [][Next]_vars

-----------------------------------------------------------------------------
\* Types: positions lie within the entries, and the histories keep step.
TypeOK ==
    /\ NamespaceTypeOK
    /\ gui \in BOOLEAN
    /\ window.selected \in 0 .. Len(window.entries)
    /\ window.pending \in 0 .. Len(window.entries)
    /\ Len(window.history) = Len(window.locations)
    /\ Len(window.history) <= HistoryCapacity

\* What the window says is where it is: each step back in the history is the
\* directory the ".." record names, each location the label of the directory
\* under it, and the title the label of the one on show (window.c, model.c).
Walk == Append(window.history, window.handle)
Titles == Append(window.locations, window.location)
LocationFollowsHistory ==
    gui =>
        /\ Walk[1] = Root /\ Titles[1] = RootLocation
        /\ \A i \in 2 .. Len(Walk) :
            /\ fs.disk[Walk[i]][2] = Internal(Walk[i - 1])
            /\ [id |-> [kind |-> "directory", cluster |-> Walk[i], slot |-> 0], label |-> Titles[i]]
                 \in Range(Shown(window.view, Walk[i - 1]))
        /\ mounted => window.entries = Shown(window.view, window.handle)

\* A double click opens what the first click chose: as long as a click is
\* remembered, its entry is the one selected (window.c).
ClickChoseSelection == window.pending # 0 => window.pending = window.selected

\* After an arrow key the selected entry is among the cells drawn, whatever was
\* selected before, the entry of a cell that is cut off included.
ArrowShowsSelection ==
    gui => \A key \in Keys : LET w == Rendered(ArrowKey(window, key)) IN
        w.selected # 0 => w.selected - 1 \in w.first .. w.first + Columns * Rows - 1

\* Directories stay well-formed under every order of commands and windows.
DirectoriesSound == TypeOK /\ TreeIsTree

\* What a person is shown is there, all of it, and can be named by what is
\* shown (file_view.c, display_safe_entry.c, search_directory, client.c).
ViewsComplete == LabelsSelect /\ SearchFindsAll /\ PagesAreTheView

\* The window's title, history, selection and remembered click agree with one
\* another and with the directory on show.
WindowAgrees == LocationFollowsHistory /\ ClickChoseSelection /\ ArrowShowsSelection
=============================================================================
