----------------------------- MODULE Namespace -----------------------------
(***************************************************************************)
(* Names, paths and the commands of the console that use them: vfs/path.c,  *)
(* vfs/directory.c and vfs/file.c over the directories of file_service.c,   *)
(* the display names of kernel/syscall/file_view.c and                      *)
(* shell/display_safe_entry.c, and the commands of cui/file_commands.c and  *)
(* cui/directory_commands.c through kernel/syscall/file_command.c.          *)
(*                                                                          *)
(* Two ways to name a file live side by side.  A canonical path is looked   *)
(* up by the full 8.3 name, a display path by the name without extension    *)
(* that dir prints, with " (2)", " (3)" on the labels that would collide.   *)
(* Case never counts in a lookup; it counts where the code compares text.   *)
(* A command runs to its end in one step, and each operation of the file    *)
(* service is one step here: FileService has its order of writes, its       *)
(* failures and its content clusters.                                       *)
(***************************************************************************)
EXTENDS Integers, Sequences, FiniteSets, SequencesExt

CONSTANTS LastCluster,          \* clusters 2..LastCluster can hold directories
          Slots,                \* records in a directory
          Levels,               \* IOS_VFS_MAX_DIRECTORY_LEVELS
          ViewCapacity,         \* IOS_FILE_VIEW_DIRECTORY_CAPACITY
          SearchCapacity,       \* IOS_VFS_SEARCH_RESULT_CAPACITY
          ReplyCapacity,        \* IOS_SHELL_FILE_VIEW_REPLY_CAPACITY
          MaxReplyPages,        \* IOS_FILE_EXPLORER_MAX_REPLY_PAGES
          Ext,                  \* file name extensions in use
          Operand,              \* the paths a person types
          RenameTo,             \* those of them given to rename as its destination
          Disk                  \* the file systems the volume may hold at first

Root == 2                       \* IOS_FS_ROOT_CLUSTER, IOS_VFS_ROOT_OBJECT_ID
Cluster == Root .. LastCluster
Slot == 1 .. Slots
NoExt == "-"

ASSUME NamespaceAssumption ==
    /\ LastCluster \in Nat /\ LastCluster >= Root
    /\ Slots \in Nat /\ Slots > 3
    /\ {Levels, ViewCapacity, SearchCapacity, ReplyCapacity, MaxReplyPages} \subseteq Nat \ {0}
    /\ NoExt \notin Ext

VARIABLES fs,           \* the directories: [disk, used]
          mounted,      \* vfs.mounted of the root volume
          cwd,          \* path.current_directory, component by component
          cwdIdentity,  \* path.current_directory_identity
          status,       \* what the last command returned
          lost          \* ghost: the current directory was removed under another spelling

nsVars == <<fs, mounted, cwd, cwdIdentity, status, lost>>

-----------------------------------------------------------------------------
(* What a person types is a path: absolute or not, and a sequence of         *)
(* components.  A component has a base, an extension, the number of a label  *)
(* (1: none) and a spelling, upper or lower case.                            *)

Dot == [base |-> ".", ext |-> NoExt, rank |-> 1, upper |-> FALSE]
DotDot == [base |-> "..", ext |-> NoExt, rank |-> 1, upper |-> FALSE]

\* append_component: "." stays, ".." leaves the last component (and stays at
\* the root), anything else goes one level down
append_component(done, c) ==
    IF done.status # "ok" \/ c = Dot THEN done
    ELSE IF c = DotDot
         THEN [done EXCEPT !.parts = IF @ = <<>> THEN @ ELSE Front(@)]
    ELSE IF Len(done.parts) >= Levels - 1 THEN [done EXCEPT !.status = "out_of_range"]
    ELSE [done EXCEPT !.parts = Append(@, c)]

vfs_path_normalize(path) ==
    LET start == [status |-> "ok", parts |-> IF path.absolute THEN <<>> ELSE cwd]
    IN  FoldLeft(append_component, start, path.parts)

\* canonical_component: the stored name has neither case nor label number
Canonical(c) == [base |-> c.base, ext |-> c.ext]
Storable(c) == c.rank = 1

-----------------------------------------------------------------------------
(* Directories.  A file is a pair of slots, companion and primary, and is    *)
(* known by the place of its primary; a directory is one slot, and is known  *)
(* by its cluster.                                                           *)

Free == [kind |-> "free"]
Companion == [kind |-> "companion"]
Internal(c) == [kind |-> "internal", first |-> c]
File(name, content) == [kind |-> "file", name |-> name, content |-> content]
Directory(name, c) == [kind |-> "directory", name |-> name, first |-> c]

Blank == [k \in Slot |-> Free]
make_internal_records(c, parent) ==
    [k \in Slot |-> CASE k = 1 -> Internal(c) [] k = 2 -> Internal(parent) [] OTHER -> Free]

Formatted == [disk |-> [c \in Cluster |-> Blank], used |-> {Root}]

Lowest(S) == CHOOSE k \in S : \A j \in S : k <= j

Entries(s, d) == {k \in Slot : s.disk[d][k].kind \in {"file", "directory"}}
\* the order in which ios_fs_directory_scan meets them
Scan(s, d) == SelectSeq([k \in Slot |-> k], LAMBDA k : k \in Entries(s, d))

Identity(s, d, k) ==
    IF s.disk[d][k].kind = "directory"
    THEN [kind |-> "directory", cluster |-> s.disk[d][k].first, slot |-> 0]
    ELSE [kind |-> "file", cluster |-> d, slot |-> k]
RootIdentity == [kind |-> "directory", cluster |-> Root, slot |-> 0]
None == [kind |-> "none"]

find_in_directory(s, d, name) == {k \in Entries(s, d) : s.disk[d][k].name = name}

find_display_base_in_directory(s, d, base, ignored) ==
    {k \in Entries(s, d) \ ignored : s.disk[d][k].name.base = base}

find_file_slots(s, d) ==
    {k \in 2 .. Slots : s.disk[d][k - 1] = Free /\ s.disk[d][k] = Free}
find_directory_slot(s, d) == {k \in Slot : s.disk[d][k] = Free}

\* ios_fs_file_service_lookup
ios_fs_file_service_lookup(s, at, c) ==
    IF ~Storable(c) THEN [status |-> "invalid_argument", id |-> None]
    ELSE LET found == find_in_directory(s, at.cluster, Canonical(c))
         IN  IF found = {} THEN [status |-> "not_found", id |-> None]
             ELSE [status |-> "ok", id |-> Identity(s, at.cluster, Lowest(found))]

resolve_normalized(s, parts) ==
    FoldLeft(LAMBDA at, c : IF at.status # "ok" THEN at
                            ELSE IF at.id.kind # "directory"
                                 THEN [status |-> "not_found", id |-> None]
                            ELSE ios_fs_file_service_lookup(s, at.id, c),
             [status |-> "ok", id |-> RootIdentity], parts)

-----------------------------------------------------------------------------
(* Display names.  The number of a label is the rank of the object among     *)
(* those with its base, by identity: directories by cluster, then files, the *)
(* file bit being the highest, by place.                                     *)

Before(p, q) ==
    IF p.kind # q.kind THEN p.kind = "directory"
    ELSE p.cluster < q.cluster \/ (p.cluster = q.cluster /\ p.slot < q.slot)

ios_display_safe_entries_disambiguate(s, d, shown, k) ==
    [base |-> s.disk[d][k].name.base,
     rank |-> 1 + Cardinality({j \in shown :
                    /\ s.disk[d][j].name.base = s.disk[d][k].name.base
                    /\ Before(Identity(s, d, j), Identity(s, d, k))})]
\* snapshot_directory
snapshot_directory(s, d) ==
    [status |-> IF Cardinality(Entries(s, d)) > ViewCapacity THEN "no_space" ELSE "ok",
     label |-> [k \in Entries(s, d) |->
                  ios_display_safe_entries_disambiguate(s, d, Entries(s, d), k)]]

display_component_equal(label, c) ==
    c.ext = NoExt /\ label.base = c.base /\ label.rank = c.rank

SelectLabel(s, at, c) ==
    LET view == snapshot_directory(s, at.cluster)
        selected == {k \in DOMAIN view.label : display_component_equal(view.label[k], c)}
    IN  IF view.status # "ok" THEN [status |-> view.status, id |-> None]
        ELSE IF selected = {} THEN [status |-> "not_found", id |-> None]
        ELSE IF Cardinality(selected) > 1 THEN [status |-> "corrupt", id |-> None]
        ELSE [status |-> "ok", id |-> Identity(s, at.cluster, Lowest(selected))]

resolve_normalized_display_path(s, parts) ==
    FoldLeft(LAMBDA at, c : IF at.status # "ok" THEN at
                            ELSE IF at.id.kind # "directory"
                                 THEN [status |-> "not_found", id |-> None]
                            ELSE SelectLabel(s, at.id, c),
             [status |-> "ok", id |-> RootIdentity], parts)
-----------------------------------------------------------------------------
(* Changes to the directories: each returns the status and the directories   *)
(* it leaves.                                                                *)

Failed(s, why) == [fs |-> s, status |-> why]
Done(s) == [fs |-> s, status |-> "ok"]

PutPair(s, d, k, file) ==
    [s EXCEPT !.disk[d] = [@ EXCEPT ![k - 1] = Companion, ![k] = file]]

delete_located(s, d, k) ==
    [s EXCEPT !.disk[d] = [j \in Slot |-> IF j = k \/ (j = k - 1 /\ @[k].kind = "file")
                                          THEN Free ELSE @[j]]]

\* fault: only a whole name that is there already is refused.
CreateByFullName(s, d, name) ==
    IF find_in_directory(s, d, name) # {} THEN Failed(s, "already_exists")
    ELSE IF find_file_slots(s, d) = {} THEN Failed(s, "no_space")
    ELSE Done(PutPair(s, d, Lowest(find_file_slots(s, d)), File(name, "empty")))

create_file_in_directory(s, d, name) ==
    IF find_display_base_in_directory(s, d, name.base, {}) # {} THEN Failed(s, "already_exists")
    ELSE IF find_file_slots(s, d) = {} THEN Failed(s, "no_space")
    ELSE Done(PutPair(s, d, Lowest(find_file_slots(s, d)), File(name, "empty")))

ios_fs_file_service_create_directory(s, d, name) ==
    LET slot == find_directory_slot(s, d)
        free == Cluster \ s.used
    IN  IF find_display_base_in_directory(s, d, name.base, {}) # {}
        THEN Failed(s, "already_exists")
        ELSE IF slot = {} \/ free = {} THEN Failed(s, "no_space")
        ELSE LET c == Lowest(free)
             IN  Done([used |-> s.used \cup {c},
                       disk |-> [s.disk EXCEPT ![c] = make_internal_records(c, d),
                                               ![d][Lowest(slot)] = Directory(name, c)]])

\* fault: any directory may be removed.
NeverChecked(s, c) == TRUE

directory_is_empty(s, c) == Entries(s, c) = {}

\* the cluster is returned to the FAT; its bytes no longer matter, every
\* directory being written whole when it is made
ios_fs_file_service_remove_directory(s, d, k) ==
    LET c == s.disk[d][k].first
    IN  IF ~directory_is_empty(s, c) THEN Failed(s, "not_empty")
        ELSE Done([used |-> s.used \ {c},
                   disk |-> [delete_located(s, d, k).disk EXCEPT ![c] = Blank]])


\* between directories the new pair is written first and the old one deleted
MoveFile(s, from, k, d, file) ==
    IF find_file_slots(s, d) = {} THEN Failed(s, "no_space")
    ELSE Done(delete_located(PutPair(s, d, Lowest(find_file_slots(s, d)), file), from, k))

rename_located(s, source, d, name) ==
    LET from == source.cluster
        k == source.slot
        file == [s.disk[from][k] EXCEPT !.name = name]
        ignored == IF from = d THEN {k} ELSE {}
    IN  IF find_in_directory(s, d, name) # {}
        THEN IF from = d /\ s.disk[from][k].name = name THEN Done(s)
             ELSE Failed(s, "already_exists")
        ELSE IF find_display_base_in_directory(s, d, name.base, ignored) # {}
             THEN Failed(s, "already_exists")
        ELSE IF from = d THEN Done(PutPair(s, d, k, file))
        ELSE MoveFile(s, from, k, d, file)

\* the base is new and has no dot in it, the extension stays
ios_fs_file_service_rename_object(s, source, parent, c) ==
    IF parent.kind # "directory" \/ c.ext # NoExt \/ ~Storable(c)
    THEN Failed(s, "invalid_argument")
    ELSE rename_located(s, source, parent.cluster,
                        [s.disk[source.cluster][source.slot].name EXCEPT !.base = c.base])

\* split_path and resolve_parent of vfs/directory.c, and the driver's check of the name
resolve_parent(s, path) ==
    LET at == vfs_path_normalize(path)
        parent == resolve_normalized(s, Front(at.parts))
    IN  [status |-> IF at.status # "ok" THEN at.status
                    ELSE IF at.parts = <<>> THEN "invalid_argument"
                    ELSE IF parent.status # "ok" THEN parent.status
                    ELSE IF parent.id.kind # "directory" THEN "not_found"
                    ELSE IF ~Storable(Last(at.parts)) THEN "invalid_argument"
                    ELSE "ok",
         id |-> parent.id, parts |-> at.parts]

vfs_create_file(s, path) ==
    LET at == resolve_parent(s, path)
    IN  IF at.status # "ok" THEN Failed(s, at.status)
        ELSE create_file_in_directory(s, at.id.cluster, Canonical(Last(at.parts)))

vfs_create_directory(s, path) ==
    LET at == resolve_parent(s, path)
    IN  IF at.status # "ok" THEN Failed(s, at.status)
        ELSE ios_fs_file_service_create_directory(s, at.id.cluster, Canonical(Last(at.parts)))

vfs_remove_directory(s, parts) ==
    LET target == resolve_normalized(s, parts)
        parent == resolve_normalized(s, Front(parts)).id.cluster
    IN  IF parts = <<>> THEN Failed(s, "invalid_argument")
        ELSE IF target.status # "ok" THEN Failed(s, target.status)
        ELSE IF target.id.kind # "directory" THEN Failed(s, "invalid_argument")
        ELSE ios_fs_file_service_remove_directory(
                 s, parent, Lowest(find_in_directory(s, parent, Canonical(Last(parts)))))

\* fault: the current directory is not looked at.
NothingIsCurrent(parts) == FALSE

\* directory_remove of the runtime: the text typed must not be the current
\* directory or one above it, byte for byte
HoldsCurrent(parts) == IsPrefix(parts, cwd) /\ (parts = <<>> => cwd = <<>>)

directory_remove(s, path) ==
    LET at == vfs_path_normalize(path)
    IN  IF at.status # "ok" THEN Failed(s, at.status)
        ELSE IF HoldsCurrent(at.parts) THEN Failed(s, "busy")
        ELSE vfs_remove_directory(s, at.parts)

ios_file_view_resolve_display_path(s, path) ==
    LET at == vfs_path_normalize(path)
    IN  IF at.status # "ok" THEN [status |-> at.status, id |-> None]
        ELSE resolve_normalized_display_path(s, at.parts)

resolve_regular(s, path) ==
    LET r == ios_file_view_resolve_display_path(s, path)
    IN  IF r.status = "ok" /\ r.id.kind # "file"
        THEN [status |-> "invalid_argument", id |-> None] ELSE r

ContentOf(s, id) == s.disk[id.cluster][id.slot].content
SetContent(s, id, content) ==
    [s EXCEPT !.disk[id.cluster][id.slot].content = content]

\* a file is written only while it is empty; text is all a person can type
ios_file_command_write(s, path, bytes) ==
    LET r == resolve_regular(s, path)
    IN  IF r.status # "ok" THEN Failed(s, r.status)
        ELSE IF ContentOf(s, r.id) # "empty" THEN Failed(s, "unexpected_format")
        ELSE Done(SetContent(s, r.id, bytes))

validate_existing_text(s, id) == ContentOf(s, id) # "binary"

ios_file_command_append(s, path, bytes) ==
    LET r == resolve_regular(s, path)
    IN  IF r.status # "ok" THEN Failed(s, r.status)
        ELSE IF ~validate_existing_text(s, r.id) THEN Failed(s, "unexpected_format")
        ELSE Done(SetContent(s, r.id, bytes))

ios_file_command_cat(s, path) ==
    LET r == resolve_regular(s, path)
    IN  IF r.status # "ok" THEN Failed(s, r.status)
        ELSE IF ~validate_existing_text(s, r.id) THEN Failed(s, "unexpected_format")
        ELSE Done(s)

ios_file_command_remove(s, path) ==
    LET r == resolve_regular(s, path)
    IN  IF r.status # "ok" THEN Failed(s, r.status)
        ELSE Done(delete_located(s, r.id.cluster, r.id.slot))

\* split_destination, resolve the parent, and rename
ios_file_command_rename(s, source, destination) ==
    LET r == resolve_regular(s, source)
        at == vfs_path_normalize(destination)
        parent == resolve_normalized_display_path(s, Front(at.parts))
    IN  IF r.status # "ok" THEN Failed(s, r.status)
        ELSE IF at.status # "ok" THEN Failed(s, at.status)
        ELSE IF at.parts = <<>> THEN Failed(s, "invalid_argument")
        ELSE IF parent.status # "ok" THEN Failed(s, parent.status)
        ELSE ios_fs_file_service_rename_object(s, r.id, parent.id, Last(at.parts))

\* write_command: when no label matches, create the file and try again
write_command(s, path, bytes) ==
    LET first == ios_file_command_write(s, path, bytes)
        made == vfs_create_file(s, path)
    IN  IF first.status # "not_found" THEN first
        ELSE IF made.status \notin {"ok", "already_exists"} THEN made
        ELSE ios_file_command_write(made.fs, path, bytes)

\* runtime_file_type reads by the canonical path
runtime_file_type(s, path) ==
    LET at == vfs_path_normalize(path)
        r == resolve_normalized(s, at.parts)
    IN  IF at.status # "ok" THEN Failed(s, at.status)
        ELSE IF at.parts = <<>> THEN Failed(s, "invalid_argument")
        ELSE IF r.status # "ok" THEN Failed(s, r.status)
        ELSE IF r.id.kind # "file" THEN Failed(s, "invalid_argument")
        ELSE Done(s)

ios_file_view_list_directory_path(s, path) ==
    LET at == vfs_path_normalize(path)
        r == resolve_normalized(s, at.parts)
    IN  IF at.status # "ok" THEN Failed(s, at.status)
        ELSE IF r.status # "ok" THEN Failed(s, r.status)
        ELSE IF r.id.kind # "directory" THEN Failed(s, "invalid_argument")
        ELSE Failed(s, snapshot_directory(s, r.id.cluster).status)

-----------------------------------------------------------------------------
(* The search for an extension walks the tree with one buffer for a          *)
(* directory: a subdirectory is read over the directory it is in, which is   *)
(* read again when the walk comes back.                                      *)

ios_fs_record_pair_matches_extension(record, ext) ==
    record.kind = "file" /\ record.name.ext = ext

\* fault: the parent is not read again after a subdirectory.
StayIn(d, walk) == walk

BackTo(d, walk) == [walk EXCEPT !.buffer = d]

RECURSIVE search_directory(_, _, _, _, _, _, _)
search_directory(s, ext, d, depth, path, index, walk) ==
    LET scan == Scan(s, walk.buffer)
        k == scan[index]
        entry == s.disk[walk.buffer][k]
        child == Append(path, entry.name.base)
        found == Append(walk.found, [id |-> Identity(s, walk.buffer, k), path |-> child])
        next(w) == search_directory(s, ext, d, depth, path, index + 1, w)
    IN  IF walk.status # "ok" \/ walk.stop \/ index > Len(scan) THEN walk
        ELSE IF entry.kind = "directory" /\ depth >= Levels THEN [walk EXCEPT !.status = "corrupt"]
        ELSE IF entry.kind = "directory"
             THEN next(BackTo(d, search_directory(s, ext, entry.first, depth + 1, child, 1,
                                                  [walk EXCEPT !.buffer = entry.first])))
        ELSE IF ~ios_fs_record_pair_matches_extension(entry, ext) THEN next(walk)
        ELSE IF Len(walk.found) = SearchCapacity
             THEN [walk EXCEPT !.truncated = TRUE, !.stop = TRUE]
        ELSE next([walk EXCEPT !.found = found])

ios_fs_file_service_search_extension(s, ext) ==
    search_directory(s, ext, Root, 0, <<>>, 1,
        [status |-> "ok", buffer |-> Root, found |-> <<>>, truncated |-> FALSE, stop |-> FALSE])

-----------------------------------------------------------------------------
(* A view is read in pages: a page is cut from the directory, then what is   *)
(* not of the type asked for is dropped from it.                             *)

Wanted(record, view) ==
    CASE view.operation = "directory" -> TRUE
      [] view.operation = "type" -> record.kind = "directory" \/ record.name.ext = view.ext
      [] view.operation = "search" -> record.kind = "file" /\ record.name.ext = view.ext

\* ios_fs_file_service_enumerate: the position of the first entry left out, or 0
ios_fs_file_service_enumerate(s, d, continuation, capacity) ==
    LET scan == Scan(s, d)
        last == IF continuation + capacity < Len(scan) THEN continuation + capacity ELSE Len(scan)
    IN  [page |-> SubSeq(scan, continuation + 1, last),
         next |-> IF last < Len(scan) THEN last ELSE 0]
ios_file_view_dispatch(s, d, view, continuation, maximum) ==
    LET r == ios_fs_file_service_enumerate(s, d, continuation, maximum)
    IN  [r EXCEPT !.page = SelectSeq(@, LAMBDA k : Wanted(s.disk[d][k], view))]

RECURSIVE ReadPages(_, _, _, _, _, _, _)
ReadPages(s, d, view, capacity, read, continuation, page) ==
    LET remaining == capacity - Len(read)
        maximum == IF remaining < ReplyCapacity THEN remaining ELSE ReplyCapacity
        reply == ios_file_view_dispatch(s, d, view, continuation, maximum)
        all == read \o reply.page
    IN  IF page > MaxReplyPages THEN [status |-> "overflow", read |-> read]
        ELSE IF reply.next # 0 /\ reply.next = continuation
             THEN [status |-> "protocol", read |-> read]
        ELSE IF reply.next = 0 \/ Len(all) = capacity THEN [status |-> "ok", read |-> all]
        ELSE ReadPages(s, d, view, capacity, all, reply.next, page + 1)

ios_file_explorer_client_file_view(s, d, view, capacity) ==
    ReadPages(s, d, view, capacity, <<>>, 0, 1)

-----------------------------------------------------------------------------
(* The console's commands.                                                   *)

Init ==
    /\ fs \in Disk
    /\ mounted = FALSE
    /\ cwd = <<>>
    /\ cwdIdentity = RootIdentity
    /\ status = "ok"
    /\ lost = FALSE

\* of the ways to fail only that of a missing name is kept apart
Told(why) == IF why \in {"ok", "not_found"} THEN why ELSE "refused"

\* with no volume every command is refused, in one way or another
Run(r, unmounted) ==
    /\ status' = Told(IF mounted THEN r.status ELSE unmounted)
    /\ fs' = IF mounted THEN r.fs ELSE fs

Here == UNCHANGED <<mounted, cwd, cwdIdentity, lost>>

Bytes == {"text"}

CreateCommand(path) == Run(vfs_create_file(fs, path), "invalid_state") /\ Here
MkdirCommand(path) == Run(vfs_create_directory(fs, path), "invalid_state") /\ Here
WriteCommand(path, bytes) == Run(write_command(fs, path, bytes), "invalid_state") /\ Here
AppendCommand(path, bytes) ==
    Run(ios_file_command_append(fs, path, bytes), "invalid_state") /\ Here
DeleteCommand(path) == Run(ios_file_command_remove(fs, path), "invalid_state") /\ Here
RenameCommand(source, destination) ==
    Run(ios_file_command_rename(fs, source, destination), "invalid_state") /\ Here
CatCommand(path) == Run(ios_file_command_cat(fs, path), "invalid_state") /\ Here
TypeCommand(path) == Run(runtime_file_type(fs, path), "invalid_state") /\ Here
DirCommand(path) == Run(ios_file_view_list_directory_path(fs, path), "invalid_argument") /\ Here
SearchCommand(ext) ==
    Run(Failed(fs, ios_fs_file_service_search_extension(fs, ext).status), "not_found") /\ Here

\* rmdir; the ghost notes that the current directory was removed, spelled
\* otherwise than its own text
RmdirCommand(path) ==
    LET parts == vfs_path_normalize(path).parts
    IN  /\ Run(directory_remove(fs, path), "invalid_state")
        /\ lost' = (lost \/ (/\ mounted /\ status' = "ok" /\ parts # cwd
                             /\ resolve_normalized(fs, parts).id = cwdIdentity))
        /\ UNCHANGED <<mounted, cwd, cwdIdentity>>

NotDirectory(id) == id.kind # "directory"

\* vfs_path_set_current
CdCommand(path) ==
    LET at == vfs_path_normalize(path)
        r == resolve_normalized(fs, at.parts)
        why == IF ~mounted THEN "invalid_state"
               ELSE IF at.status # "ok" THEN at.status
               ELSE IF r.status # "ok" THEN r.status
               ELSE IF NotDirectory(r.id) THEN "invalid_argument" ELSE "ok"
    IN  /\ status' = Told(why)
        /\ IF why = "ok" THEN cwd' = at.parts /\ cwdIdentity' = r.id /\ lost' = FALSE
           ELSE UNCHANGED <<cwd, cwdIdentity, lost>>
        /\ UNCHANGED <<fs, mounted>>

\* the volume comes and goes; a mount starts again at the root
\* (vfs_path_context_initialize), and a volume is formatted while unmounted
StartAtRoot == cwd' = <<>> /\ cwdIdentity' = RootIdentity

Mount ==
    /\ ~mounted
    /\ mounted' = TRUE
    /\ StartAtRoot
    /\ lost' = FALSE
    /\ status' = "ok"
    /\ UNCHANGED fs

Unmount ==
    /\ mounted
    /\ mounted' = FALSE
    /\ status' = "ok"
    /\ UNCHANGED <<fs, cwd, cwdIdentity, lost>>

Format ==
    /\ ~mounted
    /\ fs' = Formatted
    /\ status' = "ok"
    /\ Here

Command ==
    \/ \E path \in Operand : \/ CreateCommand(path)
                             \/ MkdirCommand(path)
                             \/ DeleteCommand(path)
                             \/ CatCommand(path)
                             \/ TypeCommand(path)
                             \/ DirCommand(path)
                             \/ RmdirCommand(path)
                             \/ CdCommand(path)
    \/ \E path \in Operand, bytes \in Bytes : \/ WriteCommand(path, bytes)
                                              \/ AppendCommand(path, bytes)
    \/ \E source \in Operand, destination \in RenameTo : RenameCommand(source, destination)
    \/ \E ext \in Ext : SearchCommand(ext)
    \/ Mount
    \/ Unmount
    \/ Format

-----------------------------------------------------------------------------
IsRecord(r) ==
    \/ r \in {Free, Companion}
    \/ r.kind = "internal" /\ r.first \in Cluster
    \/ r.kind = "directory" /\ r.first \in Cluster \ {Root} /\ r.name.ext \in Ext \cup {NoExt}
    \/ r.kind = "file" /\ r.name.ext \in Ext \cup {NoExt}
       /\ r.content \in {"empty", "text", "binary"}

\* Types: directories are made of records, and the current directory is a path
\* with a directory's identity.
NamespaceTypeOK ==
    /\ \A d \in Cluster, k \in Slot : IsRecord(fs.disk[d][k])
    /\ Root \in fs.used /\ fs.used \subseteq Cluster
    /\ {mounted, lost} \subseteq BOOLEAN
    /\ Len(cwd) < Levels
    /\ cwdIdentity.kind = "directory"

\* The entries that lead to a directory.
EntriesOf(c) ==
    {<<d, k>> \in fs.used \X Slot :
        fs.disk[d][k].kind = "directory" /\ fs.disk[d][k].first = c}

\* The directories form a tree (mkdir, rmdir: file_service.c): each one but the
\* root has exactly one entry, in the directory its ".." record names, and none
\* in use hangs from a released cluster.
TreeIsTree ==
    \A c \in fs.used \ {Root} :
        /\ Cardinality(EntriesOf(c)) = 1
        /\ \A e \in EntriesOf(c) : fs.disk[c][2] = Internal(e[1])
        /\ fs.disk[c][1] = Internal(c)

\* The label dir prints selects the object it was printed for, and only that
\* one, in every directory small enough to be shown (file_view.c,
\* display_safe_entry.c), on a disk with colliding names too.
LabelsSelect ==
    \A d \in fs.used : LET view == snapshot_directory(fs, d) IN
        view.status = "ok" => \A k \in Entries(fs, d) :
            SelectLabel(fs, [cluster |-> d],
                        [base |-> view.label[k].base, ext |-> NoExt,
                         rank |-> view.label[k].rank, upper |-> FALSE])
                = [status |-> "ok", id |-> Identity(fs, d, k)]

\* how many entries of a directory have a base that an earlier one has
Collisions(s, d) ==
    Cardinality(Entries(s, d)) - Cardinality({s.disk[d][k].name.base : k \in Entries(s, d)})

\* No command makes two entries of a directory share a base: create, mkdir,
\* write, and rename within a directory or into another one.
NoNewCollision ==
    [][\A d \in Cluster : fs'.disk[d] = fs.disk[d] \/ Collisions(fs', d) <= Collisions(fs, d)]_fs

\* While no rmdir removed it under another spelling, the text of the current
\* directory leads to the directory that cd entered (runtime.c:1056, path.c).
CurrentBound ==
    mounted /\ ~lost =>
        resolve_normalized(fs, cwd) = [status |-> "ok", id |-> cwdIdentity]


FilesWith(ext) ==
    {Identity(fs, p[1], p[2]) : p \in {q \in fs.used \X Slot :
        fs.disk[q[1]][q[2]].kind = "file" /\ fs.disk[q[1]][q[2]].name.ext = ext}}

\* A search finds every file with the extension or says that it was cut short,
\* and a location it prints is, where no names collide, the display path of the
\* file it found (search_directory, with its one shared buffer).
SearchFindsAll ==
    \A ext \in Ext : LET r == ios_fs_file_service_search_extension(fs, ext)
                         ids == {r.found[i].id : i \in DOMAIN r.found} IN
        /\ r.status = "ok"
        /\ ids \subseteq FilesWith(ext)
        /\ Cardinality(ids) = Len(r.found)
        /\ IF r.truncated THEN Len(r.found) = SearchCapacity /\ ids # FilesWith(ext)
           ELSE ids = FilesWith(ext)
        /\ (\A d \in fs.used : Collisions(fs, d) = 0) => \A i \in DOMAIN r.found :
             resolve_normalized_display_path(fs,
                 [j \in DOMAIN r.found[i].path |->
                    [base |-> r.found[i].path[j], ext |-> NoExt, rank |-> 1, upper |-> FALSE]])
                \in {[status |-> "ok", id |-> r.found[i].id], [status |-> "no_space", id |-> None]}

Views == {[operation |-> "directory", ext |-> NoExt]}
         \cup [operation : {"type", "search"}, ext : Ext]

\* Read page by page, a view is the directory's entries of the kind asked for,
\* in order and each once, as many as the reader has room for (client.c,
\* file_view.c, ios_fs_file_service_enumerate).
PagesAreTheView ==
    \A d \in fs.used, view \in Views, capacity \in {1, Slots} :
        LET wanted == SelectSeq(Scan(fs, d), LAMBDA k : Wanted(fs.disk[d][k], view))
        IN  ios_file_explorer_client_file_view(fs, d, view, capacity)
              = [status |-> "ok",
                 read |-> IF Len(wanted) <= capacity THEN wanted ELSE SubSeq(wanted, 1, capacity)]
=============================================================================
