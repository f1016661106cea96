------------------------------- MODULE Files -------------------------------
(***************************************************************************)
(* Open files.  A handle holds its file in one of two forms: buffered (the *)
(* whole file in memory, stored at CloseHandle, FlushFileBuffers or        *)
(* SetEndOfFile) or streaming (every call goes to the host file); a buffer *)
(* that outgrows Threshold is spilled and becomes a stream.  A buffered    *)
(* handle may also have a slot in a table in guest memory and a mirror of  *)
(* its bytes in an arena, which guest code uses for ReadFile,              *)
(* SetFilePointer and GetFileSize without stopping for the host.  So one   *)
(* position exists twice, and one file up to four times.                   *)
(*                                                                         *)
(* executable_file_cursor is written by these handlers and read by none;   *)
(* it is left out.                                                         *)
(***************************************************************************)
EXTENDS Vfs

CONSTANTS
  Threshold,     \* BUFFER_SIZE_THRESHOLD
  LargeRead,     \* LARGE_READ_HOST_THRESHOLD
  Slots,         \* GUEST_IO_MAX_SLOTS
  ArenaSize,     \* file_data_size
  Align,         \* alignment of a mirror
  Rewire,        \* WIE_GUEST_IO: which of "read", "seek", "size" run in the guest
  InitDisk,      \* the host's tree when the session starts
  Data,          \* what WriteFile writes, none of it empty
  MaxSize,       \* bound: sizes and positions
  MaxHandles,    \* bound: files ever opened
  MaxNamed       \* bound: names and patterns one program uses, the console among them

CREATE_NEW == 1
CREATE_ALWAYS == 2
OPEN_EXISTING == 3
OPEN_ALWAYS == 4
TRUNCATE_EXISTING == 5
Dispositions == 1 .. 5

FreeSlot == [handle |-> 0, data |-> 0, size |-> 0, cursor |-> 0]

Console == [form |-> "console", comps |-> <<>>]

\* The host's tree holds directories above its files and files where they are mounted.
ASSUME FilesAssumption ==
  /\ InitDisk \in [HostPaths -> [kind : {"file", "dir", "none"}, bytes : Seq(Nat)]]
  /\ \A p \in Mounted : InitDisk[MountFile(p)].kind = "file"
  /\ \A k, q \in HostPaths :
       IsStrictPrefix(q, k) /\ InitDisk[k].kind # "none" => InitDisk[q].kind = "dir"
  /\ Executable \in Seq(Nat) /\ Data \subseteq Seq(Nat) \ {<<>>}
  /\ Threshold \in Nat /\ Slots \in Nat /\ ArenaSize \in Nat /\ Align \in Nat \ {0}
  /\ LargeRead \in Nat /\ MaxSize \in Nat

VARIABLES
  program,     \* the names, patterns and console the program uses
  open_files,  \* open_files: handle -> [path, bytes, cursor, host, streaming, data, slot]
  opened,      \* next_file_handle
  table,       \* the guest's table: slot -> [handle, data, size, cursor]
  arena,       \* the mirrors' bytes
  arena_next,  \* guest_file_data_next
  stdin,       \* stdin_bytes from stdin_cursor on, and stdin_mode
  failed,      \* a handler returned an error: the run is over
  \* what the guest may expect; no handler reads these
  pos,         \* handle -> its position
  drifted,     \* handles whose slot and record have been used while they differed
  dirty,       \* handles whose buffer has changed since it was stored
  content,     \* path -> the file it names
  shared,      \* paths whose open file was opened, deleted or renamed again
  overrun,     \* a mirror was written past its end
  input        \* [typed, given]: bytes the host's user typed, and ReadFile returned

handleVars == <<open_files, opened, table, arena, arena_next>>
ghostVars == <<pos, drifted, dirty, content, shared, overrun>>
vars == <<program, vfsVars, handleVars, stdin, failed, ghostVars, input>>

Mirrored(h) == open_files[h].slot # 0
Slot(h) == table[open_files[h].slot]
HandlesOn(p) == {h \in DOMAIN open_files : open_files[h].path = p}

Overlay(s, off, data) ==
  [i \in 1 .. Max({Len(s), off + Len(data)}) |->
     IF i \in off + 1 .. off + Len(data) THEN data[i - off]
     ELSE IF i <= Len(s) THEN s[i] ELSE 0]
Resize(s, n) == [i \in 1 .. n |-> IF i <= Len(s) THEN s[i] ELSE 0]

\* OpenGuestFile::size, what GetFileSizeEx and GetFileInformationByHandle answer.
size(h) ==
  LET f == open_files[h] IN
  IF f.streaming THEN Len(disk[f.host].bytes) ELSE Len(f.bytes)

Init ==
  /\ \E k \in 1 .. MaxNamed :
       program \in kSubset(k, Inputs \cup Patterns \cup {Console}) /\ calls = MaxCalls - 2 * k
  /\ disk = InitDisk
  /\ virtual_files = [p \in {} |-> <<>>]
  /\ cwd = guest_parent(MainPath)
  /\ find_handles = [h \in {} |-> {}] /\ searches = 0
  /\ open_files = [h \in {} |-> {}] /\ opened = 0
  /\ table = [i \in 1 .. Slots |-> FreeSlot]
  /\ arena = [a \in 1 .. ArenaSize |-> 0] /\ arena_next = 0
  /\ stdin \in IF Console \in program
                THEN {[bytes |-> <<>>, live |-> TRUE], [bytes |-> <<1, 2>>, live |-> FALSE]}
                ELSE {[bytes |-> <<>>, live |-> FALSE]}
  /\ failed = FALSE
  /\ pos = [h \in {} |-> 0] /\ drifted = {} /\ dirty = {}
  /\ content = [p \in Paths |-> resolve_guest_file_bytes(p)]
  /\ shared = {} /\ overrun = FALSE
  /\ input = [typed |-> Len(stdin.bytes), given |-> <<>>]

---------------------------------------------------------------------------
(* The guest's table *)

\* Bytes at an arena address; nothing is mapped behind the arena.
Stored(a, bytes) ==
  IF a + Len(bytes) > ArenaSize THEN arena
  ELSE [i \in DOMAIN arena |-> IF i \in a + 1 .. a + Len(bytes) THEN bytes[i - a] ELSE arena[i]]

Aligned(n) == ((n + Align - 1) \div Align) * Align

\* A new handle gets a slot and a mirror while there is room for both; arena
\* space is not used twice, and is filled before the table is searched.
register_open_file(h, f) ==
  LET fits == /\ ~f.streaming /\ f.bytes # <<>>
              /\ arena_next + Aligned(Len(f.bytes)) <= ArenaSize
      free == {i \in 1 .. Slots : table[i].handle = 0}
      i == Min(free)
  IN
  /\ arena' = IF fits THEN Stored(arena_next, f.bytes) ELSE arena
  /\ IF fits /\ free # {}
       THEN /\ table' = [table EXCEPT ![i] = [handle |-> h, data |-> arena_next,
                                              size |-> Len(f.bytes), cursor |-> 0]]
            /\ arena_next' = arena_next + Aligned(Len(f.bytes))
            /\ open_files' = With(open_files, h, [f EXCEPT !.data = arena_next, !.slot = i])
       ELSE /\ UNCHANGED <<table, arena_next>>
            /\ open_files' = With(open_files, h, f)

unregister_open_file(h) ==
  [i \in 1 .. Slots |-> IF table[i].handle = h THEN FreeSlot ELSE table[i]]

\* The slot and the mirror are made to say what the record f says.
sync_slot_from_host(f) ==
  IF f.slot = 0 THEN UNCHANGED <<table, arena, overrun>>
  ELSE /\ table' = [table EXCEPT ![f.slot].size = Len(f.bytes), ![f.slot].cursor = f.cursor]
       /\ arena' = Stored(f.data, f.bytes)
       /\ overrun' = (\/ overrun
                      \/ \E g \in DOMAIN open_files :
                           /\ Mirrored(g)
                           /\ open_files[g].data \in f.data + 1 .. f.data + Len(f.bytes) - 1)

sync_host_cursor_from_guest_Not(h) == open_files[h]

sync_host_cursor_from_guest(h) ==
  IF Mirrored(h) THEN [open_files[h] EXCEPT !.cursor = Slot(h).cursor] ELSE open_files[h]

\* A handler that goes by the record f alone, where the slot says otherwise.
Drift(h, after, slots) ==
  LET off(f, s) == s[f.slot].cursor # f.cursor \/ s[f.slot].size # Len(f.bytes) IN
  drifted' = IF /\ Mirrored(h)
                /\ \/ off(open_files[h], table)
                   \/ after.slot # 0 /\ off(after, slots)
               THEN drifted \cup {h} ELSE drifted

---------------------------------------------------------------------------
(* Opening and closing *)

\* The host path a handle writes to: the volume's before the mount's.
host_path_of(p) == IF guest_path_to_host(p) # NoHost THEN guest_path_to_host(p)
                   ELSE IF p \in Mounted THEN MountFile(p) ELSE NoHost

Record(p, bytes, host, streaming) ==
  [path |-> p, bytes |-> bytes, cursor |-> 0, host |-> host, streaming |-> streaming,
   data |-> 0, slot |-> 0]

allocate_open_file(p, bytes, host, streaming) ==
  LET h == opened + 1 IN
  /\ opened' = h
  /\ register_open_file(h, Record(p, bytes, host, streaming))
  /\ pos' = With(pos, h, 0)

\* A large host file is streamed, and so is what a mount on a mapped drive
\* loads when that is large; a truncation of a large file happens at once, that
\* of a buffered file when the buffer is stored.
open_existing_guest_file(p, truncate) ==
  LET host == host_path_of(p)
      large == /\ host # NoHost /\ ~is_main_module_path(p)
               /\ disk[host].kind = "file" /\ Len(disk[host].bytes) > Threshold
      bytes == IF truncate THEN <<>> ELSE resolve_guest_file_bytes(p).bytes
      streams == \/ large
                 \/ host # NoHost /\ ~is_main_module_path(p) /\ Len(bytes) > Threshold
  IN
  /\ disk' = IF large /\ truncate THEN [disk EXCEPT ![host] = File(<<>>)] ELSE disk
  /\ allocate_open_file(p, IF streams THEN <<>> ELSE bytes, host, streams)
  /\ dirty' = IF truncate /\ ~large THEN dirty \cup {opened + 1} ELSE dirty
  /\ content' = IF truncate THEN [content EXCEPT ![p] = File(<<>>)] ELSE content
  /\ UNCHANGED virtual_files

\* A new host file is always a stream, a new virtual file is buffered.
create_new_guest_file(p) ==
  LET host == guest_path_to_host(p) IN
  /\ IF host # NoHost
       THEN /\ CanWrite(host)
            /\ disk' = Written(host, <<>>)
            /\ UNCHANGED virtual_files
       ELSE /\ virtual_files' = IF p \in DOMAIN virtual_files THEN virtual_files
                                ELSE With(virtual_files, p, <<>>)
            /\ UNCHANGED disk
  /\ allocate_open_file(p, <<>>, host, host # NoHost)
  /\ content' = [content EXCEPT ![p] = File(<<>>)]
  /\ UNCHANGED dirty

open_or_create_guest_path(in, disposition) ==
  LET p == Full(in)
      existed == guest_path_exists(p)
  IN
  /\ Charge
  /\ opened < MaxHandles
  /\ p \in Paths
  /\ \/ /\ existed
        /\ disposition # CREATE_NEW
        /\ resolve_guest_file_bytes(p).kind = "file"
        /\ open_existing_guest_file(p, disposition \in {CREATE_ALWAYS, TRUNCATE_EXISTING})
     \/ /\ ~existed
        /\ disposition \in {CREATE_NEW, CREATE_ALWAYS, OPEN_ALWAYS}
        /\ create_new_guest_file(p)
  /\ shared' = IF HandlesOn(p) # {} THEN shared \cup {p} ELSE shared
  /\ UNCHANGED <<cwd, find_handles, searches, stdin, failed, drifted, overrun, input>>

\* A virtual file takes the buffer of a handle that has no host path.
sync_open_bytes_to_virtual(f) ==
  IF f.host # NoHost \/ f.streaming \/ is_main_module_path(f.path)
     \/ guest_path_to_host(f.path) # NoHost \/ f.path \in Mounted
    THEN virtual_files
    ELSE With(virtual_files, f.path, f.bytes)

\* The buffer replaces the host file, whether or not it was written to.
persist_open_file_to_host(f) ==
  IF f.streaming \/ f.host = NoHost \/ ~CanWrite(f.host) THEN disk ELSE Written(f.host, f.bytes)

close_handle(h) ==
  LET f == open_files[h] IN
  /\ Charge
  /\ virtual_files' = sync_open_bytes_to_virtual(f)
  /\ disk' = persist_open_file_to_host(f)
  /\ table' = unregister_open_file(h)
  /\ open_files' = Without(open_files, h)
  /\ pos' = Without(pos, h) /\ drifted' = drifted \ {h} /\ dirty' = dirty \ {h}
  /\ \E p \in {f.path} :
       IF HandlesOn(p) = {h} /\ p \in shared
         THEN /\ shared' = shared \ {p}
              /\ content' = [content EXCEPT ![p] = resolve_guest_file_bytes(p)']
         ELSE UNCHANGED <<shared, content>>
  /\ UNCHANGED <<cwd, find_handles, searches, opened, arena, arena_next, stdin, failed,
                 overrun, input>>

---------------------------------------------------------------------------
(* Reading and writing *)

Upto(n, len, at) == IF at >= len THEN 0 ELSE Min({n, len - at})
Read(h, n) == pos' = [pos EXCEPT ![h] = @ + Upto(n, size(h), @)]

\* The guest's own ReadFile, for small reads of a handle that has a slot.
guest_read_file(h, n) ==
  /\ Charge
  /\ "read" \in Rewire /\ Mirrored(h) /\ n < LargeRead
  /\ table' = [table EXCEPT ![open_files[h].slot].cursor = @ + Upto(n, Slot(h).size, @)]
  /\ Read(h, n)
  /\ UNCHANGED <<disk, virtual_files, cwd, find_handles, searches, open_files, opened, arena, arena_next, stdin, failed, drifted,
                 dirty, content, shared, overrun, input>>

\* The host's goes by the slot's position and refreshes the slot.  A buffered
\* read that starts behind the end is an error of the handler.
read_file(h, n) ==
  LET f == sync_host_cursor_from_guest(h)
      g == [f EXCEPT !.cursor = @ + Upto(n, size(h), @)]
  IN
  /\ Charge
  /\ ~("read" \in Rewire /\ Mirrored(h) /\ n < LargeRead)
  /\ IF ~f.streaming /\ f.cursor > Len(f.bytes)
       THEN /\ failed' = TRUE
            /\ open_files' = [open_files EXCEPT ![h] = f]
            /\ UNCHANGED <<table, arena, overrun, pos>>
       ELSE /\ open_files' = [open_files EXCEPT ![h] = g]
            /\ sync_slot_from_host(g)
            /\ Read(h, n)
            /\ UNCHANGED failed
  /\ UNCHANGED <<disk, virtual_files, cwd, find_handles, searches, opened, arena_next, stdin, drifted, dirty, content, shared, input>>

\* Every write of a stream opens the host file again, and makes it if it is gone;
\* writing nothing does not extend it.
host_write_at(host, off, data) ==
  [disk EXCEPT ![host] = File(IF data = <<>> THEN @.bytes ELSE Overlay(@.bytes, off, data))]
CanWriteAt(host) ==
  /\ disk[host].kind # "dir"
  /\ guest_parent(host) \in DOMAIN disk => disk[guest_parent(host)].kind = "dir"

maybe_promote_open_file_to_streaming_NoSpill(h, f) ==
  /\ open_files' = [open_files EXCEPT ![h] =
       IF Len(f.bytes) > Threshold /\ f.host # NoHost
         THEN [f EXCEPT !.bytes = <<>>, !.streaming = TRUE, !.data = 0, !.slot = 0] ELSE f]
  /\ table' = IF Len(f.bytes) > Threshold THEN unregister_open_file(h) ELSE table
  /\ dirty' = dirty \cup {h}
  /\ UNCHANGED disk

\* A buffer above Threshold is written out, its slot is given up.
maybe_promote_open_file_to_streaming(h, f) ==
  IF Len(f.bytes) > Threshold /\ f.host # NoHost /\ CanWrite(f.host)
    THEN /\ disk' = Written(f.host, f.bytes)
         /\ table' = unregister_open_file(h)
         /\ open_files' = [open_files EXCEPT ![h] =
              [f EXCEPT !.bytes = <<>>, !.streaming = TRUE, !.data = 0, !.slot = 0]]
         /\ dirty' = dirty \ {h}
    ELSE /\ open_files' = [open_files EXCEPT ![h] = f]
         /\ dirty' = dirty \cup {h}
         /\ UNCHANGED <<disk, table>>

\* WriteFile goes by the record's cursor, and leaves the slot as it is.
write_file(h, data) ==
  LET f == open_files[h]
      g == [f EXCEPT !.cursor = @ + Len(data)]
      b == [g EXCEPT !.bytes = Overlay(@, f.cursor, data)]
  IN
  /\ Charge
  /\ Max({f.cursor, pos[h]}) + Len(data) <= MaxSize
  /\ \/ /\ f.streaming /\ CanWriteAt(f.host)
        /\ disk' = host_write_at(f.host, f.cursor, data)
        /\ open_files' = [open_files EXCEPT ![h] = g]
        /\ UNCHANGED <<table, dirty, failed, drifted>>
     \/ /\ ~f.streaming
        /\ maybe_promote_open_file_to_streaming(h, b)
        /\ Drift(h, b, table)
        /\ UNCHANGED failed
     \/ /\ f.streaming /\ ~CanWriteAt(f.host)
        /\ failed' = TRUE
        /\ UNCHANGED <<disk, open_files, table, dirty, drifted>>
  /\ pos' = [pos EXCEPT ![h] = @ + Len(data)]
  /\ content' = [content EXCEPT ![f.path] = File(Overlay(@.bytes, f.cursor, data))]
  /\ UNCHANGED <<virtual_files, cwd, find_handles, searches, opened, arena, arena_next, stdin,
                 shared, overrun, input>>

\* GetFileSize: the slot's answer in the guest, the file's on the host.
guest_get_file_size(h) == Slot(h).size
get_file_size(h) == IF "size" \in Rewire /\ Mirrored(h) THEN guest_get_file_size(h) ELSE size(h)

---------------------------------------------------------------------------
(* Positions *)

Base(method, at, len) == CASE method = "begin" -> 0
                           [] method = "current" -> at
                           [] OTHER -> len
Move(h, method, d) ==
  LET to == Base(method, pos[h], size(h)) + d IN
  /\ to <= MaxSize
  /\ pos' = IF to < 0 THEN pos ELSE [pos EXCEPT ![h] = to]

GuestMoves(h, method, d) ==
  /\ "seek" \in Rewire /\ Mirrored(h)
  /\ Base(method, Slot(h).cursor, Slot(h).size) + d >= 0

\* The guest's own SetFilePointer moves the slot only.
guest_set_file_pointer(h, method, d) ==
  LET to == Base(method, Slot(h).cursor, Slot(h).size) + d IN
  /\ Charge
  /\ GuestMoves(h, method, d) /\ to <= MaxSize
  /\ table' = [table EXCEPT ![open_files[h].slot].cursor = to]
  /\ Move(h, method, d)
  /\ UNCHANGED <<disk, virtual_files, cwd, find_handles, searches, open_files, opened, arena, arena_next, stdin, failed, drifted,
                 dirty, content, shared, overrun, input>>

\* The host's starts from the record and refreshes the slot.
set_file_pointer(h, method, d) ==
  LET f == open_files[h]
      to == Base(method, f.cursor, size(h)) + d
      g == [f EXCEPT !.cursor = to]
  IN
  /\ Charge
  /\ ~GuestMoves(h, method, d) /\ to <= MaxSize
  /\ Move(h, method, d)
  /\ IF to < 0 THEN UNCHANGED <<open_files, table, arena, overrun>>
     ELSE open_files' = [open_files EXCEPT ![h] = g] /\ sync_slot_from_host(g)
  /\ Drift(h, f, table)
  /\ UNCHANGED <<disk, virtual_files, cwd, find_handles, searches, opened, arena_next, stdin, failed, dirty, content, shared, input>>

\* SetFilePointerEx has no guest form; it starts from the record and leaves the
\* slot as it is.
set_file_pointer_ex(h, method, d) ==
  LET f == open_files[h]
      to == Base(method, f.cursor, size(h)) + d
      g == [f EXCEPT !.cursor = to]
  IN
  /\ Charge
  /\ to \in 0 .. MaxSize
  /\ Move(h, method, d)
  /\ open_files' = [open_files EXCEPT ![h] = g]
  /\ Drift(h, g, table)
  /\ UNCHANGED <<disk, virtual_files, cwd, find_handles, searches, opened, table, arena, arena_next, stdin, failed, dirty, content,
                 shared, overrun, input>>

set_end_of_file(h) ==
  LET f == open_files[h]
      g == [f EXCEPT !.bytes = Resize(@, f.cursor)]
  IN
  /\ Charge
  /\ IF f.streaming
       THEN /\ disk' = IF disk[f.host].kind = "file"
                         THEN [disk EXCEPT ![f.host].bytes = Resize(@, f.cursor)] ELSE disk
            /\ UNCHANGED <<open_files, virtual_files, drifted>>
       ELSE /\ open_files' = [open_files EXCEPT ![h] = g]
            /\ virtual_files' = sync_open_bytes_to_virtual(g)
            /\ disk' = persist_open_file_to_host(g)
            /\ Drift(h, g, table)
  /\ dirty' = dirty \ {h}
  /\ content' = [content EXCEPT ![f.path].bytes = Resize(@, f.cursor)]
  /\ UNCHANGED <<cwd, find_handles, searches, opened, table, arena, arena_next, stdin, failed,
                 pos, shared, overrun, input>>

flush_file_buffers_Streams(h) ==
  /\ Charge
  /\ dirty' = dirty \ {h}
  /\ UNCHANGED <<disk, virtual_files, cwd, find_handles, searches, handleVars, stdin, failed, pos,
                 drifted, content, shared, overrun, input>>

flush_file_buffers(h) ==
  /\ Charge
  /\ disk' = persist_open_file_to_host(open_files[h])
  /\ dirty' = dirty \ {h}
  /\ UNCHANGED <<virtual_files, cwd, find_handles, searches, handleVars, stdin, failed, pos,
                 drifted, content, shared, overrun, input>>

---------------------------------------------------------------------------
(* The console *)

\* One line of the host's user, none at an end of file.
refill_stdin_from_host(line) == [i \in 1 .. line |-> input.typed + i]
NeedsLine_Short(n) == stdin.live /\ Len(stdin.bytes) < n
NeedsLine(n) == stdin.live /\ stdin.bytes = <<>>

\* ReadFile on the console: what is left, else a line of input.
read_stdin(n, line) ==
  LET s == IF NeedsLine(n) THEN refill_stdin_from_host(line) ELSE stdin.bytes
      taken == Min({n, Len(s)})
  IN
  /\ Charge
  /\ NeedsLine(n) \/ line = 0
  /\ input.typed + line <= MaxSize
  /\ stdin' = [stdin EXCEPT !.bytes = SubSeq(s, taken + 1, Len(s))]
  /\ input' = [typed |-> input.typed + line, given |-> input.given \o SubSeq(s, 1, taken)]
  /\ UNCHANGED <<disk, virtual_files, cwd, find_handles, searches, handleVars, failed, ghostVars>>

---------------------------------------------------------------------------
(* The namespace while files are open *)

Kept == UNCHANGED <<handleVars, stdin, failed, pos, drifted, dirty, overrun, input>>
Share(ps) == shared' = shared \cup {p \in ps : HandlesOn(p) # {}}
Under(p) == {q \in Paths : IsPrefix(p, q)}

\* What a file is taken to hold when its name changes: a buffer that is open,
\* the main module's bytes and a mounted file stay with the old name.
Held(p) ==
  IF p \in Paths \ Mounted /\ HandlesOn(p) = {} /\ ~is_main_module_path(p) THEN content[p]
  ELSE IF p \in DOMAIN disk /\ disk[p].kind = "file" THEN disk[p] ELSE None

DeleteFile(in) ==
  /\ finish_delete_file(in)
  /\ Full(in) \in Paths
  /\ content' = IF Full(in) \in Mounted THEN content ELSE [content EXCEPT ![Full(in)] = None]
  /\ Share({Full(in)})
  /\ Kept

MoveFile(in, into) ==
  LET from == Full(in)
      to == Full(into)
      origin(q) == from \o SubSeq(q, Len(to) + 1, Len(q))
  IN
  /\ finish_move_file(in, into)
  /\ IF RenameWorks(from, to)
     THEN /\ content' = [q \in Paths |->
               IF q \in Under(to) THEN Held(origin(q))
               ELSE IF q \in Under(from) THEN None ELSE content[q]]
          /\ Share(Under(from) \cup Under(to))
     ELSE UNCHANGED <<content, shared>>
  /\ Kept

\* It looks among the virtual files only: a mounted name gets one as well, which
\* the mount then hides.
GetTempFileName(in) ==
  LET p == Full(in)
      made == IF guest_path_to_host(p) # NoHost THEN CanWrite(p) ELSE ~guest_path_exists(p)
  IN
  /\ finish_create_file_create_only(in)
  /\ p \in Paths
  /\ content' = IF made THEN [content EXCEPT ![p] = File(<<>>)] ELSE content
  /\ Share({p})
  /\ Kept

Directories(in) ==
  /\ set_current_directory(in) \/ finish_create_directory(in) \/ finish_remove_directory(in)
  /\ Kept /\ UNCHANGED <<content, shared>>

Search(in) == finish_find_first(in) /\ Kept /\ UNCHANGED <<content, shared>>
Searched(h) ==
  /\ finish_find_next(h) \/ find_close(h)
  /\ Kept /\ UNCHANGED <<content, shared>>

---------------------------------------------------------------------------

Names(in) ==
  \/ \E disposition \in Dispositions : open_or_create_guest_path(in, disposition)
  \/ DeleteFile(in)
  \/ \E into \in program \cap Inputs : MoveFile(in, into)
  \/ GetTempFileName(in)
  \/ Directories(in)

Uses(h) ==
  \/ close_handle(h)
  \/ \E n \in {1, LargeRead} : guest_read_file(h, n) \/ read_file(h, n)
  \/ \E data \in Data : write_file(h, data)
  \/ \E method \in {"begin", "current", "end"}, d \in {-1, 1} :
       \/ guest_set_file_pointer(h, method, d)
       \/ set_file_pointer(h, method, d)
       \/ set_file_pointer_ex(h, method, d)
  \/ set_end_of_file(h)
  \/ flush_file_buffers(h)

Next ==
  /\ ~failed
  /\ \/ \E in \in program \cap Inputs : Names(in)
     \/ \E in \in program \cap Patterns : Search(in)
     \/ \E h \in DOMAIN find_handles : Searched(h)
     \/ \E h \in DOMAIN open_files : Uses(h)
     \/ Console \in program /\ \E n \in 1 .. 2, line \in 0 .. 2 : read_stdin(n, line)
  /\ UNCHANGED program

Spec == Init /\ [][Next]_vars

---------------------------------------------------------------------------
(* Properties *)

\* The file a path names is one file, whichever of its forms holds it: as long
\* as one handle at a time is open on it, what that handle sees, or the next
\* CreateFile would load, is what the writes, truncations, deletions and
\* renamings so far have made of it, across buffers, spilled buffers, streams
\* and virtual files.  (The main module and a mount on a mapped drive keep no
\* writes; for a file that is open twice the last CloseHandle wins.)
Seen(p) ==
  IF HandlesOn(p) = {} THEN resolve_guest_file_bytes(p)
  ELSE LET f == open_files[CHOOSE h \in HandlesOn(p) : TRUE] IN
       IF f.streaming THEN disk[f.host] ELSE File(f.bytes)
OneFile ==
  \A p \in Paths \ shared :
    ~is_main_module_path(p) /\ ~(p \in Mounted /\ Head(p) \in Volumes) => Seen(p) = content[p]

\* A handle is the same in the guest's table and on the host: as long as no
\* handler has gone by one of its two cursors while the other differed, the next
\* ReadFile, of the guest or the host, starts where the reads and seeks so far
\* have put it, and the size and the bytes guest code finds are the file's
\* (unless a neighbour's mirror was written past its end).
NextRead(h) == IF Mirrored(h) THEN Slot(h).cursor ELSE open_files[h].cursor
MirrorExact ==
  \A h \in DOMAIN open_files \ drifted :
    /\ ~failed => NextRead(h) = pos[h]
    /\ Mirrored(h) =>
         /\ Slot(h).handle = h
         /\ get_file_size(h) = size(h)
         /\ ~overrun => \A i \in 1 .. size(h) : arena[Slot(h).data + i] = open_files[h].bytes[i]

\* CloseHandle, FlushFileBuffers and SetEndOfFile make a file durable: a host
\* file differs from the buffer of its one handle only after a write or a
\* truncation that none of them has followed.
DurableFlush ==
  \A h \in DOMAIN open_files \ dirty :
    LET f == open_files[h] IN
    f.host # NoHost /\ f.path \notin shared /\ ~is_main_module_path(f.path)
    /\ ~(f.path \in Mounted /\ Head(f.path) \in Volumes)
      => disk[f.host] = content[f.path]

\* CreateFile's test, GetFileAttributes, the loading of a file and a directory
\* listing agree on which files exist and how long they are, and a listing has
\* a name once.  (The exception is a mounted name that a temporary file or the
\* host's file of a mapped drive also has: it is listed for each of them.)
Hidden(p) == p \in Mounted /\ (p \in DOMAIN virtual_files \/ guest_path_to_host(p) # NoHost)
NamespaceAgrees ==
  \A p \in Paths :
    LET exists == guest_path_exists(p)
        listed == {e \in list_dir(guest_parent(p)) : e.name = Last(p)}
    IN
    /\ exists <=> file_attributes_for_path(p) = "file"
    /\ exists <=> resolve_guest_file_bytes(p).kind = "file"
    /\ guest_dir_exists(guest_parent(p)) /\ ~is_main_module_path(p)
         => /\ ~Hidden(p) => Cardinality(listed) <= 1
            /\ exists <=> \E e \in listed : /\ e.kind = "file"
                                            /\ e.size = Len(resolve_guest_file_bytes(p).bytes)

\* Every byte of console input reaches the guest once and in order: what was
\* read and what is still buffered is what was typed.
InputInOrder == input.given \o stdin.bytes = [i \in 1 .. input.typed |-> i]

\* The header of guest_io.rs: "host Read/Seek refresh guest slots; host Read
\* pulls cursor from the guest table".  A step that seeks, whichever call makes
\* it, leaves the next ReadFile at the position it went to.
ReadsWhereSought ==
  [][\A h \in DOMAIN open_files, method \in {"begin", "current", "end"}, d \in {-1, 1} :
       \/ guest_set_file_pointer(h, method, d)
       \/ set_file_pointer(h, method, d)
       \/ set_file_pointer_ex(h, method, d)
         => NextRead(h)' = pos'[h]]_vars
=============================================================================
