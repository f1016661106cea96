-------------------------------- MODULE Vfs --------------------------------
(***************************************************************************)
(* The guest's file namespace.  A full path is the sequence of its drive   *)
(* and its components.  It may name the main module, a file the embedding  *)
(* program mounted, a virtual file of this session, or a node of a host    *)
(* tree a drive is mapped to; several handlers ask which, each with code   *)
(* of its own.  Names are already folded to one case.  Handlers run as a   *)
(* whole under the WinAPI lock: an operation is one step.  The skeleton    *)
(* directories that always exist are not among the paths, the roots are.   *)
(***************************************************************************)
EXTENDS Integers, Sequences, FiniteSets, SequencesExt, FiniteSetsExt

CONSTANTS
  Paths,       \* the full paths below the roots that the guest ever names
  Inputs,      \* what it passes: [form, comps]
  Patterns,    \* what it passes to FindFirstFile
  Volumes,     \* drives mapped to a host directory: C with a bottle, D
  Drives,      \* drives the guest names
  Mounted,     \* guest paths of host_file_mounts
  MainPath,    \* main_module_path
  Executable,  \* the bytes of the main module's file
  MaxFinds,    \* bound: searches ever started
  MaxCalls     \* bound: calls of a program, less two for every name it uses

Roots == {<<d>> : d \in Drives}
Dirs == Roots \cup Paths
NoHost == <<>>
File(bytes) == [kind |-> "file", bytes |-> bytes]
Dir == [kind |-> "dir", bytes |-> <<>>]
None == [kind |-> "none", bytes |-> <<>>]

VARIABLES
  disk,           \* the host's tree, by host path
  virtual_files,  \* virtual_files: path -> bytes
  cwd,            \* current_directory_wide
  find_handles,   \* find_handles: handle -> the entries that remain
  searches,       \* next_find_handle
  calls           \* calls left of MaxCalls

vfsVars == <<disk, virtual_files, cwd, find_handles, searches, calls>>

Charge == calls > 0 /\ calls' = calls - 1
Entry(from, n, kind, size) == [from |-> from, name |-> n, kind |-> kind, size |-> size]
Without(f, k) == [x \in DOMAIN f \ {k} |-> f[x]]
With(f, k, v) == [x \in DOMAIN f \cup {k} |-> IF x = k THEN v ELSE f[x]]

---------------------------------------------------------------------------
(* Paths *)

\* "." goes, ".." takes the component before it and stops at the drive.
normalize_windows_path_components(p) ==
  FoldLeft(LAMBDA acc, c : CASE c = "." -> acc
                             [] c = ".." -> IF Len(acc) > 1 THEN Front(acc) ELSE acc
                             [] OTHER -> Append(acc, c),
           <<Head(p)>>, Tail(p))

\* Absolute and drive-relative names start at their drive, rooted ones at the
\* drive of the current directory, the others at the current directory.
resolve_full_windows_path(dir, in) ==
  normalize_windows_path_components(
    CASE in.form \in {"absolute", "drive_relative"} -> in.comps
      [] in.form = "rooted" -> <<Head(dir)>> \o in.comps
      [] OTHER -> dir \o in.comps)

Full(in) == resolve_full_windows_path(cwd, in)

guest_parent(p) == IF Len(p) > 1 THEN Front(p) ELSE p
guest_basename(p) == Last(p)
is_main_module_path(p) == guest_basename(p) = guest_basename(MainPath)

\* The masks used are * and a name.
wildcard_match(mask, name) == mask \in {"*", name}
split_find_pattern(p) == [dir |-> guest_parent(p), mask |-> guest_basename(p)]

\* A path of a mapped drive is its own host path.
guest_path_to_host(p) == IF Head(p) \in Volumes THEN p ELSE NoHost
MountFile(p) == <<"mount">> \o p
HostPaths == {p \in Dirs : Head(p) \in Volumes} \cup {MountFile(p) : p \in Mounted}

\* With a path its directories are paths too, and so is whatever an input can name.
ASSUME PathAssumption ==
  /\ Drives \subseteq STRING /\ Volumes \subseteq Drives /\ "mount" \notin Drives
  /\ Paths \subseteq Seq(STRING) /\ Mounted \subseteq Paths
  /\ \A p \in Paths : /\ Len(p) > 1 /\ Last(p) \notin {".", ".."}
                       /\ \A n \in 1 .. Len(p) : SubSeq(p, 1, n) \in Dirs
  /\ guest_parent(MainPath) \in Dirs
  /\ \A dir \in Dirs, in \in Inputs : resolve_full_windows_path(dir, in) \in Dirs

---------------------------------------------------------------------------
(* The host's file system *)

Ancestors(p) == {SubSeq(p, 1, n) : n \in 1 .. Len(p)} \cap DOMAIN disk
Children(p) == {q \in DOMAIN disk : Len(q) = Len(p) + 1 /\ IsPrefix(p, q)
                                     /\ disk[q].kind # "none"}

\* create_dir_all: the directories of p that are missing; it fails on a file.
CanMkdir(p) == \A q \in Ancestors(p) : disk[q].kind # "file"
WithDirs(p) == [q \in DOMAIN disk |->
                  IF q \in Ancestors(p) /\ disk[q].kind = "none" THEN Dir ELSE disk[q]]

\* Writing a file whole, its directories first.
CanWrite(k) == k \in DOMAIN disk /\ disk[k].kind # "dir" /\ CanMkdir(guest_parent(k))
Written(k, bytes) == [WithDirs(guest_parent(k)) EXCEPT ![k] = File(bytes)]

---------------------------------------------------------------------------
(* What a path names, answered four times *)

stat_host_path(k) == disk[k]

stat_path(p) ==
  IF p \in Roots THEN Dir
  ELSE IF is_main_module_path(p) THEN File(<<>>)
  ELSE IF p \in Mounted THEN stat_host_path(MountFile(p))
  ELSE IF p \in DOMAIN virtual_files THEN File(virtual_files[p])
  ELSE IF guest_path_to_host(p) # NoHost THEN stat_host_path(guest_path_to_host(p))
  ELSE None

guest_path_exists_Node(p) ==
  \/ is_main_module_path(p)
  \/ p \in Mounted
  \/ p \in DOMAIN virtual_files
  \/ guest_path_to_host(p) # NoHost /\ disk[p].kind # "none"

guest_path_exists(p) ==
  \/ is_main_module_path(p)
  \/ p \in Mounted
  \/ p \in DOMAIN virtual_files
  \/ guest_path_to_host(p) # NoHost /\ disk[p].kind = "file"

file_attributes_for_path(p) == stat_path(p).kind
guest_dir_exists(p) == file_attributes_for_path(p) = "dir"

\* The bytes CreateFile loads; None when no source has them.
resolve_guest_file_bytes(p) ==
  IF is_main_module_path(p) THEN File(Executable)
  ELSE IF p \in Mounted THEN disk[MountFile(p)]
  ELSE IF guest_path_to_host(p) # NoHost /\ disk[p].kind = "file" THEN disk[p]
  ELSE IF p \in DOMAIN virtual_files THEN File(virtual_files[p])
  ELSE None

\* What lists a directory: the host's entries, then what is not on the host, each
\* with where it comes from; only the main module is left out when its name is
\* already there.
list_dir(d) ==
  LET host == IF guest_path_to_host(d) # NoHost
                THEN {Entry("host", Last(q), disk[q].kind, Len(disk[q].bytes)) : q \in Children(d)}
                ELSE {}
      virtual == {Entry("virtual", Last(p), "file", Len(virtual_files[p])) :
                    p \in {q \in DOMAIN virtual_files : guest_parent(q) = d}}
      mounts == {Entry("mount", Last(p), "file", Len(disk[MountFile(p)].bytes)) :
                    p \in {q \in Mounted : guest_parent(q) = d}}
      known == host \cup virtual \cup mounts
      main == IF /\ guest_parent(MainPath) = d
                 /\ \A e \in known : e.name # Last(MainPath)
                THEN {Entry("main", Last(MainPath), "file", 0)} ELSE {}
  IN  IF stat_path(d).kind # "dir" THEN {}
      ELSE {Entry("dot", ".", "dir", 0), Entry("dot", "..", "dir", 0)} \cup known \cup main

list_dir_filtered(d, mask) == {e \in list_dir(d) : wildcard_match(mask, e.name)}

---------------------------------------------------------------------------
(* Directories, searches, deleting and renaming *)

set_current_directory(in) ==
  /\ Charge
  /\ guest_dir_exists(Full(in))
  /\ cwd' = Full(in)
  /\ UNCHANGED <<disk, virtual_files, find_handles, searches>>

finish_create_directory(in) ==
  /\ Charge
  /\ ~guest_dir_exists(Full(in))
  /\ guest_path_to_host(Full(in)) # NoHost
  /\ CanMkdir(Full(in))
  /\ disk' = WithDirs(Full(in))
  /\ UNCHANGED <<virtual_files, cwd, find_handles, searches>>

finish_remove_directory(in) ==
  /\ Charge
  /\ guest_path_to_host(Full(in)) # NoHost
  /\ Full(in) \notin Roots
  /\ disk[Full(in)].kind = "dir" /\ Children(Full(in)) = {}
  /\ disk' = [disk EXCEPT ![Full(in)] = None]
  /\ UNCHANGED <<virtual_files, cwd, find_handles, searches>>

\* A virtual file is gone even though the call then reports that none was found.
finish_delete_file(in) ==
  LET p == Full(in) IN
  /\ Charge
  /\ virtual_files' = Without(virtual_files, p)
  /\ disk' = IF guest_path_to_host(p) # NoHost /\ disk[p].kind = "file"
               THEN [disk EXCEPT ![p] = None] ELSE disk
  /\ UNCHANGED <<cwd, find_handles, searches>>

\* rename: a file over a file, a directory over nothing or an empty one.
Renamed(from, to) ==
  LET dk == WithDirs(guest_parent(to))
      under == {q \in DOMAIN disk : IsPrefix(from, q)}
      moved(q) == to \o SubSeq(q, Len(from) + 1, Len(q))
  IN  [q \in DOMAIN disk |->
         IF \E s \in under : moved(s) = q THEN dk[CHOOSE s \in under : moved(s) = q]
         ELSE IF q \in under THEN None ELSE dk[q]]

RenameWorks(from, to) ==
  /\ ~IsPrefix(from, to) /\ ~IsPrefix(to, from)
  /\ disk[from].kind # "none"
  /\ disk[to].kind \in {"none", disk[from].kind} /\ Children(to) = {}

\* The new name's directories are made first, and stay when the rename fails.
finish_move_file(in, into) ==
  LET from == Full(in)
      to == Full(into)
  IN
  /\ Charge
  /\ guest_path_to_host(from) # NoHost /\ guest_path_to_host(to) # NoHost
  /\ CanMkdir(guest_parent(to))
  /\ \/ /\ RenameWorks(from, to)
        /\ \A q \in DOMAIN disk : IsPrefix(from, q) /\ disk[q].kind # "none"
             => to \o SubSeq(q, Len(from) + 1, Len(q)) \in DOMAIN disk
        /\ disk' = Renamed(from, to)
     \/ /\ ~RenameWorks(from, to)
        /\ disk' = WithDirs(guest_parent(to))
  /\ UNCHANGED <<virtual_files, cwd, find_handles, searches>>

\* GetTempFileName: the name it makes is made empty, or exists from now on.
finish_create_file_create_only(in) ==
  LET p == Full(in) IN
  /\ Charge
  /\ IF guest_path_to_host(p) # NoHost
       THEN /\ disk' = IF CanWrite(p) THEN Written(p, <<>>) ELSE disk
            /\ UNCHANGED virtual_files
       ELSE /\ virtual_files' = IF p \in DOMAIN virtual_files THEN virtual_files
                                ELSE With(virtual_files, p, <<>>)
            /\ UNCHANGED disk
  /\ UNCHANGED <<cwd, find_handles, searches>>

\* The listing is taken once; one of the first entries is handed out with it.
finish_find_first(in) ==
  LET pattern == split_find_pattern(Full(in))
      entries == list_dir_filtered(pattern.dir, pattern.mask)
  IN
  /\ Charge
  /\ searches < MaxFinds
  /\ entries # {}
  /\ searches' = searches + 1
  /\ \E first \in entries : find_handles' = With(find_handles, searches + 1, entries \ {first})
  /\ UNCHANGED <<disk, virtual_files, cwd>>

finish_find_next(h) ==
  /\ h \in DOMAIN find_handles
  /\ \E e \in find_handles[h] : find_handles' = [find_handles EXCEPT ![h] = @ \ {e}]
  /\ UNCHANGED <<disk, virtual_files, cwd, searches, calls>>

find_close(h) ==
  /\ h \in DOMAIN find_handles
  /\ find_handles' = Without(find_handles, h)
  /\ UNCHANGED <<disk, virtual_files, cwd, searches, calls>>
=============================================================================
