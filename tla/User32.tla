------------------------------- MODULE User32 -------------------------------
(***************************************************************************)
(* The window manager stand-in: registered classes, window records and the *)
(* single fake top-level window, window longs, timers, hooks and menus.    *)
(* Every handler runs as a whole under the WinAPI lock, so an operation is *)
(* one step whichever guest thread calls it.  Handles are numbers, 0 is    *)
(* NULL; names and titles are members of small sets, and classes differ in *)
(* name, character set and window procedure.                               *)
(***************************************************************************)
EXTENDS Integers, Sequences, FiniteSets, SequencesExt, FiniteSetsExt

CONSTANTS
  Names,       \* class names, already folded to one case
  Titles,      \* window texts
  Procs,       \* window procedure addresses, none of them 0
  CoordHalf,   \* coordinates are signed and run from -CoordHalf (2^31 in the code)
  Places,      \* words a guest passes for a place
  Sizes,       \* and for a size
  MaxCalls     \* bound: calls that change this state or post a message

ASSUME User32Assumption ==
  /\ CoordHalf \in Nat /\ CoordHalf > 1
  /\ Places \subseteq Nat /\ Sizes \subseteq Nat

FAKE == 100    \* FAKE_WINDOW_HANDLE
DESKTOP == 110 \* FAKE_DESKTOP_WINDOW_HANDLE

VARIABLES
  classes,     \* window_classes and next_window_class_atom
  windows,     \* windows and next_window_handle
  longs,       \* window_long_ptr_values
  timers,      \* timers and next_timer_id
  hooks,       \* windows_hooks and next_windows_hook_handle
  menus,       \* menu_item_states, menu_item_check_states, next_menu_handle
  ui,          \* the fields that describe the one fake window
  keys,        \* keyboard_state
  calls        \* calls left of MaxCalls

userVars == <<classes, windows, longs, timers, hooks, menus, ui, keys, calls>>

Coords == -CoordHalf .. CoordHalf - 1
Empty == [k \in {} |-> 0]
Put(f, k, v) == [x \in DOMAIN f \cup {k} |-> IF x = k THEN v ELSE f[x]]
Drop(f, k) == [x \in DOMAIN f \ {k} |-> f[x]]
FirstIn(s, Is(_)) == SelectInSeq(s, Is)

\* The state a session starts with; the size stands for 1024 by 768.
UserInit ==
  /\ classes = [seq |-> <<>>, next |-> 1]
  /\ windows = [seq |-> <<>>, next |-> 1]
  /\ longs = Empty
  /\ timers = [set |-> Empty, next |-> 1]
  /\ hooks = [set |-> Empty, next |-> 1]
  /\ menus = [enabled |-> Empty, checked |-> Empty, next |-> 1]
  /\ ui = [visible |-> FALSE, enabled |-> TRUE, invalidated |-> FALSE,
           active |-> 0, foreground |-> 0, focus |-> 0, capture |-> 0, cursor |-> 0,
           title |-> CHOOSE t \in Titles : TRUE, x |-> 0, y |-> 0, w |-> CoordHalf - 1, h |-> 1]
  /\ keys = [k \in {0} |-> FALSE]
  /\ calls = MaxCalls

\* The low half of a word, as a signed number.
low_i32(raw) ==
  LET low == raw % (2 * CoordHalf)
  IN  IF low \in Coords THEN low ELSE low - 2 * CoordHalf

---------------------------------------------------------------------------
(* Classes and windows *)

\* A second registration of a name in the same character set gives the atom of
\* the first one back; an empty name or a null procedure gives 0.
register_window_class(name, proc, unicode) ==
  LET same == FirstIn(classes.seq, LAMBDA c : c.name = name /\ c.unicode = unicode)
  IN  IF name = "" \/ proc = 0 \/ same # 0 THEN classes
      ELSE [seq |-> Append(classes.seq, [name |-> name, proc |-> proc, unicode |-> unicode,
                                         atom |-> classes.next]),
            next |-> classes.next + 1]

\* RegisterClassExW reads the name as UTF-16, RegisterClassExA as ANSI text.
register_class_ex(unicode) ==
  \E name \in Names \cup {""}, proc \in Procs \cup {0} :
    /\ classes' = register_window_class(name, proc, unicode)
    /\ UNCHANGED <<windows, longs, timers, hooks, menus, ui, keys>>

\* A value that fits 16 bits is an atom, any other a pointer to a name.
Identifiers == [atom : {1}] \cup [name : Names \cup {""}]

window_class_identifier_matches(c, id) ==
  IF "atom" \in DOMAIN id THEN c.atom = id.atom ELSE c.name = id.name

\* A class of the caller's character set first, then any.
find_window_class(id, unicode) ==
  LET own == FirstIn(classes.seq,
                     LAMBDA c : c.unicode = unicode /\ window_class_identifier_matches(c, id))
      any == FirstIn(classes.seq, LAMBDA c : window_class_identifier_matches(c, id))
  IN  IF own # 0 THEN own ELSE any

\* A class nobody registered belongs to the system: the window has no guest
\* procedure.
create_window_record(id, unicode, place, size) ==
  LET at == find_window_class(id, unicode)
  IN  [seq |-> Append(windows.seq,
                      [handle |-> windows.next,
                       proc |-> IF at = 0 THEN 0 ELSE classes.seq[at].proc,
                       x |-> place, y |-> place, w |-> size, h |-> size]),
       next |-> windows.next + 1]

\* WM_MDICREATE with a null structure creates nothing.
create_mdi_child_from_struct(unicode, create) ==
  \/ /\ create = "null"
     /\ UNCHANGED windows
  \/ /\ create # "null"
     /\ \E id \in Identifiers, at \in Places, size \in Sizes :
          windows' = create_window_record(id, unicode, low_i32(at), low_i32(size))

find_window(h) == FirstIn(windows.seq, LAMBDA w : w.handle = h)

is_known_window(h) ==
  /\ h # 0
  /\ \/ h \in {FAKE, DESKTOP, ui.active, ui.foreground}
     \/ find_window(h) # 0

\* Every window handle a guest may pass, a stale one included.
Handles == {0, FAKE, DESKTOP, 1, 2}

---------------------------------------------------------------------------
(* The fake window *)

Fits(v) == v \in Coords
AtLeast1(v) == IF v < 1 THEN 1 ELSE v

window_client_size(h) ==
  LET at == find_window(h)
      own(v, global) == AtLeast1(IF at # 0 /\ v > 0 THEN v ELSE global)
      w == IF at = 0 THEN 0 ELSE windows.seq[at].w
      hh == IF at = 0 THEN 0 ELSE windows.seq[at].h
  IN  <<own(w, ui.w), own(hh, ui.h)>>

\* Faulty: an edge that leaves the coordinate's width wraps round.
get_window_rect_Wraps(h) ==
  LET at == find_window(h)
      win == windows.seq[at]
  IN  IF at = 0 THEN {} ELSE {<<win.x, win.y, low_i32(win.x + win.w), low_i32(win.y + win.h)>>}

\* {} is a call that fails: only window records have a rectangle, and a right or
\* bottom edge that overflows ends the run.
get_window_rect(h) ==
  LET at == find_window(h)
      win == windows.seq[at]
  IN  IF at # 0 /\ Fits(win.x + win.w) /\ Fits(win.y + win.h)
      THEN {<<win.x, win.y, win.x + win.w, win.y + win.h>>} ELSE {}

get_client_rect(h) ==
  IF is_known_window(h)
  THEN {<<0, 0, window_client_size(h)[1], window_client_size(h)[2]>>} ELSE {}

\* The rectangle BeginPaint asks the guest to paint; it changes no state.
begin_paint(h) ==
  IF is_known_window(h)
  THEN {<<0, 0, window_client_size(h)[1], window_client_size(h)[2]>>} ELSE {}

\* The call ends the run when a sum leaves the coordinate's width.
client_to_screen(h, p) ==
  IF h = FAKE /\ Fits(p[1] + ui.x) /\ Fits(p[2] + ui.y)
  THEN {<<p[1] + ui.x, p[2] + ui.y>>} ELSE {}

screen_to_client(h, p) ==
  IF h = FAKE /\ Fits(p[1] - ui.x) /\ Fits(p[2] - ui.y)
  THEN {<<p[1] - ui.x, p[2] - ui.y>>} ELSE {}

\* A setter of the fake window's fields ignores any other handle.
OnFake(h, next) == IF h = FAKE THEN next ELSE ui

show_window(h, show) == OnFake(h, [ui EXCEPT !.visible = show # 0])
enable_window(h, enable) == OnFake(h, [ui EXCEPT !.enabled = enable # 0])
set_foreground_window(h) == OnFake(h, [ui EXCEPT !.foreground = h, !.active = h])
set_active_window(h) == IF h \in {0, FAKE} THEN [ui EXCEPT !.active = h] ELSE ui
set_focus(h) == IF h \in {0, FAKE} THEN [ui EXCEPT !.focus = h] ELSE ui
set_capture(h) == OnFake(h, [ui EXCEPT !.capture = h])
release_capture == [ui EXCEPT !.capture = 0]
set_cursor(c) == [ui EXCEPT !.cursor = c]
update_window(h) == IF is_known_window(h) THEN [ui EXCEPT !.invalidated = FALSE] ELSE ui
invalidate_rect(h) ==
  IF h = 0 \/ is_known_window(h) THEN [ui EXCEPT !.invalidated = TRUE] ELSE ui
end_paint(h) == IF is_known_window(h) THEN [ui EXCEPT !.invalidated = FALSE] ELSE ui
redraw_window(h) == IF h \in {0, FAKE} THEN [ui EXCEPT !.invalidated = FALSE] ELSE ui
set_window_text(h, t) == OnFake(h, [ui EXCEPT !.title = t])
move_window(h, x, y, width, height, repaint) ==
  OnFake(h, [ui EXCEPT !.x = low_i32(x), !.y = low_i32(y),
                       !.w = low_i32(width), !.h = low_i32(height),
                       !.invalidated = IF repaint = 0 THEN ui.invalidated ELSE FALSE])

FakeWindowCall ==
  /\ \E h \in Handles, flag \in {0, 1} :
       \/ ui' = show_window(h, flag)
       \/ ui' = enable_window(h, flag)
       \/ ui' = set_foreground_window(h)
       \/ ui' = set_active_window(h)
       \/ ui' = set_focus(h)
       \/ ui' = set_capture(h)
       \/ ui' = release_capture
       \/ ui' = set_cursor(flag)
       \/ ui' = update_window(h)
       \/ ui' = invalidate_rect(h)
       \/ ui' = end_paint(h)
       \/ ui' = redraw_window(h)
       \/ \E t \in Titles : ui' = set_window_text(h, t)
       \/ \E at \in Places, size \in Sizes :
            ui' = move_window(h, at, at + 1, size, size + 1, flag)
  /\ UNCHANGED <<classes, windows, longs, timers, hooks, menus, keys>>

---------------------------------------------------------------------------
(* Longs, keys, timers, hooks and menus *)

\* Any handle is accepted; a window procedure stored here is not the one that
\* messages go to.
set_window_long_ptr_value ==
  /\ \E h \in {FAKE, 1}, i \in {0, 1}, v \in Procs : longs' = Put(longs, <<h, i>>, v)
  /\ UNCHANGED <<classes, windows, timers, hooks, menus, ui, keys>>

set_keyboard_state ==
  /\ \E down \in BOOLEAN : keys' = [k \in DOMAIN keys |-> down]
  /\ UNCHANGED <<classes, windows, longs, timers, hooks, menus, ui>>

\* An id of 0 asks for a fresh one; a pair that exists is set again.
set_timer(h, id) ==
  LET own == IF id = 0 THEN timers.next ELSE id
  IN  IF h \notin {0, FAKE} THEN timers
      ELSE [set |-> Put(timers.set, <<h, own>>, "set"),
            next |-> IF id = 0 THEN timers.next + 1 ELSE timers.next]

SetTimer ==
  /\ \E h \in {0, FAKE, 1}, id \in {0, 1} : timers' = set_timer(h, id)
  /\ UNCHANGED <<classes, windows, longs, hooks, menus, ui, keys>>

kill_timer ==
  /\ \E t \in DOMAIN timers.set : timers' = [timers EXCEPT !.set = Drop(timers.set, t)]
  /\ UNCHANGED <<classes, windows, longs, hooks, menus, ui, keys>>

set_windows_hook_ex(proc) ==
  /\ hooks' = IF proc = 0 THEN hooks
              ELSE [set |-> Put(hooks.set, hooks.next, proc), next |-> hooks.next + 1]
  /\ UNCHANGED <<classes, windows, longs, timers, menus, ui, keys>>

unhook_windows_hook_ex ==
  /\ \E h \in DOMAIN hooks.set : hooks' = [hooks EXCEPT !.set = Drop(hooks.set, h)]
  /\ UNCHANGED <<classes, windows, longs, timers, menus, ui, keys>>

\* CreateMenu, CreatePopupMenu and GetSystemMenu.
allocate_menu_handle ==
  /\ menus' = [menus EXCEPT !.next = @ + 1]
  /\ UNCHANGED <<classes, windows, longs, timers, hooks, ui, keys>>

\* Neither call looks whether the menu exists.
enable_menu_item(m, flags) == menus' = [menus EXCEPT !.enabled = Put(@, <<m, 1>>, flags)]
check_menu_item(m, flags) == menus' = [menus EXCEPT !.checked = Put(@, <<m, 1>>, flags)]

MenuCall ==
  /\ \E m \in {1}, flags \in {0, 1} :
       enable_menu_item(m, flags) \/ check_menu_item(m, flags)
  /\ UNCHANGED <<classes, windows, longs, timers, hooks, ui, keys>>

\* Registering and creating count once against the bound, other calls twice, so
\* that every run has room for a window.
Charge(n) == calls >= n /\ calls' = calls - n

TableCall ==
  \/ FakeWindowCall
  \/ set_window_long_ptr_value
  \/ set_keyboard_state
  \/ SetTimer
  \/ kill_timer
  \/ \E proc \in Procs \cup {0} : set_windows_hook_ex(proc)
  \/ unhook_windows_hook_ex
  \/ allocate_menu_handle
  \/ MenuCall

UserCall ==
  \/ Charge(1) /\ \E unicode \in BOOLEAN : register_class_ex(unicode)
  \/ Charge(2) /\ TableCall

=============================================================================
