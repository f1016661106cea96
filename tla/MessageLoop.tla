----------------------------- MODULE MessageLoop -----------------------------
(***************************************************************************)
(* The message queue and the bridge from a host API into a guest window    *)
(* procedure.  SendMessage and DispatchMessage do not return: the session  *)
(* builds a call frame below the frame of the API, remembers it on         *)
(* pending_callbacks and lets the guest run; the procedure returns to a    *)
(* trampoline, which completes the most recent pending call.  A procedure  *)
(* may call any API, so these calls nest.  An empty queue either ends the  *)
(* guest with a synthetic WM_QUIT or yields to the caller of the session,  *)
(* who parks and enters GetMessage again.  Workers use the same queue.     *)
(*                                                                         *)
(* The primary's stack is modelled in words of 8 bytes that grow downwards *)
(* from StackWords; `frames` is what the guest itself knows of its calls.  *)
(***************************************************************************)
EXTENDS User32

CONSTANTS
  Workers,     \* guest threads other than the primary
  Msgs,        \* message numbers, WM_QUIT and WM_MDICREATE not among them
  StackWords,  \* bound: words of stack
  ParkLimits   \* values of idle_max_message_parks, 0 for no limit

WM_QUIT == 0
WM_MDICREATE == 9

\* The stack region starts on a page, and callers keep it aligned to two words.
ASSUME LoopAssumption ==
  /\ Msgs \subseteq Nat \ {WM_QUIT, WM_MDICREATE}
  /\ StackWords \in Nat /\ StackWords % 2 = 0
  /\ ParkLimits \subseteq Nat

Trampoline == "trampoline"
HomeWords == 4       \* the home space a caller reserves for its callee
PrologueWords == 5   \* what a procedure reserves, so that its calls are aligned

NoFilter == [hwnd |-> 0, min |-> 0, max |-> 0]

VARIABLES
  queue,       \* message_queue; `id` is the order of posting
  posted,      \* messages posted so far
  log,         \* messages retrieved, in order
  policy,      \* message_queue_idle_policy
  pending,     \* pending_callbacks
  stack,       \* the words of the primary's stack
  rsp, rip,    \* its stack pointer and where it runs
  frames,      \* the guest's own calls that have not returned
  pc,          \* "guest", "waiting" in GetMessage, "stopped"
  filter,      \* the arguments of the GetMessage that waits
  parks,       \* max_parks less message_parks
  alive        \* workers that run

loopVars == <<queue, posted, log, policy, pending, stack, rsp, rip, frames, pc, filter,
              parks, alive>>
tables == <<classes, windows, longs, timers, hooks, menus, ui, keys>>
vars == <<userVars, loopVars>>

Unlimited == -1

Init ==
  /\ UserInit
  /\ queue = <<>> /\ posted = 0 /\ log = <<>>
  /\ policy \in {"exit", "yield"}
  /\ pending = <<>>
  /\ stack = [a \in 1 .. StackWords |-> "free"]
  /\ rsp = StackWords - HomeWords
  /\ rip = "main"
  /\ frames = <<[site |-> "main", rsp |-> rsp, msg |-> <<>>]>>
  /\ pc = "guest"
  /\ filter = NoFilter
  /\ \E max \in ParkLimits : parks = IF max = 0 THEN Unlimited ELSE max
  /\ alive = Workers

---------------------------------------------------------------------------
(* The queue *)

Queued(h, m) == [hwnd |-> h, msg |-> m, id |-> posted + 1]

\* PostMessageA takes thread messages and the fake window's, no others.
post_message(h, m) ==
  /\ Charge(2)
  /\ posted' = posted + 1
  /\ queue' = IF h \in {0, FAKE} THEN Append(queue, Queued(h, m)) ELSE queue
  /\ UNCHANGED <<tables, log, policy, pending, stack, rsp, rip, frames, pc, filter, parks,
                 alive>>

\* The embedding program posts to any window while the session does not run.
post_window_message(h, m) ==
  /\ pc = "waiting"
  /\ Charge(2)
  /\ posted' = posted + 1
  /\ queue' = Append(queue, Queued(h, m))
  /\ UNCHANGED <<tables, log, policy, pending, stack, rsp, rip, frames, pc, filter, parks,
                 alive>>

set_message_queue_idle_policy(p) ==
  /\ pc = "waiting"
  /\ p # policy
  /\ policy' = p
  /\ UNCHANGED <<userVars, queue, posted, log, pending, stack, rsp, rip, frames, pc, filter,
                 parks, alive>>

matches_filter(f, q) ==
  /\ f.hwnd = 0 \/ q.hwnd = f.hwnd
  /\ (f.min = 0 /\ f.max = 0) \/ q.msg \in f.min .. f.max

Filters == [hwnd : {0, FAKE, 1}, min : {0}, max : {0}] \cup [hwnd : {0, FAKE}, min : {1}, max : {1}]

\* Faulty: the most recent message that matches.
matching_index_Last(f) == SelectLastInSeq(queue, LAMBDA q : matches_filter(f, q))

matching_index(f) == SelectInSeq(queue, LAMBDA q : matches_filter(f, q))

Top == Len(frames)
Buffer(q) == [frames EXCEPT ![Top].msg = q]

peek_message(f, remove) ==
  LET at == matching_index(f)
  IN  /\ IF at = 0 THEN UNCHANGED <<queue, log, frames>>
         ELSE /\ frames' = Buffer(queue[at])
              /\ queue' = IF remove THEN RemoveAt(queue, at) ELSE queue
              /\ log' = IF remove THEN Append(log, queue[at]) ELSE log
      /\ UNCHANGED <<userVars, posted, policy, pending, stack, rsp, rip, pc, filter, parks,
                     alive>>

QuitMessage == [hwnd |-> 0, msg |-> WM_QUIT, id |-> 0]

\* Nothing matches: a synthetic WM_QUIT, or the session's run ends with the
\* guest still at the entry of GetMessage.
NothingMatches(f) ==
  \/ /\ policy = "exit"
     /\ frames' = Buffer(QuitMessage)
     /\ pc' = "guest"
     /\ filter' = NoFilter
     /\ UNCHANGED <<queue, log>>
  \/ /\ policy = "yield"
     /\ pc' = "waiting"
     /\ filter' = f
     /\ UNCHANGED <<queue, log, frames>>

get_message(f) ==
  LET at == matching_index(f)
  IN  /\ IF at = 0 THEN NothingMatches(f)
         ELSE /\ frames' = Buffer(queue[at])
              /\ queue' = RemoveAt(queue, at)
              /\ log' = Append(log, queue[at])
              /\ pc' = "guest"
              /\ filter' = NoFilter
      /\ UNCHANGED <<userVars, posted, policy, pending, stack, rsp, rip, alive>>

\* Faulty: one park short.
Rerun_OneShort ==
  /\ pc = "waiting"
  /\ parks \notin {0, 1}
  /\ parks' = IF parks = Unlimited THEN parks ELSE parks - 1
  /\ get_message(filter)

\* The persistent run parks and runs again until it has parked max_parks times.
Rerun ==
  /\ pc = "waiting"
  /\ parks # 0
  /\ parks' = IF parks = Unlimited THEN parks ELSE parks - 1
  /\ get_message(filter)

\* The run is not entered again when no API calls are left of the budget, which
\* counts calls of every kind, so any wait may be the last; nor when the idle
\* policy does not park for messages.
ApiLimit ==
  /\ pc = "waiting"
  /\ pc' = "stopped"
  /\ UNCHANGED <<userVars, queue, posted, log, policy, pending, stack, rsp, rip, frames, filter,
                 parks, alive>>

---------------------------------------------------------------------------
(* The bridge into a window procedure *)

\* The guest's call instruction pushes its return address.
CallRsp == rsp - 1

\* Faulty: the frame has room for the home space and the return address only.
FrameWords_Tight == 5

\* 0x30 bytes: the return address, 32 bytes of home space, padding.
FrameWords == 6

create_window_hwnd_for_outer(outer, h) ==
  IF outer \in {"CreateWindowExA", "CreateWindowExW"} THEN h ELSE 0

\* The trampoline's address goes to the bottom of the frame; the home space is
\* cleared.  A frame that does not fit ends the run.
install_guest_callback_frame(h, outer, site) ==
  LET dispatch_rsp == CallRsp
      frame_rsp == dispatch_rsp - FrameWords
  IN  /\ IF frame_rsp < 1
         THEN pc' = "stopped" /\ UNCHANGED <<stack, rsp, rip, pending, frames>>
         ELSE /\ stack' = [a \in DOMAIN stack |->
                             CASE a = dispatch_rsp -> site
                               [] a = frame_rsp -> Trampoline
                               [] a \in frame_rsp + 1 .. frame_rsp + 4 -> "zero"
                               [] OTHER -> stack[a]]
              /\ rsp' = frame_rsp
              /\ rip' = "proc"
              /\ pending' = Append(pending,
                   [dispatch_rsp |-> dispatch_rsp,
                    create |-> create_window_hwnd_for_outer(outer, h)])
              /\ frames' = Append([frames EXCEPT ![Top].site = site],
                                  [site |-> "proc", rsp |-> frame_rsp - PrologueWords,
                                   msg |-> <<>>])
              /\ UNCHANGED pc
      /\ UNCHANGED <<userVars, queue, posted, log, policy, filter, parks, alive>>

\* Return address of the guest's call: calls one level apart differ.
CallSite == IF Top % 2 = 1 THEN "a" ELSE "b"

\* A window without a record or without a procedure answers 0.
HasProc(h) == find_window(h) # 0 /\ windows.seq[find_window(h)].proc # 0

\* SendMessageA and SendMessageW; WM_MDICREATE never reaches a procedure.
send_message(h, m) ==
  /\ m # WM_MDICREATE
  /\ HasProc(h)
  /\ install_guest_callback_frame(h, "SendMessageA", CallSite)

mdi_create(unicode) ==
  /\ \E create \in {"null", "struct"} : create_mdi_child_from_struct(unicode, create)
  /\ Charge(1)
  /\ UNCHANGED <<classes, longs, timers, hooks, menus, ui, keys, loopVars>>

\* DispatchMessageA reads the message the guest's buffer holds.
dispatch_message ==
  /\ frames[Top].msg # <<>>
  /\ HasProc(frames[Top].msg.hwnd)
  /\ install_guest_callback_frame(frames[Top].msg.hwnd, "DispatchMessageA", CallSite)

\* A procedure may use the home space above its return address; it reserves
\* its own before it calls anything.
Prologue ==
  /\ rip = "proc"
  /\ rsp > PrologueWords + 1
  /\ stack' = [a \in DOMAIN stack |->
                 IF a \in rsp + 1 .. rsp + HomeWords THEN "spilled" ELSE stack[a]]
  /\ rsp' = rsp - PrologueWords
  /\ rip' = "body"
  /\ frames' = [frames EXCEPT ![Top].site = "body"]
  /\ UNCHANGED <<userVars, queue, posted, log, policy, pending, pc, filter, parks, alive>>

\* Faulty: the outermost pending call is completed.
Completed_Oldest == Head(pending)

\* The most recent one.
Completed == Last(pending)

\* The procedure returns to whatever its return address is; at the trampoline
\* the outer API's stack pointer is restored and the API returns from there.
complete_guest_callback ==
  /\ Top > 1
  /\ rip # "proc"
  /\ IF stack[rsp + PrologueWords] # Trampoline \/ pending = <<>>
     THEN pc' = "stopped" /\ UNCHANGED <<pending, rsp, rip, frames>>
     ELSE /\ rip' = stack[Completed.dispatch_rsp]
          /\ rsp' = Completed.dispatch_rsp + 1
          /\ pending' = Front(pending)
          /\ frames' = Front(frames)
          /\ UNCHANGED pc
  /\ UNCHANGED <<userVars, queue, posted, log, policy, stack, filter, parks, alive>>

---------------------------------------------------------------------------
(* Threads *)

\* worker_main has no bridge and no queue wait: a call that needs one ends the
\* worker.
worker_stops(w) ==
  /\ \/ \E h \in Handles : HasProc(h)
     \/ policy = "yield" /\ \E f \in Filters : matching_index(f) = 0
  /\ alive' = alive \ {w}
  /\ UNCHANGED <<userVars, queue, posted, log, policy, pending, stack, rsp, rip, frames, pc,
                 filter, parks>>

\* A worker's GetMessage and PeekMessage take from the one queue.  Where nothing
\* matches it gets a synthetic WM_QUIT of its own, or stops as above.
worker_takes(f) ==
  LET at == matching_index(f)
  IN  /\ at # 0
      /\ queue' = RemoveAt(queue, at)
      /\ log' = Append(log, queue[at])
      /\ UNCHANGED <<userVars, posted, policy, pending, stack, rsp, rip, frames, pc, filter,
                     parks, alive>>

\* What any guest thread may do while the queue and the windows are unlocked.
AnyCall ==
  \/ UserCall /\ UNCHANGED loopVars
  \/ \E unicode \in BOOLEAN : mdi_create(unicode)
  \/ \E h \in {0, FAKE, 1}, m \in Msgs : post_message(h, m)

\* The primary between two of its own calls, or a worker whatever it does.
SomeThreadRuns == (pc = "guest" /\ rip # "proc") \/ (pc # "stopped" /\ alive # {})

WorkerCall ==
  /\ pc # "stopped" /\ alive # {}
  /\ \/ \E w \in alive : worker_stops(w)
     \/ \E f \in Filters : worker_takes(f)

PrimaryCall ==
  /\ pc = "guest"
  /\ \/ rip # "proc" /\ \E f \in Filters : get_message(f) /\ UNCHANGED parks
     \/ rip # "proc" /\ \E f \in Filters, remove \in BOOLEAN : peek_message(f, remove)
     \/ rip # "proc" /\ \E h \in {1, 2}, m \in Msgs : send_message(h, m)
     \/ rip # "proc" /\ dispatch_message
     \/ Prologue
     \/ complete_guest_callback

Embedding ==
  \/ \E h \in {0, FAKE, 1}, m \in Msgs : post_window_message(h, m)
  \/ \E p \in {"exit", "yield"} : set_message_queue_idle_policy(p)

Next == (SomeThreadRuns /\ AnyCall) \/ PrimaryCall \/ WorkerCall \/ Embedding \/ Rerun \/ ApiLimit

\* The loop of run_pe_persistent re-enters the session after every park.
Spec == Init /\ [][Next]_vars /\ WF_vars(Rerun)

---------------------------------------------------------------------------
(* Properties *)

Entry(i) == frames[i].rsp + PrologueWords

\* A window procedure entered through the bridge finds a stack aligned as the
\* ABI demands, its trampoline as the return address, and the return address
\* of every API call further out untouched, whatever it did with its home
\* space; the pending calls are the guest's own, in order.
CallbackFrames ==
  /\ Len(pending) = Top - 1
  /\ \A i \in DOMAIN pending :
       /\ stack[pending[i].dispatch_rsp] = frames[i].site
       /\ stack[Entry(i + 1)] = Trampoline
       /\ Entry(i + 1) % 2 = 1

\* Nested calls complete in the order they were made: a procedure that returns
\* resumes the code that made its call, with its stack pointer.
CallerResumes ==
  pc # "stopped" =>
    /\ rip = frames[Top].site
    /\ rsp = IF rip = "proc" THEN Entry(Top) ELSE frames[Top].rsp

\* Posted messages are retrieved at most once, and those of one window and one
\* number in the order they were posted, whichever filters and whichever of
\* GetMessage and PeekMessage take them.
MessageOrder ==
  /\ \A i, j \in DOMAIN log :
       i < j => /\ log[i].id # log[j].id
                /\ log[i].hwnd = log[j].hwnd /\ log[i].msg = log[j].msg
                     => log[i].id < log[j].id
  /\ \A i \in DOMAIN log, j \in DOMAIN queue : log[i].id # queue[j].id

\* A point moved to the screen and back is the same point wherever MoveWindow
\* put the window.  For every window, created with any place and size: the area
\* to paint is never empty, it is as large as the window's rectangle wherever
\* the window was given a size, and no edge is answered that a coordinate cannot
\* hold.
GeometryAgrees ==
  /\ \A x, y \in Coords : \A s \in client_to_screen(FAKE, <<x, y>>) :
       screen_to_client(FAKE, s) = {<<x, y>>}
  /\ \A h \in Handles : \A c \in get_client_rect(h) \cup begin_paint(h) :
       /\ c[3] >= 1 /\ c[4] >= 1 /\ Fits(c[3]) /\ Fits(c[4])
       /\ \A r \in get_window_rect(h) :
            /\ Fits(r[3]) /\ Fits(r[4])
            /\ windows.seq[find_window(h)].w > 0 => c[3] = r[3] - r[1]
            /\ windows.seq[find_window(h)].h > 0 => c[4] = r[4] - r[2]
  /\ \A h \in Handles :
       get_window_rect(h) # {} => get_client_rect(h) # {} /\ begin_paint(h) # {}

\* A guest that waits in GetMessage does not wait on while a message it would
\* get is queued: as long as the session still parks for it, it gets the
\* message, unless a worker takes it first or the API budget ends the run.
WaiterServed ==
  (pc = "waiting" /\ matching_index(filter) # 0 /\ parks # 0)
    ~> (pc # "waiting" \/ matching_index(filter) = 0)

=============================================================================
