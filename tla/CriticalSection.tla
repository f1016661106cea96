------------------------- MODULE CriticalSection -------------------------
(***************************************************************************)
(* Win32 critical sections of a wie guest process: the guest's             *)
(* RTL_CRITICAL_SECTION fields, the handlers that change them, the host    *)
(* park of a contended Enter and the two host loops (session.rs for the    *)
(* primary thread, mt_runtime.rs worker_main for the others) that call the *)
(* handlers.                                                               *)
(*                                                                         *)
(* Every guest thread is a host thread with a CPU engine of its own.  The  *)
(* WinAPI mutex is held while a thread activates itself and dispatches one *)
(* API call, so a dispatch is one atomic step; guest code and the wait on  *)
(* a section's queue run outside the mutex, so they are steps of their     *)
(* own that the other threads' steps fall between.                         *)
(***************************************************************************)
EXTENDS Naturals, FiniteSets

CONSTANTS
  Primary,     \* the session's own guest thread (PRIMARY_THREAD_ID)
  Workers,     \* guest threads that run in worker_main
  Sections,    \* addresses of the guest's critical sections
  NoTid,       \* OwningThread = 0
  NoSection,   \* no Enter is pending
  U32Max,      \* largest value of the 32-bit fields, and LockCount's -1
  MaxCalls     \* bound: Enter and Leave calls one guest thread makes

Threads == {Primary} \cup Workers

ASSUME IdentityAssumption ==
  /\ Primary \notin Workers
  /\ NoTid \notin Threads
  /\ NoSection \notin Sections

\* A guest thread never re-enters a section 2^32 times.
ASSUME WidthAssumption ==
  /\ U32Max \in Nat
  /\ MaxCalls \in Nat
  /\ MaxCalls < U32Max

VARIABLES
  active,      \* ThreadState.active.tid: the thread loaded under the mutex
  cs,          \* the guest memory of each section
  cs_waiters,  \* SyncState.cs_waiters: sections whose queue was created
  dying,       \* SyncState.process_dying
  pc,          \* where each host thread is in its loop
  want,        \* the section whose Enter each thread is still retrying
  held,        \* Enter calls that returned minus Leave calls, as the guest counts
  calls        \* Enter and Leave calls made so far

vars == <<active, cs, cs_waiters, dying, pc, want, held, calls>>

HostPc == {"top", "guest", "park", "spin", "wait", "unpark", "join", "joining", "done"}

Section == [LockCount : Nat, RecursionCount : Nat, OwningThread : Threads \cup {NoTid}]

TypeOK ==
  /\ active \in Threads
  /\ cs \in [Sections -> Section]
  /\ cs_waiters \subseteq Sections
  /\ dying \in BOOLEAN
  /\ pc \in [Threads -> HostPc]
  /\ want \in [Threads -> Sections \cup {NoSection}]
  /\ held \in [Threads -> [Sections -> Nat]]
  /\ calls \in [Threads -> 0 .. MaxCalls]

---------------------------------------------------------------------------
(* The guest's view of a section *)

\* write_critical_section_unlocked: LockCount is u32::MAX.
Unlocked == [LockCount |-> U32Max, RecursionCount |-> 0, OwningThread |-> NoTid]

SaturatingInc(n) == IF n < U32Max THEN n + 1 ELSE n

SaturatingDec(n) == IF n > 0 THEN n - 1 ELSE 0

\* Faulty: a contended section is entered as if it were free.
CanEnter_IgnoresOwner(s, me) == TRUE

CanEnter(s, me) == s.OwningThread \in {NoTid, me}

\* try_enter_critical_section_guest, the branch that acquires.
Entered(s, me) ==
  IF s.OwningThread = NoTid
    THEN [LockCount |-> 0, RecursionCount |-> 1, OwningThread |-> me]
    ELSE [LockCount |-> SaturatingInc(s.LockCount),
          RecursionCount |-> SaturatingInc(s.RecursionCount),
          OwningThread |-> me]

\* Faulty: one Leave gives the section up however often it was entered.
Unlocks_IgnoresRecursion(s, me) == s.OwningThread = me

\* leave_critical_section_guest returns TRUE: the section became free.
Unlocks(s, me) == s.OwningThread = me /\ s.RecursionCount <= 1

Left(s, me) ==
  IF s.OwningThread # me THEN s
  ELSE IF Unlocks(s, me) THEN Unlocked
  ELSE [LockCount |-> SaturatingDec(s.LockCount),
        RecursionCount |-> SaturatingDec(s.RecursionCount),
        OwningThread |-> me]

---------------------------------------------------------------------------
(* Active-TID rule: current_tid() is the thread activated last, so every  *)
(* dispatch activates its own thread again after guest code has run.      *)

\* Faulty: the dispatch trusts the identity left by whoever activated last.
Reactivate_Missing(t) == active

Reactivate(t) == t

\* Faulty: worker_main does not look at process_dying.
Stops_Never(t) == FALSE

\* A worker that finds the process dying at an activation stops there.
Stops(t) == dying /\ t \in Workers

Goto(t, label) == pc' = [pc EXCEPT ![t] = label]

Init ==
  /\ active = Primary
  /\ cs = [c \in Sections |-> Unlocked]
  /\ cs_waiters = {}
  /\ dying = FALSE
  /\ pc = [t \in Threads |-> "top"]
  /\ want = [t \in Threads |-> NoSection]
  /\ held = [t \in Threads |-> [c \in Sections |-> 0]]
  /\ calls = [t \in Threads |-> 0]

---------------------------------------------------------------------------
(* Loop steps *)

\* Loop top: activate under the mutex, then run guest code without it.
Top(t) ==
  /\ pc[t] = "top"
  /\ active' = t
  /\ Goto(t, IF Stops(t) THEN "done" ELSE "guest")
  /\ UNCHANGED <<cs, cs_waiters, dying, want, held, calls>>

\* The instruction budget of the quantum ran out before an API stop.
QuantumExhausted(t) ==
  /\ pc[t] = "guest"
  /\ want[t] = NoSection
  /\ Goto(t, "top")
  /\ UNCHANGED <<active, cs, cs_waiters, dying, want, held, calls>>

\* An API stop of a worker in a dying process: re-activate, then finish_tid.
DispatchWhileDying(t) ==
  /\ pc[t] = "guest"
  /\ Stops(t)
  /\ active' = Reactivate(t)
  /\ Goto(t, "done")
  /\ UNCHANGED <<cs, cs_waiters, dying, want, held, calls>>

---------------------------------------------------------------------------
(* Enter *)

\* What a thread at an API stop may dispatch: the pending Enter again, or a
\* fresh call within the bound.
Calls(t, c) ==
  \/ want[t] = c /\ UNCHANGED calls
  \/ /\ want[t] = NoSection
     /\ calls[t] < MaxCalls
     /\ calls' = [calls EXCEPT ![t] = @ + 1]

Enter(t, c) ==
  /\ pc[t] = "guest" /\ ~Stops(t)
  /\ Calls(t, c)
  /\ active' = Reactivate(t)
  /\ CanEnter(cs[c], active')
  /\ cs' = [cs EXCEPT ![c] = Entered(@, active')]
  /\ held' = [held EXCEPT ![t][c] = @ + 1]
  /\ want' = [want EXCEPT ![t] = NoSection]
  /\ Goto(t, "top")
  /\ UNCHANGED <<cs_waiters, dying>>

\* Contended: the handler returns HostPark and the guest's RIP stays on Enter.
EnterContended(t, c) ==
  /\ pc[t] = "guest" /\ ~Stops(t)
  /\ Calls(t, c)
  /\ active' = Reactivate(t)
  /\ ~CanEnter(cs[c], active')
  /\ want' = [want EXCEPT ![t] = c]
  /\ Goto(t, "park")
  /\ UNCHANGED <<cs, cs_waiters, dying, held>>

---------------------------------------------------------------------------
(* Host park of a contended Enter *)

\* resolve_cs_queue under the mutex, then park_brief without it.
ResolveQueue(t) ==
  /\ pc[t] = "park"
  /\ cs_waiters' = cs_waiters \cup {want[t]}
  /\ Goto(t, "spin")
  /\ UNCHANGED <<active, cs, dying, want, held, calls>>

\* After the sixteen yields the thread is on the queue's condition variable.
BeginWait(t) ==
  /\ pc[t] = "spin"
  /\ Goto(t, "wait")
  /\ UNCHANGED <<active, cs, cs_waiters, dying, want, held, calls>>

\* Where a woken thread goes: the primary activates itself before its loop top.
Awake(t) == IF t = Primary THEN "unpark" ELSE "top"

\* Faulty: a wait without a deadline, that only a notify ends.
WaitExpires_Never(t) == FALSE

\* wait_timeout(1 ms) ends by itself: the queue has no state to re-check.
WaitExpires(t) == pc[t] = "wait"

WaitTimeout(t) ==
  /\ WaitExpires(t)
  /\ Goto(t, Awake(t))
  /\ UNCHANGED <<active, cs, cs_waiters, dying, want, held, calls>>

Unpark(t) ==
  /\ pc[t] = "unpark"
  /\ active' = t
  /\ Goto(t, "top")
  /\ UNCHANGED <<cs, cs_waiters, dying, want, held, calls>>

---------------------------------------------------------------------------
(* Leave *)

WaitersOf(c) == {u \in Threads : pc[u] = "wait" /\ want[u] = c}

\* notify_one: some waiter of the queue wakes; without one the wakeup is lost.
NotifyOne(t, c) ==
  \/ /\ c \in cs_waiters
     /\ \E u \in WaitersOf(c) : pc' = [pc EXCEPT ![t] = "top", ![u] = Awake(u)]
  \/ /\ c \notin cs_waiters \/ WaitersOf(c) = {}
     /\ Goto(t, "top")

Leave(t, c) ==
  /\ pc[t] = "guest" /\ ~Stops(t)
  /\ want[t] = NoSection
  /\ held[t][c] > 0 \/ calls[t] < MaxCalls
  /\ active' = Reactivate(t)
  /\ cs' = [cs EXCEPT ![c] = Left(@, active')]
  /\ held' = [held EXCEPT ![t][c] = SaturatingDec(@)]
  /\ calls' = IF held[t][c] > 0 THEN calls ELSE [calls EXCEPT ![t] = @ + 1]
  /\ IF Unlocks(cs[c], active') THEN NotifyOne(t, c) ELSE Goto(t, "top")
  /\ UNCHANGED <<cs_waiters, dying, want>>

\* InitializeCriticalSection* and DeleteCriticalSection write the unlocked
\* fields; a correct guest calls them only while nobody uses the section.
WriteUnlocked(t, c) ==
  /\ pc[t] = "guest" /\ ~Stops(t)
  /\ want[t] = NoSection
  /\ \A u \in Threads : held[u][c] = 0 /\ want[u] # c
  /\ calls[t] < MaxCalls
  /\ calls' = [calls EXCEPT ![t] = @ + 1]
  /\ active' = Reactivate(t)
  /\ cs' = [cs EXCEPT ![c] = Unlocked]
  /\ Goto(t, "top")
  /\ UNCHANGED <<cs_waiters, dying, want, held>>

---------------------------------------------------------------------------
(* Exit *)

\* A worker calls ExitProcess: the flag is set and only this thread stops.
WorkerExitProcess(t) ==
  /\ t \in Workers
  /\ pc[t] = "guest" /\ ~dying
  /\ want[t] = NoSection
  /\ active' = Reactivate(t)
  /\ dying' = TRUE
  /\ Goto(t, "done")
  /\ UNCHANGED <<cs, cs_waiters, want, held, calls>>

\* A worker returns from its thread procedure or calls ExitThread; a correct
\* guest thread owns no section then.
WorkerExitThread(t) ==
  /\ t \in Workers
  /\ pc[t] = "guest" /\ ~dying
  /\ want[t] = NoSection
  /\ \A c \in Sections : held[t][c] = 0
  /\ active' = Reactivate(t)
  /\ Goto(t, "done")
  /\ UNCHANGED <<cs, cs_waiters, dying, want, held, calls>>

\* The primary's loop ends: ExitProcess marks the process dying at once,
\* ExitThread leaves that to join_workers.
PrimaryExit ==
  /\ pc[Primary] = "guest"
  /\ want[Primary] = NoSection
  /\ active' = Reactivate(Primary)
  /\ \/ dying' = TRUE
     \/ UNCHANGED dying
  /\ Goto(Primary, "join")
  /\ UNCHANGED <<cs, cs_waiters, want, held, calls>>

\* join_workers_impl: set dying and notify_all on every queue.
WakeWorkers ==
  /\ pc[Primary] = "join"
  /\ dying' = TRUE
  /\ pc' = [t \in Threads |->
              IF t = Primary THEN "joining"
              ELSE IF pc[t] = "wait" /\ want[t] \in cs_waiters THEN Awake(t)
              ELSE pc[t]]
  /\ UNCHANGED <<active, cs, cs_waiters, want, held, calls>>

\* The host joins return once every worker's loop has ended.
JoinWorkers ==
  /\ pc[Primary] = "joining"
  /\ \A t \in Workers : pc[t] = "done"
  /\ Goto(Primary, "done")
  /\ UNCHANGED <<active, cs, cs_waiters, dying, want, held, calls>>

\* The host process has ended: nothing is left to run.
ProcessEnded ==
  /\ \A t \in Threads : pc[t] = "done"
  /\ UNCHANGED vars

---------------------------------------------------------------------------

Host(t) ==
  \/ Top(t) \/ QuantumExhausted(t) \/ DispatchWhileDying(t)
  \/ ResolveQueue(t) \/ BeginWait(t) \/ WaitTimeout(t) \/ Unpark(t)
  \/ WorkerExitProcess(t) \/ WorkerExitThread(t)

Api(t, c) ==
  Enter(t, c) \/ EnterContended(t, c) \/ Leave(t, c) \/ WriteUnlocked(t, c)

Next ==
  \/ \E t \in Threads : Host(t)
  \/ \E t \in Threads, c \in Sections : Api(t, c)
  \/ PrimaryExit \/ WakeWorkers \/ JoinWorkers
  \/ ProcessEnded

Spec == Init /\ [][Next]_vars

(***************************************************************************)
(* Fairness.  Host threads are scheduled by the host, which keeps every    *)
(* runnable thread running: weak fairness of the loop steps, of a pending  *)
(* Enter's retry and of the end of a wait.  A quantum ends because its     *)
(* instruction budget is finite.  That a guest thread leaves a section it  *)
(* owns is the guest's duty: its Leave is reached again and again, hence   *)
(* strong fairness.                                                        *)
(***************************************************************************)
Retry(t, c) == want[t] = c /\ (Enter(t, c) \/ EnterContended(t, c))

GuestLeaves(t, c) == held[t][c] > 0 /\ Leave(t, c)

Fairness ==
  /\ \A t \in Threads :
       /\ WF_vars(Top(t))
       /\ WF_vars(QuantumExhausted(t))
       /\ WF_vars(DispatchWhileDying(t))
       /\ WF_vars(ResolveQueue(t))
       /\ WF_vars(BeginWait(t))
       /\ WF_vars(WaitTimeout(t))
       /\ WF_vars(Unpark(t))
       /\ \A c \in Sections : WF_vars(Retry(t, c)) /\ SF_vars(GuestLeaves(t, c))
  /\ WF_vars(WakeWorkers)
  /\ WF_vars(JoinWorkers)

FairSpec == Spec /\ Fairness

---------------------------------------------------------------------------
(* Properties *)

\* No two threads are inside the same section: EnterCriticalSection returned
\* to both of them and neither has left.  Violated when a dispatch uses the
\* identity another thread left in ThreadState.active.
MutualExclusion ==
  \A c \in Sections, t, u \in Threads :
    held[t][c] > 0 /\ held[u][c] > 0 => t = u

\* A section's fields s agree with what each thread counts of its own calls.
Agrees(s, count) ==
  IF s.OwningThread = NoTid
    THEN s = Unlocked /\ \A t \in Threads : count[t] = 0
    ELSE /\ s.RecursionCount = count[s.OwningThread]
         /\ s.RecursionCount > 0
         /\ s.LockCount + 1 = s.RecursionCount
         /\ \A t \in Threads \ {s.OwningThread} : count[t] = 0

Count(c) == [t \in Threads |-> held[t][c]]

\* The guest's fields tell the truth: OwningThread is the thread inside, its
\* RecursionCount is the number of its unmatched Enter calls and LockCount is
\* one less; a free section has the initial fields and nobody inside.
OwnerAgrees == \A c \in Sections : Agrees(cs[c], Count(c))

\* Ownership ends only with the owner's own last Leave, and never passes from
\* one thread to another in one step (Leave by a thread that is not the owner
\* is ignored; Initialize and Delete touch no section in use).
OwnershipHandover ==
  [][\A c \in Sections :
       LET o == cs[c].OwningThread IN
         o # NoTid /\ cs'[c].OwningThread # o =>
           cs'[c].OwningThread = NoTid /\ held[o][c] = 1 /\ held'[o][c] = 0]_vars

\* A thread parked on a section enters it in the end, although Leave may
\* notify before the thread waits or before its queue exists (the wakeup is
\* lost and only the wait's deadline recovers), unless the process is dying.
EnterCompletes ==
  \A t \in Threads, c \in Sections :
    want[t] = c ~> want[t] # c \/ dying

\* Once the process is dying every worker's loop ends, wherever it was: in
\* guest code, parked on a section whose owner is gone, or between the two.
DyingStopsWorkers == dying ~> \A t \in Workers : pc[t] = "done"

\* The documented exit protocol ("dying wakes all CS queues"): no thread of a
\* dying process stays parked on a section.
DyingReleasesParked ==
  dying ~> \A t \in Threads : want[t] = NoSection \/ pc[t] = "done"

=============================================================================
