---------------------------- MODULE WaitObjects ----------------------------
(***************************************************************************)
(* Kernel objects a guest thread waits for (events, semaphores, threads):  *)
(* the handle table of SyncState, the objects' own mutex and condition     *)
(* variable (sync_obj.rs), WaitForSingleObject and the calls that signal   *)
(* (kernel32.rs), and the host parks that wait outside the WinAPI mutex    *)
(* (session.rs for the primary thread, mt_runtime.rs for workers).         *)
(*                                                                         *)
(* A dispatch runs under the WinAPI mutex and is one step.  A park is      *)
(* several: resolve the handle (WinAPI mutex), look at the object and      *)
(* start to wait (object mutex), wake, look again (object mutex), look at  *)
(* process_dying (WinAPI mutex), return.  An object stays alive for its    *)
(* waiters after CloseHandle has taken it out of the table.                *)
(***************************************************************************)
EXTENDS Naturals, FiniteSets

CONSTANTS
  Primary,    \* the session's own guest thread
  Workers,    \* guest threads of worker_main, spawned, each with its handle
  Events,     \* events the guest may create
  Manual,     \* those of them that are manual-reset
  Sems,       \* semaphores the guest may create
  MaxCount,   \* lMaximumCount of every semaphore
  Spurious,   \* whether the host's condition variables wake unasked
  MaxOps      \* bound: API calls the guest threads make between them

ASSUME ObjectAssumption ==
  /\ Primary \notin Workers /\ IsFiniteSet(Workers)
  /\ Manual \subseteq Events
  /\ Workers \cap Events = {} /\ Workers \cap Sems = {} /\ Events \cap Sems = {}
  /\ MaxCount \in Nat \ {0}
  /\ Spurious \in BOOLEAN
  /\ MaxOps \in Nat

Threads == {Primary} \cup Workers

Objects == Events \cup Sems \cup Workers

\* Objects whose signal is used up by the wait that it ends.
Consumable == Sems \cup (Events \ Manual)

VARIABLES
  unborn,     \* events and semaphores not created yet
  open,       \* SyncState.objects: what the handle table still holds
  signaled,   \* EventInner.signaled
  count,      \* SemaphoreInner.count
  finished,   \* ThreadObject.finished
  dying,      \* SyncState.process_dying
  pc,         \* where each host thread is
  wait,       \* the wait each thread makes or made last, and its code
  issued,     \* signals given to a consumable object: SetEvent, released units
  granted,    \* waits on it that returned WAIT_OBJECT_0 to the guest
  ops         \* API calls made so far

vars == <<unborn, open, signaled, count, finished, dying, pc, wait, issued, granted, ops>>

Timeouts == {"zero", "finite", "INFINITE"}

Codes == {"none", "WAIT_OBJECT_0", "WAIT_TIMEOUT", "WAIT_FAILED"}

WaitRecord == [obj : Objects, ms : Timeouts, code : Codes]

Parked == {"resolve", "check", "cv", "woken", "expired", "recheck"}

Init ==
  /\ unborn = Events \cup Sems
  /\ open = Workers
  /\ signaled = [e \in Events |-> FALSE]
  /\ count = [s \in Sems |-> 0]
  /\ finished = [w \in Workers |-> FALSE]
  /\ dying = FALSE
  /\ pc = [t \in Threads |-> "guest"]
  /\ wait = [t \in Threads |-> <<>>]
  /\ issued = [o \in Consumable |-> 0]
  /\ granted = [o \in Consumable |-> 0]
  /\ ops = 0

---------------------------------------------------------------------------
(* Objects *)

Ready(o) ==
  \/ o \in Events /\ signaled[o]
  \/ o \in Sems /\ count[o] > 0
  \/ o \in Workers /\ finished[o]

\* Faulty: the unit a wait was given stays in the semaphore.
Taken_Not(o) == count

\* The semaphore counts after a wait on o succeeded.
Taken(o) == [s \in Sems |-> IF s = o THEN count[s] - 1 ELSE count[s]]

\* An auto-reset event is reset by the wait it ends, a manual-reset one stays.
Consume(o) ==
  /\ signaled' = [e \in Events |-> signaled[e] /\ ~(e = o /\ e \notin Manual)]
  /\ count' = Taken(o)

WaitersOf(o) == {t \in Threads : pc[t] = "cv" /\ wait[t].obj = o}

\* Program counters after thread t goes to label and the waiters in W wake.
Notify(t, label, W) ==
  pc' = [u \in Threads |-> IF u = t THEN label ELSE IF u \in W THEN "woken" ELSE pc[u]]

Goto(t, label) == Notify(t, label, {})

\* notify_one, n times: that many waiters, or all there are.
Subsets(W, n) ==
  {V \in SUBSET W : Cardinality(V) = n \/ (Cardinality(W) < n /\ V = W)}

\* The waiters EventObject::set wakes.
WokenBySet(e) ==
  IF e \in Manual THEN {WaitersOf(e)} ELSE Subsets(WaitersOf(e), 1)

\* Faulty: the joiners of a finished thread are not told.
FinishTid_Lost(t, label) == Goto(t, label) /\ UNCHANGED finished

\* finish_tid looks the thread up in the handle table: one whose handle was
\* closed is not found, and its object never becomes finished.
FinishTid(t, label) ==
  IF t \in open
    THEN /\ finished' = [finished EXCEPT ![t] = TRUE]
         /\ Notify(t, label, WaitersOf(t))
    ELSE Goto(t, label) /\ UNCHANGED finished

---------------------------------------------------------------------------
(* API calls; a worker's dispatch in a dying process ends the worker *)

Dispatches(t) ==
  /\ pc[t] = "guest" /\ ~(dying /\ t \in Workers)
  /\ ops < MaxOps
  /\ ops' = ops + 1

CreateEvent(t, e) ==
  /\ Dispatches(t)
  /\ e \in unborn
  /\ unborn' = unborn \ {e}
  /\ open' = open \cup {e}
  /\ \E initial \in BOOLEAN :
       /\ signaled' = [signaled EXCEPT ![e] = initial]
       /\ issued' = IF initial /\ e \in Consumable
                      THEN [issued EXCEPT ![e] = 1] ELSE issued
  /\ UNCHANGED <<count, finished, dying, pc, wait, granted>>

\* Counts outside 0 .. lMaximumCount are refused and create nothing.
CreateSemaphore(t, s) ==
  /\ Dispatches(t)
  /\ s \in unborn
  /\ unborn' = unborn \ {s}
  /\ open' = open \cup {s}
  /\ \E initial \in 0 .. MaxCount :
       /\ count' = [count EXCEPT ![s] = initial]
       /\ issued' = [issued EXCEPT ![s] = initial]
  /\ UNCHANGED <<signaled, finished, dying, pc, wait, granted>>

SetEvent(t, e) ==
  /\ Dispatches(t)
  /\ e \in open
  /\ signaled' = [signaled EXCEPT ![e] = TRUE]
  /\ issued' = IF e \in Consumable THEN [issued EXCEPT ![e] = @ + 1] ELSE issued
  /\ \E W \in WokenBySet(e) : Notify(t, "guest", W)
  /\ UNCHANGED <<unborn, open, count, finished, dying, wait, granted>>

ResetEvent(t, e) ==
  /\ Dispatches(t)
  /\ e \in open
  /\ signaled' = [signaled EXCEPT ![e] = FALSE]
  /\ UNCHANGED <<unborn, open, count, finished, dying, pc, wait, issued, granted>>

\* SemaphoreObject::release refuses what would pass the maximum.
Fits(s, n) == count[s] + n <= MaxCount

ReleaseSemaphore(t, s, n) ==
  /\ Dispatches(t)
  /\ s \in open
  /\ IF Fits(s, n)
       THEN /\ count' = [count EXCEPT ![s] = @ + n]
            /\ issued' = [issued EXCEPT ![s] = @ + n]
            /\ \E W \in IF count[s] = 0 THEN {WaitersOf(s)} ELSE Subsets(WaitersOf(s), n) :
                 Notify(t, "guest", W)
       ELSE UNCHANGED <<count, issued, pc>>
  /\ UNCHANGED <<unborn, open, signaled, finished, dying, wait, granted>>

CloseHandle(t, o) ==
  /\ Dispatches(t)
  /\ o \in open
  /\ open' = open \ {o}
  /\ UNCHANGED <<unborn, signaled, count, finished, dying, pc, wait, issued, granted>>

---------------------------------------------------------------------------
(* WaitForSingleObject *)

\* The guest is told that its wait on o ended with WAIT_OBJECT_0.
Grant(o) == granted' = IF o \in Consumable THEN [granted EXCEPT ![o] = @ + 1] ELSE granted

\* The handler's fast path, then HostPark.
WaitForSingleObject(t, o, ms) ==
  /\ Dispatches(t)
  /\ o \notin unborn
  /\ \/ /\ o \notin open
        /\ wait' = [wait EXCEPT ![t] = [obj |-> o, ms |-> ms, code |-> "WAIT_FAILED"]]
        /\ UNCHANGED <<signaled, count, pc, granted>>
     \/ /\ o \in open /\ Ready(o)
        /\ Consume(o)
        /\ Grant(o)
        /\ wait' = [wait EXCEPT ![t] = [obj |-> o, ms |-> ms, code |-> "WAIT_OBJECT_0"]]
        /\ UNCHANGED pc
     \/ /\ o \in open /\ ~Ready(o)
        /\ Goto(t, "resolve")
        /\ wait' = [wait EXCEPT ![t] = [obj |-> o, ms |-> ms, code |-> "none"]]
        /\ UNCHANGED <<signaled, count, granted>>
  /\ UNCHANGED <<unborn, open, finished, dying, issued>>

\* Faulty: the slice's own timeout is taken for the wait's.
Outcome_Leaks(t, code) == Goto(t, "return") /\ wait' = [wait EXCEPT ![t].code = code]

\* The outcome of one WaitTarget::wait: an INFINITE wait is a loop of 50 ms
\* waits, so one that times out is followed by a look at process_dying.
Outcome(t, code) ==
  IF code = "WAIT_TIMEOUT" /\ wait[t].ms = "INFINITE"
    THEN Goto(t, "recheck") /\ UNCHANGED wait
    ELSE Goto(t, "return") /\ wait' = [wait EXCEPT ![t].code = code]

\* resolve_wait_target: the handle may have been closed since the dispatch.
Resolve(t) ==
  /\ pc[t] = "resolve"
  /\ IF wait[t].obj \in open
       THEN Goto(t, "check") /\ UNCHANGED wait
       ELSE Outcome(t, "WAIT_FAILED")
  /\ UNCHANGED <<unborn, open, signaled, count, finished, dying, issued, granted, ops>>

\* Under the object's mutex: succeed, give up, or start to wait.
Check(t) ==
  /\ pc[t] = "check"
  /\ \/ /\ Ready(wait[t].obj)
        /\ Consume(wait[t].obj)
        /\ Outcome(t, "WAIT_OBJECT_0")
     \/ /\ ~Ready(wait[t].obj) /\ wait[t].ms = "zero"
        /\ Outcome(t, "WAIT_TIMEOUT")
        /\ UNCHANGED <<signaled, count>>
     \/ /\ ~Ready(wait[t].obj) /\ wait[t].ms # "zero"
        /\ Goto(t, "cv")
        /\ UNCHANGED <<signaled, count, wait>>
  /\ UNCHANGED <<unborn, open, finished, dying, issued, granted, ops>>

\* Faulty: the condition variable has no deadline.
Expires_Never(t) == FALSE

\* Every wait has a deadline: the caller's, or the 50 ms slice.
Expires(t) == pc[t] = "cv"

Expire(t) ==
  /\ Expires(t)
  /\ Goto(t, "expired")
  /\ UNCHANGED <<unborn, open, signaled, count, finished, dying, wait, issued, granted, ops>>

\* std::sync::Condvar may wake a waiter that nobody notified.
WakeSpuriously(t) ==
  /\ Spurious
  /\ pc[t] = "cv"
  /\ Goto(t, "woken")
  /\ UNCHANGED <<unborn, open, signaled, count, finished, dying, wait, issued, granted, ops>>

\* What a woken thread that finds the object not ready returns: a semaphore
\* counts as timed out, an event and a thread as signaled.
NotReadyCode(t) ==
  IF pc[t] = "expired" \/ wait[t].obj \in Sems THEN "WAIT_TIMEOUT" ELSE "WAIT_OBJECT_0"

Wake(t) ==
  /\ pc[t] \in {"woken", "expired"}
  /\ \/ /\ Ready(wait[t].obj)
        /\ Consume(wait[t].obj)
        /\ Outcome(t, "WAIT_OBJECT_0")
     \/ /\ ~Ready(wait[t].obj)
        /\ Outcome(t, NotReadyCode(t))
        /\ UNCHANGED <<signaled, count>>
  /\ UNCHANGED <<unborn, open, finished, dying, issued, granted, ops>>

\* Faulty: the slices go on without a look at process_dying.
GivesUp_Never == FALSE

\* The loop around an INFINITE wait ends when the process is dying.
GivesUp == dying

\* Between two slices; a worker is already finished when it gives up.
Recheck(t) ==
  /\ pc[t] = "recheck"
  /\ IF GivesUp
       THEN /\ wait' = [wait EXCEPT ![t].code = "WAIT_FAILED"]
            /\ IF t \in Workers
                 THEN FinishTid(t, "return")
                 ELSE Goto(t, "return") /\ UNCHANGED finished
       ELSE Goto(t, "check") /\ UNCHANGED <<wait, finished>>
  /\ UNCHANGED <<unborn, open, signaled, count, dying, issued, granted, ops>>

\* return_from_win64_api under the mutex; a worker of a dying process stops
\* instead and its guest code never sees the result.
Return(t) ==
  /\ pc[t] = "return"
  /\ IF dying /\ t \in Workers
       THEN FinishTid(t, "done") /\ UNCHANGED granted
       ELSE /\ Goto(t, "guest")
            /\ IF wait[t].code = "WAIT_OBJECT_0" THEN Grant(wait[t].obj) ELSE UNCHANGED granted
            /\ UNCHANGED finished
  /\ UNCHANGED <<unborn, open, signaled, count, dying, wait, issued, ops>>

---------------------------------------------------------------------------
(* Exit *)

\* Loop top or API stop of a worker in a dying process.
StopDying(t) ==
  /\ t \in Workers /\ dying
  /\ pc[t] = "guest"
  /\ FinishTid(t, "done")
  /\ UNCHANGED <<unborn, open, signaled, count, dying, wait, issued, granted, ops>>

\* ExitThread, a return of the thread procedure, or a fault.
WorkerExitThread(t) ==
  /\ t \in Workers /\ ~dying
  /\ pc[t] = "guest"
  /\ FinishTid(t, "done")
  /\ UNCHANGED <<unborn, open, signaled, count, dying, wait, issued, granted, ops>>

WorkerExitProcess(t) ==
  /\ t \in Workers /\ ~dying
  /\ pc[t] = "guest"
  /\ dying' = TRUE
  /\ FinishTid(t, "done")
  /\ UNCHANGED <<unborn, open, signaled, count, wait, issued, granted, ops>>

\* ExitProcess sets the flag at once; after ExitThread join_workers sets it.
PrimaryExit ==
  /\ pc[Primary] = "guest"
  /\ dying' \in {dying, TRUE}
  /\ Goto(Primary, "join")
  /\ UNCHANGED <<unborn, open, signaled, count, finished, wait, issued, granted, ops>>

\* join_workers_impl: set every event, wake every semaphore's waiters and
\* finish every thread that the handle table still holds.
JoinWorkers ==
  LET set == Events \cap open
      late == {w \in Workers \cap open : ~finished[w]}
      all == UNION {WaitersOf(o) : o \in (set \cap Manual) \cup (Sems \cap open) \cup late}
      auto == set \ Manual
  IN /\ pc[Primary] = "join"
     /\ dying' = TRUE
     /\ signaled' = [e \in Events |-> signaled[e] \/ e \in set]
     /\ issued' = [o \in Consumable |-> issued[o] + IF o \in auto THEN 1 ELSE 0]
     /\ finished' = [w \in Workers |-> finished[w] \/ w \in late]
     /\ \E one \in SUBSET UNION {WaitersOf(e) : e \in auto} :
          /\ \A e \in auto : one \cap WaitersOf(e) \in WokenBySet(e)
          /\ Notify(Primary, "joining", all \cup one)
     /\ UNCHANGED <<unborn, open, count, wait, granted, ops>>

\* The host threads of all workers have been joined.
Joined ==
  /\ pc[Primary] = "joining"
  /\ \A w \in Workers : pc[w] = "done"
  /\ Goto(Primary, "done")
  /\ UNCHANGED <<unborn, open, signaled, count, finished, dying, wait, issued, granted, ops>>

\* The process has ended.
Ended == (\A t \in Threads : pc[t] = "done") /\ UNCHANGED vars

---------------------------------------------------------------------------

Park(t) ==
  \/ Resolve(t) \/ Check(t) \/ Expire(t) \/ Wake(t) \/ Recheck(t) \/ Return(t)

Api(t) ==
  \/ \E e \in Events : CreateEvent(t, e) \/ SetEvent(t, e) \/ ResetEvent(t, e)
  \/ \E s \in Sems : CreateSemaphore(t, s) \/ \E n \in 1 .. MaxCount + 1 : ReleaseSemaphore(t, s, n)
  \/ \E o \in Objects : CloseHandle(t, o) \/ \E ms \in Timeouts : WaitForSingleObject(t, o, ms)

Exit(t) == StopDying(t) \/ WorkerExitThread(t) \/ WorkerExitProcess(t)

Next ==
  \/ \E t \in Threads : Park(t) \/ WakeSpuriously(t) \/ Api(t) \/ Exit(t)
  \/ PrimaryExit \/ JoinWorkers \/ Joined \/ Ended

Spec == Init /\ [][Next]_vars

\* Host threads keep running and deadlines pass.  Nothing is assumed of the
\* guest: it may never call again, so PrimaryExit and the API are not fair.
Fairness ==
  /\ \A t \in Threads : WF_vars(Park(t)) /\ WF_vars(StopDying(t))
  /\ WF_vars(JoinWorkers) /\ WF_vars(Joined)

FairSpec == Spec /\ Fairness

---------------------------------------------------------------------------
(* Properties *)

\* Successful waits on o whose result is still on its way to the guest.
InFlight(o) ==
  {t \in Threads : pc[t] = "return" /\ wait[t].obj = o /\ wait[t].code = "WAIT_OBJECT_0"}

\* No unit of a semaphore is lost or given twice: what was released is still
\* in the count, on its way to one waiter, or was returned to the guest, over
\* every interleaving of fast path, slices, wakes and late notifies.  Workers
\* that a dying process stops keep what they took.
UnitsConserved ==
  ~dying => \A s \in Sems : issued[s] = count[s] + granted[s] + Cardinality(InFlight(s))

\* The 50 ms slices of an INFINITE wait never leak a WAIT_TIMEOUT to the guest,
\* and it fails only because its handle was closed before it was resolved or the
\* process dies.  (It may end without a signal: EventObject::wait and
\* wait_until_finished do not look again after a wake nobody asked for.)
InfiniteWaitOutcome ==
  \A t \in Threads :
    wait[t] \in WaitRecord /\ wait[t].ms = "INFINITE" =>
      /\ wait[t].code # "WAIT_TIMEOUT"
      /\ wait[t].code = "WAIT_FAILED" => wait[t].obj \notin open \/ dying

\* Who joins an open, finished thread without a timeout gets an answer.
JoinCompletes ==
  \A t \in Threads, w \in Workers :
    (pc[t] \in Parked /\ wait[t].obj = w /\ pc[w] = "done" /\ w \in open)
      ~> pc[t] \notin Parked

\* Once the process is dying no wait without timeout goes on, whatever the
\* object: ExitProcess on a worker sets the flag and notifies nobody.
DyingEndsWaits ==
  \A t \in Threads : (dying /\ pc[t] \in Parked) ~> pc[t] \notin Parked

\* join_workers returns: no worker keeps waiting, not even on an object whose
\* handle is closed, which the teardown cannot signal.
JoinReturns == pc[Primary] = "joining" ~> pc[Primary] = "done"

\* What EventObject::wait promises ("auto-reset consumes"): one SetEvent ends
\* at most one wait.
OneSetOneWait == \A e \in Events \ Manual : granted[e] <= issued[e]

\* What ThreadObject.finished promises ("True after ExitThread / natural end").
FinishedAfterExit == \A w \in Workers : pc[w] = "done" => finished[w]

=============================================================================
