---------------------------- MODULE GuestThreads ----------------------------
(***************************************************************************)
(* The life of a guest thread: CreateThread queues a spawn (or keeps it    *)
(* suspended for ResumeThread), and only the session's own loop on the     *)
(* primary thread turns queued spawns into host threads (drain_spawns, at  *)
(* its loop top and between the slices of an INFINITE wait).  A worker     *)
(* that creates a thread therefore depends on the primary to start it.     *)
(***************************************************************************)
EXTENDS Naturals, Sequences, FiniteSets

CONSTANTS
  MaxTids,      \* bound: worker TIDs ever allocated
  MaxWorkers    \* WIE_MT_MAX_THREADS

ASSUME ThreadAssumption ==
  MaxTids \in Nat /\ MaxWorkers \in Nat \ {0}

PRIMARY_THREAD_ID == 0

Tids == 1 .. MaxTids

NoTid == MaxTids + 1

VARIABLES
  next_tid,    \* ThreadState.next_tid; TIDs below it are in by_tid for good
  pending,     \* SyncState.pending_spawns
  suspended,   \* SyncState.suspended_spawns
  spawning,    \* what drain_spawns took and has not started yet
  starts,      \* host threads started for each TID
  ended,       \* TIDs whose worker_main has returned
  joins,       \* the thread each guest thread waits for without a timeout
  creator,     \* who created each TID
  dying,       \* SyncState.process_dying
  loop_pc,     \* where the session's loop is
  failed,      \* the host failed to start a thread
  refused      \* unfinished threads at the last refused CreateThread

threadVars == <<next_tid, pending, suspended, spawning, starts, ended, joins, creator, dying, loop_pc, failed, refused>>

ThreadInit ==
  /\ next_tid = 1
  /\ pending = <<>> /\ spawning = <<>>
  /\ suspended = {}
  /\ starts = [t \in Tids |-> 0]
  /\ ended = {}
  /\ joins = [t \in Tids \cup {PRIMARY_THREAD_ID} |-> NoTid]
  /\ creator = [t \in Tids |-> NoTid]
  /\ dying = FALSE
  /\ loop_pc = "top"
  /\ failed = FALSE
  /\ refused = MaxWorkers

---------------------------------------------------------------------------
(* Guest threads at an API stop *)

Running(t) == t \in Tids /\ starts[t] > 0 /\ t \notin ended

\* Threads that can dispatch a call now.
Callers ==
  {t \in Tids \cup {PRIMARY_THREAD_ID} :
     /\ joins[t] = NoTid
     /\ IF t = PRIMARY_THREAD_ID THEN loop_pc = "guest" ELSE Running(t) /\ ~dying}

\* TIDs whose thread has not ended.
Unfinished == {t \in Tids : t < next_tid} \ ended

\* The count CreateThread compares with its limit: every TID ever allocated,
\* and the queued ones once more.
Counted == (next_tid - 1) + Len(pending) + Cardinality(suspended)

\* After a dispatch the primary's loop is at its top again.
AfterCall(t) == loop_pc' = IF t = PRIMARY_THREAD_ID THEN "top" ELSE loop_pc

CreateThread(t, flags) ==
  /\ t \in Callers
  /\ next_tid \in Tids
  /\ Counted < MaxWorkers
  /\ next_tid' = next_tid + 1
  /\ creator' = [creator EXCEPT ![next_tid] = t]
  /\ IF flags = "CREATE_SUSPENDED"
       THEN suspended' = suspended \cup {next_tid} /\ UNCHANGED pending
       ELSE pending' = Append(pending, next_tid) /\ UNCHANGED suspended
  /\ AfterCall(t)
  /\ UNCHANGED <<spawning, starts, ended, joins, dying, failed, refused>>

\* ERROR_NOT_ENOUGH_MEMORY at the limit.
CreateThreadRefused(t) ==
  /\ t \in Callers
  /\ Counted >= MaxWorkers
  /\ refused' = Cardinality(Unfinished)
  /\ AfterCall(t)
  /\ UNCHANGED <<next_tid, pending, suspended, spawning, starts, ended, joins, creator, dying, failed>>

\* Faulty: the suspended spawn is looked up and left in the table.
StillSuspended_All(t) == suspended

\* The spawn leaves the table with the first ResumeThread.
StillSuspended(t) == suspended \ {t}

ResumeThread(t, u) ==
  /\ t \in Callers
  /\ u \in suspended
  /\ suspended' = StillSuspended(u)
  /\ pending' = Append(pending, u)
  /\ AfterCall(t)
  /\ UNCHANGED <<next_tid, spawning, starts, ended, joins, creator, dying, failed, refused>>

\* WaitForSingleObject(INFINITE) on a thread the caller created and started.
Join(t, u) ==
  /\ t \in Callers
  /\ creator[u] = t /\ u \notin suspended
  /\ u \notin ended
  /\ joins' = [joins EXCEPT ![t] = u]
  /\ loop_pc' = IF t = PRIMARY_THREAD_ID THEN "park" ELSE loop_pc
  /\ UNCHANGED <<next_tid, pending, suspended, spawning, starts, ended, creator, dying, failed, refused>>

\* A worker's wait is over: its thread has ended, or the process is dying and
\* the worker goes on to its own end.
JoinEnds(t) ==
  /\ t \in Tids /\ joins[t] # NoTid
  /\ joins[t] \in ended \/ dying
  /\ joins' = [joins EXCEPT ![t] = NoTid]
  /\ UNCHANGED <<next_tid, pending, suspended, spawning, starts, ended, creator, dying, loop_pc, failed, refused>>

\* A worker returns, calls ExitThread or faults; any worker of a dying process
\* stops at its next activation.
WorkerEnds(t) ==
  /\ Running(t) /\ joins[t] = NoTid
  /\ ended' = ended \cup {t}
  /\ UNCHANGED <<next_tid, pending, suspended, spawning, starts, joins, creator, dying, loop_pc, failed, refused>>

WorkerExitProcess(t) ==
  /\ t \in Callers \ {PRIMARY_THREAD_ID}
  /\ dying' = TRUE
  /\ ended' = ended \cup {t}
  /\ UNCHANGED <<next_tid, pending, suspended, spawning, starts, joins, creator, loop_pc, failed, refused>>

---------------------------------------------------------------------------
(* The session's loop *)

\* Faulty: an INFINITE wait does not look for new spawns.
DrainsAt_TopOnly == {"top"}

\* Where drain_spawns is called: the loop top, before a wait and between slices.
DrainsAt == {"top", "park", "slice"}

\* drain_spawns takes the whole queue under the mutex.
Drain ==
  /\ loop_pc \in DrainsAt
  /\ spawning = <<>> /\ pending # <<>>
  /\ spawning' = pending
  /\ pending' = <<>>
  /\ UNCHANGED <<next_tid, suspended, starts, ended, joins, creator, dying, loop_pc, failed, refused>>

\* ... and starts one host thread after the other without it.
Spawn ==
  /\ spawning # <<>>
  /\ starts' = [starts EXCEPT ![Head(spawning)] = @ + 1]
  /\ spawning' = Tail(spawning)
  /\ UNCHANGED <<next_tid, pending, suspended, ended, joins, creator, dying, loop_pc, failed, refused>>

\* The host cannot start a thread: the rest of the drained spawns is dropped.
\* At the loop top the run ends with the error, a wait ignores it.
SpawnFails ==
  /\ spawning # <<>>
  /\ spawning' = <<>>
  /\ failed' = TRUE
  /\ loop_pc' = IF loop_pc = "top" THEN "stopped" ELSE loop_pc
  /\ UNCHANGED <<next_tid, pending, suspended, starts, ended, joins, creator, dying, refused>>

\* The drain found nothing, or is done.
Drained == spawning = <<>> /\ (pending = <<>> \/ loop_pc \notin DrainsAt)

\* Guest code runs until its next stop.
Run ==
  /\ loop_pc = "top" /\ Drained
  /\ loop_pc' = "guest"
  /\ UNCHANGED <<next_tid, pending, suspended, spawning, starts, ended, joins, creator, dying, failed, refused>>

\* A quantum without an API stop, another API call, a parked critical section
\* or a wait with a timeout: the loop comes round.
Round ==
  /\ loop_pc = "guest"
  /\ loop_pc' = "top"
  /\ UNCHANGED <<next_tid, pending, suspended, spawning, starts, ended, joins, creator, dying, failed, refused>>

\* One 50 ms slice of the primary's INFINITE wait has passed in vain.
Slice ==
  /\ loop_pc = "park" /\ Drained
  /\ joins[PRIMARY_THREAD_ID] \notin ended
  /\ loop_pc' = "slice"
  /\ UNCHANGED <<next_tid, pending, suspended, spawning, starts, ended, joins, creator, dying, failed, refused>>

\* The primary waits for nobody any more.
Unparked == [joins EXCEPT ![PRIMARY_THREAD_ID] = NoTid]

\* After the drain: another slice unless the process is dying.
NextSlice ==
  /\ loop_pc = "slice" /\ Drained
  /\ loop_pc' = IF dying THEN "top" ELSE "park"
  /\ joins' = IF dying THEN Unparked ELSE joins
  /\ UNCHANGED <<next_tid, pending, suspended, spawning, starts, ended, creator, dying, failed, refused>>

\* The slice ends with the thread.
PrimaryJoinEnds ==
  /\ loop_pc = "park" /\ Drained
  /\ joins[PRIMARY_THREAD_ID] \in ended
  /\ loop_pc' = "top"
  /\ joins' = Unparked
  /\ UNCHANGED <<next_tid, pending, suspended, spawning, starts, ended, creator, dying, failed, refused>>

\* The run returns to its caller (API limit, no message, unsupported API) and
\* may be continued; workers go on meanwhile.
Stop ==
  /\ loop_pc = "guest"
  /\ loop_pc' = "stopped"
  /\ UNCHANGED <<next_tid, pending, suspended, spawning, starts, ended, joins, creator, dying, failed, refused>>

Continue ==
  /\ loop_pc = "stopped"
  /\ loop_pc' = "top"
  /\ UNCHANGED <<next_tid, pending, suspended, spawning, starts, ended, joins, creator, dying, failed, refused>>

\* ExitProcess or ExitThread of the primary, up to the flag of join_workers.
Exit ==
  /\ loop_pc = "guest"
  /\ dying' = TRUE
  /\ loop_pc' = "join"
  /\ UNCHANGED <<next_tid, pending, suspended, spawning, starts, ended, joins, creator, failed, refused>>

\* All started workers have been joined; queued spawns are never started.
Joined ==
  /\ loop_pc = "join"
  /\ \A t \in Tids : ~Running(t)
  /\ loop_pc' = "done"
  /\ UNCHANGED <<next_tid, pending, suspended, spawning, starts, ended, joins, creator, dying, failed, refused>>

Ended == loop_pc = "done" /\ UNCHANGED threadVars

---------------------------------------------------------------------------

Api(t) ==
  \/ \E flags \in {"0", "CREATE_SUSPENDED"} : CreateThread(t, flags)
  \/ CreateThreadRefused(t)
  \/ \E u \in Tids : ResumeThread(t, u) \/ Join(t, u)
  \/ WorkerExitProcess(t)

Session ==
  \/ Drain \/ Spawn \/ Run \/ Round \/ Slice \/ NextSlice \/ PrimaryJoinEnds \/ Joined

ThreadNext ==
  \/ \E t \in Tids \cup {PRIMARY_THREAD_ID} : Api(t)
  \/ \E t \in Tids : JoinEnds(t) \/ WorkerEnds(t)
  \/ Session \/ SpawnFails \/ Stop \/ Continue \/ Exit \/ Ended

ThreadSpec == ThreadInit /\ [][ThreadNext]_threadVars

\* The session's loop runs as long as the session does, a worker's wait ends
\* when it can, and a guest thread that waits for nobody ends at last (the
\* guest's duty in a program that joins it).
Fairness ==
  /\ WF_threadVars(Session)
  /\ \A t \in Tids : WF_threadVars(JoinEnds(t)) /\ WF_threadVars(WorkerEnds(t))

FairSpec == ThreadSpec /\ Fairness

---------------------------------------------------------------------------
(* Properties *)

Queued(q) == {q[i] : i \in 1 .. Len(q)}

\* A thread procedure runs at most once: a spawn is in one place only, in the
\* suspended table, the queue, the drain or a host thread, whoever resumes it
\* and however often.
StartedOnce ==
  /\ \A t \in Tids : starts[t] <= 1
  /\ \A t \in Queued(pending) \cup Queued(spawning) : starts[t] = 0 /\ t \notin suspended
  /\ Queued(pending) \cap Queued(spawning) = {}

\* A queued spawn is started, although only the primary starts threads and it
\* may be waiting for the very worker that queued it, unless the run stops, the
\* process exits or the host runs out of threads.
QueuedStarts ==
  \A t \in Tids :
    t \in Queued(pending) ~> starts[t] > 0 \/ failed \/ loop_pc \in {"stopped", "join", "done"}

\* The primary's join of a worker completes when workers create and join
\* threads of their own.
NestedJoinCompletes ==
  joins[PRIMARY_THREAD_ID] # NoTid ~> joins[PRIMARY_THREAD_ID] = NoTid \/ failed

\* What the limit is said to be ("Cap on live + pending worker TIDs"): only a
\* process that has that many unfinished threads is refused another.
RefusedOnlyAtCap == refused >= MaxWorkers

=============================================================================
