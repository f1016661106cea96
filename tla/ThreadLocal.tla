--------------------------- MODULE ThreadLocal ---------------------------
(***************************************************************************)
(* Guest thread identity and thread-local storage (thread.rs and the Tls*  *)
(* handlers).  TLS indices belong to the process, values to a thread.  The *)
(* values of one thread at a time are loaded in ThreadState.active; the    *)
(* others are stored in by_tid, and activate copies one out and the next   *)
(* one in.  Host loops activate before guest code and again at every       *)
(* dispatch, because other threads activate themselves in between.         *)
(*                                                                         *)
(* A vector of values is a function on 0 .. length - 1.                    *)
(***************************************************************************)
EXTENDS Naturals

CONSTANTS
  Primary,     \* PRIMARY_THREAD_ID
  Workers,     \* thread ids CreateThread hands out
  Values,      \* what a guest stores in a slot; 0 is the initial content
  MaxIndices   \* bound: TlsAlloc calls of the process

Threads == {Primary} \cup Workers
Content == Values \cup {0}

ASSUME TlsAssumption ==
  /\ Primary \notin Workers
  /\ MaxIndices \in Nat

VARIABLES
  tls_index_count,  \* ThreadState.tls_index_count
  active,           \* ThreadState.active: thread id and loaded values
  by_tid,           \* ThreadState.by_tid: stored values of each known thread
  pc,               \* where each host thread is: not created, loop top, guest code
  ret,              \* last TlsGetValue result of each thread
  thread_id,        \* last GetCurrentThreadId result of each thread (its own before any)
  mine              \* what each thread last stored under each index, 0 before

vars == <<tls_index_count, active, by_tid, pc, ret, thread_id, mine>>

Indices == 0 .. MaxIndices - 1

Init ==
  /\ tls_index_count = 0
  /\ active = [tid |-> Primary, tls |-> << >>]
  /\ by_tid = [t \in {Primary} |-> << >>]
  /\ pc = [t \in Threads |-> IF t = Primary THEN "top" ELSE "none"]
  /\ ret = [t \in Threads |-> 0]
  /\ thread_id = [t \in Threads |-> t]
  /\ mine = [t \in Threads |-> [i \in Indices |-> 0]]

---------------------------------------------------------------------------
(* ThreadState *)

Get(v, i) == IF i \in DOMAIN v THEN v[i] ELSE 0

\* Vec::resize to n zero-filled entries when the vector is shorter.
Grow(v, n) == [i \in (DOMAIN v) \cup (0 .. n - 1) |-> Get(v, i)]

\* Faulty: activate loads without saving what the last thread changed.
Saved_Not(a) == by_tid

\* by_tid after save_active.
Saved(a) ==
  [t \in (DOMAIN by_tid) \cup {a.tid} |-> IF t = a.tid THEN a.tls ELSE by_tid[t]]

\* activate(tid): the record that becomes active.
Activated(t) ==
  [tid |-> t,
   tls |-> Grow(IF t \in DOMAIN Saved(active) THEN Saved(active)[t] ELSE << >>,
                tls_index_count)]

\* Faulty: a dispatch after guest code trusts whoever is loaded.
Reloads_Never(t) == FALSE

\* The primary's loop activates only when another thread is loaded.
Reloads(t) == t # Primary \/ active.tid # Primary

Loaded(t) == IF Reloads(t) THEN Activated(t) ELSE active
Stored(t) == IF Reloads(t) THEN Saved(active) ELSE by_tid

---------------------------------------------------------------------------
(* Host loop *)

\* Loop top: activate, then run guest code outside the mutex.
Top(t) ==
  /\ pc[t] = "top"
  /\ active' = Loaded(t)
  /\ by_tid' = Stored(t)
  /\ pc' = [pc EXCEPT ![t] = "guest"]
  /\ UNCHANGED <<tls_index_count, ret, thread_id, mine>>

\* A dispatch that ends in a host park; the primary's loop also saves its record.
Park(t) ==
  /\ pc[t] = "guest"
  /\ active' = Loaded(t)
  /\ by_tid' = IF t = Primary
                 THEN [u \in (DOMAIN Stored(t)) \cup {Loaded(t).tid} |->
                         IF u = Loaded(t).tid THEN Loaded(t).tls ELSE Stored(t)[u]]
                 ELSE Stored(t)
  /\ pc' = [pc EXCEPT ![t] = "parked"]
  /\ UNCHANGED <<tls_index_count, ret, thread_id, mine>>

\* The end of a park: the primary activates itself whoever is loaded, a worker
\* does so only at its loop top.
Unpark(t) ==
  /\ pc[t] = "parked"
  /\ \/ t = Primary /\ active' = Activated(t) /\ by_tid' = Saved(active)
     \/ t # Primary /\ UNCHANGED <<active, by_tid>>
  /\ pc' = [pc EXCEPT ![t] = "top"]
  /\ UNCHANGED <<tls_index_count, ret, thread_id, mine>>

\* One handler under the mutex: re-activate, then leave newTls in the record.
Dispatch(t, newTls) ==
  /\ pc[t] = "guest"
  /\ active' = [tid |-> Loaded(t).tid, tls |-> newTls]
  /\ by_tid' = Stored(t)
  /\ pc' = [pc EXCEPT ![t] = "top"]

---------------------------------------------------------------------------
(* Handlers *)

\* handle_tls_alloc: indices only grow, a freed one is never handed out again.
TlsAlloc(t) ==
  /\ tls_index_count < MaxIndices
  /\ tls_index_count' = tls_index_count + 1
  /\ Dispatch(t, Grow(Loaded(t).tls, tls_index_count + 1))
  /\ UNCHANGED <<ret, thread_id, mine>>

\* handle_tls_set_value with an allocated index.
TlsSetValue(t, i, v) ==
  /\ i < tls_index_count
  /\ Dispatch(t, [Grow(Loaded(t).tls, tls_index_count) EXCEPT ![i] = v])
  /\ mine' = [mine EXCEPT ![t][i] = v]
  /\ UNCHANGED <<tls_index_count, ret, thread_id>>

\* handle_tls_get_value; an index never allocated reads 0.
TlsGetValue(t, i) ==
  /\ Dispatch(t, IF i < tls_index_count THEN Grow(Loaded(t).tls, tls_index_count)
                                        ELSE Loaded(t).tls)
  /\ ret' = [ret EXCEPT ![t] = IF i < tls_index_count THEN Get(Loaded(t).tls, i) ELSE 0]
  /\ UNCHANGED <<tls_index_count, thread_id, mine>>

\* handle_tls_free clears the caller's own value only.
TlsFree(t, i) ==
  /\ Dispatch(t, IF i \in DOMAIN Loaded(t).tls THEN [Loaded(t).tls EXCEPT ![i] = 0]
                                               ELSE Loaded(t).tls)
  /\ mine' = [mine EXCEPT ![t][i] = 0]
  /\ UNCHANGED <<tls_index_count, ret, thread_id>>

\* create_guest_thread: alloc_worker registers zeroed values for the new thread.
alloc_worker(t, w) ==
  /\ w \in Workers /\ pc[w] = "none"
  /\ pc[t] = "guest"
  /\ active' = Loaded(t)
  /\ by_tid' = [u \in (DOMAIN Stored(t)) \cup {w} |->
                  IF u = w THEN [i \in 0 .. tls_index_count - 1 |-> 0] ELSE Stored(t)[u]]
  /\ pc' = [pc EXCEPT ![t] = "top", ![w] = "top"]
  /\ UNCHANGED <<tls_index_count, ret, thread_id, mine>>

\* handle_get_current_thread_id, reached when no stub was planted for it.
GetCurrentThreadId(t) ==
  /\ Dispatch(t, Loaded(t).tls)
  /\ thread_id' = [thread_id EXCEPT ![t] = Loaded(t).tid]
  /\ UNCHANGED <<tls_index_count, ret, mine>>

\* The in-guest stub of a statically imported GetCurrentThreadId: a constant.
GetCurrentThreadIdStub(t) ==
  /\ pc[t] = "guest"
  /\ thread_id' = [thread_id EXCEPT ![t] = Primary]
  /\ UNCHANGED <<tls_index_count, active, by_tid, pc, ret, mine>>

Next ==
  \E t \in Threads :
    \/ Top(t) \/ Park(t) \/ Unpark(t) \/ TlsAlloc(t)
    \/ \E i \in Indices : \/ TlsGetValue(t, i)
                          \/ TlsFree(t, i)
                          \/ \E v \in Values : TlsSetValue(t, i, v)
    \/ \E w \in Workers : alloc_worker(t, w)
    \/ GetCurrentThreadId(t)
    \/ GetCurrentThreadIdStub(t)

Spec == Init /\ [][Next]_vars

---------------------------------------------------------------------------
(* Properties *)

\* What TlsGetValue(i) would return to thread t now.
Value(t, i) == Get(IF active.tid = t THEN active.tls ELSE by_tid[t], i)

\* Every thread finds under every index what it stored there itself: the
\* copies between active and by_tid lose nothing, no thread sees another's
\* value, and a newly allocated index reads 0 everywhere.
TlsIsolation ==
  \A t \in DOMAIN by_tid, i \in Indices :
    Value(t, i) = IF i < tls_index_count THEN mine[t][i] ELSE 0

\* TlsGetValue returns the caller's own value although other threads were
\* activated since the caller's guest code started to run.
GetReturnsOwnValue ==
  [][\A t \in Threads, i \in Indices :
       TlsGetValue(t, i) => ret'[t] = mine[t][i]]_vars

\* GetCurrentThreadId tells a thread its own id, as docs/mt-threads.md says
\* ("GetCurrentThreadId -> active guest TID").
ThreadIdIsOwn == \A t \in Threads : thread_id[t] = t

=============================================================================
