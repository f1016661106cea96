---------------------------- MODULE ThreadProofs ----------------------------
(***************************************************************************)
(* Proofs about guest threads, for every number of them: their             *)
(* thread-local storage, the life of a thread from CreateThread to its     *)
(* host thread, and the two copies of the last error.                      *)
(***************************************************************************)
EXTENDS ThreadLocal, GuestThreads, LastError, TLAPS

\* What the proof needs of the types.
Shape ==
  /\ tls_index_count \in Nat
  /\ active.tid \in DOMAIN by_tid
  /\ DOMAIN by_tid \subseteq Threads
  /\ pc \in [Threads -> {"none", "top", "guest", "parked"}]
  /\ DOMAIN ret = Threads
  /\ mine \in [Threads -> [Indices -> Content]]

\* A thread is registered in by_tid exactly when it was created.
Registered == \A t \in Threads : pc[t] # "none" <=> t \in DOMAIN by_tid

\* Nothing was stored by a thread that does not exist yet, or under an index
\* that was not handed out yet.
Blank ==
  \A t \in Threads, i \in Indices :
    pc[t] = "none" \/ i >= tls_index_count => mine[t][i] = 0

\* Each thread's record holds what the thread stored.
Holds == \A t \in DOMAIN by_tid, i \in Indices : Value(t, i) = mine[t][i]

IInv == Shape /\ Registered /\ Blank /\ Holds

---------------------------------------------------------------------------
(* The copies *)

\* Growing a vector changes no value it is asked for.
LEMMA GrowKeeps == ASSUME NEW v, NEW n, NEW i PROVE Get(Grow(v, n), i) = Get(v, i)
  BY DEF Get, Grow

\* What u would read when a is loaded and b is stored.
View(a, b, u, i) == Get(IF a.tid = u THEN a.tls ELSE b[u], i)

\* Saving and loading moves values and changes none: activate(t) leaves t
\* loaded, no thread forgotten and every thread's values as they were.
LEMMA ActivateKeeps ==
  ASSUME NEW t \in DOMAIN by_tid, active.tid \in DOMAIN by_tid
  PROVE  /\ Activated(t).tid = t
         /\ DOMAIN Saved(active) = DOMAIN by_tid
         /\ \A u \in DOMAIN by_tid, i \in Indices : View(Activated(t), Saved(active), u, i) = Value(u, i)
<1>1. DOMAIN Saved(active) = DOMAIN by_tid
  BY DEF Saved
<1>2. Activated(t).tid = t
  BY DEF Activated
<1>3. Activated(t).tls = Grow(Saved(active)[t], tls_index_count)
  BY <1>1 DEF Activated
<1>4. \A u \in DOMAIN by_tid : Saved(active)[u] = IF u = active.tid THEN active.tls ELSE by_tid[u]
  BY DEF Saved
<1>5. ASSUME NEW u \in DOMAIN by_tid, NEW i \in Indices
      PROVE  View(Activated(t), Saved(active), u, i) = Value(u, i)
  <2>1. CASE u = t
    BY <2>1, <1>2, <1>3, <1>4, GrowKeeps DEF View, Value
  <2>2. CASE u # t
    BY <2>2, <1>2, <1>4 DEF View, Value
  <2> QED
    BY <2>1, <2>2
<1> QED
  BY <1>1, <1>2, <1>5

\* The same whether or not the loop had to activate.
LEMMA LoadKeeps ==
  ASSUME NEW t \in DOMAIN by_tid, active.tid \in DOMAIN by_tid
  PROVE  /\ Loaded(t).tid = t
         /\ DOMAIN Stored(t) = DOMAIN by_tid
         /\ \A u \in DOMAIN by_tid, i \in Indices : View(Loaded(t), Stored(t), u, i) = Value(u, i)
<1>1. CASE Reloads(t)
  BY <1>1, ActivateKeeps DEF Loaded, Stored
<1>2. CASE ~Reloads(t)
  <2>1. Loaded(t) = active /\ Stored(t) = by_tid /\ active.tid = t
    BY <1>2 DEF Loaded, Stored, Reloads
  <2> QED
    BY <2>1 DEF View, Value
<1> QED
  BY <1>1, <1>2

\* The part of the invariant about the records, after a step that loads t,
\* changes t's values only and registers nobody.
LEMMA DispatchHolds ==
  ASSUME IInv, NEW t \in Threads, NEW newTls, Dispatch(t, newTls),
         \A u \in Threads \ {t} : mine'[u] = mine[u],
         \A i \in Indices : Get(newTls, i) = mine'[t][i]
  PROVE  /\ active'.tid \in DOMAIN by_tid'
         /\ DOMAIN by_tid' = DOMAIN by_tid
         /\ pc' \in [Threads -> {"none", "top", "guest", "parked"}]
         /\ Registered'
         /\ Holds'
<1>1. t \in DOMAIN by_tid /\ pc[t] = "guest"
  BY DEF IInv, Registered, Dispatch
<1>2. active.tid \in DOMAIN by_tid
  BY DEF IInv, Shape
<1>3. /\ Loaded(t).tid = t
      /\ DOMAIN Stored(t) = DOMAIN by_tid
      /\ \A u \in DOMAIN by_tid, i \in Indices : View(Loaded(t), Stored(t), u, i) = Value(u, i)
  BY <1>1, <1>2, LoadKeeps
<1>4. active'.tid = t /\ active'.tls = newTls /\ by_tid' = Stored(t)
  BY <1>3 DEF Dispatch
<1>5. DOMAIN by_tid' = DOMAIN by_tid
  BY <1>3, <1>4
<1>6. pc' = [pc EXCEPT ![t] = "top"]
  BY DEF Dispatch
<1>7. pc' \in [Threads -> {"none", "top", "guest", "parked"}]
  BY <1>6 DEF IInv, Shape
<1>8. Registered'
  BY <1>1, <1>5, <1>6 DEF IInv, Shape, Registered
<1>9. ASSUME NEW u \in DOMAIN by_tid, NEW i \in Indices
      PROVE  Value(u, i)' = mine'[u][i]
  <2>1. CASE u = t
    BY <2>1, <1>4 DEF Value
  <2>2. CASE u # t
    <3>1. Value(u, i)' = Get(Stored(t)[u], i)
      BY <2>2, <1>4 DEF Value
    <3>2. View(Loaded(t), Stored(t), u, i) = Get(Stored(t)[u], i)
      BY <2>2, <1>3 DEF View
    <3>3. Value(u, i) = mine[u][i]
      BY DEF IInv, Holds
    <3>4. mine'[u] = mine[u]
      BY <2>2 DEF IInv, Shape
    <3> QED
      BY <3>1, <3>2, <3>3, <3>4, <1>3
  <2> QED
    BY <2>1, <2>2
<1>10. Holds'
  BY <1>5, <1>9 DEF Holds
<1> QED
  BY <1>1, <1>4, <1>5, <1>7, <1>8, <1>10

\* What the caller itself reads before its handler changes anything.
LEMMA CallerReads ==
  ASSUME IInv, NEW t \in Threads, pc[t] = "guest", NEW i \in Indices
  PROVE  Get(Loaded(t).tls, i) = mine[t][i]
<1>1. t \in DOMAIN by_tid /\ active.tid \in DOMAIN by_tid
  BY DEF IInv, Registered, Shape
<1>2. Loaded(t).tid = t /\ View(Loaded(t), Stored(t), t, i) = Value(t, i)
  BY <1>1, LoadKeeps
<1> QED
  BY <1>1, <1>2 DEF View, IInv, Holds

\* The same for the steps of the loop itself, which change no value: whatever
\* the step stores, every thread must still find what it found before.
LEMMA LoopKeeps ==
  ASSUME IInv, NEW t \in Threads, pc[t] # "none",
         tls_index_count' = tls_index_count, mine' = mine, ret' = ret,
         NEW where \in {"top", "guest", "parked"}, pc' = [pc EXCEPT ![t] = where],
         active'.tid \in DOMAIN by_tid,
         DOMAIN by_tid' = DOMAIN by_tid,
         \A u \in DOMAIN by_tid, i \in Indices : View(active', by_tid', u, i) = Value(u, i)
  PROVE  IInv'
<1>1. Shape'
  BY DEF IInv, Shape
<1>2. Registered'
  BY DEF IInv, Shape, Registered
<1>3. Blank'
  BY DEF IInv, Shape, Blank
<1>4. Holds'
  BY DEF IInv, Holds, View, Value
<1> QED
  BY <1>1, <1>2, <1>3, <1>4 DEF IInv

---------------------------------------------------------------------------
(* Every step keeps the invariant *)

(* The loop activates its thread. *)
LEMMA TopStep == ASSUME IInv, NEW t \in Threads, Top(t) PROVE IInv'
<1>1. t \in DOMAIN by_tid /\ active.tid \in DOMAIN by_tid /\ pc[t] # "none"
  BY DEF IInv, Registered, Shape, Top
<1>2. /\ active' = Loaded(t) /\ by_tid' = Stored(t) /\ pc' = [pc EXCEPT ![t] = "guest"]
      /\ tls_index_count' = tls_index_count /\ mine' = mine /\ ret' = ret
  BY DEF Top
<1> QED
  BY <1>1, <1>2, LoadKeeps, LoopKeeps

(* A thread that parks stores its record. *)
LEMMA ParkStep == ASSUME IInv, NEW t \in Threads, Park(t) PROVE IInv'
<1>1. t \in DOMAIN by_tid /\ active.tid \in DOMAIN by_tid /\ pc[t] # "none"
  BY DEF IInv, Registered, Shape, Park
<1>2. /\ active' = Loaded(t) /\ pc' = [pc EXCEPT ![t] = "parked"]
      /\ tls_index_count' = tls_index_count /\ mine' = mine /\ ret' = ret
  BY DEF Park
<1>3. /\ Loaded(t).tid = t
      /\ DOMAIN Stored(t) = DOMAIN by_tid
      /\ \A u \in DOMAIN by_tid, i \in Indices : View(Loaded(t), Stored(t), u, i) = Value(u, i)
  BY <1>1, LoadKeeps
<1>4. DOMAIN by_tid' = DOMAIN by_tid /\ \A u \in DOMAIN by_tid \ {t} : by_tid'[u] = Stored(t)[u]
  BY <1>1, <1>3 DEF Park
<1>5. ASSUME NEW u \in DOMAIN by_tid, NEW i \in Indices
      PROVE  View(active', by_tid', u, i) = View(Loaded(t), Stored(t), u, i)
  BY <1>2, <1>3, <1>4 DEF View
<1> QED
  BY <1>1, <1>2, <1>3, <1>4, <1>5, LoopKeeps

(* A thread that wakes loads its record. *)
LEMMA UnparkStep == ASSUME IInv, NEW t \in Threads, Unpark(t) PROVE IInv'
<1>1. t \in DOMAIN by_tid /\ active.tid \in DOMAIN by_tid /\ pc[t] # "none"
  BY DEF IInv, Registered, Shape, Unpark
<1>2. /\ pc' = [pc EXCEPT ![t] = "top"]
      /\ tls_index_count' = tls_index_count /\ mine' = mine /\ ret' = ret
  BY DEF Unpark
<1>3. CASE t = Primary /\ active' = Activated(t) /\ by_tid' = Saved(active)
  <2>1. /\ active'.tid \in DOMAIN by_tid
        /\ DOMAIN by_tid' = DOMAIN by_tid
        /\ \A u \in DOMAIN by_tid, i \in Indices : View(active', by_tid', u, i) = Value(u, i)
    BY <1>1, <1>3, ActivateKeeps
  <2> QED
    BY <1>1, <1>2, <2>1, LoopKeeps
<1>4. CASE active' = active /\ by_tid' = by_tid
  <2>1. \A u \in DOMAIN by_tid, i \in Indices : View(active', by_tid', u, i) = Value(u, i)
    BY <1>4 DEF View, Value
  <2> QED
    BY <1>1, <1>2, <1>4, <2>1, LoopKeeps
<1> QED
  BY <1>3, <1>4 DEF Unpark

\* The four handlers that leave the caller's values as they are, or change the
\* one value the caller asked to change.
LEMMA TlsAllocStep == ASSUME IInv, NEW t \in Threads, TlsAlloc(t) PROVE IInv'
<1>1. pc[t] = "guest" /\ Dispatch(t, Grow(Loaded(t).tls, tls_index_count + 1))
  BY DEF TlsAlloc, Dispatch
<1>2. mine' = mine /\ tls_index_count' = tls_index_count + 1 /\ ret' = ret
  BY DEF TlsAlloc
<1>3. \A i \in Indices : Get(Grow(Loaded(t).tls, tls_index_count + 1), i) = mine'[t][i]
  BY <1>1, <1>2, GrowKeeps, CallerReads
<1>4. /\ active'.tid \in DOMAIN by_tid' /\ DOMAIN by_tid' = DOMAIN by_tid
      /\ pc' \in [Threads -> {"none", "top", "guest", "parked"}] /\ Registered' /\ Holds'
  BY <1>1, <1>2, <1>3, DispatchHolds
<1>5. Shape'
  BY <1>2, <1>4 DEF IInv, Shape
<1>6. Blank'
  BY <1>1, <1>2 DEF IInv, Shape, Blank, Dispatch, Indices
<1> QED
  BY <1>4, <1>5, <1>6 DEF IInv

(* TlsSetValue changes the caller's own record. *)
LEMMA TlsSetValueStep ==
  ASSUME IInv, NEW t \in Threads, NEW i \in Indices, NEW v \in Values, TlsSetValue(t, i, v)
  PROVE  IInv'
<1> DEFINE newTls == [Grow(Loaded(t).tls, tls_index_count) EXCEPT ![i] = v]
<1>1. pc[t] = "guest" /\ Dispatch(t, newTls)
  BY DEF TlsSetValue, Dispatch
<1>2. /\ mine' = [mine EXCEPT ![t][i] = v] /\ tls_index_count' = tls_index_count
      /\ i < tls_index_count /\ ret' = ret
  BY DEF TlsSetValue
<1>3. mine \in [Threads -> [Indices -> Content]] /\ tls_index_count \in Nat
  BY DEF IInv, Shape
<1>4. mine'[t] = [mine[t] EXCEPT ![i] = v] /\ \A u \in Threads \ {t} : mine'[u] = mine[u]
  BY <1>2, <1>3
<1>5. mine' \in [Threads -> [Indices -> Content]]
  BY <1>2, <1>3 DEF Content
<1>6. i \in DOMAIN Grow(Loaded(t).tls, tls_index_count)
  BY <1>2, <1>3 DEF Grow, Indices
<1>7. ASSUME NEW j \in Indices PROVE Get(newTls, j) = mine'[t][j]
  <2>1. CASE j = i
    BY <2>1, <1>4, <1>3, <1>6 DEF Get
  <2>2. CASE j # i
    <3>1. Get(newTls, j) = Get(Grow(Loaded(t).tls, tls_index_count), j)
      BY <2>2 DEF Get
    <3>2. mine'[t][j] = mine[t][j]
      BY <2>2, <1>3, <1>4
    <3> QED
      BY <3>1, <3>2, <1>1, GrowKeeps, CallerReads
  <2> QED
    BY <2>1, <2>2
<1>8. /\ active'.tid \in DOMAIN by_tid' /\ DOMAIN by_tid' = DOMAIN by_tid
      /\ pc' \in [Threads -> {"none", "top", "guest", "parked"}] /\ Registered' /\ Holds'
  <2>1. \A j \in Indices : Get(newTls, j) = mine'[t][j]
    BY <1>7
  <2>2. \A u \in Threads \ {t} : mine'[u] = mine[u]
    BY <1>4
  <2>3. Dispatch(t, newTls)
    BY <1>1
  <2> HIDE DEF newTls
  <2> QED
    BY <2>1, <2>2, <2>3, DispatchHolds
<1>9. Shape'
  BY <1>2, <1>5, <1>8 DEF IInv, Shape
<1>10. ASSUME NEW u \in Threads, NEW j \in Indices, pc'[u] = "none" \/ j >= tls_index_count'
       PROVE  mine'[u][j] = 0
  <2>1. pc[u] = "none" \/ j >= tls_index_count
    BY <1>1, <1>2, <1>10 DEF Dispatch, IInv, Shape
  <2>2. mine[u][j] = 0
    BY <2>1 DEF IInv, Blank
  <2>3. CASE u = t
    <3>1. j # i
      BY <2>1, <2>3, <1>1, <1>2, <1>3 DEF Indices
    <3> QED
      BY <3>1, <2>2, <2>3, <1>3, <1>4
  <2>4. CASE u # t
    BY <2>2, <2>4, <1>4
  <2> QED
    BY <2>3, <2>4
<1>11. Blank'
  BY <1>10 DEF Blank
<1> QED
  BY <1>8, <1>9, <1>11 DEF IInv

(* TlsGetValue reads the caller's own record. *)
LEMMA TlsGetValueStep ==
  ASSUME IInv, NEW t \in Threads, NEW i \in Indices, TlsGetValue(t, i)
  PROVE  IInv' /\ ret'[t] = mine[t][i]
<1> DEFINE newTls == IF i < tls_index_count THEN Grow(Loaded(t).tls, tls_index_count)
                                            ELSE Loaded(t).tls
<1>1. pc[t] = "guest" /\ Dispatch(t, newTls)
  BY DEF TlsGetValue, Dispatch
<1>2. /\ mine' = mine /\ tls_index_count' = tls_index_count
      /\ DOMAIN ret' = DOMAIN ret
  BY DEF TlsGetValue
<1>3. \A j \in Indices : Get(newTls, j) = mine'[t][j]
  BY <1>1, <1>2, GrowKeeps, CallerReads
<1>4. /\ active'.tid \in DOMAIN by_tid' /\ DOMAIN by_tid' = DOMAIN by_tid
      /\ pc' \in [Threads -> {"none", "top", "guest", "parked"}] /\ Registered' /\ Holds'
  <2> HIDE DEF newTls
  <2> QED
    BY <1>1, <1>2, <1>3, DispatchHolds
<1>5. Shape' /\ Blank'
  BY <1>1, <1>2, <1>4 DEF IInv, Shape, Blank, Dispatch
<1>6. ret'[t] = IF i < tls_index_count THEN Get(Loaded(t).tls, i) ELSE 0
  BY DEF TlsGetValue, IInv, Shape
<1>7. ~(i < tls_index_count) => mine[t][i] = 0
  BY DEF IInv, Shape, Blank, Indices
<1>8. Get(Loaded(t).tls, i) = mine[t][i]
  BY <1>1, CallerReads
<1> QED
  BY <1>4, <1>5, <1>6, <1>7, <1>8 DEF IInv

(* TlsFree clears the slot in the caller's record. *)
LEMMA TlsFreeStep ==
  ASSUME IInv, NEW t \in Threads, NEW i \in Indices, TlsFree(t, i)
  PROVE  IInv'
<1> DEFINE newTls == IF i \in DOMAIN Loaded(t).tls THEN [Loaded(t).tls EXCEPT ![i] = 0]
                                                   ELSE Loaded(t).tls
<1>1. pc[t] = "guest" /\ Dispatch(t, newTls)
  BY DEF TlsFree, Dispatch
<1>2. /\ mine' = [mine EXCEPT ![t][i] = 0] /\ tls_index_count' = tls_index_count
      /\ ret' = ret
  BY DEF TlsFree
<1>3. mine \in [Threads -> [Indices -> Content]]
  BY DEF IInv, Shape
<1>4. mine'[t] = [mine[t] EXCEPT ![i] = 0] /\ \A u \in Threads \ {t} : mine'[u] = mine[u]
  BY <1>2, <1>3
<1>5. mine' \in [Threads -> [Indices -> Content]]
  BY <1>2, <1>3 DEF Content
<1>6. ASSUME NEW j \in Indices PROVE Get(newTls, j) = mine'[t][j]
  <2>1. Get(Loaded(t).tls, j) = mine[t][j]
    BY <1>1, CallerReads
  <2>2. CASE j = i
    BY <2>2, <1>3, <1>4 DEF Get
  <2>3. CASE j # i
    <3>1. Get(newTls, j) = Get(Loaded(t).tls, j)
      BY <2>3 DEF Get
    <3>2. mine'[t][j] = mine[t][j]
      BY <2>3, <1>3, <1>4
    <3> QED
      BY <3>1, <3>2, <2>1
  <2> QED
    BY <2>2, <2>3
<1>7. /\ active'.tid \in DOMAIN by_tid' /\ DOMAIN by_tid' = DOMAIN by_tid
      /\ pc' \in [Threads -> {"none", "top", "guest", "parked"}] /\ Registered' /\ Holds'
  <2>1. \A j \in Indices : Get(newTls, j) = mine'[t][j]
    BY <1>6
  <2>2. \A u \in Threads \ {t} : mine'[u] = mine[u]
    BY <1>4
  <2>3. Dispatch(t, newTls)
    BY <1>1
  <2> HIDE DEF newTls
  <2> QED
    BY <2>1, <2>2, <2>3, DispatchHolds
<1>8. Shape'
  BY <1>2, <1>5, <1>7 DEF IInv, Shape
<1>9. ASSUME NEW u \in Threads, NEW j \in Indices, pc'[u] = "none" \/ j >= tls_index_count'
      PROVE  mine'[u][j] = 0
  <2>1. pc[u] = "none" \/ j >= tls_index_count
    BY <1>1, <1>2, <1>9 DEF Dispatch, IInv, Shape
  <2>2. mine[u][j] = 0
    BY <2>1 DEF IInv, Blank
  <2>3. CASE u = t
    BY <2>2, <2>3, <1>3, <1>4
  <2>4. CASE u # t
    BY <2>2, <2>4, <1>4
  <2> QED
    BY <2>3, <2>4
<1>10. Blank'
  BY <1>9 DEF Blank
<1> QED
  BY <1>7, <1>8, <1>10 DEF IInv

(* GetCurrentThreadId changes no record. *)
LEMMA GetCurrentThreadIdStep ==
  ASSUME IInv, NEW t \in Threads, GetCurrentThreadId(t)
  PROVE  IInv'
<1>1. pc[t] = "guest" /\ Dispatch(t, Loaded(t).tls)
  BY DEF GetCurrentThreadId, Dispatch
<1>2. mine' = mine /\ tls_index_count' = tls_index_count /\ ret' = ret
  BY DEF GetCurrentThreadId
<1>3. \A i \in Indices : Get(Loaded(t).tls, i) = mine'[t][i]
  BY <1>1, <1>2, CallerReads
<1>4. /\ active'.tid \in DOMAIN by_tid' /\ DOMAIN by_tid' = DOMAIN by_tid
      /\ pc' \in [Threads -> {"none", "top", "guest", "parked"}] /\ Registered' /\ Holds'
  BY <1>1, <1>2, <1>3, DispatchHolds
<1>5. Shape' /\ Blank'
  BY <1>1, <1>2, <1>4 DEF IInv, Shape, Blank, Dispatch
<1> QED
  BY <1>4, <1>5 DEF IInv

\* The new thread starts with zeroed values and everyone else keeps theirs.
LEMMA WorkerStep ==
  ASSUME IInv, NEW t \in Threads, NEW w \in Workers, alloc_worker(t, w)
  PROVE  IInv'
<1>1. /\ pc[t] = "guest" /\ pc[w] = "none" /\ w # t /\ w \in Threads
      /\ mine' = mine /\ tls_index_count' = tls_index_count /\ ret' = ret
      /\ active' = Loaded(t)
  BY DEF alloc_worker, Threads
<1>2. t \in DOMAIN by_tid /\ w \notin DOMAIN by_tid /\ active.tid \in DOMAIN by_tid
  BY <1>1 DEF IInv, Registered, Shape
<1>3. /\ Loaded(t).tid = t
      /\ DOMAIN Stored(t) = DOMAIN by_tid
      /\ \A u \in DOMAIN by_tid, i \in Indices : View(Loaded(t), Stored(t), u, i) = Value(u, i)
  BY <1>2, LoadKeeps
<1>4. pc' = [pc EXCEPT ![t] = "top", ![w] = "top"]
  BY DEF alloc_worker
<1>5. /\ pc' \in [Threads -> {"none", "top", "guest", "parked"}]
      /\ pc'[t] = "top" /\ pc'[w] = "top"
      /\ \A u \in Threads \ {t, w} : pc'[u] = pc[u]
  BY <1>1, <1>4 DEF IInv, Shape
<1>6. /\ DOMAIN by_tid' = (DOMAIN by_tid) \cup {w}
      /\ by_tid'[w] = [i \in 0 .. tls_index_count - 1 |-> 0]
      /\ \A u \in DOMAIN by_tid : by_tid'[u] = Stored(t)[u]
  BY <1>2, <1>3 DEF alloc_worker
<1>7. Shape'
  BY <1>1, <1>2, <1>3, <1>5, <1>6 DEF IInv, Shape
<1>8. Registered'
  BY <1>1, <1>2, <1>5, <1>6 DEF IInv, Registered
<1>9. Blank'
  BY <1>1, <1>5 DEF IInv, Blank
<1>10. ASSUME NEW u \in DOMAIN by_tid', NEW i \in Indices PROVE Value(u, i)' = mine'[u][i]
  <2>1. CASE u = w
    <3>1. Value(u, i)' = Get(by_tid'[w], i)
      BY <2>1, <1>1, <1>3 DEF Value
    <3>2. Get(by_tid'[w], i) = 0
      BY <1>6 DEF Get
    <3>3. mine[w][i] = 0
      BY <1>1 DEF IInv, Blank
    <3> QED
      BY <3>1, <3>2, <3>3, <2>1, <1>1
  <2>2. CASE u # w
    <3>1. u \in DOMAIN by_tid
      BY <2>2, <1>6
    <3>2. Value(u, i)' = View(Loaded(t), Stored(t), u, i)
      BY <3>1, <1>1, <1>6 DEF Value, View
    <3> QED
      BY <3>1, <3>2, <1>1, <1>3 DEF IInv, Holds
  <2> QED
    BY <2>1, <2>2
<1>11. Holds'
  BY <1>10 DEF Holds
<1> QED
  BY <1>7, <1>8, <1>9, <1>11 DEF IInv

(* The in-guest stub changes no record. *)
LEMMA StubStep == ASSUME IInv, NEW t \in Threads, GetCurrentThreadIdStub(t) PROVE IInv'
<1>1. /\ tls_index_count' = tls_index_count /\ active' = active /\ by_tid' = by_tid
      /\ pc' = pc /\ ret' = ret /\ mine' = mine
  BY DEF GetCurrentThreadIdStub
<1> QED
  BY <1>1 DEF IInv, Shape, Registered, Blank, Holds, Value

---------------------------------------------------------------------------
(* Theorems *)

\* Init establishes the invariant: the primary thread alone, no index.
LEMMA InitIInv == ASSUME Init PROVE IInv
<1>1. Shape
  BY TlsAssumption DEF Init, Shape, Threads, Content
<1>2. Registered
  BY DEF Init, Registered
<1>3. Blank
  BY DEF Init, Blank
<1>4. Holds
  BY DEF Init, Holds, Value, Get, Threads
<1> QED
  BY <1>1, <1>2, <1>3, <1>4 DEF IInv

\* Every step of the model keeps the records as the threads left them.
LEMMA NextIInv == ASSUME IInv, [Next]_vars PROVE IInv'
<1>1. CASE UNCHANGED vars
  <2>1. /\ tls_index_count' = tls_index_count /\ active' = active /\ by_tid' = by_tid
        /\ pc' = pc /\ ret' = ret /\ mine' = mine
    BY <1>1 DEF vars
  <2> QED
    BY <2>1 DEF IInv, Shape, Registered, Blank, Holds, Value
<1>2. CASE Next
  BY <1>2, TopStep, ParkStep, UnparkStep, TlsAllocStep, TlsGetValueStep, TlsFreeStep,
     TlsSetValueStep, WorkerStep, GetCurrentThreadIdStep, StubStep DEF Next
<1> QED
  BY <1>1, <1>2

\* In every reachable state each thread's record holds what the thread stored:
\* the invariant that makes the two results below inductive.
THEOREM RecordsHold == Spec => []IInv
<1>1. Init => IInv
  BY InitIInv
<1>2. IInv /\ [Next]_vars => IInv'
  BY NextIInv
<1> QED
  BY <1>1, <1>2, PTL DEF Spec

\* Thread-local values are isolated for any number of threads, indices and
\* values: TlsGetValue would give every thread what it stored itself.
THEOREM Isolation == Spec => []TlsIsolation
<1>1. ASSUME IInv PROVE TlsIsolation
  <2>1. ASSUME NEW t \in DOMAIN by_tid, NEW i \in Indices
        PROVE  Value(t, i) = IF i < tls_index_count THEN mine[t][i] ELSE 0
    <3>1. Value(t, i) = mine[t][i] /\ t \in Threads
      BY <1>1 DEF IInv, Holds, Shape
    <3>2. ~(i < tls_index_count) => mine[t][i] = 0
      BY <1>1, <3>1 DEF IInv, Shape, Blank, Indices
    <3> QED
      BY <3>1, <3>2
  <2> QED
    BY <2>1 DEF TlsIsolation
<1> QED
  BY <1>1, RecordsHold, PTL

\* TlsGetValue returns the caller's own value whatever ran since the caller's
\* guest code was entered.
THEOREM OwnValue == Spec => GetReturnsOwnValue
<1> DEFINE Returns == \A t \in Threads, i \in Indices :
                        TlsGetValue(t, i) => ret'[t] = mine[t][i]
<1>1. ASSUME IInv PROVE Returns
  BY <1>1, TlsGetValueStep
<1> QED
  BY <1>1, RecordsHold, PTL DEF GetReturnsOwnValue

---------------------------------------------------------------------------
(* The life of a thread *)

SpawnTypes ==
  /\ next_tid \in 1 .. MaxTids + 1
  /\ pending \in Seq(Tids) /\ spawning \in Seq(Tids)
  /\ suspended \subseteq Tids
  /\ starts \in [Tids -> Nat]
  /\ ended \subseteq Tids
  /\ joins \in [Tids \cup {PRIMARY_THREAD_ID} -> Tids \cup {NoTid}]
  /\ creator \in [Tids -> Tids \cup {PRIMARY_THREAD_ID, NoTid}]
  /\ dying \in BOOLEAN /\ failed \in BOOLEAN
  /\ loop_pc \in {"top", "guest", "park", "slice", "stopped", "join", "done"}

\* No spawn is twice in a queue.
Distinct(q) == \A i, j \in 1 .. Len(q) : q[i] = q[j] => i = j

\* What ThreadState.next_tid has not handed out yet is nowhere.
FreshUnused ==
  \A t \in Tids : t >= next_tid =>
    starts[t] = 0 /\ t \notin suspended \cup Queued(pending) \cup Queued(spawning)

SuspendedIdle == \A t \in suspended : starts[t] = 0

\* Every thread CreateThread returned is suspended, queued, being started or
\* was started, unless the host could not start a thread.
NoneLost ==
  ~failed => \A t \in Tids : t < next_tid =>
    t \in suspended \cup Queued(pending) \cup Queued(spawning) \/ starts[t] = 1

SpawnInv ==
  /\ SpawnTypes
  /\ Distinct(pending) /\ Distinct(spawning)
  /\ FreshUnused /\ SuspendedIdle
  /\ StartedOnce
  /\ NoneLost
-----------------------------------------------------------------------------
\* A spawn that enters a queue it was not in.
LEMMA AppendQueued ==
  ASSUME NEW q \in Seq(Tids), NEW t \in Tids, Distinct(q), t \notin Queued(q)
  PROVE  /\ Append(q, t) \in Seq(Tids)
         /\ Queued(Append(q, t)) = Queued(q) \cup {t}
         /\ Distinct(Append(q, t))
<1>1. /\ Append(q, t) \in Seq(Tids)
      /\ Len(Append(q, t)) = Len(q) + 1 /\ Len(q) \in Nat
      /\ \A i \in 1 .. Len(q) : Append(q, t)[i] = q[i]
      /\ Append(q, t)[Len(q) + 1] = t
  OBVIOUS
<1>2. Queued(Append(q, t)) = Queued(q) \cup {t}
  <2>1. ASSUME NEW x \in Queued(Append(q, t))
        PROVE  x \in Queued(q) \cup {t}
    <3>1. PICK i \in 1 .. Len(q) + 1 : x = Append(q, t)[i]
      BY <1>1, <2>1 DEF Queued
    <3> QED
      BY <1>1, <3>1 DEF Queued
  <2>2. ASSUME NEW x \in Queued(q) \cup {t}
        PROVE  x \in Queued(Append(q, t))
    <3>1. CASE x = t
      BY <1>1, <3>1 DEF Queued
    <3>2. CASE x \in Queued(q)
      <4>1. PICK i \in 1 .. Len(q) : x = q[i]
        BY <3>2 DEF Queued
      <4> QED
        BY <1>1, <4>1 DEF Queued
    <3> QED
      BY <3>1, <3>2
  <2> QED
    BY <2>1, <2>2
<1>3. Distinct(Append(q, t))
  <2> SUFFICES ASSUME NEW i \in 1 .. Len(q) + 1, NEW j \in 1 .. Len(q) + 1,
                      Append(q, t)[i] = Append(q, t)[j]
               PROVE  i = j
    BY <1>1 DEF Distinct
  <2>1. \A k \in 1 .. Len(q) : q[k] # t
    BY DEF Queued
  <2> QED
    BY <1>1, <2>1 DEF Distinct
<1> QED
  BY <1>1, <1>2, <1>3

\* The spawn a drain starts next leaves the queue and is not in it a second time.
LEMMA TailQueued ==
  ASSUME NEW q \in Seq(Tids), q # <<>>, Distinct(q)
  PROVE  /\ Head(q) \in Tids /\ Tail(q) \in Seq(Tids)
         /\ Queued(q) = Queued(Tail(q)) \cup {Head(q)}
         /\ Head(q) \notin Queued(Tail(q))
         /\ Distinct(Tail(q))
<1>1. /\ Head(q) \in Tids /\ Tail(q) \in Seq(Tids)
      /\ Len(q) \in Nat \ {0} /\ Len(Tail(q)) = Len(q) - 1
      /\ Head(q) = q[1]
      /\ \A i \in 1 .. Len(q) - 1 : Tail(q)[i] = q[i + 1]
  OBVIOUS
<1>2. Queued(q) = Queued(Tail(q)) \cup {Head(q)}
  <2>1. ASSUME NEW x \in Queued(q)
        PROVE  x \in Queued(Tail(q)) \cup {Head(q)}
    <3>1. PICK i \in 1 .. Len(q) : x = q[i]
      BY <2>1 DEF Queued
    <3>2. CASE i = 1
      BY <1>1, <3>1, <3>2
    <3>3. CASE i # 1
      <4>1. i - 1 \in 1 .. Len(Tail(q)) /\ Tail(q)[i - 1] = q[(i - 1) + 1] /\ (i - 1) + 1 = i
        BY <1>1, <3>3
      <4> QED
        BY <3>1, <4>1 DEF Queued
    <3> QED
      BY <3>2, <3>3
  <2>2. ASSUME NEW x \in Queued(Tail(q))
        PROVE  x \in Queued(q)
    <3>1. PICK i \in 1 .. Len(q) - 1 : x = q[i + 1]
      BY <1>1, <2>2 DEF Queued
    <3>2. i + 1 \in 1 .. Len(q)
      BY <1>1
    <3> QED
      BY <3>1, <3>2 DEF Queued
  <2>3. Head(q) \in Queued(q)
    BY <1>1 DEF Queued
  <2> QED
    BY <2>1, <2>2, <2>3
<1>3. Head(q) \notin Queued(Tail(q))
  <2> SUFFICES ASSUME NEW i \in 1 .. Len(q) - 1, Head(q) = Tail(q)[i]
               PROVE  FALSE
    BY <1>1 DEF Queued
  <2>1. i + 1 \in 1 .. Len(q) /\ 1 \in 1 .. Len(q) /\ q[1] = q[i + 1]
    BY <1>1
  <2> QED
    BY <2>1 DEF Distinct
<1>4. Distinct(Tail(q))
  <2> SUFFICES ASSUME NEW i \in 1 .. Len(q) - 1, NEW j \in 1 .. Len(q) - 1,
                      Tail(q)[i] = Tail(q)[j]
               PROVE  i = j
    BY <1>1 DEF Distinct
  <2>1. i + 1 \in 1 .. Len(q) /\ j + 1 \in 1 .. Len(q) /\ q[i + 1] = q[j + 1]
    BY <1>1
  <2> QED
    BY <2>1 DEF Distinct
<1> QED
  BY <1>1, <1>2, <1>3, <1>4

\* What waits in a queue are thread ids.
LEMMA QueuedTids ==
  ASSUME NEW q \in Seq(Tids)
  PROVE  Queued(q) \subseteq Tids
<1>1. \A i \in 1 .. Len(q) : q[i] \in Tids
  OBVIOUS
<1> QED
  BY <1>1 DEF Queued

\* The empty queue holds nobody.
LEMMA EmptyQueue == <<>> \in Seq(Tids) /\ Queued(<<>>) = {} /\ Distinct(<<>>)
BY DEF Queued, Distinct

-----------------------------------------------------------------------------
\* The steps that touch no spawn.
Quiet == UNCHANGED <<next_tid, pending, suspended, spawning, starts>>

\* A process starts with no thread but the primary.
LEMMA InitSpawns == ASSUME ThreadInit PROVE SpawnInv
<1>1. SpawnTypes
  <2>1. next_tid \in 1 .. MaxTids + 1
    BY ThreadAssumption DEF ThreadInit
  <2>2. pending \in Seq(Tids) /\ spawning \in Seq(Tids) /\ suspended \subseteq Tids /\ ended \subseteq Tids
    BY EmptyQueue DEF ThreadInit
  <2>3. /\ joins \in [Tids \cup {PRIMARY_THREAD_ID} -> Tids \cup {NoTid}]
        /\ creator \in [Tids -> Tids \cup {PRIMARY_THREAD_ID, NoTid}]
        /\ starts \in [Tids -> Nat]
    BY DEF ThreadInit
  <2> QED
    BY <2>1, <2>2, <2>3 DEF ThreadInit, SpawnTypes
<1> QED
  BY <1>1, EmptyQueue DEF ThreadInit, SpawnInv, FreshUnused, SuspendedIdle, StartedOnce, NoneLost, Tids

\* CreateThread takes the next TID, which is nowhere yet.
LEMMA CreateStep ==
  ASSUME SpawnInv, NEW t \in Tids \cup {PRIMARY_THREAD_ID}, NEW flags,
         CreateThread(t, flags)
  PROVE  SpawnInv'
<1> USE DEF SpawnInv
<1>1. /\ next_tid \in Tids /\ starts[next_tid] = 0
      /\ next_tid \notin suspended \cup Queued(pending) \cup Queued(spawning)
  BY DEF CreateThread, FreshUnused, Tids, SpawnTypes
<1>2. /\ next_tid' = next_tid + 1
      /\ UNCHANGED <<spawning, starts, failed>>
      /\ \/ suspended' = suspended \cup {next_tid} /\ pending' = pending
         \/ pending' = Append(pending, next_tid) /\ suspended' = suspended
  BY DEF CreateThread
<1>3. /\ pending' \in Seq(Tids) /\ Distinct(pending')
      /\ \/ suspended' = suspended \cup {next_tid} /\ Queued(pending') = Queued(pending)
         \/ Queued(pending') = Queued(pending) \cup {next_tid} /\ suspended' = suspended
  <2>1. CASE pending' = Append(pending, next_tid) /\ suspended' = suspended
    BY <1>1, <2>1, AppendQueued DEF SpawnTypes
  <2>2. CASE suspended' = suspended \cup {next_tid} /\ pending' = pending
    BY <2>2 DEF SpawnTypes
  <2> QED
    BY <1>2, <2>1, <2>2
<1>4. SpawnTypes'
  <2>1. next_tid' \in 1 .. MaxTids + 1
    BY <1>1, <1>2, ThreadAssumption DEF Tids
  <2>2. creator' \in [Tids -> Tids \cup {PRIMARY_THREAD_ID, NoTid}]
    BY <1>1 DEF CreateThread, SpawnTypes
  <2>3. loop_pc' \in {"top", "guest", "park", "slice", "stopped", "join", "done"}
    BY DEF CreateThread, AfterCall, SpawnTypes
  <2> QED
    BY <1>1, <1>2, <1>3, <2>1, <2>2, <2>3 DEF CreateThread, SpawnTypes
<1>5. FreshUnused' /\ SuspendedIdle' /\ StartedOnce'
  BY <1>1, <1>2, <1>3, <1>4 DEF SpawnTypes, FreshUnused, SuspendedIdle, StartedOnce, Tids
<1>6. NoneLost'
  <2> SUFFICES ASSUME ~failed', NEW u \in Tids, u < next_tid'
               PROVE  u \in suspended' \cup Queued(pending') \cup Queued(spawning') \/ starts'[u] = 1
    BY DEF NoneLost, Queued
  <2>1. CASE u = next_tid
    BY <1>3, <2>1
  <2>2. CASE u # next_tid
    <3>1. u < next_tid
      BY <1>1, <1>2, <2>2 DEF Tids
    <3>2. u \in suspended \cup Queued(pending) \cup Queued(spawning) \/ starts[u] = 1
      BY <1>2, <3>1 DEF NoneLost
    <3> QED
      BY <1>2, <1>3, <3>2
  <2> QED
    BY <2>1, <2>2
<1> QED
  BY <1>2, <1>3, <1>4, <1>5, <1>6

\* ResumeThread moves a spawn from the table to the queue.
LEMMA ResumeStep ==
  ASSUME SpawnInv, NEW t \in Tids \cup {PRIMARY_THREAD_ID}, NEW u \in Tids, ResumeThread(t, u)
  PROVE  SpawnInv'
<1> USE DEF SpawnInv
<1>1. u \in suspended /\ u \notin Queued(pending) /\ u \notin Queued(spawning) /\ starts[u] = 0
  BY DEF ResumeThread, StartedOnce, SuspendedIdle
<1>2. /\ suspended' = suspended \ {u} /\ pending' = Append(pending, u)
      /\ UNCHANGED <<next_tid, spawning, starts, failed>>
  BY DEF ResumeThread, StillSuspended
<1>3. pending' \in Seq(Tids) /\ Distinct(pending') /\ Queued(pending') = Queued(pending) \cup {u}
  BY <1>1, <1>2, AppendQueued DEF SpawnTypes
<1>4. SpawnTypes'
  BY <1>2, <1>3 DEF ResumeThread, AfterCall, SpawnTypes
<1>5. u < next_tid
  BY <1>1 DEF SpawnTypes, FreshUnused, Tids
<1>6. FreshUnused' /\ SuspendedIdle' /\ StartedOnce'
  BY <1>1, <1>2, <1>3, <1>5 DEF SpawnTypes, FreshUnused, SuspendedIdle, StartedOnce, Tids
<1>7. NoneLost'
  BY <1>2, <1>3 DEF NoneLost
<1> QED
  BY <1>2, <1>3, <1>4, <1>6, <1>7

\* drain_spawns moves the whole queue and starts it one by one, or drops it.
LEMMA DrainStep ==
  ASSUME SpawnInv, Drain
  PROVE  SpawnInv'
<1> USE DEF SpawnInv
<1>1. /\ spawning' = pending /\ pending' = <<>> /\ spawning = <<>>
      /\ UNCHANGED <<next_tid, suspended, starts, failed>>
  BY DEF Drain
<1>2. Queued(spawning) = {} /\ Queued(pending') = {} /\ Distinct(pending') /\ pending' \in Seq(Tids)
  BY <1>1, EmptyQueue
<1>3. SpawnTypes'
  BY <1>1, <1>2 DEF Drain, SpawnTypes
<1> QED
  BY <1>1, <1>2, <1>3 DEF FreshUnused, SuspendedIdle, StartedOnce, NoneLost

\* drain_spawns starts the thread it takes out of its list, once.
LEMMA SpawnStep ==
  ASSUME SpawnInv, Spawn
  PROVE  SpawnInv'
<1> USE DEF SpawnInv
<1> DEFINE h == Head(spawning)
<1>1. /\ h \in Tids /\ spawning' \in Seq(Tids) /\ Distinct(spawning')
      /\ Queued(spawning) = Queued(spawning') \cup {h} /\ h \notin Queued(spawning')
  BY TailQueued DEF Spawn, SpawnTypes
<1>2. starts[h] = 0 /\ h \notin suspended /\ h \notin Queued(pending)
  BY <1>1 DEF StartedOnce
<1>3. /\ UNCHANGED <<next_tid, pending, suspended, failed>>
      /\ starts' \in [Tids -> Nat] /\ starts'[h] = 1
      /\ \A t \in Tids \ {h} : starts'[t] = starts[t]
  BY <1>1, <1>2 DEF Spawn, SpawnTypes
<1>4. SpawnTypes'
  BY <1>1, <1>3 DEF Spawn, SpawnTypes
<1>5. FreshUnused' /\ SuspendedIdle'
  BY <1>1, <1>2, <1>3 DEF FreshUnused, SuspendedIdle, SpawnTypes
<1>6. StartedOnce'
  <2>1. \A t \in Tids : starts'[t] <= 1
    <3>1. \A t \in Tids : starts[t] <= 1
      BY DEF StartedOnce
    <3> HIDE DEF h, SpawnInv
    <3> QED
      BY <1>3, <3>1
  <2>2. \A t \in Queued(pending') \cup Queued(spawning') : t \in Tids \ {h}
    <3>1. Queued(pending') \subseteq Tids /\ Queued(spawning') \subseteq Tids
      BY <1>1, <1>3, QueuedTids DEF SpawnTypes
    <3> QED
      BY <1>1, <1>2, <1>3, <3>1
  <2> QED
    BY <1>1, <1>2, <1>3, <2>1, <2>2 DEF StartedOnce
<1>7. NoneLost'
  BY <1>1, <1>2, <1>3 DEF NoneLost, SpawnTypes
<1> QED
  BY <1>1, <1>3, <1>4, <1>5, <1>6, <1>7

\* A host spawn that fails drops the rest of the list being spawned.
LEMMA SpawnFailsStep ==
  ASSUME SpawnInv, SpawnFails
  PROVE  SpawnInv'
<1> USE DEF SpawnInv
<1>1. Queued(spawning') = {} /\ Distinct(spawning') /\ spawning' \in Seq(Tids)
  BY EmptyQueue DEF SpawnFails
<1>2. SpawnTypes'
  BY <1>1 DEF SpawnFails, SpawnTypes
<1> QED
  BY <1>1, <1>2 DEF SpawnFails, FreshUnused, SuspendedIdle, StartedOnce, NoneLost

\* Everything else leaves the spawns alone.
LEMMA QuietSpawns ==
  ASSUME SpawnInv, SpawnTypes', Quiet, failed' = failed
  PROVE  SpawnInv'
BY DEF SpawnInv, Quiet, FreshUnused, SuspendedIdle, StartedOnce, NoneLost, Distinct, Queued

\* The calls that move no thread between the lists.
LEMMA OtherCalls ==
  ASSUME SpawnInv, NEW t \in Tids \cup {PRIMARY_THREAD_ID},
         \/ CreateThreadRefused(t) \/ WorkerExitProcess(t)
         \/ \E u \in Tids : Join(t, u)
         \/ t \in Tids /\ (JoinEnds(t) \/ WorkerEnds(t))
  PROVE  SpawnInv'
<1> USE DEF SpawnInv
<1>1. CASE CreateThreadRefused(t) \/ WorkerExitProcess(t)
  BY <1>1, QuietSpawns
  DEF CreateThreadRefused, WorkerExitProcess, Callers, PRIMARY_THREAD_ID, AfterCall, Quiet, SpawnTypes
<1>2. ASSUME NEW u \in Tids, Join(t, u)
      PROVE  SpawnInv'
  BY <1>2, QuietSpawns DEF Join, Quiet, SpawnTypes
<1>3. CASE t \in Tids /\ (JoinEnds(t) \/ WorkerEnds(t))
  BY <1>3, QuietSpawns DEF JoinEnds, WorkerEnds, Quiet, SpawnTypes
<1> QED
  BY <1>1, <1>2, <1>3

\* One case per action.
LEMMA LoopStep ==
  ASSUME SpawnInv,
         \/ Run \/ Round \/ Slice \/ NextSlice \/ PrimaryJoinEnds \/ Joined
         \/ Stop \/ Continue \/ Exit \/ UNCHANGED threadVars
  PROVE  SpawnInv'
<1> USE DEF SpawnInv
<1>1. CASE Run \/ Round \/ Slice \/ Joined \/ Stop \/ Continue \/ Exit
  BY <1>1, QuietSpawns DEF Run, Round, Slice, Joined, Stop, Continue, Exit, Quiet, SpawnTypes
<1>2. CASE NextSlice \/ PrimaryJoinEnds
  <2>1. Unparked \in [Tids \cup {PRIMARY_THREAD_ID} -> Tids \cup {NoTid}]
    BY DEF Unparked, SpawnTypes
  <2> QED
    BY <1>2, <2>1, QuietSpawns DEF NextSlice, PrimaryJoinEnds, Quiet, SpawnTypes
<1>3. CASE UNCHANGED threadVars
  BY <1>3, QuietSpawns DEF threadVars, Quiet, SpawnTypes
<1> QED
  BY <1>1, <1>2, <1>3

-----------------------------------------------------------------------------
\* The inductive invariant: types, a spawn is in at most one place and there once, unallocated
\* TIDs are nowhere, and allocated ones are not lost.
THEOREM SpawnInvariant == ThreadSpec => []SpawnInv
<1>1. ASSUME SpawnInv, [ThreadNext]_threadVars
      PROVE  SpawnInv'
  <2>1. ASSUME NEW t \in Tids \cup {PRIMARY_THREAD_ID}, Api(t)
        PROVE  SpawnInv'
    BY <1>1, <2>1, CreateStep, ResumeStep, OtherCalls DEF Api
  <2>2. CASE Session
    BY <1>1, <2>2, DrainStep, SpawnStep, LoopStep DEF Session
  <2> QED
    BY <1>1, <2>1, <2>2, OtherCalls, SpawnFailsStep, LoopStep DEF ThreadNext, Ended
<1> QED
  BY <1>1, InitSpawns, PTL DEF ThreadSpec

\* drain_spawns, ResumeThread and CreateThread between them start a thread procedure at most
\* once, for every number of threads and whoever creates and resumes them.
THEOREM ProcedureRunsOnce == ThreadSpec => []StartedOnce
<1>1. SpawnInv => StartedOnce
  BY DEF SpawnInv
<1> QED
  BY <1>1, SpawnInvariant, PTL

\* A thread that CreateThread returned is lost only when the host could not start one.
THEOREM SpawnsNeverLost == ThreadSpec => []NoneLost
<1>1. SpawnInv => NoneLost
  BY DEF SpawnInv
<1> QED
  BY <1>1, SpawnInvariant, PTL

---------------------------------------------------------------------------
(* The last error *)

\* Why the cache is sound while nobody goes behind it: both copies agree, and
\* a value that is skipped because it was published is the one the TEB holds.
CacheInv ==
  ~touched => teb = expect /\ host = teb /\ published \in {None, teb}

\* CacheInv holds in every reachable state: each write of the TEB is recorded
\* in the cache, and each write that is not sets touched.
THEOREM CacheInvariant == ErrorSpec => []CacheInv
<1>1. ErrorInit => CacheInv
  BY DEF ErrorInit, CacheInv
<1>2. CacheInv /\ [ErrorNext]_errorVars => CacheInv'
  <2> SUFFICES ASSUME CacheInv, [ErrorNext]_errorVars PROVE CacheInv'
    OBVIOUS
  <2>1. ASSUME NEW err \in Errors, DispatchSets(err) PROVE CacheInv'
    BY <2>1, ErrorAssumption DEF CacheInv, DispatchSets, Publish, Publishes
  <2>2. ASSUME NEW err \in Errors, SetLastError(err) PROVE CacheInv'
    BY <2>2 DEF CacheInv, SetLastError
  <2>3. ASSUME NEW err \in Errors, WorkerTouches(err) PROVE CacheInv'
    BY <2>3 DEF CacheInv, WorkerTouches
  <2>4. CASE DispatchKeeps
    BY <2>4 DEF CacheInv, DispatchKeeps, Kept, Publish, Publishes
  <2>5. CASE Continuation
    BY <2>5 DEF CacheInv, Continuation, Publish, Publishes
  <2>6. CASE CallGuest
    BY <2>6 DEF CacheInv, CallGuest, Kept
  <2>7. CASE DispatchUnpublished
    BY <2>7 DEF CacheInv, DispatchUnpublished, Kept
  <2>8. CASE UNCHANGED errorVars
    BY <2>8 DEF CacheInv, errorVars
  <2> QED
    BY <2>1, <2>2, <2>3, <2>4, <2>5, <2>6, <2>7, <2>8 DEF ErrorNext
<1> QED
  BY <1>1, <1>2, PTL DEF ErrorSpec

\* The stub's value is what the primary's last call left as long as nobody
\* stored behind the cache.
THEOREM UntouchedIsCoherent == ErrorSpec => []CoherentUntouched
<1>1. CacheInv => CoherentUntouched
  BY DEF CacheInv, CoherentUntouched
<1> QED
  BY <1>1, CacheInvariant, PTL
=============================================================================
