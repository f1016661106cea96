------------------------- MODULE WaitObjectsProofs -------------------------
(***************************************************************************)
(* For every set of workers, events and semaphores: no unit of a semaphore *)
(* is lost or given twice, and an INFINITE wait ends only with a signal, a *)
(* closed handle or the end of the process.                                *)
(***************************************************************************)
EXTENDS WaitObjects, FiniteSetTheorems, TLAPS

Labels == {"guest", "return", "join", "joining", "done"} \cup Parked

TypeOK ==
  /\ unborn \subseteq Events \cup Sems
  /\ open \subseteq Objects
  /\ signaled \in [Events -> BOOLEAN]
  /\ count \in [Sems -> Nat]
  /\ finished \in [Workers -> BOOLEAN]
  /\ dying \in BOOLEAN
  /\ pc \in [Threads -> Labels]
  /\ wait \in [Threads -> {<<>>} \cup WaitRecord]
  /\ issued \in [Consumable -> Nat]
  /\ granted \in [Consumable -> Nat]
  /\ ops \in Nat

\* A thread in a park has said what it waits for.
ParkedWaits == \A t \in Threads : pc[t] \in Parked \cup {"return"} => wait[t] \in WaitRecord

\* Nothing refers to an object that was not created yet.
UnbornUnused ==
  \A o \in unborn :
    /\ o \notin open
    /\ o \in Sems => granted[o] = 0
    /\ \A t \in Threads : wait[t] \in WaitRecord => wait[t].obj # o

Basics == TypeOK /\ ParkedWaits /\ UnbornUnused

IInv == Basics /\ UnitsConserved /\ InfiniteWaitOutcome

-----------------------------------------------------------------------------
(* Every step, by the thread that takes it. *)
LEMMA StepCases ==
  ASSUME Next
  PROVE  \/ \E t \in Threads : Park(t) \/ WakeSpuriously(t) \/ Api(t) \/ Exit(t)
         \/ PrimaryExit \/ JoinWorkers \/ Joined \/ UNCHANGED vars
BY DEF Next, Ended

(* Where threads go when t moves to a label and some waiters wake: the waiters were in their      *)
(* condition variable, everyone else stays.                                                       *)
LEMMA NotifyTyped ==
  ASSUME TypeOK, NEW t \in Threads, NEW label \in Labels, NEW W,
         \A u \in W \cap Threads : pc[u] = "cv", Notify(t, label, W)
  PROVE  /\ pc' \in [Threads -> Labels]
         /\ pc'[t] = label
         /\ \A u \in Threads \ {t} : pc'[u] = pc[u] \/ (pc[u] = "cv" /\ pc'[u] = "woken")
BY DEF TypeOK, Notify, Labels, Parked

(* finish_tid marks its thread and wakes the joiners. *)
LEMMA FinishTyped ==
  ASSUME TypeOK, NEW t \in Workers, NEW label \in Labels, FinishTid(t, label)
  PROVE  /\ finished' \in [Workers -> BOOLEAN]
         /\ pc' \in [Threads -> Labels]
         /\ pc'[t] = label
         /\ \A u \in Threads \ {t} : pc'[u] = pc[u] \/ (pc[u] = "cv" /\ pc'[u] = "woken")
<1>1. t \in Threads /\ \A u \in WaitersOf(t) \cap Threads : pc[u] = "cv"
  BY DEF Threads, WaitersOf
<1>2. CASE t \in open
  BY <1>1, <1>2, NotifyTyped DEF FinishTid, TypeOK
<1>3. CASE t \notin open
  BY <1>1, <1>3, NotifyTyped DEF FinishTid, Goto, TypeOK
<1> QED
  BY <1>2, <1>3

(* Of the threads other than t, at most waiters move: they wake. *)
Moves(t) ==
  /\ pc' \in [Threads -> Labels]
  /\ \A u \in Threads \ {t} : pc'[u] = pc[u] \/ (pc[u] = "cv" /\ pc'[u] = "woken")

(* The outcome of a wait. *)
LEMMA OutcomeTyped ==
  ASSUME TypeOK, NEW t \in Threads, wait[t] \in WaitRecord, NEW code \in Codes, Outcome(t, code)
  PROVE  /\ Moves(t)
         /\ pc'[t] \in {"recheck", "return"}
         /\ wait' \in [Threads -> {<<>>} \cup WaitRecord]
         /\ wait'[t] \in WaitRecord /\ wait'[t].obj = wait[t].obj /\ wait'[t].ms = wait[t].ms
         /\ \A u \in Threads \ {t} : wait'[u] = wait[u]
         /\ pc'[t] = "recheck" => wait'[t] = wait[t]
         /\ pc'[t] = "return" => /\ wait'[t].code = code
                                 /\ ~(code = "WAIT_TIMEOUT" /\ wait[t].ms = "INFINITE")
<1>1. CASE code = "WAIT_TIMEOUT" /\ wait[t].ms = "INFINITE"
  <2>1. "recheck" \in Labels
    BY DEF Labels, Parked
  <2> QED
    BY <1>1, <2>1, NotifyTyped DEF Outcome, Goto, Moves, TypeOK
<1>2. CASE ~(code = "WAIT_TIMEOUT" /\ wait[t].ms = "INFINITE")
  <2>1. "return" \in Labels
    BY DEF Labels
  <2>2. Goto(t, "return") /\ wait' = [wait EXCEPT ![t].code = code]
    BY <1>2 DEF Outcome
  <2>3. Moves(t) /\ pc'[t] = "return"
    BY <2>1, <2>2, NotifyTyped DEF Goto, Moves
  <2>4. [wait[t] EXCEPT !.code = code] \in WaitRecord
    BY DEF WaitRecord
  <2> QED
    BY <1>2, <2>2, <2>3, <2>4 DEF TypeOK, WaitRecord
<1> QED
  BY <1>1, <1>2

(* What a wait takes from its object, and how often it is granted, keep their types. *)
LEMMA ConsumeTyped ==
  ASSUME TypeOK, NEW o \in Objects, Ready(o), Consume(o)
  PROVE  /\ signaled' \in [Events -> BOOLEAN]
         /\ count' \in [Sems -> Nat]
         /\ \A s \in Sems : count'[s] = IF s = o THEN count[s] - 1 ELSE count[s]
         /\ o \in Sems => count[o] > 0
BY ObjectAssumption DEF TypeOK, Ready, Consume, Taken, Objects

(* A grant is counted for its object. *)
LEMMA GrantTyped ==
  ASSUME TypeOK, NEW o \in Objects, Grant(o)
  PROVE  /\ granted' \in [Consumable -> Nat]
         /\ \A s \in Sems : granted'[s] = IF s = o THEN granted[s] + 1 ELSE granted[s]
BY ObjectAssumption DEF TypeOK, Grant, Consumable

(* Nobody but t starts or ends a park, and the other waits stay. *)
LEMMA ParksKept ==
  ASSUME TypeOK, ParkedWaits, NEW t \in Threads, Moves(t),
         \A u \in Threads \ {t} : wait'[u] = wait[u],
         pc'[t] \in Parked \cup {"return"} => wait'[t] \in WaitRecord
  PROVE  ParkedWaits'
BY DEF ParkedWaits, Moves, Parked

(* A step that refers to no unborn object. *)
LEMMA UnbornKept ==
  ASSUME UnbornUnused, NEW t \in Threads, unborn' \subseteq unborn, unborn' \cap open' = {},
         \A u \in Threads \ {t} : wait'[u] = wait[u],
         wait'[t] \in WaitRecord => wait'[t].obj \notin unborn',
         \A s \in Sems \cap unborn' : granted'[s] = granted[s]
  PROVE  UnbornUnused'
BY DEF UnbornUnused

-----------------------------------------------------------------------------
(* Types, parks and unborn objects: one lemma for the parks, one for the calls, one for the exits. *)
LEMMA ParkBasics ==
  ASSUME Basics, NEW t \in Threads, Park(t) \/ WakeSpuriously(t)
  PROVE  Basics'
<1> USE DEF Basics
<1>0. /\ \A c \in {"check", "cv", "woken", "expired", "recheck", "return", "guest", "done"} : c \in Labels
      /\ \A c \in {"WAIT_OBJECT_0", "WAIT_TIMEOUT", "WAIT_FAILED"} : c \in Codes
  BY DEF Labels, Parked, Codes
<1>1. CASE Resolve(t)
  <2>1. wait[t] \in WaitRecord
    BY <1>1 DEF Resolve, ParkedWaits, Parked
  <2>2. Moves(t) /\ (pc'[t] \in Parked \cup {"return"})
        /\ wait' \in [Threads -> {<<>>} \cup WaitRecord]
        /\ wait'[t] \in WaitRecord /\ wait'[t].obj = wait[t].obj
        /\ \A u \in Threads \ {t} : wait'[u] = wait[u]
    <3>1. CASE wait[t].obj \in open
      BY <1>0, <1>1, <2>1, <3>1, NotifyTyped DEF Resolve, Goto, Moves, Parked, TypeOK
    <3>2. CASE wait[t].obj \notin open
      BY <1>0, <1>1, <2>1, <3>2, OutcomeTyped DEF Resolve, Parked
    <3> QED
      BY <3>1, <3>2
  <2> QED
    <3>1. ParkedWaits'
      BY <2>2, ParksKept
    <3>2. UnbornUnused'
      BY <1>1, <2>1, <2>2, UnbornKept DEF Resolve, UnbornUnused
    <3> QED
      BY <1>1, <2>2, <3>1, <3>2 DEF Resolve, TypeOK, Moves
<1>2. CASE Check(t) \/ Wake(t)
  <2>1. wait[t] \in WaitRecord /\ wait[t].obj \in Objects
    BY <1>2 DEF Check, Wake, ParkedWaits, Parked, WaitRecord
  <2>2. NotReadyCode(t) \in Codes
    BY DEF NotReadyCode, Codes
  <2>3. /\ Moves(t) /\ (pc'[t] \in Parked \cup {"return"})
        /\ wait' \in [Threads -> {<<>>} \cup WaitRecord]
        /\ wait'[t] \in WaitRecord /\ wait'[t].obj = wait[t].obj
        /\ \A u \in Threads \ {t} : wait'[u] = wait[u]
        /\ signaled' \in [Events -> BOOLEAN] /\ count' \in [Sems -> Nat]
    <3>1. CASE Check(t)
      <4>1. CASE Ready(wait[t].obj) /\ Consume(wait[t].obj) /\ Outcome(t, "WAIT_OBJECT_0")
        BY <1>0, <2>1, <4>1, OutcomeTyped, ConsumeTyped DEF Parked
      <4>2. CASE Outcome(t, "WAIT_TIMEOUT") /\ UNCHANGED <<signaled, count>>
        BY <1>0, <2>1, <4>2, OutcomeTyped DEF Parked, TypeOK
      <4>3. CASE Goto(t, "cv") /\ UNCHANGED <<signaled, count, wait>>
        BY <1>0, <2>1, <4>3, NotifyTyped DEF Goto, Moves, Parked, TypeOK
      <4> QED
        BY <3>1, <4>1, <4>2, <4>3 DEF Check
    <3>2. CASE Wake(t)
      <4>1. CASE Ready(wait[t].obj) /\ Consume(wait[t].obj) /\ Outcome(t, "WAIT_OBJECT_0")
        BY <1>0, <2>1, <4>1, OutcomeTyped, ConsumeTyped DEF Parked
      <4>2. CASE Outcome(t, NotReadyCode(t)) /\ UNCHANGED <<signaled, count>>
        BY <2>2, <2>1, <4>2, OutcomeTyped DEF Parked, TypeOK
      <4> QED
        BY <3>2, <4>1, <4>2 DEF Wake
    <3> QED
      BY <1>2, <3>1, <3>2
  <2> QED
    <3>1. ParkedWaits'
      BY <2>3, ParksKept
    <3>2. UnbornUnused'
      BY <1>2, <2>1, <2>3, UnbornKept DEF Check, Wake, UnbornUnused
    <3> QED
      BY <1>2, <2>3, <3>1, <3>2 DEF Check, Wake, TypeOK, Moves
<1>3. CASE Expire(t) \/ WakeSpuriously(t)
  <2>1. Moves(t) /\ pc[t] \in Parked /\ pc'[t] \in Parked
    BY <1>0, <1>3, NotifyTyped DEF Expire, Expires, WakeSpuriously, Goto, Moves, Parked
  <2> QED
    <3>1. ParkedWaits'
      BY <1>3, <2>1, ParksKept DEF Expire, WakeSpuriously, ParkedWaits
    <3>2. UnbornUnused'
      BY <1>3 DEF Expire, WakeSpuriously, UnbornUnused
    <3> QED
      BY <1>3, <2>1, <3>1, <3>2 DEF Expire, WakeSpuriously, TypeOK, Moves
<1>4. CASE Recheck(t)
  <2>1. wait[t] \in WaitRecord
    BY <1>4 DEF Recheck, ParkedWaits, Parked
  <2>2. [wait[t] EXCEPT !.code = "WAIT_FAILED"] \in WaitRecord
    BY <2>1, <1>0 DEF WaitRecord
  <2>3. Moves(t) /\ finished' \in [Workers -> BOOLEAN]
    <3>1. CASE GivesUp /\ t \in Workers
      BY <1>0, <1>4, <3>1, FinishTyped DEF Recheck, Moves
    <3>2. CASE GivesUp /\ t \notin Workers
      BY <1>0, <1>4, <3>2, NotifyTyped DEF Recheck, Moves, Goto, TypeOK
    <3>3. CASE ~GivesUp
      BY <1>0, <1>4, <3>3, NotifyTyped DEF Recheck, Moves, Goto, TypeOK
    <3> QED
      BY <3>1, <3>2, <3>3
  <2>4. /\ wait' \in [Threads -> {<<>>} \cup WaitRecord]
        /\ wait'[t] \in WaitRecord /\ wait'[t].obj = wait[t].obj
        /\ \A u \in Threads \ {t} : wait'[u] = wait[u]
    BY <1>4, <2>1, <2>2 DEF Recheck, TypeOK, WaitRecord
  <2> QED
    <3>1. ParkedWaits'
      BY <2>3, <2>4, ParksKept
    <3>2. UnbornUnused'
      BY <1>4, <2>1, <2>4, UnbornKept DEF Recheck, UnbornUnused
    <3> QED
      BY <1>4, <2>3, <2>4, <3>1, <3>2 DEF Recheck, TypeOK, Moves
<1>5. CASE Return(t)
  <2>1. wait[t] \in WaitRecord /\ wait[t].obj \in Objects
    BY <1>5 DEF Return, ParkedWaits, WaitRecord
  <2>2. /\ Moves(t) /\ finished' \in [Workers -> BOOLEAN] /\ pc'[t] \in {"guest", "done"}
        /\ granted' \in [Consumable -> Nat]
        /\ \A s \in Sems : s # wait[t].obj => granted'[s] = granted[s]
    <3>1. CASE dying /\ t \in Workers
      BY <1>0, <1>5, <3>1, FinishTyped DEF Return, Moves, TypeOK
    <3>2. CASE ~(dying /\ t \in Workers)
      BY <1>0, <1>5, <2>1, <3>2, NotifyTyped, GrantTyped DEF Return, Moves, Goto, TypeOK
    <3> QED
      BY <3>1, <3>2
  <2> QED
    <3>1. ParkedWaits'
      BY <1>5, <2>1, <2>2, ParksKept DEF Return
    <3>2. UnbornUnused'
      BY <1>5, <2>1, <2>2, UnbornKept DEF Return, UnbornUnused
    <3> QED
      BY <1>5, <2>2, <3>1, <3>2 DEF Return, TypeOK, Moves
<1> QED
  BY <1>1, <1>2, <1>3, <1>4, <1>5 DEF Park

(* The waiters a call wakes were in their condition variables. *)
LEMMA WokenWait ==
  /\ \A o \in Objects : \A u \in WaitersOf(o) : u \in Threads /\ pc[u] = "cv"
  /\ \A o \in Objects, n \in Nat : \A W \in Subsets(WaitersOf(o), n) : \A u \in W : pc[u] = "cv"
  /\ \A e \in Events : \A W \in WokenBySet(e) : \A u \in W : pc[u] = "cv"
BY DEF WaitersOf, Subsets, WokenBySet, Objects

(* A call moves its caller only. *)
LEMMA ApiMoves ==
  ASSUME TypeOK, NEW t \in Threads, Api(t)
  PROVE  Moves(t) /\ pc[t] = "guest" /\ pc'[t] \in {"guest", "resolve"}
<1>0. "guest" \in Labels /\ "resolve" \in Labels
  BY DEF Labels, Parked
<1>1. ASSUME NEW e \in Events, CreateEvent(t, e) \/ ResetEvent(t, e)
      PROVE  Moves(t) /\ pc[t] = "guest" /\ pc'[t] = "guest"
  BY <1>1 DEF CreateEvent, ResetEvent, Dispatches, Moves, TypeOK
<1>2. ASSUME NEW e \in Events, SetEvent(t, e)
      PROVE  Moves(t) /\ pc[t] = "guest" /\ pc'[t] = "guest"
  <2>1. PICK W \in WokenBySet(e) : Notify(t, "guest", W)
    BY <1>2 DEF SetEvent
  <2> QED
    BY <1>0, <1>2, <2>1, WokenWait, NotifyTyped DEF SetEvent, Dispatches, Moves
<1>3. ASSUME NEW s \in Sems, CreateSemaphore(t, s)
      PROVE  Moves(t) /\ pc[t] = "guest" /\ pc'[t] = "guest"
  BY <1>3 DEF CreateSemaphore, Dispatches, Moves, TypeOK
<1>4. ASSUME NEW s \in Sems, NEW n \in 1 .. MaxCount + 1, ReleaseSemaphore(t, s, n)
      PROVE  Moves(t) /\ pc[t] = "guest" /\ pc'[t] = "guest"
  <2>1. CASE Fits(s, n)
    <3>1. PICK W \in IF count[s] = 0 THEN {WaitersOf(s)} ELSE Subsets(WaitersOf(s), n) :
             Notify(t, "guest", W)
      BY <1>4, <2>1 DEF ReleaseSemaphore
    <3>2. s \in Objects /\ n \in Nat
      BY ObjectAssumption DEF Objects
    <3>3. \A u \in W \cap Threads : pc[u] = "cv"
      BY <3>1, <3>2, WokenWait
    <3> QED
      BY <1>0, <1>4, <3>1, <3>3, NotifyTyped DEF ReleaseSemaphore, Dispatches, Moves
  <2>2. CASE ~Fits(s, n)
    BY <1>4, <2>2 DEF ReleaseSemaphore, Dispatches, Moves, TypeOK
  <2> QED
    BY <2>1, <2>2
<1>5. ASSUME NEW o \in Objects, CloseHandle(t, o)
      PROVE  Moves(t) /\ pc[t] = "guest" /\ pc'[t] = "guest"
  BY <1>5 DEF CloseHandle, Dispatches, Moves, TypeOK
<1>6. ASSUME NEW o \in Objects, NEW ms \in Timeouts, WaitForSingleObject(t, o, ms)
      PROVE  Moves(t) /\ pc[t] = "guest" /\ pc'[t] \in {"guest", "resolve"}
  <2>1. CASE UNCHANGED pc
    BY <1>6, <2>1 DEF WaitForSingleObject, Dispatches, Moves, TypeOK
  <2>2. CASE Goto(t, "resolve")
    BY <1>0, <1>6, <2>2, NotifyTyped DEF WaitForSingleObject, Dispatches, Goto, Moves
  <2> QED
    BY <1>6, <2>1, <2>2 DEF WaitForSingleObject
<1> QED
  BY <1>1, <1>2, <1>3, <1>4, <1>5, <1>6 DEF Api

(* The calls on objects. *)
LEMMA ApiBasics ==
  ASSUME Basics, NEW t \in Threads, Api(t)
  PROVE  Basics'
<1> USE DEF Basics
<1>0. Moves(t) /\ pc'[t] \in {"guest", "resolve"} /\ pc' \in [Threads -> Labels]
  BY ApiMoves DEF Moves
<1>1. ASSUME NEW e \in Events, CreateEvent(t, e)
      PROVE  Basics'
  <2>1. TypeOK'
    BY <1>0, <1>1, ObjectAssumption DEF CreateEvent, Dispatches, TypeOK, Consumable, Objects
  <2>2. UnbornUnused'
    BY <1>1, UnbornKept DEF CreateEvent, UnbornUnused
  <2> QED
    BY <1>1, <2>1, <2>2 DEF CreateEvent, ParkedWaits
<1>2. ASSUME NEW e \in Events, SetEvent(t, e) \/ ResetEvent(t, e)
      PROVE  Basics'
  <2>0. signaled' \in [Events -> BOOLEAN] /\ issued' \in [Consumable -> Nat] /\ ops' \in Nat
    <3>1. CASE SetEvent(t, e)
      BY <3>1 DEF SetEvent, Dispatches, TypeOK
    <3>2. CASE ResetEvent(t, e)
      BY <3>2 DEF ResetEvent, Dispatches, TypeOK
    <3> QED
      BY <1>2, <3>1, <3>2
  <2>1. TypeOK'
    BY <1>0, <1>2, <2>0 DEF SetEvent, ResetEvent, TypeOK
  <2>2. UnbornUnused'
    BY <1>2 DEF SetEvent, ResetEvent, UnbornUnused
  <2>3. pc'[t] = "guest"
    BY <1>2 DEF SetEvent, ResetEvent, Dispatches, Notify
  <2>4. ParkedWaits'
    BY <1>0, <1>2, <2>3, ParksKept DEF SetEvent, ResetEvent, Parked
  <2> QED
    BY <2>1, <2>2, <2>4
<1>3. ASSUME NEW s \in Sems, CreateSemaphore(t, s)
      PROVE  Basics'
  <2>1. TypeOK'
    BY <1>0, <1>3, ObjectAssumption DEF CreateSemaphore, Dispatches, TypeOK, Consumable, Objects
  <2>2. UnbornUnused'
    BY <1>3, UnbornKept DEF CreateSemaphore, UnbornUnused
  <2> QED
    BY <1>3, <2>1, <2>2 DEF CreateSemaphore, ParkedWaits
<1>4. ASSUME NEW s \in Sems, NEW n \in 1 .. MaxCount + 1, ReleaseSemaphore(t, s, n)
      PROVE  Basics'
  <2>0. count' \in [Sems -> Nat] /\ issued' \in [Consumable -> Nat] /\ ops' \in Nat
    <3>1. n \in Nat /\ s \in Consumable
      BY ObjectAssumption DEF Consumable
    <3>2. CASE Fits(s, n)
      <4>1. /\ count' = [count EXCEPT ![s] = @ + n] /\ issued' = [issued EXCEPT ![s] = @ + n]
            /\ ops' = ops + 1
        BY <1>4, <3>2 DEF ReleaseSemaphore, Dispatches
      <4>2. count[s] + n \in Nat /\ issued[s] + n \in Nat
        BY <3>1 DEF TypeOK
      <4> QED
        BY <3>1, <4>1, <4>2 DEF TypeOK
    <3>3. CASE ~Fits(s, n)
      BY <1>4, <3>3 DEF ReleaseSemaphore, Dispatches, TypeOK
    <3> QED
      BY <3>2, <3>3
  <2>1. TypeOK'
    BY <1>0, <1>4, <2>0 DEF ReleaseSemaphore, TypeOK
  <2>2. UnbornUnused'
    BY <1>4 DEF ReleaseSemaphore, UnbornUnused
  <2>3. pc'[t] = "guest"
    BY <1>4 DEF ReleaseSemaphore, Dispatches, Notify
  <2>4. ParkedWaits'
    BY <1>0, <1>4, <2>3, ParksKept DEF ReleaseSemaphore, Parked
  <2> QED
    BY <2>1, <2>2, <2>4
<1>5. ASSUME NEW o \in Objects, CloseHandle(t, o)
      PROVE  Basics'
  <2>1. TypeOK'
    BY <1>0, <1>5 DEF CloseHandle, Dispatches, TypeOK
  <2> QED
    BY <1>5, <2>1 DEF CloseHandle, ParkedWaits, UnbornUnused
<1>6. ASSUME NEW o \in Objects, NEW ms \in Timeouts, WaitForSingleObject(t, o, ms)
      PROVE  Basics'
  <2>1. PICK code \in Codes : wait' = [wait EXCEPT ![t] = [obj |-> o, ms |-> ms, code |-> code]]
    BY <1>6 DEF WaitForSingleObject, Codes
  <2>2. [obj |-> o, ms |-> ms, code |-> code] \in WaitRecord
    BY DEF WaitRecord
  <2>3. /\ wait' \in [Threads -> {<<>>} \cup WaitRecord]
        /\ wait'[t] \in WaitRecord /\ wait'[t].obj = o
        /\ \A u \in Threads \ {t} : wait'[u] = wait[u]
    BY <2>1, <2>2 DEF TypeOK
  <2>4. /\ signaled' \in [Events -> BOOLEAN] /\ count' \in [Sems -> Nat]
        /\ granted' \in [Consumable -> Nat]
        /\ \A s \in Sems : s # o => granted'[s] = granted[s]
    BY <1>6, ConsumeTyped, GrantTyped DEF WaitForSingleObject, TypeOK
  <2>5. TypeOK'
    BY <1>0, <1>6, <2>3, <2>4 DEF WaitForSingleObject, Dispatches, TypeOK
  <2>6. ParkedWaits'
    BY <1>0, <2>3, ParksKept
  <2>7. UnbornUnused'
    BY <1>6, <2>3, <2>4, UnbornKept DEF WaitForSingleObject, UnbornUnused
  <2> QED
    BY <2>5, <2>6, <2>7
<1> QED
  BY <1>1, <1>2, <1>3, <1>4, <1>5, <1>6 DEF Api

(* Ending a thread or the process. *)
LEMMA ExitBasics ==
  ASSUME Basics,
         (\E t \in Threads : Exit(t)) \/ PrimaryExit \/ JoinWorkers \/ Joined
  PROVE  Basics'
<1> USE DEF Basics
<1>0. {"done", "join", "joining"} \subseteq Labels /\ {"done", "join", "joining"} \cap (Parked \cup {"return"}) = {}
  BY DEF Labels, Parked
<1>1. ASSUME NEW t \in Threads, Moves(t), pc'[t] \in {"done", "join", "joining"}, TypeOK',
             UNCHANGED <<unborn, open, wait, granted>>
      PROVE  Basics'
  BY <1>0, <1>1, ParksKept DEF UnbornUnused
<1>2. ASSUME NEW t \in Threads, Exit(t)
      PROVE  Basics'
  <2>1. t \in Workers /\ FinishTid(t, "done") /\ dying' \in BOOLEAN
        /\ UNCHANGED <<unborn, open, signaled, count, wait, issued, granted, ops>>
    BY <1>2 DEF Exit, StopDying, WorkerExitThread, WorkerExitProcess, TypeOK
  <2>2. Moves(t) /\ pc'[t] = "done" /\ finished' \in [Workers -> BOOLEAN]
    BY <1>0, <2>1, FinishTyped DEF Moves
  <2>3. TypeOK'
    BY <2>1, <2>2 DEF TypeOK, Moves
  <2> QED
    BY <1>1, <2>1, <2>2, <2>3
<1>3. Primary \in Threads
  BY DEF Threads
<1>4. CASE PrimaryExit
  <2>1. Moves(Primary) /\ pc'[Primary] = "join"
    BY <1>0, <1>3, <1>4, NotifyTyped DEF PrimaryExit, Goto, Moves
  <2>2. TypeOK'
    BY <1>4, <2>1 DEF PrimaryExit, TypeOK, Moves
  <2> QED
    BY <1>1, <1>3, <1>4, <2>1, <2>2 DEF PrimaryExit
<1>5. CASE JoinWorkers
  <2>1. PICK W : Notify(Primary, "joining", W) /\ \A u \in W \cap Threads : pc[u] = "cv"
    BY <1>5, WokenWait DEF JoinWorkers, WaitersOf
  <2>2. Moves(Primary) /\ pc'[Primary] = "joining"
    BY <1>0, <1>3, <2>1, NotifyTyped DEF Moves
  <2>3. TypeOK'
    BY <1>5, <2>2 DEF JoinWorkers, TypeOK, Moves
  <2> QED
    BY <1>1, <1>3, <1>5, <2>2, <2>3 DEF JoinWorkers
<1>6. CASE Joined
  <2>1. Moves(Primary) /\ pc'[Primary] = "done"
    BY <1>0, <1>3, <1>6, NotifyTyped DEF Joined, Goto, Moves
  <2>2. TypeOK'
    BY <1>6, <2>1 DEF Joined, TypeOK, Moves
  <2> QED
    BY <1>1, <1>3, <1>6, <2>1, <2>2 DEF Joined
<1> QED
  BY <1>2, <1>4, <1>5, <1>6

(* One case per action. *)
LEMMA BasicsStep ==
  ASSUME Basics, [Next]_vars
  PROVE  Basics'
<1>1. CASE UNCHANGED vars
  BY <1>1 DEF vars, Basics, TypeOK, ParkedWaits, UnbornUnused
<1> QED
  BY <1>1, StepCases, ParkBasics, ApiBasics, ExitBasics

-----------------------------------------------------------------------------
(* Two finite sets that differ in t at most. *)
LEMMA SameButOne ==
  ASSUME NEW A, NEW B, NEW t, IsFiniteSet(A), IsFiniteSet(B), A \ {t} = B \ {t}
  PROVE  /\ Cardinality(A) \in Nat /\ Cardinality(B) \in Nat
         /\ Cardinality(B) = Cardinality(A) + (IF t \in B THEN 1 ELSE 0) - (IF t \in A THEN 1 ELSE 0)
<1>1. /\ Cardinality(A \ {t}) = IF t \in A THEN Cardinality(A) - 1 ELSE Cardinality(A)
      /\ Cardinality(B \ {t}) = IF t \in B THEN Cardinality(B) - 1 ELSE Cardinality(B)
  BY FS_RemoveElement
<1>2. Cardinality(A) \in Nat /\ Cardinality(B) \in Nat
  BY FS_CardinalityType
<1> QED
  BY <1>1, <1>2

(* Results on their way, when at most t's own result changes. *)
LEMMA FlightCounts ==
  ASSUME TypeOK, NEW t \in Threads, NEW s, Moves(t),
         \A u \in Threads \ {t} : wait'[u] = wait[u]
  PROVE  /\ Cardinality(InFlight(s)) \in Nat /\ Cardinality(InFlight(s)') \in Nat
         /\ Cardinality(InFlight(s)') =
              Cardinality(InFlight(s)) + (IF t \in InFlight(s)' THEN 1 ELSE 0)
                                       - (IF t \in InFlight(s) THEN 1 ELSE 0)
<1>1. IsFiniteSet(Threads)
  BY ObjectAssumption, FS_AddElement, FS_Singleton, FS_Union DEF Threads
<1>2. IsFiniteSet(InFlight(s)) /\ IsFiniteSet(InFlight(s)')
  BY <1>1, FS_Subset DEF InFlight
<1>3. InFlight(s)' \ {t} = InFlight(s) \ {t}
  BY DEF InFlight, Moves
<1> QED
  BY <1>2, <1>3, SameButOne

(* A park hands on what it takes from the object, and what it hands on is granted on return. *)
LEMMA ParkUnits ==
  ASSUME Basics, UnitsConserved, NEW t \in Threads, Park(t) \/ WakeSpuriously(t)
  PROVE  UnitsConserved'
<1> USE DEF Basics
<1> SUFFICES ASSUME ~dying, NEW s \in Sems
             PROVE  issued'[s] = count'[s] + granted'[s] + Cardinality(InFlight(s)')
  BY DEF UnitsConserved, Park, WakeSpuriously, Resolve, Check, Expire, Wake, Recheck, Return
<1>0. /\ issued[s] = count[s] + granted[s] + Cardinality(InFlight(s))
      /\ issued[s] \in Nat /\ count[s] \in Nat /\ granted[s] \in Nat
      /\ issued' = issued
      /\ {"WAIT_OBJECT_0", "WAIT_TIMEOUT", "WAIT_FAILED"} \subseteq Codes
      /\ {"check", "cv", "woken", "expired", "recheck", "return", "guest"} \subseteq Labels
  BY DEF UnitsConserved, TypeOK, Consumable, Park, WakeSpuriously, Resolve, Check, Expire, Wake, Recheck, Return, Codes, Labels, Parked
<1>1. ASSUME Moves(t), \A u \in Threads \ {t} : wait'[u] = wait[u], t \notin InFlight(s),
             t \notin InFlight(s)', UNCHANGED <<count, granted>>
      PROVE  issued'[s] = count'[s] + granted'[s] + Cardinality(InFlight(s)')
  BY <1>0, <1>1, FlightCounts
<1>2. CASE Resolve(t)
  <2>1. wait[t] \in WaitRecord
    BY <1>2 DEF Resolve, ParkedWaits, Parked
  <2>2. CASE wait[t].obj \in open
    BY <1>0, <1>1, <1>2, <2>2, NotifyTyped DEF Resolve, Goto, Moves, InFlight
  <2>3. CASE wait[t].obj \notin open
    BY <1>0, <1>1, <1>2, <2>1, <2>3, OutcomeTyped DEF Resolve, InFlight
  <2> QED
    BY <2>2, <2>3
<1>3. CASE Check(t) \/ Wake(t)
  <2>1. wait[t] \in WaitRecord /\ wait[t].obj \in Objects /\ t \notin InFlight(s)
    BY <1>3 DEF Check, Wake, ParkedWaits, Parked, WaitRecord, InFlight
  <2>2. CASE Ready(wait[t].obj) /\ Consume(wait[t].obj) /\ Outcome(t, "WAIT_OBJECT_0")
    <3>1. Moves(t) /\ (\A u \in Threads \ {t} : wait'[u] = wait[u])
          /\ (t \in InFlight(s)' <=> wait[t].obj = s)
      BY <1>0, <2>1, <2>2, OutcomeTyped DEF InFlight, Outcome, Goto, Notify
    <3>2. count'[s] = (IF s = wait[t].obj THEN count[s] - 1 ELSE count[s]) /\ granted' = granted
      BY <1>3, <2>1, <2>2, ConsumeTyped DEF Check, Wake
    <3> QED
      BY <1>0, <2>1, <3>1, <3>2, FlightCounts
  <2>3. CASE Check(t) /\ Outcome(t, "WAIT_TIMEOUT") /\ UNCHANGED <<signaled, count>>
    BY <1>0, <1>1, <2>1, <2>3, OutcomeTyped DEF Check, InFlight
  <2>4. CASE Check(t) /\ Goto(t, "cv") /\ UNCHANGED <<signaled, count, wait>>
    BY <1>0, <1>1, <2>1, <2>4, NotifyTyped DEF Check, InFlight, Goto, Moves
  <2>5. CASE Wake(t) /\ Outcome(t, NotReadyCode(t)) /\ UNCHANGED <<signaled, count>>
    <3>1. NotReadyCode(t) \in Codes /\ (wait[t].obj \in Sems => NotReadyCode(t) = "WAIT_TIMEOUT")
      BY DEF NotReadyCode, Codes
    <3> QED
      BY <1>1, <2>1, <2>5, <3>1, OutcomeTyped DEF Wake, InFlight
  <2> QED
    BY <1>3, <2>2, <2>3, <2>4, <2>5 DEF Check, Wake
<1>4. CASE Expire(t) \/ WakeSpuriously(t)
  BY <1>0, <1>1, <1>4, NotifyTyped DEF Expire, Expires, WakeSpuriously, Goto, Moves, InFlight
<1>5. CASE Recheck(t)
  <2>1. Goto(t, "check") /\ UNCHANGED <<wait, count, granted>> /\ pc[t] = "recheck"
    BY <1>5 DEF Recheck, GivesUp
  <2> QED
    BY <1>0, <1>1, <2>1, NotifyTyped DEF Goto, Moves, InFlight
<1>6. CASE Return(t)
  <2>1. wait[t] \in WaitRecord /\ wait[t].obj \in Objects
    BY <1>6 DEF Return, ParkedWaits, WaitRecord
  <2>2. /\ Goto(t, "guest") /\ UNCHANGED <<count, wait>> /\ pc[t] = "return"
        /\ IF wait[t].code = "WAIT_OBJECT_0" THEN Grant(wait[t].obj) ELSE UNCHANGED granted
    BY <1>6 DEF Return
  <2>3. Moves(t) /\ t \notin InFlight(s)'
    BY <1>0, <2>2, NotifyTyped DEF Goto, Moves, InFlight
  <2>4. granted'[s] = IF t \in InFlight(s) THEN granted[s] + 1 ELSE granted[s]
    BY <2>1, <2>2, GrantTyped DEF InFlight
  <2> QED
    BY <1>0, <2>2, <2>3, <2>4, FlightCounts
<1> QED
  BY <1>2, <1>3, <1>4, <1>5, <1>6 DEF Park

(* A call puts units in as many as it says were issued, and the fast path grants what it takes. *)
LEMMA ApiUnits ==
  ASSUME Basics, UnitsConserved, NEW t \in Threads, Api(t)
  PROVE  UnitsConserved'
<1> USE DEF Basics
<1>0. Moves(t) /\ pc[t] = "guest" /\ pc'[t] \in {"guest", "resolve"}
  BY ApiMoves
<1>1. /\ dying' = dying
      /\ \A u \in Threads \ {t} : wait'[u] = wait[u]
  BY DEF Api, CreateEvent, SetEvent, ResetEvent, CreateSemaphore, ReleaseSemaphore, CloseHandle,
         WaitForSingleObject, TypeOK
<1> SUFFICES ASSUME ~dying, NEW s \in Sems
             PROVE  issued'[s] = count'[s] + granted'[s] + Cardinality(InFlight(s)')
  BY <1>1 DEF UnitsConserved
<1>2. t \notin InFlight(s) /\ t \notin InFlight(s)'
  BY <1>0 DEF InFlight
<1>3. Cardinality(InFlight(s)') = Cardinality(InFlight(s)) /\ Cardinality(InFlight(s)) \in Nat
  BY <1>0, <1>1, <1>2, FlightCounts
<1>4. /\ issued[s] = count[s] + granted[s] + Cardinality(InFlight(s))
      /\ issued[s] \in Nat /\ count[s] \in Nat /\ granted[s] \in Nat /\ s \in Consumable
  BY DEF UnitsConserved, TypeOK, Consumable
<1>5. ASSUME NEW e \in Events, CreateEvent(t, e) \/ SetEvent(t, e) \/ ResetEvent(t, e)
      PROVE  issued'[s] = issued[s] /\ UNCHANGED <<count, granted>>
  BY <1>4, <1>5, ObjectAssumption DEF CreateEvent, SetEvent, ResetEvent, TypeOK
<1>6. ASSUME NEW r \in Sems, CreateSemaphore(t, r)
      PROVE  issued'[s] = count'[s] + granted'[s] + Cardinality(InFlight(s)')
  <2>1. PICK n \in 0 .. MaxCount : /\ count' = [count EXCEPT ![r] = n]
                                   /\ issued' = [issued EXCEPT ![r] = n]
    BY <1>6 DEF CreateSemaphore
  <2>2. CASE r = s
    <3>1. granted[s] = 0 /\ granted' = granted
      BY <1>6, <2>2 DEF CreateSemaphore, UnbornUnused
    <3>2. InFlight(s) = {}
      BY <1>6, <2>2 DEF CreateSemaphore, UnbornUnused, ParkedWaits, InFlight, Parked
    <3>3. Cardinality(InFlight(s)) = 0
      BY <3>2, FS_EmptySet
    <3>4. count'[s] = n /\ issued'[s] = n /\ n \in Nat
      BY <1>4, <2>1, <2>2, ObjectAssumption DEF TypeOK
    <3> QED
      BY <1>3, <3>1, <3>3, <3>4
  <2>3. CASE r # s
    BY <1>3, <1>4, <1>6, <2>1, <2>3 DEF CreateSemaphore, TypeOK
  <2> QED
    BY <2>2, <2>3
<1>7. ASSUME NEW r \in Sems, NEW n \in 1 .. MaxCount + 1, ReleaseSemaphore(t, r, n)
      PROVE  issued'[s] = count'[s] + granted'[s] + Cardinality(InFlight(s)')
  <2>1. n \in Nat
    BY ObjectAssumption
  <2>2. granted' = granted
    BY <1>7 DEF ReleaseSemaphore
  <2>3. \/ count' = [count EXCEPT ![r] = @ + n] /\ issued' = [issued EXCEPT ![r] = @ + n]
        \/ UNCHANGED <<count, issued>>
    BY <1>7 DEF ReleaseSemaphore
  <2>4. \/ count'[s] = count[s] + n /\ issued'[s] = issued[s] + n
        \/ count'[s] = count[s] /\ issued'[s] = issued[s]
    BY <1>4, <2>3 DEF TypeOK
  <2> QED
    BY <1>3, <1>4, <2>1, <2>2, <2>4
<1>8. ASSUME NEW o \in Objects, CloseHandle(t, o)
      PROVE  UNCHANGED <<issued, count, granted>>
  BY <1>8 DEF CloseHandle
<1>9. ASSUME NEW o \in Objects, NEW ms \in Timeouts, WaitForSingleObject(t, o, ms)
      PROVE  issued'[s] = count'[s] + granted'[s] + Cardinality(InFlight(s)')
  <2>1. issued' = issued
    BY <1>9 DEF WaitForSingleObject
  <2>2. CASE Ready(o) /\ Consume(o) /\ Grant(o)
    BY <1>3, <1>4, <2>1, <2>2, ConsumeTyped, GrantTyped
  <2>3. CASE UNCHANGED <<count, granted>>
    BY <1>3, <1>4, <2>1, <2>3
  <2> QED
    BY <1>9, <2>2, <2>3 DEF WaitForSingleObject
<1> QED
  BY <1>3, <1>4, <1>5, <1>6, <1>7, <1>8, <1>9 DEF Api

(* Ending a thread neither takes nor gives a unit. *)
LEMMA ExitUnits ==
  ASSUME Basics, UnitsConserved,
         (\E t \in Threads : Exit(t)) \/ PrimaryExit \/ JoinWorkers \/ Joined
  PROVE  UnitsConserved'
<1> USE DEF Basics
<1>0. {"done", "join", "joining"} \subseteq Labels /\ Primary \in Threads
  BY DEF Labels, Threads
<1> SUFFICES ASSUME ~dying', NEW s \in Sems
             PROVE  issued'[s] = count'[s] + granted'[s] + Cardinality(InFlight(s)')
  BY DEF UnitsConserved
<1>1. ~dying
  BY DEF Exit, StopDying, WorkerExitThread, WorkerExitProcess, PrimaryExit, JoinWorkers, Joined
<1>2. ASSUME NEW t \in Threads, Moves(t), pc[t] # "return", pc'[t] # "return",
             UNCHANGED <<issued, count, granted, wait>>
      PROVE  issued'[s] = count'[s] + granted'[s] + Cardinality(InFlight(s)')
  <2>1. t \notin InFlight(s) /\ t \notin InFlight(s)'
    BY <1>2 DEF InFlight
  <2>2. Cardinality(InFlight(s)') = Cardinality(InFlight(s))
    BY <1>2, <2>1, FlightCounts
  <2> QED
    BY <1>1, <1>2, <2>2 DEF UnitsConserved
<1>3. ASSUME NEW t \in Threads, Exit(t)
      PROVE  issued'[s] = count'[s] + granted'[s] + Cardinality(InFlight(s)')
  <2>1. t \in Workers /\ FinishTid(t, "done") /\ pc[t] = "guest"
        /\ UNCHANGED <<issued, count, granted, wait>>
    BY <1>3 DEF Exit, StopDying, WorkerExitThread, WorkerExitProcess
  <2>2. Moves(t) /\ pc'[t] = "done"
    BY <1>0, <2>1, FinishTyped DEF Moves
  <2> QED
    BY <1>2, <2>1, <2>2
<1>4. CASE PrimaryExit \/ Joined
  <2>1. Moves(Primary) /\ pc[Primary] # "return" /\ pc'[Primary] # "return"
    BY <1>0, <1>4, NotifyTyped DEF PrimaryExit, Joined, Goto, Moves
  <2> QED
    BY <1>0, <1>2, <1>4, <2>1 DEF PrimaryExit, Joined
<1>5. CASE JoinWorkers
  BY <1>5 DEF JoinWorkers
<1> QED
  BY <1>3, <1>4, <1>5

(* Units stay conserved, one case per action. *)
LEMMA UnitsStep ==
  ASSUME Basics, UnitsConserved, [Next]_vars
  PROVE  UnitsConserved'
<1>1. CASE UNCHANGED vars
  BY <1>1 DEF vars, UnitsConserved, InFlight
<1> QED
  BY <1>1, StepCases, ParkUnits, ApiUnits, ExitUnits

-----------------------------------------------------------------------------
(* What InfiniteWaitOutcome says of one thread. *)
EndsRight(t) ==
  wait[t] \in WaitRecord /\ wait[t].ms = "INFINITE" =>
    /\ wait[t].code # "WAIT_TIMEOUT"
    /\ wait[t].code = "WAIT_FAILED" => wait[t].obj \notin open \/ dying

(* A step that opens only unborn objects keeps what was said of a wait that does not change. *)
LEMMA EndsRightKept ==
  ASSUME Basics, NEW t \in Threads, EndsRight(t), wait'[t] = wait[t],
         open' \subseteq open \cup unborn, dying => dying'
  PROVE  EndsRight(t)'
BY DEF EndsRight, Basics, UnbornUnused

(* Outcomes stay explained, one case per action. *)
LEMMA OutcomeStep ==
  ASSUME Basics, InfiniteWaitOutcome, [Next]_vars
  PROVE  InfiniteWaitOutcome'
<1> USE DEF Basics
<1> SUFFICES ASSUME NEW t \in Threads
             PROVE  EndsRight(t)'
  BY DEF InfiniteWaitOutcome, EndsRight
<1>1. EndsRight(t)
  BY DEF InfiniteWaitOutcome, EndsRight
<1>2. open' \subseteq open \cup unborn /\ (dying => dying')
  <2>1. ASSUME NEW u \in Threads, Park(u) \/ WakeSpuriously(u)
        PROVE  open' = open /\ dying' = dying
    BY <2>1 DEF Park, Resolve, Check, Expire, Wake, Recheck, Return, WakeSpuriously
  <2>2. ASSUME NEW u \in Threads, Api(u)
        PROVE  open' \subseteq open \cup unborn /\ dying' = dying
    BY <2>2 DEF Api, CreateEvent, SetEvent, ResetEvent, CreateSemaphore, ReleaseSemaphore,
                CloseHandle, WaitForSingleObject
  <2>3. ASSUME NEW u \in Threads, Exit(u)
        PROVE  open' = open /\ (dying => dying')
    BY <2>3 DEF Exit, StopDying, WorkerExitThread, WorkerExitProcess
  <2>4. PrimaryExit \/ JoinWorkers \/ Joined \/ UNCHANGED vars => open' = open /\ (dying => dying')
    <3>1. PrimaryExit \/ JoinWorkers => open' = open /\ (dying' = dying \/ dying' = TRUE)
      BY Zenon DEF PrimaryExit, JoinWorkers
    <3>2. Joined \/ UNCHANGED vars => open' = open /\ dying' = dying
      BY DEF Joined, vars
    <3> QED
      BY <3>1, <3>2
  <2>5. CASE Next
    BY <2>1, <2>2, <2>3, <2>4, <2>5, StepCases
  <2> QED
    BY <2>4, <2>5
<1>3. CASE wait'[t] = wait[t]
  BY <1>1, <1>2, <1>3, EndsRightKept
<1>4. ASSUME NEW u \in Threads, NEW o \in Objects, NEW ms \in Timeouts,
             WaitForSingleObject(u, o, ms), wait'[t] # wait[t]
      PROVE  EndsRight(t)'
  BY <1>4 DEF WaitForSingleObject, EndsRight, TypeOK
<1>5. ASSUME NEW u \in Threads, Park(u), wait'[t] # wait[t]
      PROVE  EndsRight(t)'
  <2>0. {"WAIT_OBJECT_0", "WAIT_TIMEOUT", "WAIT_FAILED"} \subseteq Codes /\ NotReadyCode(u) \in Codes
    BY DEF Codes, NotReadyCode
  <2>1. CASE Resolve(u)
    <3>1. wait[u] \in WaitRecord /\ wait[u].obj \notin open /\ Outcome(u, "WAIT_FAILED") /\ open' = open
      BY <1>5, <2>1 DEF Resolve, ParkedWaits, Parked
    <3> QED
      BY <1>5, <2>0, <3>1, OutcomeTyped DEF EndsRight
  <2>2. CASE Check(u) \/ Wake(u)
    <3>1. wait[u] \in WaitRecord
      BY <2>2 DEF Check, Wake, ParkedWaits, Parked
    <3>2. PICK code \in {"WAIT_OBJECT_0", "WAIT_TIMEOUT"} : Outcome(u, code)
      BY <1>5, <2>2 DEF Check, Wake, NotReadyCode
    <3> QED
      BY <1>5, <2>0, <3>1, <3>2, OutcomeTyped DEF EndsRight
  <2>3. CASE Recheck(u)
    <3>1. wait[u] \in WaitRecord /\ dying' /\ wait' = [wait EXCEPT ![u].code = "WAIT_FAILED"]
      BY <1>5, <2>3 DEF Recheck, GivesUp, ParkedWaits, Parked
    <3> QED
      BY <1>5, <3>1 DEF EndsRight, TypeOK, WaitRecord
  <2> QED
    BY <1>5, <2>1, <2>2, <2>3 DEF Park, Expire, Return
<1> QED
  BY <1>3, <1>4, <1>5
  DEF Next, Api, WakeSpuriously, CreateEvent, SetEvent, ResetEvent, CreateSemaphore,
      ReleaseSemaphore, CloseHandle, Exit, StopDying, WorkerExitThread, WorkerExitProcess,
      PrimaryExit, JoinWorkers, Joined, Ended, vars

-----------------------------------------------------------------------------
(* Nothing exists and nobody waits at the start. *)
LEMMA InitHolds == Init => IInv
<1> SUFFICES ASSUME Init
             PROVE  IInv
  OBVIOUS
<1>1. Basics
  <2>1. TypeOK
    BY DEF Init, TypeOK, Labels, Objects
  <2>2. ParkedWaits
    BY DEF Init, ParkedWaits, Parked
  <2>3. unborn \cap open = {} /\ (\A o \in Sems : granted[o] = 0)
    BY ObjectAssumption DEF Init, Consumable
  <2>4. \A t \in Threads : wait[t] \notin WaitRecord
    BY DEF Init, WaitRecord
  <2> QED
    BY <2>1, <2>2, <2>3, <2>4 DEF Basics, UnbornUnused
<1>2. \A s \in Sems : Cardinality(InFlight(s)) = 0
  <2>1. \A s \in Sems : InFlight(s) = {}
    BY DEF Init, InFlight
  <2> QED
    BY <2>1, FS_EmptySet
<1>3. UnitsConserved
  <2>1. \A s \in Sems : issued[s] = 0 /\ count[s] = 0 /\ granted[s] = 0
    BY DEF Init, Consumable
  <2> QED
    BY <1>2, <2>1 DEF UnitsConserved
<1>4. InfiniteWaitOutcome
  BY DEF Init, InfiniteWaitOutcome, WaitRecord
<1> QED
  BY <1>1, <1>3, <1>4 DEF IInv

(* The inductive invariant: types, what parked threads and unborn objects may refer to, and the   *)
(* two properties themselves.                                                                     *)
THEOREM WaitInvariant == Spec => []IInv
<1>1. IInv /\ [Next]_vars => IInv'
  BY BasicsStep, UnitsStep, OutcomeStep DEF IInv
<1> QED
  BY InitHolds, <1>1, PTL DEF Spec

(* SemaphoreObject: units released are in the count, on their way to one waiter or granted, for   *)
(* every number of workers, semaphores and calls, whether condition variables wake unasked or not. *)
THEOREM UnitsNeverLost == Spec => []UnitsConserved
<1>1. IInv => UnitsConserved
  BY DEF IInv
<1> QED
  BY WaitInvariant, <1>1, PTL

(* The 50 ms slices of an INFINITE wait never show: it ends with the signal, or fails because the *)
(* handle was closed or the process dies.                                                         *)
THEOREM SlicesInvisible == Spec => []InfiniteWaitOutcome
<1>1. IInv => InfiniteWaitOutcome
  BY DEF IInv
<1> QED
  BY WaitInvariant, <1>1, PTL
=============================================================================
