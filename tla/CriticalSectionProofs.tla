---------------------- MODULE CriticalSectionProofs ----------------------
(***************************************************************************)
(* Critical sections are mutually exclusive, for every set of threads and  *)
(* sections and every number of calls below the width of RecursionCount.   *)
(*                                                                         *)
(* MutualExclusion is not inductive: the handlers decide by the guest's    *)
(* fields, so the invariant must tie those fields to the threads inside    *)
(* (OwnerAgrees), and the saturating counters keep the tie only while the  *)
(* recursion stays below U32Max, which the call budget gives (Budget).     *)
(***************************************************************************)
EXTENDS CriticalSection, TLAPS

\* A thread's unmatched Enter calls, the pending one included, are calls it made.
Budget ==
  \A t \in Threads, c \in Sections :
    /\ held[t][c] <= calls[t]
    /\ want[t] = c => held[t][c] + 1 <= calls[t]

\* A thread anywhere in a host park has a section whose Enter it retries.
Parking ==
  \A t \in Threads :
    pc[t] \in {"park", "spin", "wait", "unpark"} => want[t] \in Sections

IInv == TypeOK /\ Parking /\ Budget /\ OwnerAgrees

\* An acquiring Enter keeps a section's fields and its counts in agreement.
LEMMA EnteredAgrees ==
  ASSUME NEW s \in Section, NEW t \in Threads, NEW count \in [Threads -> Nat],
         Agrees(s, count), CanEnter(s, t), count[t] < U32Max
  PROVE  /\ Entered(s, t) \in Section
         /\ Agrees(Entered(s, t), [count EXCEPT ![t] = @ + 1])
<1> DEFINE e == Entered(s, t)
           n == [count EXCEPT ![t] = @ + 1]
<1>0. /\ n \in [Threads -> Nat]
      /\ n[t] = count[t] + 1
      /\ \A u \in Threads \ {t} : n[u] = count[u]
      /\ t # NoTid
  BY IdentityAssumption
<1>1. CASE s.OwningThread = NoTid
  <2>1. e = [LockCount |-> 0, RecursionCount |-> 1, OwningThread |-> t]
    BY <1>1 DEF Entered
  <2>2. \A u \in Threads : count[u] = 0
    BY <1>1 DEF Agrees
  <2> QED
    BY <1>0, <2>1, <2>2 DEF Section, Agrees
<1>2. CASE s.OwningThread = t
  <2>1. /\ s.RecursionCount = count[t]
        /\ s.LockCount + 1 = s.RecursionCount
        /\ s.LockCount \in Nat
        /\ s.RecursionCount \in Nat
        /\ \A u \in Threads \ {t} : count[u] = 0
    BY <1>0, <1>2 DEF Agrees, Section
  <2>2. e = [LockCount |-> s.LockCount + 1,
             RecursionCount |-> s.RecursionCount + 1,
             OwningThread |-> t]
    BY <1>0, <1>2, <2>1, WidthAssumption DEF Entered, SaturatingInc
  <2> QED
    BY <1>0, <2>1, <2>2 DEF Section, Agrees
<1> QED
  BY <1>1, <1>2 DEF CanEnter

\* A Leave keeps them in agreement, whoever calls it.
LEMMA LeftAgrees ==
  ASSUME NEW s \in Section, NEW t \in Threads, NEW count \in [Threads -> Nat],
         Agrees(s, count)
  PROVE  /\ Left(s, t) \in Section
         /\ Agrees(Left(s, t), [count EXCEPT ![t] = SaturatingDec(@)])
<1> DEFINE l == Left(s, t)
           n == [count EXCEPT ![t] = SaturatingDec(@)]
<1>0. /\ n \in [Threads -> Nat]
      /\ n[t] = SaturatingDec(count[t])
      /\ \A u \in Threads \ {t} : n[u] = count[u]
      /\ t # NoTid
  BY IdentityAssumption DEF SaturatingDec
<1>1. CASE s.OwningThread # t
  <2>1. l = s
    BY <1>1 DEF Left
  <2>2. count[t] = 0
    BY <1>1 DEF Agrees
  <2>3. \A u \in Threads : n[u] = count[u]
    BY <1>0, <2>2 DEF SaturatingDec
  <2>4. s.OwningThread # NoTid => s.OwningThread \in Threads
    BY DEF Section
  <2> QED
    BY <2>1, <2>3, <2>4 DEF Agrees
<1>2. CASE s.OwningThread = t
  <2>1. /\ s.RecursionCount = count[t]
        /\ s.RecursionCount > 0
        /\ s.LockCount + 1 = s.RecursionCount
        /\ s.LockCount \in Nat
        /\ s.RecursionCount \in Nat
        /\ \A u \in Threads \ {t} : count[u] = 0
    BY <1>0, <1>2 DEF Agrees, Section
  <2>2. CASE s.RecursionCount <= 1
    <3>1. l = Unlocked
      BY <1>2, <2>2 DEF Left, Unlocks
    <3>2. \A u \in Threads : n[u] = 0
      BY <1>0, <2>1, <2>2 DEF SaturatingDec
    <3> QED
      BY <3>1, <3>2, WidthAssumption DEF Agrees, Unlocked, Section
  <2>3. CASE s.RecursionCount > 1
    <3>1. l = [LockCount |-> s.LockCount - 1,
               RecursionCount |-> s.RecursionCount - 1,
               OwningThread |-> t]
      BY <1>2, <2>1, <2>3 DEF Left, Unlocks, SaturatingDec, Section
    <3>2. n[t] = count[t] - 1
      BY <1>0, <2>1 DEF SaturatingDec
    <3> QED
      BY <1>0, <2>1, <2>3, <3>1, <3>2 DEF Agrees, Section
  <2> QED
    BY <2>1, <2>2, <2>3
<1> QED
  BY <1>1, <1>2

---------------------------------------------------------------------------

\* A loop step (activation, park, exit) changes no section, count or budget.
LEMMA HostStep ==
  ASSUME TypeOK, Parking, NEW t \in Threads, Host(t)
  PROVE  TypeOK' /\ Parking' /\ UNCHANGED <<cs, want, held, calls>>
<1>1. CASE Top(t)
  BY <1>1 DEF TypeOK, Parking, Top, Goto, HostPc
<1>2. CASE QuantumExhausted(t)
  BY <1>2 DEF TypeOK, Parking, QuantumExhausted, Goto, HostPc
<1>3. CASE DispatchWhileDying(t)
  BY <1>3 DEF TypeOK, Parking, DispatchWhileDying, Goto, HostPc, Reactivate
<1>4. CASE ResolveQueue(t)
  BY <1>4 DEF TypeOK, Parking, ResolveQueue, Goto, HostPc
<1>5. CASE BeginWait(t)
  BY <1>5 DEF TypeOK, Parking, BeginWait, Goto, HostPc
<1>6. CASE WaitTimeout(t)
  BY <1>6 DEF TypeOK, Parking, WaitTimeout, WaitExpires, Goto, HostPc, Awake
<1>7. CASE Unpark(t)
  BY <1>7 DEF TypeOK, Parking, Unpark, Goto, HostPc
<1>8. CASE WorkerExitProcess(t)
  BY <1>8 DEF TypeOK, Parking, WorkerExitProcess, Goto, HostPc, Reactivate
<1>9. CASE WorkerExitThread(t)
  BY <1>9 DEF TypeOK, Parking, WorkerExitThread, Goto, HostPc, Reactivate
<1> QED
  BY <1>1, <1>2, <1>3, <1>4, <1>5, <1>6, <1>7, <1>8, <1>9 DEF Host

\* The end of the primary's loop changes no section, count or budget either.
LEMMA ExitStep ==
  ASSUME TypeOK, Parking, PrimaryExit \/ WakeWorkers \/ JoinWorkers \/ ProcessEnded
  PROVE  TypeOK' /\ Parking' /\ UNCHANGED <<cs, want, held, calls>>
<1> USE DEF Threads
<1>1. CASE PrimaryExit
  BY <1>1 DEF TypeOK, Parking, PrimaryExit, Goto, HostPc, Reactivate
<1>2. CASE WakeWorkers
  BY <1>2 DEF TypeOK, Parking, WakeWorkers, HostPc, Awake
<1>3. CASE JoinWorkers
  BY <1>3 DEF TypeOK, Parking, JoinWorkers, Goto, HostPc
<1>4. CASE ProcessEnded
  BY <1>4 DEF TypeOK, Parking, ProcessEnded, vars
<1> QED
  BY <1>1, <1>2, <1>3, <1>4

\* Steps that leave sections, counts and budgets alone keep the invariant.
LEMMA UnchangedData ==
  ASSUME Budget, OwnerAgrees, UNCHANGED <<cs, want, held, calls>>
  PROVE  Budget' /\ OwnerAgrees'
<1>1. Budget'
  BY DEF Budget
<1>2. OwnerAgrees'
  BY DEF OwnerAgrees, Count, Agrees
<1> QED
  BY <1>1, <1>2

\* An acquiring Enter keeps the whole invariant.
LEMMA EnterStep ==
  ASSUME IInv, NEW t \in Threads, NEW c \in Sections, Enter(t, c)
  PROVE  IInv'
<1> USE DEF IInv
<1>1. /\ active' = t
      /\ CanEnter(cs[c], t)
      /\ cs' = [cs EXCEPT ![c] = Entered(cs[c], t)]
      /\ held' = [held EXCEPT ![t][c] = held[t][c] + 1]
      /\ want' = [want EXCEPT ![t] = NoSection]
      /\ pc' = [pc EXCEPT ![t] = "top"]
      /\ cs_waiters' = cs_waiters /\ dying' = dying
  BY DEF Enter, Reactivate, Goto
<1>2. /\ calls' \in [Threads -> 0 .. MaxCalls]
      /\ \A u \in Threads : calls'[u] >= calls[u]
      /\ held[t][c] + 1 <= calls'[t]
  BY WidthAssumption DEF Enter, Calls, TypeOK, Budget
<1>3. held[t][c] < U32Max
  BY <1>2, WidthAssumption DEF TypeOK
<1>4. /\ Count(c) \in [Threads -> Nat]
      /\ Agrees(cs[c], Count(c))
      /\ Count(c)[t] = held[t][c]
      /\ cs[c] \in Section
  BY DEF TypeOK, OwnerAgrees, Count
<1>5. /\ Entered(cs[c], t) \in Section
      /\ Agrees(Entered(cs[c], t), [Count(c) EXCEPT ![t] = @ + 1])
  BY <1>1, <1>3, <1>4, EnteredAgrees
<1>6. /\ held' \in [Threads -> [Sections -> Nat]]
      /\ \A u \in Threads, d \in Sections :
           held'[u][d] = IF u = t /\ d = c THEN held[u][d] + 1 ELSE held[u][d]
  BY <1>1 DEF TypeOK
<1>7. TypeOK'
  <2>1. cs' \in [Sections -> Section]
    BY <1>1, <1>5 DEF TypeOK
  <2>2. want' \in [Threads -> Sections \cup {NoSection}]
    BY <1>1 DEF TypeOK
  <2>3. pc' \in [Threads -> HostPc]
    BY <1>1 DEF TypeOK, HostPc
  <2>4. active' \in Threads /\ cs_waiters' \subseteq Sections /\ dying' \in BOOLEAN
    BY <1>1 DEF TypeOK
  <2> QED
    BY <1>2, <1>6, <2>1, <2>2, <2>3, <2>4 DEF TypeOK
<1>8. Parking' /\ Budget'
  <2>1. Parking'
    BY <1>1 DEF TypeOK, Parking
  <2>2. ASSUME NEW u \in Threads, NEW d \in Sections
        PROVE  /\ held'[u][d] <= calls'[u]
               /\ want'[u] = d => held'[u][d] + 1 <= calls'[u]
    <3>1. /\ held[u][d] \in Nat /\ calls[u] \in Nat /\ calls'[u] \in Nat
          /\ held[u][d] <= calls[u]
          /\ want[u] = d => held[u][d] + 1 <= calls[u]
          /\ calls'[u] >= calls[u]
      BY <1>2, WidthAssumption DEF TypeOK, Budget
    <3>2. CASE u = t
      BY <1>1, <1>2, <1>6, <3>1, <3>2, IdentityAssumption DEF TypeOK
    <3>3. CASE u # t
      <4>1. want'[u] = want[u] /\ held'[u][d] = held[u][d]
        BY <1>1, <1>6, <3>3 DEF TypeOK
      <4> QED
        BY <3>1, <4>1
    <3> QED
      BY <3>2, <3>3
  <2> QED
    BY <2>1, <2>2 DEF Budget
<1>9. OwnerAgrees'
  <2>1. Count(c)' = [Count(c) EXCEPT ![t] = @ + 1]
    BY <1>1 DEF Count, TypeOK
  <2>2. \A d \in Sections \ {c} : Count(d)' = Count(d) /\ cs'[d] = cs[d]
    BY <1>1 DEF Count, TypeOK
  <2>3. cs'[c] = Entered(cs[c], t)
    BY <1>1 DEF TypeOK
  <2> QED
    BY <1>5, <2>1, <2>2, <2>3 DEF OwnerAgrees
<1> QED
  BY <1>7, <1>8, <1>9

\* A contended Enter only records what the thread waits for.
LEMMA ContendedStep ==
  ASSUME IInv, NEW t \in Threads, NEW c \in Sections, EnterContended(t, c)
  PROVE  IInv'
<1> USE DEF IInv
<1>1. /\ active' = t
      /\ want' = [want EXCEPT ![t] = c]
      /\ pc' = [pc EXCEPT ![t] = "park"]
      /\ cs' = cs /\ cs_waiters' = cs_waiters /\ dying' = dying /\ held' = held
  BY DEF EnterContended, Reactivate, Goto
<1>2. /\ calls' \in [Threads -> 0 .. MaxCalls]
      /\ \A u \in Threads : calls'[u] >= calls[u]
      /\ held[t][c] + 1 <= calls'[t]
  <2>1. /\ held[t][c] \in Nat /\ calls \in [Threads -> 0 .. MaxCalls]
        /\ held[t][c] <= calls[t]
        /\ want[t] = c => held[t][c] + 1 <= calls[t]
    BY DEF TypeOK, Budget
  <2>2. CASE want[t] = c /\ calls' = calls
    BY <2>1, <2>2, WidthAssumption
  <2>3. CASE calls[t] < MaxCalls /\ calls' = [calls EXCEPT ![t] = calls[t] + 1]
    BY <2>1, <2>3, WidthAssumption
  <2> QED
    BY <2>2, <2>3 DEF EnterContended, Calls
<1>3. TypeOK'
  <2>1. want' \in [Threads -> Sections \cup {NoSection}]
    BY <1>1 DEF TypeOK
  <2>2. pc' \in [Threads -> HostPc]
    BY <1>1 DEF TypeOK, HostPc
  <2> QED
    BY <1>1, <1>2, <2>1, <2>2 DEF TypeOK
<1>4. Parking'
  BY <1>1 DEF TypeOK, Parking
<1>5. Budget'
  <2>1. ASSUME NEW u \in Threads, NEW d \in Sections
        PROVE  /\ held'[u][d] <= calls'[u]
               /\ want'[u] = d => held'[u][d] + 1 <= calls'[u]
    <3>1. /\ held[u][d] \in Nat /\ calls[u] \in Nat /\ calls'[u] \in Nat
          /\ held[u][d] <= calls[u]
          /\ want[u] = d => held[u][d] + 1 <= calls[u]
          /\ calls'[u] >= calls[u]
      BY <1>2, WidthAssumption DEF TypeOK, Budget
    <3>0. held'[u][d] = held[u][d]
      BY <1>1
    <3>2. u = t => want'[u] = c
      BY <1>1 DEF TypeOK
    <3>3. u # t => want'[u] = want[u]
      BY <1>1 DEF TypeOK
    <3> QED
      BY <1>2, <3>0, <3>1, <3>2, <3>3
  <2> QED
    BY <2>1 DEF Budget
<1>6. OwnerAgrees'
  BY <1>1 DEF OwnerAgrees, Count, Agrees
<1> QED
  BY <1>3, <1>4, <1>5, <1>6

\* A Leave keeps the whole invariant, also when it is ignored.
LEMMA LeaveStep ==
  ASSUME IInv, NEW t \in Threads, NEW c \in Sections, Leave(t, c)
  PROVE  IInv'
<1> USE DEF IInv
<1>1. /\ active' = t
      /\ cs' = [cs EXCEPT ![c] = Left(cs[c], t)]
      /\ held' = [held EXCEPT ![t][c] = SaturatingDec(held[t][c])]
      /\ UNCHANGED <<cs_waiters, dying, want>>
      /\ pc[t] = "guest"
  BY DEF Leave, Reactivate
<1>2. /\ calls' \in [Threads -> 0 .. MaxCalls]
      /\ \A u \in Threads : calls'[u] >= calls[u]
  BY WidthAssumption DEF Leave, TypeOK
<1>3. pc' \in [Threads -> HostPc] /\ Parking'
  <2>1. CASE pc' = [pc EXCEPT ![t] = "top"]
    BY <1>1, <2>1 DEF TypeOK, Parking, HostPc
  <2>2. CASE NotifyOne(t, c) /\ pc' # [pc EXCEPT ![t] = "top"]
    <3>1. PICK u \in WaitersOf(c) : pc' = [pc EXCEPT ![t] = "top", ![u] = Awake(u)]
      BY <2>2 DEF NotifyOne, Goto
    <3>2. u \in Threads /\ want[u] = c
      BY <3>1 DEF WaitersOf
    <3>3. Awake(u) \in {"unpark", "top"}
      BY DEF Awake
    <3> QED
      BY <1>1, <3>1, <3>2, <3>3 DEF TypeOK, Parking, HostPc
  <2> QED
    BY <2>1, <2>2 DEF Leave, Goto
<1>4. /\ Count(c) \in [Threads -> Nat]
      /\ Agrees(cs[c], Count(c))
      /\ Count(c)[t] = held[t][c]
      /\ cs[c] \in Section
  BY DEF TypeOK, OwnerAgrees, Count
<1>5. /\ Left(cs[c], t) \in Section
      /\ Agrees(Left(cs[c], t), [Count(c) EXCEPT ![t] = SaturatingDec(@)])
  BY <1>4, LeftAgrees
<1>6. /\ held' \in [Threads -> [Sections -> Nat]]
      /\ \A u \in Threads, d \in Sections : held'[u][d] <= held[u][d]
  BY <1>1 DEF TypeOK, SaturatingDec
<1>7. TypeOK'
  <2>1. cs' \in [Sections -> Section]
    BY <1>1, <1>5 DEF TypeOK
  <2> QED
    BY <1>1, <1>2, <1>3, <1>6, <2>1 DEF TypeOK
<1>8. Budget'
  <2>1. ASSUME NEW u \in Threads, NEW d \in Sections
        PROVE  /\ held'[u][d] <= calls'[u]
               /\ want'[u] = d => held'[u][d] + 1 <= calls'[u]
    <3>1. /\ held[u][d] \in Nat /\ calls[u] \in Nat /\ calls'[u] \in Nat
          /\ held'[u][d] \in Nat /\ held'[u][d] <= held[u][d]
          /\ held[u][d] <= calls[u]
          /\ want[u] = d => held[u][d] + 1 <= calls[u]
          /\ calls'[u] >= calls[u]
          /\ want'[u] = want[u]
      BY <1>1, <1>2, <1>6, WidthAssumption DEF TypeOK, Budget
    <3> QED
      BY <3>1
  <2> QED
    BY <2>1 DEF Budget
<1>9. OwnerAgrees'
  <2>1. Count(c)' = [Count(c) EXCEPT ![t] = SaturatingDec(@)]
    BY <1>1 DEF Count, TypeOK
  <2>2. \A d \in Sections \ {c} : Count(d)' = Count(d) /\ cs'[d] = cs[d]
    BY <1>1 DEF Count, TypeOK
  <2>3. cs'[c] = Left(cs[c], t)
    BY <1>1 DEF TypeOK
  <2> QED
    BY <1>5, <2>1, <2>2, <2>3 DEF OwnerAgrees
<1> QED
  BY <1>3, <1>7, <1>8, <1>9

\* Initialize and Delete write the fields of a section nobody is inside.
LEMMA WriteUnlockedStep ==
  ASSUME IInv, NEW t \in Threads, NEW c \in Sections, WriteUnlocked(t, c)
  PROVE  IInv'
<1> USE DEF IInv
<1>1. /\ active' = t
      /\ cs' = [cs EXCEPT ![c] = Unlocked]
      /\ pc' = [pc EXCEPT ![t] = "top"]
      /\ calls' = [calls EXCEPT ![t] = calls[t] + 1]
      /\ calls[t] < MaxCalls
      /\ UNCHANGED <<cs_waiters, dying, want, held>>
      /\ \A u \in Threads : held[u][c] = 0
  BY DEF WriteUnlocked, Reactivate, Goto
<1>2. /\ calls' \in [Threads -> 0 .. MaxCalls]
      /\ \A u \in Threads : calls'[u] >= calls[u]
  BY <1>1, WidthAssumption DEF TypeOK
<1>3. TypeOK'
  <2>1. cs' \in [Sections -> Section]
    BY <1>1, WidthAssumption DEF TypeOK, Section, Unlocked
  <2>2. pc' \in [Threads -> HostPc]
    BY <1>1 DEF TypeOK, HostPc
  <2> QED
    BY <1>1, <1>2, <2>1, <2>2 DEF TypeOK
<1>4. Parking'
  BY <1>1 DEF TypeOK, Parking
<1>5. Budget'
  <2>1. ASSUME NEW u \in Threads, NEW d \in Sections
        PROVE  /\ held[u][d] <= calls'[u]
               /\ want[u] = d => held[u][d] + 1 <= calls'[u]
    BY <1>2, WidthAssumption DEF TypeOK, Budget
  <2> QED
    BY <1>1, <2>1 DEF Budget
<1>6. OwnerAgrees'
  <2>1. cs'[c] = Unlocked /\ \A d \in Sections \ {c} : cs'[d] = cs[d]
    BY <1>1 DEF TypeOK
  <2>2. \A d \in Sections : Count(d)' = Count(d)
    BY <1>1 DEF Count
  <2>3. Agrees(Unlocked, Count(c))
    BY <1>1 DEF Agrees, Unlocked, Count
  <2> QED
    BY <2>1, <2>2, <2>3 DEF OwnerAgrees
<1> QED
  BY <1>3, <1>4, <1>5, <1>6

---------------------------------------------------------------------------

\* IInv holds initially and every step keeps it.
THEOREM InductiveInvariant == Spec => []IInv
<1>1. Init => IInv
  <2> SUFFICES ASSUME Init PROVE IInv
    OBVIOUS
  <2>1. TypeOK
    <3>1. active \in Threads
      BY DEF Init, Threads
    <3>2. cs \in [Sections -> Section]
      BY WidthAssumption DEF Init, Unlocked, Section
    <3>3. held \in [Threads -> [Sections -> Nat]]
      BY DEF Init
    <3>4. calls \in [Threads -> 0 .. MaxCalls]
      BY WidthAssumption DEF Init
    <3> QED
      BY <3>1, <3>2, <3>3, <3>4 DEF Init, TypeOK, HostPc
  <2>2. Parking /\ Budget
    BY IdentityAssumption DEF Init, Parking, Budget
  <2>3. OwnerAgrees
    BY DEF Init, OwnerAgrees, Agrees, Count, Unlocked
  <2> QED
    BY <2>1, <2>2, <2>3 DEF IInv
<1>2. IInv /\ [Next]_vars => IInv'
  <2> SUFFICES ASSUME IInv, [Next]_vars PROVE IInv'
    OBVIOUS
  <2>1. CASE \E t \in Threads : Host(t)
    BY <2>1, HostStep, UnchangedData DEF IInv
  <2>2. CASE \E t \in Threads, c \in Sections : Api(t, c)
    BY <2>2, EnterStep, ContendedStep, LeaveStep, WriteUnlockedStep DEF Api
  <2>3. CASE PrimaryExit \/ WakeWorkers \/ JoinWorkers \/ ProcessEnded
    BY <2>3, ExitStep, UnchangedData DEF IInv
  <2>4. CASE UNCHANGED vars
    <3>1. TypeOK' /\ Parking'
      BY <2>4 DEF IInv, TypeOK, Parking, vars
    <3>2. UNCHANGED <<cs, want, held, calls>>
      BY <2>4 DEF vars
    <3> QED
      BY <3>1, <3>2, UnchangedData DEF IInv
  <2> QED
    BY <2>1, <2>2, <2>3, <2>4 DEF Next
<1> QED
  BY <1>1, <1>2, PTL DEF Spec

\* The variables keep their types (the handlers' fields stay within u32 and
\* OwningThread is always a thread or 0).
THEOREM TypeCorrect == Spec => []TypeOK
<1>1. IInv => TypeOK
  BY DEF IInv
<1> QED
  BY <1>1, InductiveInvariant, PTL

\* The guest's RTL_CRITICAL_SECTION fields always tell who is inside.
THEOREM FieldsTellOwner == Spec => []OwnerAgrees
<1>1. IInv => OwnerAgrees
  BY DEF IInv
<1> QED
  BY <1>1, InductiveInvariant, PTL

\* EnterCriticalSection never admits two threads, whatever the interleaving
\* of activations, parks, lost wakeups and exits.
THEOREM Exclusion == Spec => []MutualExclusion
<1>1. IInv => MutualExclusion
  <2> SUFFICES ASSUME IInv, NEW c \in Sections, NEW t \in Threads, NEW u \in Threads,
                      held[t][c] > 0, held[u][c] > 0
               PROVE  t = u
    BY DEF MutualExclusion
  <2>1. Agrees(cs[c], Count(c))
    BY DEF IInv, OwnerAgrees
  <2>2. held[t][c] # 0 /\ held[u][c] # 0
    BY DEF IInv, TypeOK
  <2> QED
    BY <2>1, <2>2 DEF Agrees, Count
<1> QED
  BY <1>1, InductiveInvariant, PTL


\* What a step may do to the owner of section c.
HandsOver(c) ==
  LET o == cs[c].OwningThread IN
    o # NoTid /\ cs'[c].OwningThread # o =>
      cs'[c].OwningThread = NoTid /\ held[o][c] = 1 /\ held'[o][c] = 0

\* Only the owner's own last Leave ends its ownership.
LEMMA HandoverStep ==
  ASSUME IInv, [Next]_vars, NEW c \in Sections
  PROVE  HandsOver(c)
<1>0. /\ cs \in [Sections -> Section] /\ held \in [Threads -> [Sections -> Nat]]
      /\ cs[c] \in Section /\ Agrees(cs[c], Count(c))
  BY DEF IInv, TypeOK, OwnerAgrees
<1>1. CASE UNCHANGED cs
  BY <1>1 DEF HandsOver
<1>2. ASSUME NEW t \in Threads, NEW d \in Sections, Enter(t, d)
      PROVE  HandsOver(c)
  <2>1. CanEnter(cs[d], t) /\ cs' = [cs EXCEPT ![d] = Entered(cs[d], t)]
    BY <1>2 DEF Enter, Reactivate
  <2>2. Entered(cs[d], t).OwningThread = t
    BY DEF Entered
  <2> QED
    BY <1>0, <2>1, <2>2 DEF HandsOver, CanEnter
<1>3. ASSUME NEW t \in Threads, NEW d \in Sections, Leave(t, d)
      PROVE  HandsOver(c)
  <2>1. /\ cs' = [cs EXCEPT ![d] = Left(cs[d], t)]
        /\ held' = [held EXCEPT ![t][d] = SaturatingDec(held[t][d])]
    BY <1>3 DEF Leave, Reactivate
  <2>2. CASE c # d
    BY <1>0, <2>1, <2>2 DEF HandsOver
  <2>3. CASE c = d /\ Unlocks(cs[c], t)
    <3>1. cs[c].OwningThread = t /\ cs[c].RecursionCount <= 1 /\ t # NoTid
      BY <2>3, IdentityAssumption DEF Unlocks
    <3>2. cs[c].RecursionCount = held[t][c] /\ cs[c].RecursionCount > 0 /\ held[t][c] \in Nat
      BY <1>0, <3>1 DEF Agrees, Count
    <3>3. held[t][c] = 1 /\ held'[t][c] = 0
      BY <1>0, <2>1, <2>3, <3>1, <3>2 DEF SaturatingDec
    <3>4. cs'[c].OwningThread = NoTid
      BY <1>0, <2>1, <2>3, <3>1 DEF Left, Unlocked
    <3> QED
      BY <3>1, <3>3, <3>4 DEF HandsOver
  <2>4. CASE c = d /\ ~Unlocks(cs[c], t)
    <3>1. Left(cs[c], t).OwningThread = cs[c].OwningThread
      BY <2>4 DEF Left
    <3> QED
      BY <1>0, <2>1, <2>4, <3>1 DEF HandsOver
  <2> QED
    BY <2>2, <2>3, <2>4
<1>4. ASSUME NEW t \in Threads, NEW d \in Sections, WriteUnlocked(t, d)
      PROVE  HandsOver(c)
  <2>1. cs' = [cs EXCEPT ![d] = Unlocked] /\ \A u \in Threads : held[u][d] = 0
    BY <1>4 DEF WriteUnlocked
  <2>2. c = d => cs[c].OwningThread = NoTid
    <3>1. cs[c].OwningThread \in Threads \cup {NoTid}
      BY <1>0 DEF Section
    <3> QED
      BY <1>0, <2>1, <3>1 DEF Agrees, Count
  <2> QED
    BY <1>0, <2>1, <2>2 DEF HandsOver
<1>5. CASE \E t \in Threads : Host(t)
  BY <1>1, <1>5, HostStep DEF IInv
<1>6. CASE PrimaryExit \/ WakeWorkers \/ JoinWorkers \/ ProcessEnded
  BY <1>1, <1>6, ExitStep DEF IInv
<1>7. CASE \E t \in Threads, d \in Sections : Api(t, d)
  BY <1>1, <1>2, <1>3, <1>4, <1>7 DEF Api, EnterContended
<1> QED
  BY <1>1, <1>5, <1>6, <1>7 DEF Next, vars

\* Ownership never passes from one thread to another in one step, and ends only with the
\* owner's own last Leave: a Leave by a thread that is not the owner, Initialize, Delete, a
\* park and an exit take it from nobody.
THEOREM OwnerAlonePasses == Spec => OwnershipHandover
<1>1. ASSUME IInv, [Next]_vars
      PROVE  [\A c \in Sections :
                LET o == cs[c].OwningThread IN
                  o # NoTid /\ cs'[c].OwningThread # o =>
                    cs'[c].OwningThread = NoTid /\ held[o][c] = 1 /\ held'[o][c] = 0]_vars
  BY <1>1, HandoverStep DEF HandsOver
<1> QED
  BY <1>1, InductiveInvariant, PTL DEF Spec, OwnershipHandover

=============================================================================
