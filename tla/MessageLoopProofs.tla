------------------------- MODULE MessageLoopProofs -------------------------
(***************************************************************************)
(* For every stack size, message set, number of workers and depth of       *)
(* nesting: the frames of the bridge into window procedures never touch    *)
(* each other, every procedure returns to the code that called the API,    *)
(* messages are retrieved once and in order, and the answers about the     *)
(* geometry of windows agree.                                              *)
(***************************************************************************)
EXTENDS MessageLoop, WellFoundedInduction, TLAPS

---------------------------------------------------------------------------
(* The bridge *)

\* The stack pointer of the i-th nested piece of guest code: each nested call
\* takes its return address, the bridge's frame and a prologue.
Depth(i) == StackWords - HomeWords - 12 * (i - 1)

Message == [hwnd : {0, FAKE, 1}, msg : Msgs, id : Nat \ {0}]

\* What a message buffer holds, and what the words of the stack hold.
Held == Message \cup {QuitMessage, <<>>}

Sites == {"a", "b"}   \* what CallSite gives

Code == {"main", "proc", "body"} \cup Sites

Marks == {"free", "zero", "spilled", Trampoline} \cup Sites

Frame == [site : Code, rsp : Int, msg : Held]

\* What is held where.
LEMMA HeldFacts ==
  /\ <<>> \in Held /\ Message \subseteq Held /\ QuitMessage \in Held
  /\ Sites \subseteq Code /\ Sites \subseteq Marks /\ Trampoline \in Marks
BY DEF Held, Code, Marks

\* A frame of a sequence of frames is a record of its fields.
LEMMA FrameAt ==
  ASSUME NEW f \in Seq(Frame), NEW i \in 1 .. Len(f)
  PROVE  f[i] \in [site : Code, rsp : Int, msg : Held]
<1>1. f[i] \in Frame
  OBVIOUS
<1> QED
  BY <1>1 DEF Frame

\* The first n elements of a sequence.
LEMMA PrefixFacts ==
  ASSUME NEW S, NEW q \in Seq(S), NEW n \in Nat, n <= Len(q)
  PROVE  /\ SubSeq(q, 1, n) \in Seq(S) /\ Len(SubSeq(q, 1, n)) = n
         /\ \A i \in 1 .. n : SubSeq(q, 1, n)[i] = q[i]
OBVIOUS

\* One element, and one, more.
LEMMA AppendIsSeq ==
  ASSUME NEW S, NEW q \in Seq(S), NEW e \in S, NEW n \in Nat
  PROVE  Append(q, e) \in Seq(S) /\ n + 1 \in Nat
OBVIOUS

\* What the guest itself knows of its calls, the bridge's pending calls and the
\* words of the stack say the same, at every depth.
Bridge ==
  /\ stack \in [1 .. StackWords -> Marks]
  /\ frames \in Seq(Frame) /\ Top >= 1
  /\ pending \in Seq([dispatch_rsp : Int, create : {0}])
  /\ Len(pending) = Top - 1
  /\ \A i \in 1 .. Top : frames[i].rsp = Depth(i)
  /\ \A i \in 1 .. Top - 1 :
       /\ frames[i].site \in Sites
       /\ Depth(i) - 7 >= 1
       /\ pending[i].dispatch_rsp = Depth(i) - 1
       /\ stack[Depth(i) - 1] = frames[i].site
       /\ stack[Depth(i) - 7] = Trampoline
  /\ rip = frames[Top].site
  /\ rsp = IF rip = "proc" THEN Depth(Top) + PrologueWords ELSE Depth(Top)

\* The frames of different nesting depths do not meet.
LEMMA DepthFacts ==
  /\ \A i \in Int : Depth(i) \in Int /\ Depth(i + 1) = Depth(i) - 12 /\ Depth(i) % 2 = 0
  /\ \A i, j \in Int : i < j => Depth(j) + 12 <= Depth(i)
  /\ \A i \in Int : i >= 1 => Depth(i) <= StackWords - HomeWords
BY LoopAssumption DEF Depth, HomeWords

\* The invariant gives the two properties.
LEMMA BridgeImplies == Bridge => CallbackFrames /\ CallerResumes
<1> SUFFICES ASSUME Bridge
             PROVE  CallbackFrames /\ CallerResumes
  OBVIOUS
<1>1. Top \in Nat /\ DOMAIN pending = 1 .. Top - 1
  BY DEF Bridge, Top
<1>2. \A i \in 1 .. Top : Entry(i) = Depth(i) + PrologueWords
  BY DEF Bridge, Entry
<1>3. ASSUME NEW i \in DOMAIN pending
      PROVE  /\ stack[pending[i].dispatch_rsp] = frames[i].site
             /\ stack[Entry(i + 1)] = Trampoline
             /\ Entry(i + 1) % 2 = 1
  <2>1. i \in Int /\ i \in 1 .. Top - 1 /\ i + 1 \in 1 .. Top
    BY <1>1
  <2>2. Depth(i) \in Int /\ Depth(i) % 2 = 0 /\ Entry(i + 1) = Depth(i) - 7
    BY <1>2, <2>1, DepthFacts DEF PrologueWords
  <2>3. (Depth(i) - 7) % 2 = 1
    BY <2>2
  <2> QED
    BY <2>1, <2>2, <2>3 DEF Bridge
<1>4. CallbackFrames
  BY <1>3 DEF CallbackFrames, Bridge
<1>5. CallerResumes
  BY <1>1, <1>2 DEF CallerResumes, Bridge
<1> QED
  BY <1>4, <1>5

\* A call of the guest that does not enter a procedure changes at most the
\* message buffer of the code that runs.
LEMMA BridgeBuffered ==
  ASSUME Bridge, NEW q \in Held, frames' = Buffer(q),
         UNCHANGED <<pending, stack, rsp, rip>>
  PROVE  Bridge'
<1>1. Top \in 1 .. Len(frames) /\ Len(frames) \in Nat
  BY DEF Bridge, Top
<1>2. /\ frames' \in Seq(Frame) /\ Len(frames') = Len(frames) /\ Top' = Top
      /\ \A i \in 1 .. Top : frames'[i].rsp = frames[i].rsp /\ frames'[i].site = frames[i].site
  <2>1. frames \in Seq(Frame) /\ frames' = [frames EXCEPT ![Top].msg = q]
    BY DEF Bridge, Buffer
  <2>2. \A i \in 1 .. Len(frames) : frames[i] \in [site : Code, rsp : Int, msg : Held]
    BY <2>1, FrameAt
  <2>3. [frames[Top] EXCEPT !.msg = q] \in [site : Code, rsp : Int, msg : Held]
    BY <1>1, <2>2
  <2> QED
    BY <1>1, <2>1, <2>2, <2>3 DEF Frame, Top
<1>3. UNCHANGED <<pending, stack, rsp, rip>> /\ \A i : Depth(i)' = Depth(i)
  BY DEF Depth
<1>4. Top - 1 \in Int /\ \A i \in 1 .. Top - 1 : i \in 1 .. Top
  BY <1>1
<1>5. /\ \A i \in 1 .. Top : frames'[i].rsp = Depth(i)
      /\ \A i \in 1 .. Top - 1 :
           /\ frames'[i].site \in Sites
           /\ Depth(i) - 7 >= 1
           /\ pending[i].dispatch_rsp = Depth(i) - 1
           /\ stack[Depth(i) - 1] = frames'[i].site
           /\ stack[Depth(i) - 7] = Trampoline
  BY <1>2, <1>4 DEF Bridge
<1>6. rip = frames'[Top].site /\ Top >= 1
  BY <1>1, <1>2 DEF Bridge
<1> QED
  BY <1>2, <1>3, <1>5, <1>6 DEF Bridge

\* Calls that leave the stack alone keep the bridge.
LEMMA BridgeUntouched ==
  ASSUME Bridge, UNCHANGED <<frames, pending, stack, rsp, rip>>
  PROVE  Bridge'
BY DEF Bridge, Depth, Top

\* Entering a procedure: the new frame lies below every older one.
LEMMA BridgeEntered ==
  ASSUME Bridge, rip # "proc", NEW h, NEW outer \in {"SendMessageA", "DispatchMessageA"},
         NEW site \in Sites, install_guest_callback_frame(h, outer, site)
  PROVE  Bridge'
<1> DEFINE t == Top
           f == rsp - 1 - FrameWords
<1>1. t \in Nat /\ t >= 1 /\ t = Len(frames) /\ rsp = Depth(t) /\ Depth(t) \in Int
  BY DepthFacts DEF Bridge, Top
<1>2. f = Depth(t) - 7 /\ CallRsp = Depth(t) - 1
  BY <1>1 DEF CallRsp, FrameWords
<1>3. CASE CallRsp - FrameWords < 1
  <2>1. UNCHANGED <<frames, pending, stack, rsp, rip>>
    BY <1>3 DEF install_guest_callback_frame
  <2> QED
    BY <2>1, BridgeUntouched
<1>4. CASE ~(CallRsp - FrameWords < 1)
  <2>1. Depth(t) - 7 >= 1
    BY <1>1, <1>2, <1>4 DEF CallRsp, FrameWords
  <2> DEFINE d == CallRsp
             e == CallRsp - FrameWords
  <2>a. d = Depth(t) - 1 /\ e = Depth(t) - 7
    BY <1>1, <1>2 DEF FrameWords
  <2>b. create_window_hwnd_for_outer(outer, h) = 0
    BY DEF create_window_hwnd_for_outer
  <2>2. /\ stack' = [a \in DOMAIN stack |->
                       CASE a = d -> site
                         [] a = e -> Trampoline
                         [] a \in e + 1 .. e + 4 -> "zero"
                         [] OTHER -> stack[a]]
        /\ rsp' = e
        /\ rip' = "proc"
        /\ pending' = Append(pending, [dispatch_rsp |-> d, create |-> 0])
        /\ frames' = Append([frames EXCEPT ![t].site = site],
                            [site |-> "proc", rsp |-> e - PrologueWords, msg |-> <<>>])
    BY <1>4, <2>b, Zenon DEF install_guest_callback_frame
  <2> HIDE DEF d, e
  <2>3. /\ frames' \in Seq(Frame) /\ Len(frames') = t + 1 /\ Top' = t + 1
        /\ \A i \in 1 .. t : frames'[i].rsp = frames[i].rsp
        /\ \A i \in 1 .. t - 1 : frames'[i].site = frames[i].site
        /\ frames'[t].site = site
        /\ frames'[t + 1].rsp = Depth(t) - 12 /\ frames'[t + 1].site = "proc"
    <3> DEFINE g == [frames EXCEPT ![t].site = site]
               new == [site |-> "proc", rsp |-> e - PrologueWords, msg |-> <<>>]
    <3>1. frames \in Seq(Frame) /\ t \in 1 .. Len(frames) /\ site \in Code
      BY <1>1, HeldFacts DEF Bridge
    <3>a. \A i \in 1 .. Len(frames) : frames[i] \in [site : Code, rsp : Int, msg : Held]
      BY <3>1, FrameAt
    <3>b. [frames[t] EXCEPT !.site = site] \in [site : Code, rsp : Int, msg : Held]
      BY <3>1, <3>a
    <3>2. /\ g \in Seq(Frame) /\ Len(g) = t
          /\ \A i \in 1 .. t : g[i].rsp = frames[i].rsp
          /\ \A i \in 1 .. t - 1 : g[i].site = frames[i].site
          /\ g[t].site = site
      BY <1>1, <3>1, <3>a, <3>b DEF Frame
    <3>3. new \in Frame /\ new.site = "proc" /\ new.rsp = Depth(t) - 12
      <4>1. "proc" \in Code /\ Depth(t) - 12 \in Int /\ e - PrologueWords = Depth(t) - 12
        BY <1>1, <2>a DEF Code, PrologueWords
      <4> QED
        BY <4>1, HeldFacts DEF Frame
    <3>4. frames' = Append(g, new)
      BY <2>2
    <3> HIDE DEF g, new
    <3> QED
      BY <1>1, <3>2, <3>3, <3>4 DEF Top
  <2>4. /\ pending' \in Seq([dispatch_rsp : Int, create : {0}]) /\ Len(pending') = t
        /\ \A i \in 1 .. t - 1 : pending'[i] = pending[i]
        /\ pending'[t].dispatch_rsp = Depth(t) - 1
    BY <1>1, <2>2, <2>a DEF Bridge
  <2>5. Depth(t) <= StackWords /\ Depth(t) - 1 \in 1 .. StackWords /\ Depth(t) - 7 \in 1 .. StackWords
    BY <1>1, <2>1, LoopAssumption DEF Depth, HomeWords
  <2>6. /\ stack' \in [1 .. StackWords -> Marks]
        /\ stack'[Depth(t) - 1] = site /\ stack'[Depth(t) - 7] = Trampoline
        /\ \A a \in 1 .. StackWords : a >= Depth(t) => stack'[a] = stack[a]
    <3>1. stack \in [1 .. StackWords -> Marks]
      BY DEF Bridge
    <3>2. site \in Marks /\ Trampoline \in Marks /\ "zero" \in Marks
      BY HeldFacts DEF Marks
    <3>3. DOMAIN stack' = 1 .. StackWords
      BY <2>2, <3>1
    <3>4. ASSUME NEW a \in 1 .. StackWords
          PROVE  stack'[a] \in Marks
      BY <1>1, <2>2, <2>a, <3>1, <3>2
    <3> QED
      BY <1>1, <2>2, <2>5, <2>a, <3>1, <3>2, <3>3, <3>4
  <2>7. ASSUME NEW i \in 1 .. t - 1
        PROVE  /\ Depth(i) - 7 >= Depth(t) /\ Depth(i) - 7 \in 1 .. StackWords
               /\ Depth(i) - 1 >= Depth(t) /\ Depth(i) - 1 \in 1 .. StackWords
    <3>1. Depth(i) - 7 >= 1
      BY DEF Bridge
    <3>2. i \in Int /\ i < t /\ 1 <= i
      BY <1>1
    <3> QED
      BY <1>1, <3>1, <3>2, LoopAssumption DEF Depth, HomeWords
  <2>8. Depth(t + 1) = Depth(t) - 12
    BY <1>1, DepthFacts
  <2>9. ASSUME NEW i \in 1 .. Top'
        PROVE  frames'[i].rsp = Depth(i)
    <3>1. i \in 1 .. t \/ i = t + 1
      BY <1>1, <2>3
    <3> QED
      BY <2>3, <2>8, <3>1 DEF Bridge
  <2>10. ASSUME NEW i \in 1 .. Top' - 1
         PROVE  /\ frames'[i].site \in Sites
                /\ Depth(i) - 7 >= 1
                /\ pending'[i].dispatch_rsp = Depth(i) - 1
                /\ stack'[Depth(i) - 1] = frames'[i].site
                /\ stack'[Depth(i) - 7] = Trampoline
    <3>1. i \in 1 .. t - 1 \/ i = t
      BY <1>1, <2>3
    <3>2. CASE i \in 1 .. t - 1
      BY <2>3, <2>4, <2>6, <2>7, <3>2 DEF Bridge
    <3>3. CASE i = t
      BY <2>1, <2>3, <2>4, <2>6, <3>3
    <3> QED
      BY <3>1, <3>2, <3>3
  <2>11. /\ rip' = frames'[Top'].site /\ rsp' = Depth(Top') + PrologueWords
    BY <1>1, <2>2, <2>3, <2>8, <2>a DEF PrologueWords
  <2>12. Len(pending') = Top' - 1 /\ Top' >= 1
    BY <1>1, <2>3, <2>4
  <2> HIDE DEF t
  <2> QED
    BY <2>2, <2>3, <2>4, <2>6, <2>9, <2>10, <2>11, <2>12 DEF Bridge, Depth
<1> QED
  BY <1>3, <1>4

\* A procedure's prologue spills into its home space only.
LEMMA BridgeProloged ==
  ASSUME Bridge, Prologue
  PROVE  Bridge'
<1> DEFINE t == Top
<1>1. /\ t \in Nat /\ t >= 1 /\ t = Len(frames) /\ Depth(t) \in Int
      /\ rsp = Depth(t) + 5
  BY DepthFacts DEF Bridge, Top, Prologue, PrologueWords
<1>2. /\ frames' \in Seq(Frame) /\ Len(frames') = t /\ Top' = t
      /\ \A i \in 1 .. t : frames'[i].rsp = frames[i].rsp
      /\ \A i \in 1 .. t - 1 : frames'[i].site = frames[i].site
      /\ frames'[t].site = "body"
  <2>1. frames \in Seq(Frame) /\ frames' = [frames EXCEPT ![t].site = "body"] /\ t \in 1 .. Len(frames)
    BY <1>1 DEF Bridge, Prologue
  <2>2. \A i \in 1 .. Len(frames) : frames[i] \in [site : Code, rsp : Int, msg : Held]
    BY <2>1, FrameAt
  <2>3. [frames[t] EXCEPT !.site = "body"] \in [site : Code, rsp : Int, msg : Held]
    BY <2>1, <2>2 DEF Code
  <2> QED
    BY <1>1, <2>1, <2>2, <2>3 DEF Frame, Top
<1>3. rip' = "body" /\ rsp' = Depth(t) /\ pending' = pending
  BY <1>1 DEF Prologue, PrologueWords
<1>4. /\ stack' \in [1 .. StackWords -> Marks]
      /\ \A a \in 1 .. StackWords :
           a = Depth(t) + 5 \/ a >= Depth(t) + 10 => stack'[a] = stack[a]
  <2>1. stack \in [1 .. StackWords -> Marks] /\ "spilled" \in Marks
    BY DEF Bridge, Marks
  <2>2. stack' = [a \in 1 .. StackWords |->
                    IF a \in Depth(t) + 6 .. Depth(t) + 9 THEN "spilled" ELSE stack[a]]
    BY <1>1, <2>1 DEF Prologue, HomeWords
  <2> HIDE DEF t
  <2> QED
    BY <1>1, <2>1, <2>2
<1>5. ASSUME NEW i \in 1 .. t - 1
      PROVE  /\ Depth(i) - 7 = Depth(t) + 5 \/ Depth(i) - 7 >= Depth(t) + 10
             /\ Depth(i) - 1 >= Depth(t) + 10
             /\ Depth(i) - 7 \in 1 .. StackWords /\ Depth(i) - 1 \in 1 .. StackWords
  <2>1. i \in Int /\ 1 <= i /\ i < t
    BY <1>1
  <2>2. Depth(i) \in Int
    BY <2>1, DepthFacts
  <2>3. Depth(i) = Depth(t) + 12 \/ Depth(i) >= Depth(t) + 24
    BY <1>1, <2>1, LoopAssumption DEF Depth, HomeWords
  <2>4. Depth(i) - 7 >= 1 /\ Depth(i) <= StackWords
    <3>1. Depth(i) - 7 >= 1
      BY DEF Bridge
    <3> QED
      BY <2>1, <3>1, LoopAssumption DEF Depth, HomeWords
  <2>5. Depth(t) \in Int /\ StackWords \in Int
    BY <1>1, LoopAssumption
  <2>6. \A d, e, n \in Int : (d = e + 12 \/ d >= e + 24) /\ d - 7 >= 1 /\ d <= n =>
          /\ d - 7 = e + 5 \/ d - 7 >= e + 10
          /\ d - 1 >= e + 10
          /\ d - 7 \in 1 .. n /\ d - 1 \in 1 .. n
    OBVIOUS
  <2> HIDE DEF t
  <2> QED
    BY <2>2, <2>3, <2>4, <2>5, <2>6
<1>6. ASSUME NEW i \in 1 .. t - 1
      PROVE  /\ stack'[Depth(i) - 1] = frames'[i].site
             /\ stack'[Depth(i) - 7] = Trampoline
  BY <1>2, <1>4, <1>5 DEF Bridge
<1> QED
  BY <1>1, <1>2, <1>3, <1>4, <1>6 DEF Bridge, Depth

\* A procedure that returns finds its trampoline, and the code that called the
\* API resumes with its own stack pointer.
LEMMA BridgeReturned ==
  ASSUME Bridge, complete_guest_callback
  PROVE  /\ Bridge'
         /\ stack[rsp + PrologueWords] = Trampoline /\ pending # <<>>
<1> DEFINE t == Top
<1>1. /\ t \in Nat /\ t >= 2 /\ t = Len(frames) /\ Depth(t) \in Int /\ t - 1 \in 1 .. t - 1
      /\ rsp = Depth(t) /\ Len(pending) = t - 1 /\ Depth(t - 1) = Depth(t) + 12
  <2>1. t \in Nat /\ t >= 2 /\ t = Len(frames) /\ Len(pending) = t - 1 /\ rsp = Depth(t)
    BY DEF Bridge, Top, complete_guest_callback
  <2> HIDE DEF t
  <2> QED
    BY <2>1, LoopAssumption DEF Depth, HomeWords
<1>2. stack[rsp + PrologueWords] = Trampoline /\ pending # <<>>
  <2>1. rsp + PrologueWords = Depth(t - 1) - 7
    BY <1>1 DEF PrologueWords
  <2> QED
    BY <1>1, <2>1 DEF Bridge
<1>3. Completed = pending[t - 1]
  BY <1>1 DEF Completed, Last
<1>4. Completed.dispatch_rsp = Depth(t - 1) - 1 /\ stack[Completed.dispatch_rsp] = frames[t - 1].site
  BY <1>1, <1>3 DEF Bridge
<1>5. /\ rip' = frames[t - 1].site /\ rsp' = Depth(t - 1) /\ stack' = stack
      /\ pending' = SubSeq(pending, 1, t - 2) /\ frames' = SubSeq(frames, 1, t - 1)
  BY <1>1, <1>2, <1>4 DEF complete_guest_callback, Front
<1>6. /\ frames' \in Seq(Frame) /\ Len(frames') = t - 1 /\ Top' = t - 1
      /\ \A i \in 1 .. t - 1 : frames'[i] = frames[i]
  BY <1>1, <1>5 DEF Bridge, Top
<1>7. /\ pending' \in Seq([dispatch_rsp : Int, create : {0}]) /\ Len(pending') = t - 2
      /\ \A i \in 1 .. t - 2 : pending'[i] = pending[i]
  <2>1. pending \in Seq([dispatch_rsp : Int, create : {0}])
    BY DEF Bridge
  <2> HIDE DEF t
  <2> QED
    <3>1. t - 2 \in Nat /\ t - 2 <= Len(pending)
      BY <1>1
    <3> QED
      BY <1>5, <2>1, <3>1, PrefixFacts
<1>8. frames[t - 1].site # "proc"
  BY <1>1 DEF Bridge, Sites
<1>9. Bridge'
  <2>1. \A i : Depth(i)' = Depth(i)
    BY DEF Depth
  <2>2. /\ \A i \in 1 .. t - 1 : frames'[i].rsp = Depth(i)
        /\ \A i \in 1 .. t - 2 :
             /\ frames'[i].site \in Sites
             /\ Depth(i) - 7 >= 1
             /\ pending'[i].dispatch_rsp = Depth(i) - 1
             /\ stack'[Depth(i) - 1] = frames'[i].site
             /\ stack'[Depth(i) - 7] = Trampoline
    <3>1. \A i \in 1 .. t - 1 : i \in 1 .. t
      BY <1>1
    <3>2. \A i \in 1 .. t - 2 : i \in 1 .. t - 1
      BY <1>1
    <3> QED
      BY <1>5, <1>6, <1>7, <3>1, <3>2 DEF Bridge
  <2>3. rip' = frames'[t - 1].site /\ rip' # "proc" /\ t - 1 - 1 = t - 2 /\ t - 1 >= 1
    BY <1>1, <1>5, <1>6, <1>8
  <2>4. stack' \in [1 .. StackWords -> Marks]
    BY <1>5 DEF Bridge
  <2> HIDE DEF t
  <2> QED
    BY <1>5, <1>6, <1>7, <2>1, <2>2, <2>3, <2>4 DEF Bridge
<1> QED
  BY <1>2, <1>9

---------------------------------------------------------------------------
(* The queue *)

\* A non-empty set of numbers has a least element.
LEMMA LeastExists ==
  ASSUME NEW S \in SUBSET Nat, S # {}
  PROVE  Min(S) \in S /\ \A y \in S : Min(S) <= y
<1>1. OpToRel(<, Nat) = {ss \in Nat \X Nat : ss[1] < ss[2]}
  BY Zenon DEF OpToRel
<1>2. IsWellFoundedOn({ss \in Nat \X Nat : ss[1] < ss[2]}, Nat)
  BY <1>1, NatLessThanWellFounded, Zenon
<1>3. PICK x \in S : \A y \in S : ~(<<y, x>> \in {ss \in Nat \X Nat : ss[1] < ss[2]})
  BY <1>2, WFMin
<1>4. ASSUME NEW y \in S
      PROVE  x <= y
  <2>1. x \in Nat /\ y \in Nat /\ <<y, x>> \in Nat \X Nat
    OBVIOUS
  <2>2. ~(<<y, x>>[1] < <<y, x>>[2])
    BY <1>3, <2>1, Zenon
  <2> QED
    BY <2>1, <2>2
<1> QED
  BY <1>4 DEF Min

\* The message taken is the first in the queue that passes the filter.
LEMMA MatchFacts ==
  ASSUME NEW f, queue \in Seq(Message), matching_index(f) # 0
  PROVE  /\ matching_index(f) \in 1 .. Len(queue)
         /\ matches_filter(f, queue[matching_index(f)])
         /\ \A k \in 1 .. Len(queue) : matches_filter(f, queue[k]) => matching_index(f) <= k
<1> DEFINE I == {i \in 1 .. Len(queue) : matches_filter(f, queue[i])}
<1>1. I # {} /\ matching_index(f) = Min(I)
  BY DEF matching_index, SelectInSeq
<1>2. I \in SUBSET Nat
  OBVIOUS
<1>3. Min(I) \in I /\ \A y \in I : Min(I) <= y
  BY <1>1, <1>2, LeastExists
<1> QED
  BY <1>1, <1>3

SameKind(p, q) == p.hwnd = q.hwnd /\ p.msg = q.msg

\* Messages wait in the order of posting, and nothing of one kind that was
\* posted earlier than a retrieved message still waits.
Mail ==
  /\ posted \in Nat
  /\ queue \in Seq(Message) /\ log \in Seq(Message)
  /\ \A i \in 1 .. Len(queue) : queue[i].id <= posted
  /\ \A i \in 1 .. Len(log) : log[i].id <= posted
  /\ \A i, j \in 1 .. Len(queue) : i < j => queue[i].id < queue[j].id
  /\ \A i, j \in 1 .. Len(log) :
       i < j => log[i].id # log[j].id /\ (SameKind(log[i], log[j]) => log[i].id < log[j].id)
  /\ \A i \in 1 .. Len(log), j \in 1 .. Len(queue) :
       log[i].id # queue[j].id /\ (SameKind(log[i], queue[j]) => log[i].id < queue[j].id)

\* The invariant gives the property.
LEMMA MailImplies == Mail => MessageOrder
BY DEF Mail, MessageOrder, SameKind

\* The filter looks at the window and the number of a message only.
LEMMA FilterSeesKind ==
  ASSUME NEW f, NEW p, NEW q, SameKind(p, q), matches_filter(f, p)
  PROVE  matches_filter(f, q)
BY DEF matches_filter, SameKind

\* Calls that leave the queue and the log alone keep the mail in order.
LEMMA MailUntouched ==
  ASSUME Mail, UNCHANGED <<queue, posted, log>>
  PROVE  Mail'
BY DEF Mail

\* A message posted goes behind all others, or nowhere.
LEMMA MailPosted ==
  ASSUME Mail, NEW h \in {0, FAKE, 1}, NEW m \in Msgs, log' = log, posted' = posted + 1,
         queue' = queue \/ queue' = Append(queue, Queued(h, m))
  PROVE  Mail'
<1>1. posted \in Nat /\ posted' \in Nat /\ posted < posted' /\ queue \in Seq(Message) /\ log \in Seq(Message)
  BY DEF Mail
<1>2. /\ \A i \in 1 .. Len(queue) : queue[i] \in Message /\ queue[i].id \in Nat
      /\ \A i \in 1 .. Len(log) : log[i] \in Message /\ log[i].id \in Nat
  <2>1. \A i \in 1 .. Len(queue) : queue[i] \in Message
    BY <1>1
  <2>2. \A i \in 1 .. Len(log) : log[i] \in Message
    BY <1>1
  <2> QED
    BY <2>1, <2>2 DEF Message
<1>3. CASE queue' = queue
  BY <1>1, <1>2, <1>3 DEF Mail
<1>4. CASE queue' = Append(queue, Queued(h, m))
  <2> DEFINE new == Queued(h, m)
             n == Len(queue)
  <2>1. new \in Message /\ new.id = posted + 1
    BY <1>1 DEF Queued, Message
  <2> HIDE DEF new
  <2>2. /\ n \in Nat /\ queue' \in Seq(Message) /\ Len(queue') = n + 1 /\ queue'[n + 1] = new
        /\ \A i \in 1 .. n : queue'[i] = queue[i]
    BY <1>1, <1>4, <2>1 DEF new
  <2> HIDE DEF n
  <2>3. \A i \in 1 .. Len(queue') : i = n + 1 \/ i \in 1 .. n
    BY <2>2
  <2>4. \A i \in 1 .. Len(queue') : queue'[i].id <= posted'
    BY <1>1, <1>2, <2>1, <2>2, <2>3 DEF Mail, n
  <2>5. ASSUME NEW i \in 1 .. Len(queue'), NEW j \in 1 .. Len(queue'), i < j
        PROVE  queue'[i].id < queue'[j].id
    <3>1. i \in 1 .. n
      BY <2>2, <2>3, <2>5
    <3>2. CASE j = n + 1
      BY <1>1, <1>2, <2>1, <2>2, <3>1, <3>2 DEF Mail, n
    <3>3. CASE j \in 1 .. n
      BY <2>2, <2>5, <3>1, <3>3 DEF Mail, n
    <3> QED
      BY <2>3, <3>2, <3>3
  <2>6. ASSUME NEW i \in 1 .. Len(log), NEW j \in 1 .. Len(queue')
        PROVE  log[i].id # queue'[j].id /\ (SameKind(log[i], queue'[j]) => log[i].id < queue'[j].id)
    <3>1. CASE j = n + 1
      BY <1>1, <1>2, <2>1, <2>2, <3>1 DEF Mail
    <3>2. CASE j \in 1 .. n
      BY <2>2, <3>2 DEF Mail, n
    <3> QED
      BY <2>3, <3>1, <3>2
  <2>7. \A i \in 1 .. Len(log) : log[i].id <= posted'
    BY <1>1, <1>2 DEF Mail
  <2> QED
    BY <1>1, <2>2, <2>4, <2>5, <2>6, <2>7 DEF Mail
<1> QED
  BY <1>3, <1>4

\* Removing the element at k.
LEMMA RemoveFacts ==
  ASSUME NEW S, NEW q \in Seq(S), NEW k \in 1 .. Len(q)
  PROVE  /\ RemoveAt(q, k) \in Seq(S) /\ Len(RemoveAt(q, k)) = Len(q) - 1
         /\ \A i \in 1 .. Len(q) - 1 : RemoveAt(q, k)[i] = IF i < k THEN q[i] ELSE q[i + 1]
<1>1. SubSeq(q, 1, k - 1) \in Seq(S) /\ Len(SubSeq(q, 1, k - 1)) = k - 1
  OBVIOUS
<1>2. SubSeq(q, k + 1, Len(q)) \in Seq(S) /\ Len(SubSeq(q, k + 1, Len(q))) = Len(q) - k
  OBVIOUS
<1>3. /\ \A i \in 1 .. k - 1 : SubSeq(q, 1, k - 1)[i] = q[i]
      /\ \A i \in 1 .. Len(q) - k : SubSeq(q, k + 1, Len(q))[i] = q[k + i]
  OBVIOUS
<1> DEFINE a == SubSeq(q, 1, k - 1)
           b == SubSeq(q, k + 1, Len(q))
<1>4. RemoveAt(q, k) = a \o b
  BY DEF RemoveAt
<1> HIDE DEF a, b
<1>5. /\ a \in Seq(S) /\ b \in Seq(S) /\ Len(a) = k - 1 /\ Len(b) = Len(q) - k
      /\ Len(q) \in Nat /\ k \in Nat
  BY <1>1, <1>2 DEF a, b
<1>6. a \o b \in Seq(S) /\ Len(a \o b) = Len(q) - 1
  BY <1>5
<1>7. ASSUME NEW i \in 1 .. Len(q) - 1
      PROVE  (a \o b)[i] = IF i < k THEN q[i] ELSE q[i + 1]
  <2>1. CASE i < k
    <3>1. i \in 1 .. Len(a) /\ i \in 1 .. k - 1
      BY <1>5, <2>1
    <3>2. a[i] = q[i]
      BY <1>3, <3>1 DEF a
    <3> QED
      BY <1>5, <2>1, <3>1, <3>2
  <2>2. CASE ~(i < k)
    <3>1. i - Len(a) \in 1 .. Len(q) - k /\ k + (i - Len(a)) = i + 1
      BY <1>5, <2>2
    <3>2. b[i - Len(a)] = q[i + 1]
      BY <1>3, <3>1 DEF b
    <3>3. (a \o b)[i] = b[i - Len(a)]
      BY <1>5, <2>2
    <3> QED
      BY <2>2, <3>2, <3>3
  <2> QED
    BY <2>1, <2>2
<1> QED
  BY <1>4, <1>6, <1>7

\* GetMessage and a removing PeekMessage take the first message that matches.
LEMMA MailTaken ==
  ASSUME Mail, NEW f, matching_index(f) # 0, posted' = posted,
         queue' = RemoveAt(queue, matching_index(f)),
         log' = Append(log, queue[matching_index(f)])
  PROVE  Mail'
<1> DEFINE at == matching_index(f)
           n == Len(queue)
           l == Len(log)
<1>1. queue \in Seq(Message) /\ log \in Seq(Message) /\ posted \in Nat
  BY DEF Mail
<1>2. /\ at \in 1 .. n /\ matches_filter(f, queue[at]) /\ n \in Nat /\ l \in Nat
      /\ \A k \in 1 .. n : matches_filter(f, queue[k]) => at <= k
  BY <1>1, MatchFacts
<1> HIDE DEF at
<1>3. /\ \A i \in 1 .. n : queue[i] \in Message /\ queue[i].id \in Nat
      /\ \A i \in 1 .. l : log[i] \in Message /\ log[i].id \in Nat
  <2>1. \A i \in 1 .. n : queue[i] \in Message
    BY <1>1
  <2>2. \A i \in 1 .. l : log[i] \in Message
    BY <1>1
  <2> QED
    BY <2>1, <2>2 DEF Message
<1>4. /\ queue' \in Seq(Message) /\ Len(queue') = n - 1
      /\ \A i \in 1 .. n - 1 : queue'[i] = IF i < at THEN queue[i] ELSE queue[i + 1]
  BY <1>1, <1>2, RemoveFacts DEF at
<1>5. /\ log' \in Seq(Message) /\ Len(log') = l + 1 /\ log'[l + 1] = queue[at]
      /\ \A i \in 1 .. l : log'[i] = log[i]
  BY <1>1, <1>2, <1>3 DEF at
<1> DEFINE Old(i) == IF i < at THEN i ELSE i + 1
<1>6. \A i \in 1 .. n - 1 : queue'[i] = queue[Old(i)] /\ Old(i) \in 1 .. n /\ Old(i) # at
  BY <1>2, <1>4
<1>7. \A i, j \in 1 .. n - 1 : i < j => Old(i) < Old(j)
  BY <1>2
<1> HIDE DEF Old, n, l
<1>8. \A i \in 1 .. n - 1 : queue'[i].id <= posted
  BY <1>6 DEF Mail, n
<1>9. ASSUME NEW i \in 1 .. n - 1, NEW j \in 1 .. n - 1, i < j
      PROVE  queue'[i].id < queue'[j].id
  <2>1. Old(i) < Old(j) /\ Old(i) \in 1 .. n /\ Old(j) \in 1 .. n
    BY <1>6, <1>7, <1>9
  <2>2. queue[Old(i)].id < queue[Old(j)].id
    BY <2>1 DEF Mail, n
  <2> QED
    BY <1>6, <2>2
<1>10. \A i \in 1 .. l + 1 : i = l + 1 \/ i \in 1 .. l
  BY <1>2
<1>11. \A i \in 1 .. l + 1 : log'[i].id <= posted
  BY <1>2, <1>5, <1>10 DEF Mail, n, l
<1>12. ASSUME NEW i \in 1 .. l + 1, NEW j \in 1 .. l + 1, i < j
       PROVE  log'[i].id # log'[j].id /\ (SameKind(log'[i], log'[j]) => log'[i].id < log'[j].id)
  <2>1. i \in 1 .. l
    BY <1>2, <1>10, <1>12
  <2>2. CASE j = l + 1
    BY <1>2, <1>5, <2>1, <2>2 DEF Mail, n, l
  <2>3. CASE j \in 1 .. l
    BY <1>5, <1>12, <2>1, <2>3 DEF Mail, l
  <2> QED
    BY <1>10, <2>2, <2>3
<1>13. ASSUME NEW i \in 1 .. l + 1, NEW j \in 1 .. n - 1
       PROVE  log'[i].id # queue'[j].id /\ (SameKind(log'[i], queue'[j]) => log'[i].id < queue'[j].id)
  <2>1. CASE i \in 1 .. l
    <3>1. log'[i] = log[i] /\ queue'[j] = queue[Old(j)] /\ Old(j) \in 1 .. n
      BY <1>5, <1>6, <2>1
    <3>2. /\ log[i].id # queue[Old(j)].id
          /\ SameKind(log[i], queue[Old(j)]) => log[i].id < queue[Old(j)].id
      BY <2>1, <3>1 DEF Mail, n, l
    <3> QED
      BY <3>1, <3>2
  <2>2. CASE i = l + 1
    <3>1. log'[i] = queue[at] /\ queue'[j] = queue[Old(j)] /\ Old(j) \in 1 .. n /\ Old(j) # at
      BY <1>5, <1>6, <2>2
    <3>2. queue[at].id # queue[Old(j)].id
      <4>1. at < Old(j) \/ Old(j) < at
        BY <1>2, <3>1
      <4> QED
        BY <1>2, <1>3, <3>1, <4>1 DEF Mail, n
    <3>3. ASSUME SameKind(queue[at], queue[Old(j)])
          PROVE  queue[at].id < queue[Old(j)].id
      <4>1. at <= Old(j)
        BY <1>2, <3>1, <3>3, FilterSeesKind
      <4>2. at < Old(j)
        BY <1>2, <3>1, <4>1
      <4> QED
        BY <1>2, <3>1, <4>2 DEF Mail, n
    <3> QED
      BY <3>1, <3>2, <3>3
  <2> QED
    BY <1>10, <2>1, <2>2
<1> QED
  BY <1>1, <1>4, <1>5, <1>8, <1>9, <1>11, <1>12, <1>13 DEF Mail

---------------------------------------------------------------------------
(* Classes, windows and the fake window *)

Class == [name : Names, proc : Procs, unicode : BOOLEAN, atom : Nat]

Window == [handle : Nat \ {0}, proc : Procs \cup {0}, x : Coords, y : Coords,
           w : Coords, h : Coords]

Desk ==
  /\ classes \in [seq : Seq(Class), next : Nat]
  /\ windows \in [seq : Seq(Window), next : Nat \ {0}]
  /\ {"x", "y", "w", "h"} \subseteq DOMAIN ui
  /\ ui.x \in Coords /\ ui.y \in Coords /\ ui.w \in Coords /\ ui.h \in Coords

\* The window a handle names is a record with that handle.
LEMMA FindFacts ==
  ASSUME Desk, NEW h, find_window(h) # 0
  PROVE  /\ find_window(h) \in 1 .. Len(windows.seq)
         /\ windows.seq[find_window(h)].handle = h
         /\ windows.seq[find_window(h)] \in Window
<1> DEFINE I == {i \in 1 .. Len(windows.seq) : windows.seq[i].handle = h}
<1>1. I # {} /\ find_window(h) = Min(I)
  BY DEF find_window, FirstIn, SelectInSeq
<1>2. I \in SUBSET Nat /\ windows.seq \in Seq(Window)
  BY DEF Desk
<1>3. Min(I) \in I
  BY <1>1, <1>2, LeastExists
<1> DEFINE k == find_window(h)
<1>4. k \in 1 .. Len(windows.seq) /\ windows.seq[k].handle = h
  BY <1>1, <1>3
<1> HIDE DEF k
<1>5. windows.seq[k] \in Window
  BY <1>2, <1>4
<1> QED
  BY <1>4, <1>5 DEF k

\* The three answers about the size of a window agree, and points come back.
LEMMA DeskImplies == Desk => GeometryAgrees
<1> SUFFICES ASSUME Desk
             PROVE  GeometryAgrees
  OBVIOUS
<1>1. ASSUME NEW x \in Coords, NEW y \in Coords, NEW s \in client_to_screen(FAKE, <<x, y>>)
      PROVE  screen_to_client(FAKE, s) = {<<x, y>>}
  <2>1. x \in Int /\ y \in Int /\ ui.x \in Int /\ ui.y \in Int
    BY DEF Coords, Desk
  <2>2. s = <<x + ui.x, y + ui.y>>
    BY <1>1 DEF client_to_screen
  <2>3. s[1] - ui.x = x /\ s[2] - ui.y = y
    BY <2>1, <2>2
  <2> QED
    BY <2>3 DEF screen_to_client, Fits
<1>2. ASSUME NEW h
      PROVE  LET size == window_client_size(h)
             IN  /\ size[1] >= 1 /\ size[2] >= 1 /\ Fits(size[1]) /\ Fits(size[2])
                 /\ find_window(h) # 0 =>
                      /\ windows.seq[find_window(h)].w > 0 => size[1] = windows.seq[find_window(h)].w
                      /\ windows.seq[find_window(h)].h > 0 => size[2] = windows.seq[find_window(h)].h
  <2> DEFINE win == windows.seq[find_window(h)]
  <2>1. \A v \in Coords : AtLeast1(v) \in Coords /\ AtLeast1(v) >= 1 /\ (v > 0 => AtLeast1(v) = v)
    BY User32Assumption DEF AtLeast1, Coords
  <2>2. ui.w \in Coords /\ ui.h \in Coords
    BY DEF Desk
  <2>3. CASE find_window(h) = 0
    BY <2>1, <2>2, <2>3 DEF window_client_size, Fits
  <2>4. CASE find_window(h) # 0
    <3>1. win.w \in Coords /\ win.h \in Coords
      BY <2>4, FindFacts DEF Window
    <3> DEFINE a == IF win.w > 0 THEN win.w ELSE ui.w
               b == IF win.h > 0 THEN win.h ELSE ui.h
    <3>2. a \in Coords /\ b \in Coords /\ (win.w > 0 => a = win.w) /\ (win.h > 0 => b = win.h)
      BY <2>2, <3>1
    <3>3. window_client_size(h) = <<AtLeast1(a), AtLeast1(b)>>
      BY <2>4 DEF window_client_size
    <3> HIDE DEF a, b, win
    <3>4. /\ AtLeast1(a) \in Coords /\ AtLeast1(a) >= 1 /\ (win.w > 0 => AtLeast1(a) = win.w)
          /\ AtLeast1(b) \in Coords /\ AtLeast1(b) >= 1 /\ (win.h > 0 => AtLeast1(b) = win.h)
      BY <2>1, <3>2
    <3> QED
      BY <3>3, <3>4 DEF Fits, win
  <2> QED
    BY <2>3, <2>4
<1>3. ASSUME NEW h, NEW r \in get_window_rect(h)
      PROVE  LET win == windows.seq[find_window(h)]
             IN  /\ find_window(h) # 0 /\ is_known_window(h) /\ Fits(r[3]) /\ Fits(r[4])
                 /\ r[3] - r[1] = win.w /\ r[4] - r[2] = win.h
  <2> DEFINE win == windows.seq[find_window(h)]
  <2>1. /\ find_window(h) # 0 /\ Fits(win.x + win.w) /\ Fits(win.y + win.h)
        /\ r = <<win.x, win.y, win.x + win.w, win.y + win.h>>
    BY <1>3 DEF get_window_rect
  <2>2. win \in Window /\ win.handle = h
    BY <2>1, FindFacts
  <2>3. h # 0 /\ win.x \in Int /\ win.y \in Int /\ win.w \in Int /\ win.h \in Int
    BY <2>2 DEF Window, Coords
  <2>4. is_known_window(h)
    BY <2>1, <2>3 DEF is_known_window
  <2> QED
    BY <2>1, <2>3, <2>4
<1>4. ASSUME NEW h, NEW c \in get_client_rect(h) \cup begin_paint(h)
      PROVE  c[3] = window_client_size(h)[1] /\ c[4] = window_client_size(h)[2]
  BY <1>4 DEF get_client_rect, begin_paint
<1>5. ASSUME NEW h \in Handles, NEW c \in get_client_rect(h) \cup begin_paint(h)
      PROVE  /\ c[3] >= 1 /\ c[4] >= 1 /\ Fits(c[3]) /\ Fits(c[4])
             /\ \A r \in get_window_rect(h) :
                  /\ Fits(r[3]) /\ Fits(r[4])
                  /\ windows.seq[find_window(h)].w > 0 => c[3] = r[3] - r[1]
                  /\ windows.seq[find_window(h)].h > 0 => c[4] = r[4] - r[2]
  BY <1>2, <1>3, <1>4
<1>6. ASSUME NEW h \in Handles, get_window_rect(h) # {}
      PROVE  get_client_rect(h) # {} /\ begin_paint(h) # {}
  <2>1. is_known_window(h)
    BY <1>3, <1>6
  <2> QED
    BY <2>1 DEF get_client_rect, begin_paint
<1> QED
  BY <1>1, <1>5, <1>6 DEF GeometryAgrees

\* Calls that leave the tables alone keep them right.
LEMMA DeskUntouched ==
  ASSUME Desk, UNCHANGED <<classes, windows, ui>>
  PROVE  Desk'
BY DEF Desk

\* low_i32 gives a coordinate.
LEMMA LowIsCoord ==
  ASSUME NEW raw \in Nat
  PROVE  low_i32(raw) \in Coords
<1>1. 2 * CoordHalf \in Int /\ 2 * CoordHalf > 0 /\ CoordHalf \in Int
  BY User32Assumption
<1>2. raw % (2 * CoordHalf) \in 0 .. 2 * CoordHalf - 1
  BY <1>1
<1> QED
  BY <1>1, <1>2 DEF low_i32, Coords

\* Only MoveWindow moves the fake window or gives it a size, in coordinates.
LEMMA DeskFake ==
  ASSUME Desk, FakeWindowCall
  PROVE  Desk'
<1> DEFINE Kept == /\ {"x", "y", "w", "h"} \subseteq DOMAIN ui'
                   /\ ui'.x \in Coords /\ ui'.y \in Coords /\ ui'.w \in Coords /\ ui'.h \in Coords
<1>0. /\ {"x", "y", "w", "h"} \subseteq DOMAIN ui
      /\ ui.x \in Coords /\ ui.y \in Coords /\ ui.w \in Coords /\ ui.h \in Coords
  BY DEF Desk
<1>1. PICK h \in Handles, flag \in {0, 1} :
       \/ ui' = show_window(h, flag)
       \/ ui' = enable_window(h, flag)
       \/ ui' = set_foreground_window(h)
       \/ ui' = set_active_window(h)
       \/ ui' = set_focus(h)
       \/ ui' = set_capture(h)
       \/ ui' = release_capture
       \/ ui' = set_cursor(flag)
       \/ ui' = update_window(h)
       \/ ui' = invalidate_rect(h)
       \/ ui' = end_paint(h)
       \/ ui' = redraw_window(h)
       \/ \E t \in Titles : ui' = set_window_text(h, t)
       \/ \E at \in Places, size \in Sizes :
            ui' = move_window(h, at, at + 1, size, size + 1, flag)
  BY DEF FakeWindowCall
<1>2. ASSUME ui' = show_window(h, flag) \/ ui' = enable_window(h, flag)
      PROVE  Kept
  BY <1>0, <1>2 DEF show_window, enable_window, OnFake
<1>3. ASSUME ui' = set_foreground_window(h) \/ ui' = set_active_window(h)
      PROVE  Kept
  BY <1>0, <1>3 DEF set_foreground_window, set_active_window, OnFake
<1>4. ASSUME ui' = set_focus(h) \/ ui' = set_capture(h) \/ ui' = release_capture
      PROVE  Kept
  BY <1>0, <1>4 DEF set_focus, set_capture, release_capture, OnFake
<1>5. ASSUME ui' = set_cursor(flag) \/ ui' = update_window(h)
      PROVE  Kept
  BY <1>0, <1>5 DEF set_cursor, update_window
<1>6. ASSUME ui' = invalidate_rect(h) \/ ui' = end_paint(h) \/ ui' = redraw_window(h)
      PROVE  Kept
  BY <1>0, <1>6 DEF invalidate_rect, end_paint, redraw_window
<1>7. ASSUME \E t \in Titles : ui' = set_window_text(h, t)
      PROVE  Kept
  BY <1>0, <1>7 DEF set_window_text, OnFake
<1>8. ASSUME NEW at \in Places, NEW size \in Sizes,
             ui' = move_window(h, at, at + 1, size, size + 1, flag)
      PROVE  Kept
  <2>1. /\ low_i32(at) \in Coords /\ low_i32(at + 1) \in Coords
        /\ low_i32(size) \in Coords /\ low_i32(size + 1) \in Coords
    <3>1. at \in Nat /\ at + 1 \in Nat /\ size \in Nat /\ size + 1 \in Nat
      BY User32Assumption
    <3> QED
      BY <3>1, LowIsCoord
  <2> QED
    BY <1>0, <1>8, <2>1 DEF move_window, OnFake
<1> HIDE DEF Kept
<1>9. Kept
  BY <1>1, <1>2, <1>3, <1>4, <1>5, <1>6, <1>7, <1>8
<1>10. UNCHANGED <<classes, windows>>
  BY DEF FakeWindowCall
<1> QED
  BY <1>9, <1>10 DEF Desk, Kept

\* RegisterClassEx adds a class with a procedure, or none.
LEMMA DeskRegistered ==
  ASSUME Desk, NEW unicode \in BOOLEAN, register_class_ex(unicode)
  PROVE  Desk'
<1>1. PICK name \in Names \cup {""}, proc \in Procs \cup {0} :
        classes' = register_window_class(name, proc, unicode)
  BY DEF register_class_ex
<1> DEFINE new == [name |-> name, proc |-> proc, unicode |-> unicode, atom |-> classes.next]
<1>2. classes \in [seq : Seq(Class), next : Nat]
  BY DEF Desk
<1>3. \/ classes' = classes
      \/ /\ name # "" /\ proc # 0
         /\ classes' = [seq |-> Append(classes.seq, new), next |-> classes.next + 1]
  BY <1>1 DEF register_window_class
<1>4. classes' \in [seq : Seq(Class), next : Nat]
  <2>1. CASE classes' = classes
    BY <1>2, <2>1
  <2>2. CASE /\ name # "" /\ proc # 0
             /\ classes' = [seq |-> Append(classes.seq, new), next |-> classes.next + 1]
    <3>1. new \in Class
      <4>1. name \in Names /\ proc \in Procs /\ classes.next \in Nat
        BY <1>2, <2>2
      <4> QED
        BY <4>1 DEF Class
    <3> HIDE DEF new
    <3>2. Append(classes.seq, new) \in Seq(Class) /\ classes.next + 1 \in Nat
      <4>1. classes.seq \in Seq(Class) /\ classes.next \in Nat
        BY <1>2
      <4> QED
        BY <3>1, <4>1, AppendIsSeq, Zenon
    <3> QED
      BY <2>2, <3>2
  <2> QED
    BY <1>3, <2>1, <2>2
<1>5. UNCHANGED <<windows, ui>>
  BY DEF register_class_ex
<1> QED
  BY <1>4, <1>5 DEF Desk

\* The class found for a window is one that was registered.
LEMMA ClassFacts ==
  ASSUME Desk, NEW id, NEW unicode \in BOOLEAN, find_window_class(id, unicode) # 0
  PROVE  classes.seq[find_window_class(id, unicode)] \in Class
<1> DEFINE I == {i \in 1 .. Len(classes.seq) :
                   classes.seq[i].unicode = unicode /\ window_class_identifier_matches(classes.seq[i], id)}
           J == {i \in 1 .. Len(classes.seq) : window_class_identifier_matches(classes.seq[i], id)}
           k == find_window_class(id, unicode)
<1>1. k = IF I # {} /\ Min(I) # 0 THEN Min(I) ELSE IF J # {} THEN Min(J) ELSE 0
  BY DEF find_window_class, FirstIn, SelectInSeq
<1>2. I \in SUBSET Nat /\ J \in SUBSET Nat /\ classes.seq \in Seq(Class)
  BY DEF Desk
<1>3. (I # {} => Min(I) \in I) /\ (J # {} => Min(J) \in J)
  BY <1>2, LeastExists
<1>4. k \in 1 .. Len(classes.seq)
  BY <1>1, <1>3
<1> HIDE DEF k
<1>5. classes.seq[k] \in Class
  BY <1>2, <1>4
<1> QED
  BY <1>5 DEF k

\* WM_MDICREATE adds a window with a fresh handle, or none.
LEMMA DeskCreated ==
  ASSUME Desk, NEW unicode \in BOOLEAN, mdi_create(unicode)
  PROVE  Desk'
<1>1. UNCHANGED <<classes, ui>>
  BY DEF mdi_create
<1>2. windows \in [seq : Seq(Window), next : Nat \ {0}]
  BY DEF Desk
<1>3. ASSUME NEW id \in Identifiers, NEW place \in Coords, NEW size \in Coords,
             windows' = create_window_record(id, unicode, place, size)
      PROVE  windows' \in [seq : Seq(Window), next : Nat \ {0}]
  <2> DEFINE at == find_window_class(id, unicode)
             p == IF at = 0 THEN 0 ELSE classes.seq[at].proc
             new == [handle |-> windows.next, proc |-> p,
                     x |-> place, y |-> place, w |-> size, h |-> size]
  <2>1. p \in Procs \cup {0}
    <3>1. CASE at = 0
      BY <3>1
    <3>2. CASE at # 0
      <4>1. classes.seq[at] \in Class
        BY <3>2, ClassFacts
      <4> QED
        BY <3>2, <4>1 DEF Class
    <3> QED
      BY <3>1, <3>2
  <2>2. windows' = [seq |-> Append(windows.seq, new), next |-> windows.next + 1]
    BY <1>3 DEF create_window_record
  <2> HIDE DEF p, at
  <2>3. new \in Window
    <3>1. windows.next \in Nat \ {0}
      BY <1>2
    <3> QED
      BY <2>1, <3>1 DEF Window
  <2> HIDE DEF new
  <2>4. Append(windows.seq, new) \in Seq(Window) /\ windows.next + 1 \in Nat \ {0}
    BY <1>2, <2>3
  <2> QED
    BY <2>2, <2>4
<1>4. windows' \in [seq : Seq(Window), next : Nat \ {0}]
  <2>1. \/ windows' = windows
        \/ \E id \in Identifiers, at \in Places, size \in Sizes :
             windows' = create_window_record(id, unicode, low_i32(at), low_i32(size))
    BY DEF mdi_create, create_mdi_child_from_struct
  <2>2. \A at \in Places, size \in Sizes : low_i32(at) \in Coords /\ low_i32(size) \in Coords
    BY User32Assumption, LowIsCoord
  <2> QED
    BY <1>2, <1>3, <2>1, <2>2
<1> QED
  BY <1>1, <1>4 DEF Desk

---------------------------------------------------------------------------
(* Every step *)

IInv == Bridge /\ Mail /\ Desk

\* The calls that only read or change the tables.
LEMMA TableStep ==
  ASSUME IInv, UserCall, UNCHANGED loopVars
  PROVE  IInv'
<1>1. Bridge' /\ Mail'
  BY BridgeUntouched, MailUntouched DEF IInv, loopVars
<1>2. ASSUME NEW unicode \in BOOLEAN, register_class_ex(unicode)
      PROVE  Desk'
  BY <1>2, DeskRegistered DEF IInv
<1>3. ASSUME FakeWindowCall
      PROVE  Desk'
  BY <1>3, DeskFake DEF IInv
<1>4. ASSUME TableCall, ~FakeWindowCall
      PROVE  Desk'
  <2>1. UNCHANGED <<classes, windows, ui>>
    BY <1>4 DEF TableCall, set_window_long_ptr_value, set_keyboard_state, SetTimer, kill_timer,
                set_windows_hook_ex, unhook_windows_hook_ex, allocate_menu_handle, MenuCall
  <2> QED
    BY <2>1, DeskUntouched DEF IInv
<1> QED
  BY <1>1, <1>2, <1>3, <1>4 DEF UserCall, IInv

\* Posting, by the guest or by the embedding program.
LEMMA PostStep ==
  ASSUME IInv, NEW h \in {0, FAKE, 1}, NEW m \in Msgs, post_message(h, m) \/ post_window_message(h, m)
  PROVE  IInv'
<1>1. UNCHANGED <<classes, windows, ui, log, frames, pending, stack, rsp, rip>>
  BY DEF post_message, post_window_message, tables
<1>2. posted' = posted + 1 /\ (queue' = queue \/ queue' = Append(queue, Queued(h, m)))
  BY DEF post_message, post_window_message
<1> QED
  BY <1>1, <1>2, BridgeUntouched, MailPosted, DeskUntouched DEF IInv

\* Every call that any thread can make.
LEMMA CallStep ==
  ASSUME IInv, AnyCall
  PROVE  IInv'
<1>1. ASSUME NEW unicode \in BOOLEAN, mdi_create(unicode)
      PROVE  IInv'
  BY <1>1, BridgeUntouched, MailUntouched, DeskCreated DEF IInv, mdi_create, loopVars
<1> QED
  BY <1>1, TableStep, PostStep DEF AnyCall

\* GetMessage and PeekMessage.
LEMMA TakeStep ==
  ASSUME IInv, NEW f, NEW remove \in BOOLEAN, get_message(f) \/ peek_message(f, remove)
  PROVE  IInv'
<1>1. UNCHANGED <<classes, windows, ui, posted, pending, stack, rsp, rip>>
  BY DEF get_message, peek_message, userVars
<1>2. Desk'
  BY <1>1, DeskUntouched DEF IInv
<1>3. CASE matching_index(f) = 0
  <2>1. UNCHANGED <<queue, log>> /\ (frames' = frames \/ frames' = Buffer(QuitMessage))
    BY <1>3 DEF get_message, peek_message, NothingMatches
  <2> QED
    BY <1>1, <1>2, <2>1, HeldFacts, BridgeUntouched, BridgeBuffered, MailUntouched DEF IInv
<1>4. CASE matching_index(f) # 0
  <2>1. queue[matching_index(f)] \in Message
    <3>1. queue \in Seq(Message)
      BY DEF IInv, Mail
    <3>2. matching_index(f) \in 1 .. Len(queue)
      BY <1>4, <3>1, MatchFacts
    <3> QED
      BY <3>1, <3>2
  <2>2. frames' = Buffer(queue[matching_index(f)])
    BY <1>4 DEF get_message, peek_message
  <2>3. Bridge'
    BY <1>1, <2>1, <2>2, HeldFacts, BridgeBuffered DEF IInv
  <2>4. \/ UNCHANGED <<queue, log>>
        \/ /\ queue' = RemoveAt(queue, matching_index(f))
           /\ log' = Append(log, queue[matching_index(f)])
    BY <1>4 DEF get_message, peek_message
  <2>5. Mail'
    BY <1>1, <1>4, <2>4, MailUntouched, MailTaken DEF IInv
  <2> QED
    BY <1>2, <2>3, <2>5 DEF IInv
<1> QED
  BY <1>3, <1>4

\* Every step of the thread that owns the windows.
LEMMA PrimaryStep ==
  ASSUME IInv, PrimaryCall
  PROVE  IInv'
<1>1. ASSUME NEW h, NEW outer \in {"SendMessageA", "DispatchMessageA"}, NEW site \in Sites,
             rip # "proc", install_guest_callback_frame(h, outer, site)
      PROVE  IInv'
  <2>1. UNCHANGED <<classes, windows, ui, queue, posted, log>>
    BY <1>1 DEF install_guest_callback_frame, userVars
  <2> QED
    BY <1>1, <2>1, BridgeEntered, MailUntouched, DeskUntouched DEF IInv
<1>2. ASSUME rip # "proc", NEW h, NEW m, send_message(h, m)
      PROVE  IInv'
  BY <1>1, <1>2 DEF send_message, CallSite, Sites
<1>3. ASSUME rip # "proc", dispatch_message
      PROVE  IInv'
  BY <1>1, <1>3 DEF dispatch_message, CallSite, Sites
<1>4. ASSUME Prologue
      PROVE  IInv'
  <2>1. UNCHANGED <<classes, windows, ui, queue, posted, log>>
    BY <1>4 DEF Prologue, userVars
  <2> QED
    BY <1>4, <2>1, BridgeProloged, MailUntouched, DeskUntouched DEF IInv
<1>5. ASSUME complete_guest_callback
      PROVE  IInv'
  <2>1. UNCHANGED <<classes, windows, ui, queue, posted, log>>
    BY <1>5 DEF complete_guest_callback, userVars
  <2> QED
    BY <1>5, <2>1, BridgeReturned, MailUntouched, DeskUntouched DEF IInv
<1>6. ASSUME NEW f, get_message(f)
      PROVE  IInv'
  BY <1>6, TakeStep
<1>7. ASSUME NEW f, NEW remove \in BOOLEAN, peek_message(f, remove)
      PROVE  IInv'
  BY <1>7, TakeStep
<1> QED
  BY <1>2, <1>3, <1>4, <1>5, <1>6, <1>7 DEF PrimaryCall

\* One case per action.
LEMMA LoopStep ==
  ASSUME IInv, [Next]_vars
  PROVE  IInv'
<1>1. ASSUME UNCHANGED <<classes, windows, ui, queue, posted, log, frames, pending, stack, rsp, rip>>
      PROVE  IInv'
  BY <1>1, BridgeUntouched, MailUntouched, DeskUntouched DEF IInv
<1>2. ASSUME NEW w, worker_stops(w)
      PROVE  IInv'
  BY <1>1, <1>2 DEF worker_stops, userVars
<1>3. ASSUME NEW p, set_message_queue_idle_policy(p)
      PROVE  IInv'
  BY <1>1, <1>3 DEF set_message_queue_idle_policy, userVars
<1>4. ASSUME UNCHANGED vars
      PROVE  IInv'
  BY <1>1, <1>4 DEF vars, userVars, loopVars
<1>5. ASSUME Rerun
      PROVE  IInv'
  <2>1. get_message(filter) /\ TRUE \in BOOLEAN
    BY <1>5 DEF Rerun
  <2> QED
    BY <2>1, TakeStep
<1>6. ASSUME Embedding
      PROVE  IInv'
  BY <1>3, <1>6, PostStep DEF Embedding
<1>7. ASSUME NEW f, worker_takes(f)
      PROVE  IInv'
  <2>1. /\ UNCHANGED <<classes, windows, ui, posted, frames, pending, stack, rsp, rip>>
        /\ matching_index(f) # 0
        /\ queue' = RemoveAt(queue, matching_index(f))
        /\ log' = Append(log, queue[matching_index(f)])
    BY <1>7 DEF worker_takes, userVars
  <2> QED
    BY <2>1, BridgeUntouched, MailTaken, DeskUntouched DEF IInv
<1>8. ASSUME WorkerCall
      PROVE  IInv'
  BY <1>2, <1>7, <1>8 DEF WorkerCall
<1>9. ASSUME ApiLimit
      PROVE  IInv'
  <2>1. Bridge'
    BY <1>9 DEF ApiLimit, IInv, Bridge, Top
  <2>2. UNCHANGED <<classes, windows, ui, queue, posted, log>>
    BY <1>9 DEF ApiLimit, userVars
  <2> QED
    BY <2>1, <2>2, MailUntouched, DeskUntouched DEF IInv
<1> QED
  BY <1>4, <1>5, <1>6, <1>8, <1>9, CallStep, PrimaryStep DEF Next

\* The session starts with an empty stack and an empty queue.
LEMMA LoopInit ==
  ASSUME Init
  PROVE  IInv
<1>1. Bridge
  <2>1. "free" \in Marks /\ "main" \in Code /\ StackWords - HomeWords \in Int
    BY LoopAssumption DEF Marks, Code, HomeWords
  <2>2. [site |-> "main", rsp |-> rsp, msg |-> <<>>] \in Frame
    BY <2>1, HeldFacts DEF Frame, Init
  <2>3. frames \in Seq(Frame) /\ Len(frames) = 1 /\ frames[1].rsp = rsp /\ frames[1].site = "main"
    BY <2>2 DEF Init
  <2>4. Depth(1) = StackWords - HomeWords
    BY LoopAssumption DEF Depth, HomeWords
  <2> QED
    BY <2>1, <2>3, <2>4 DEF Init, Bridge, Top
<1>2. Mail
  BY DEF Init, Mail
<1>3. Desk
  BY User32Assumption DEF Init, UserInit, Desk, Coords
<1> QED
  BY <1>1, <1>2, <1>3 DEF IInv

\* The inductive invariant of the window system.
THEOREM LoopInvariant == Spec => []IInv
<1>1. Init => IInv
  BY LoopInit
<1>2. IInv /\ [Next]_vars => IInv'
  BY LoopStep
<1> QED
  BY <1>1, <1>2, PTL DEF Spec

\* However deep guest window procedures nest, the bridge's frames stay aligned
\* and whole: no prologue or frame overwrites a return address further out.
THEOREM FramesStayWhole == Spec => []CallbackFrames
BY LoopInvariant, BridgeImplies, PTL DEF IInv

\* A window procedure returns to the code that called the API, with its stack
\* pointer, in the order the calls were made.
THEOREM CallsUnwind == Spec => []CallerResumes
BY LoopInvariant, BridgeImplies, PTL DEF IInv

\* Posted messages are retrieved at most once, and those of one window and one
\* number in the order of posting, whatever filters are used.
THEOREM MailInOrder == Spec => []MessageOrder
BY LoopInvariant, MailImplies, PTL DEF IInv

\* Points come back from the screen, the area to paint is never empty and agrees
\* with the window's rectangle, and no answer leaves a coordinate's range, for
\* every width of a coordinate and every place and size the guest passes to
\* MoveWindow or WM_MDICREATE.
THEOREM AnswersAgree == Spec => []GeometryAgrees
BY LoopInvariant, DeskImplies, PTL DEF IInv

\* No callback return is ever taken for a lost one: whenever a procedure
\* returns, its return address is the trampoline and a call is pending.
THEOREM ReturnsFindTheirCall ==
  Spec => [][complete_guest_callback =>
               stack[rsp + PrologueWords] = Trampoline /\ pending # <<>>]_vars
<1>1. IInv /\ [Next]_vars =>
        [complete_guest_callback => stack[rsp + PrologueWords] = Trampoline /\ pending # <<>>]_vars
  BY BridgeReturned DEF IInv
<1> QED
  BY <1>1, LoopInvariant, PTL DEF Spec
=============================================================================
