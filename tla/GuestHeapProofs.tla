-------------------------- MODULE GuestHeapProofs --------------------------
(***************************************************************************)
(* Proofs about GuestHeap, for every region, every set of size classes,    *)
(* every set of requests and every number of calls, with and without the   *)
(* helpers in the guest and a guest that frees twice.                      *)
(*                                                                         *)
(* The heap is sound until a free is served that should be refused.  The   *)
(* invariant says which block every address has, and that the headers that *)
(* are trusted are those of blocks that were not cut off another block: a  *)
(* part has the last word of the block in front of it as its header, so    *)
(* nothing in the proof may rest on what is written there.                 *)
(***************************************************************************)
EXTENDS GuestHeap, Integers, FiniteSetTheorems, WellFoundedInduction, TLAPS

---------------------------------------------------------------------------
(* The invariant.  D are the addresses of blocks, prt those of parts; blk    *)
(* gives every block its size; at[c][1 .. cnt[c]] is the free list of class  *)
(* c from its end to its head.                                               *)

\* The fields of the heap have their types.
Shape(h) ==
  h \in [bump : Base .. End, heads : [Classes -> Nat], mem : [Words -> Nat],
         large_free : SUBSET [address : Nat, size : Nat], live : {h.live}]

\* A request gives a block the size of a class, or a size above all of them.
BlockSize(n) == n \in Nat /\ (n \in Classes \/ n > Threshold)

\* Blocks lie in the carved part, apart from each other.  A word is free
\* between two of them for the header of the upper one, except in front of a
\* part; and no part lies right behind a block of a class.
Layout(h, D, prt, blk) ==
  /\ D \subseteq Nat /\ prt \subseteq D /\ blk \in [D -> Nat]
  /\ \A a \in D : /\ blk[a] > 0 /\ Base < a /\ a + blk[a] <= h.bump
                  /\ a \notin prt => BlockSize(blk[a])
  /\ \A a, b \in D : a < b =>
       /\ a + blk[a] <= b
       /\ b \notin prt \/ (a \notin prt /\ blk[a] \in Classes) => a + blk[a] < b

\* Each free list is a chain of free blocks of its class, without repetition.
Lists(h, own, D, prt, blk, cnt, at) ==
  /\ cnt \in [Classes -> Nat] /\ at \in [Classes -> [Nat -> Nat]]
  /\ \A c \in Classes :
       /\ h.heads[c] = IF cnt[c] = 0 THEN 0 ELSE at[c][cnt[c]]
       /\ \A i \in 1 .. cnt[c] :
            /\ at[c][i] \in D \ DOMAIN own /\ at[c][i] \notin prt
            /\ blk[at[c][i]] = c
            /\ h.mem[at[c][i]] = IF i = 1 THEN 0 ELSE at[c][i - 1]
       /\ \A i, j \in 1 .. cnt[c] : at[c][i] = at[c][j] => i = j

\* The large free blocks are blocks the guest does not hold.
Large(h, own, D, prt, blk) ==
  \A f \in h.large_free :
    /\ f.address \in D \ DOMAIN own /\ f.size = blk[f.address]
    /\ f.address \notin prt => f.size > Threshold

\* A held block has its size in the header, a free one has 0 there; the word
\* in front of a part may hold anything.
Headers(h, own, D, prt, blk) ==
  /\ DOMAIN own \subseteq D
  /\ \A a \in D \ prt : h.mem[a - 1] = IF a \in DOMAIN own THEN blk[a] ELSE 0
  /\ \A a \in DOMAIN own : own[a] = blk[a]

\* The host's record has the right sizes and all parts that are held; of
\* blocks that are free it may list those that the helper in the guest freed.
Recorded(live, own, D, prt, blk) ==
  /\ \A a \in DOMAIN live :
       a \in D /\ live[a] = blk[a] /\ (a \notin DOMAIN own => Accel)
  /\ \A a \in DOMAIN own : a \in prt => a \in DOMAIN live /\ blk[a] > Threshold

Sound(h, own, D, prt, blk, cnt, at) ==
  /\ Shape(h)
  /\ Layout(h, D, prt, blk)
  /\ Lists(h, own, D, prt, blk, cnt, at)
  /\ Large(h, own, D, prt, blk)
  /\ Headers(h, own, D, prt, blk)
  /\ Recorded(h.live, own, D, prt, blk)

\* Every block was handed out or cut off.
Places == given \cup parts

HeapSound == \E blk, cnt, at : Sound(heap, owned, Places, parts, blk, cnt, at)

\* The heap is sound until a free is served that should be refused, which
\* takes the helpers in the guest or a part.
HeapInv ==
  /\ misfreed \in BOOLEAN
  /\ misfreed => Accel \/ parts # {}
  /\ ~misfreed => HeapSound

---------------------------------------------------------------------------
(* Sizes *)

\* The threshold is the largest class.
LEMMA ThresholdFacts ==
  /\ Threshold \in Classes /\ Threshold \in Nat /\ Threshold > 0
  /\ \A d \in Classes : d \in Nat /\ d > 0 /\ d <= Threshold
<1>1. \E c \in Classes : \A d \in Classes : d <= c
  BY HeapAssumption
<1>2. Threshold \in Classes /\ \A d \in Classes : d <= Threshold
  BY <1>1 DEF Threshold
<1> QED
  BY <1>2, HeapAssumption

\* A non-empty set of naturals has a least element.
LEMMA LeastExists ==
  ASSUME NEW S \in SUBSET Nat, S # {}
  PROVE  \E x \in S : \A y \in S : x <= y
<1>1. OpToRel(<, Nat) = {ss \in Nat \X Nat : ss[1] < ss[2]}
  BY Zenon DEF OpToRel
<1>2. IsWellFoundedOn({ss \in Nat \X Nat : ss[1] < ss[2]}, Nat)
  BY <1>1, NatLessThanWellFounded, Zenon
<1>3. PICK x \in S : \A y \in S : ~(<<y, x>> \in {ss \in Nat \X Nat : ss[1] < ss[2]})
  BY <1>2, WFMin
<1>4. ASSUME NEW y \in S
      PROVE  x <= y
  <2>1. x \in Nat /\ y \in Nat /\ <<y, x>> \in Nat \X Nat
    OBVIOUS
  <2>2. ~(<<y, x>>[1] < <<y, x>>[2])
    BY <1>3, <2>1, Zenon
  <2> QED
    BY <2>1, <2>2
<1> QED
  BY <1>4

\* AlignUp rounds up to an even number.
LEMMA AlignUpFacts ==
  ASSUME NEW n \in Nat
  PROVE  AlignUp(n) \in Nat /\ n <= AlignUp(n) /\ AlignUp(n) <= n + 1
BY DEF AlignUp

\* round_up_size: small requests get a class, large ones stay large.
LEMMA RoundUpFacts ==
  ASSUME NEW n \in Nat, n > 0
  PROVE  /\ RoundUp(n) \in Nat /\ n <= RoundUp(n) /\ RoundUp(n) > 0
         /\ n <= Threshold => RoundUp(n) \in Classes /\ RoundUp(n) <= Threshold
         /\ n > Threshold => RoundUp(n) = AlignUp(n) /\ RoundUp(n) > Threshold
<1>1. CASE n <= Threshold
  <2> DEFINE S == {c \in Classes : c >= n}
  <2>1. S \in SUBSET Nat /\ S # {}
    BY <1>1, ThresholdFacts
  <2>2. PICK x \in S : \A y \in S : x <= y
    BY <2>1, LeastExists
  <2>3. \E c \in Classes : c >= n /\ \A d \in Classes : d >= n => c <= d
    BY <2>2
  <2>4. RoundUp(n) \in Classes /\ RoundUp(n) >= n
    BY <1>1, <2>3 DEF RoundUp
  <2>5. RoundUp(n) \in Nat /\ RoundUp(n) <= Threshold
    BY <2>4, ThresholdFacts
  <2>6. ~(n > Threshold)
    BY <1>1, ThresholdFacts
  <2> QED
    BY <1>1, <2>4, <2>5, <2>6
<1>2. CASE n > Threshold
  BY <1>2, AlignUpFacts, ThresholdFacts DEF RoundUp
<1> QED
  BY <1>1, <1>2, ThresholdFacts

\* A class is its own class.
LEMMA ClassOfClass ==
  ASSUME NEW c \in Classes
  PROVE  ClassOf(c) = c
<1>1. c \in Nat /\ c > 0 /\ c <= Threshold /\ c >= c
  BY ThresholdFacts
<1>2. \A d \in Classes : d >= c /\ (\A e \in Classes : e >= c => d <= e) => d = c
  BY <1>1, ThresholdFacts
<1>3. \E d \in Classes : d >= c /\ \A e \in Classes : e >= c => d <= e
  BY <1>1
<1> QED
  BY <1>1, <1>2, <1>3 DEF ClassOf, RoundUp

\* What RoundUp returns is the size of a block.
LEMMA RoundUpBlock ==
  ASSUME NEW size \in Requests
  PROVE  BlockSize(RoundUp(size)) /\ RoundUp(size) \in Nat /\ RoundUp(size) > 0
BY RoundUpFacts, HeapAssumption, ThresholdFacts DEF BlockSize

\* Block sizes are positive, and not both of a class and large.
LEMMA BlockSizeFacts ==
  ASSUME NEW n, BlockSize(n)
  PROVE  n \in Nat /\ n > 0 /\ (n \in Classes => n <= Threshold)
BY ThresholdFacts DEF BlockSize

---------------------------------------------------------------------------
(* Taking a block *)

\* The fields of a heap after a block was handed out.
LEMMA HandedFields ==
  ASSUME NEW h, Shape(h), NEW a \in Nat, a - 1 \in Words, NEW n \in Nat
  PROVE  LET g == Handed(h, a, n).heap IN
         /\ Shape(g) /\ Handed(h, a, n).at = a
         /\ Handed(h, a, n) = [heap |-> g, at |-> a, size |-> n]
         /\ g.bump = h.bump /\ g.heads = h.heads /\ g.large_free = h.large_free
         /\ g.mem = [h.mem EXCEPT ![a - 1] = n]
         /\ g.live = With(h.live, a, n)
BY DEF Shape, Handed

\* The table with one more entry.
LEMMA WithFacts ==
  ASSUME NEW f, NEW a, NEW n
  PROVE  /\ DOMAIN With(f, a, n) = DOMAIN f \cup {a} /\ With(f, a, n)[a] = n
         /\ \A b \in DOMAIN f : b # a => With(f, a, n)[b] = f[b]
BY DEF With

\* The table with one entry less.
LEMMA WithoutFacts ==
  ASSUME NEW f, NEW a
  PROVE  /\ DOMAIN Without(f, a) = DOMAIN f \ {a}
         /\ \A b \in DOMAIN f : b # a => Without(f, a)[b] = f[b]
BY DEF Without

\* Words of blocks, and the headers before them, are words of the region.
LEMMA BlockWords ==
  ASSUME NEW h, NEW D, NEW prt, NEW blk, Shape(h), Layout(h, D, prt, blk), NEW a \in D
  PROVE  /\ a \in Nat /\ a > 0 /\ a - 1 \in Words /\ a \in Words
         /\ blk[a] \in Nat /\ blk[a] > 0 /\ h.bump \in Nat /\ h.bump <= End
         /\ \A w \in Extent(a, blk[a]) : w \in Words
<1>1. a \in Nat /\ blk[a] \in Nat /\ blk[a] > 0 /\ Base < a /\ a + blk[a] <= h.bump
  BY DEF Layout
<1>2. h.bump \in Base .. End
  BY DEF Shape
<1> QED
  BY <1>1, <1>2, HeapAssumption DEF Words, Extent

\* Different blocks: the header of one is no header of the other, and neither
\* its first word if the one is no part or the other is of a class; they share
\* no word, and no header of a block that is no part lies in another block.
LEMMA BlocksApart ==
  ASSUME NEW h, NEW D, NEW prt, NEW blk, Shape(h), Layout(h, D, prt, blk),
         NEW a \in D, NEW b \in D, a # b
  PROVE  /\ a - 1 # b - 1
         /\ a \notin prt \/ (b \notin prt /\ blk[b] \in Classes) => b # a - 1
         /\ \A w \in Extent(a, blk[a]) : w \notin Extent(b, blk[b]) /\ (b \notin prt => w # b - 1)
<1>1. a \in Nat /\ b \in Nat /\ blk[a] \in Nat /\ blk[b] \in Nat /\ blk[a] > 0 /\ blk[b] > 0
  BY BlockWords
<1>2. \/ a < b /\ a + blk[a] <= b /\ (b \notin prt => a + blk[a] < b)
      \/ /\ b < a /\ b + blk[b] <= a
         /\ a \notin prt \/ (b \notin prt /\ blk[b] \in Classes) => b + blk[b] < a
  <2>1. a < b \/ b < a
    BY <1>1
  <2> QED
    BY <2>1 DEF Layout
<1> QED
  BY <1>1, <1>2 DEF Extent

\* bump_alloc: the new block lies above all others.
LEMMA BumpTaken ==
  ASSUME NEW h, NEW own, NEW D, NEW prt, NEW blk, NEW cnt, NEW at, Sound(h, own, D, prt, blk, cnt, at),
         NEW n, BlockSize(n), Payload(h.bump) + n <= End
  PROVE  LET a == Payload(h.bump)
             g == BumpAlloc(h, n).heap
         IN  /\ BumpAlloc(h, n) = [heap |-> g, at |-> a, size |-> n]
             /\ a \in Nat \ {0} /\ a \notin D
             /\ Sound(g, With(own, a, n), D \cup {a}, prt, With(blk, a, n), cnt, at)
             /\ g.mem = [h.mem EXCEPT ![a - 1] = n] /\ g.live = With(h.live, a, n)
             /\ g.large_free = h.large_free
<1> DEFINE a == Payload(h.bump)
           k == [h EXCEPT !.bump = a + n]
           g == BumpAlloc(h, n).heap
           own2 == With(own, a, n)
           D2 == D \cup {a}
           blk2 == With(blk, a, n)
<1>1. h.bump \in Nat /\ h.bump >= Base /\ h.bump <= End
  BY HeapAssumption DEF Sound, Shape
<1>2. a \in Nat /\ a >= h.bump + 1
  BY <1>1, AlignUpFacts DEF Payload
<1>3. n \in Nat /\ n > 0
  BY BlockSizeFacts
<1>4. a - 1 \in Words
  BY <1>1, <1>2, <1>3, HeapAssumption DEF Words
<1>5. /\ Shape(k) /\ k.bump = a + n /\ k.heads = h.heads /\ k.mem = h.mem
      /\ k.large_free = h.large_free /\ k.live = h.live
  BY <1>1, <1>2, <1>3, HeapAssumption DEF Sound, Shape
<1>6. BumpAlloc(h, n) = Handed(k, a, n)
  BY <1>1, <1>2, <1>3, HeapAssumption DEF BumpAlloc
<1> HIDE DEF a, k
<1>7. /\ Shape(g) /\ BumpAlloc(h, n) = [heap |-> g, at |-> a, size |-> n]
      /\ g.bump = a + n /\ g.heads = h.heads /\ g.large_free = h.large_free
      /\ g.mem = [h.mem EXCEPT ![a - 1] = n] /\ g.live = With(h.live, a, n)
  BY <1>2, <1>3, <1>4, <1>5, <1>6, HandedFields
<1> HIDE DEF g
<1>8. /\ DOMAIN own2 = DOMAIN own \cup {a} /\ own2[a] = n
      /\ \A b \in DOMAIN own : b # a => own2[b] = own[b]
  BY DEF With
<1>9. /\ DOMAIN blk2 = DOMAIN blk \cup {a} /\ blk2[a] = n
      /\ \A b \in DOMAIN blk : b # a => blk2[b] = blk[b]
  BY DEF With
<1>10. /\ DOMAIN g.live = DOMAIN h.live \cup {a} /\ g.live[a] = n
       /\ \A b \in DOMAIN h.live : b # a => g.live[b] = h.live[b]
  BY <1>7 DEF With
<1>11. DOMAIN blk = D /\ D \subseteq Nat /\ prt \subseteq D /\ DOMAIN own \subseteq D
  BY DEF Sound, Layout, Headers
<1>12. ASSUME NEW b \in D
       PROVE  /\ b \in Nat /\ blk[b] \in Nat /\ blk[b] > 0 /\ b + blk[b] < a
              /\ b # a /\ b # a - 1 /\ b - 1 # a - 1 /\ b \in Words /\ b - 1 \in Words
              /\ b + blk[b] <= g.bump /\ Base < b /\ (b \notin prt => BlockSize(blk[b]))
  <2>1. b + blk[b] <= h.bump /\ Base < b /\ (b \notin prt => BlockSize(blk[b]))
    BY DEF Sound, Layout
  <2> QED
    BY <1>1, <1>2, <1>3, <1>7, <2>1, BlockWords DEF Sound
<1>13. a \notin D
  BY <1>12
<1> HIDE DEF own2, blk2
<1>14. Layout(g, D2, prt, blk2)
  <2>1. blk2 \in [D2 -> Nat]
    <3>1. blk2 = [b \in D2 |-> IF b = a THEN n ELSE blk[b]]
      BY <1>11 DEF blk2, With
    <3> QED
      BY <1>3, <1>12, <3>1
  <2>2. \A b \in D2 : /\ blk2[b] > 0 /\ Base < b /\ b + blk2[b] <= g.bump
                      /\ b \notin prt => BlockSize(blk2[b])
    BY <1>1, <1>2, <1>3, <1>7, <1>9, <1>11, <1>12, <1>13, HeapAssumption
  <2>3. ASSUME NEW x \in D2, NEW y \in D2, x < y
        PROVE  /\ x + blk2[x] <= y
               /\ y \notin prt \/ (x \notin prt /\ blk2[x] \in Classes) => x + blk2[x] < y
    <3>1. CASE x \in D /\ y \in D
      BY <1>9, <1>11, <1>13, <2>3, <3>1 DEF Sound, Layout
    <3>2. CASE x \in D /\ y = a
      BY <1>9, <1>11, <1>12, <1>13, <3>2
    <3>3. x \in D
      <4>1. x # a
        BY <1>2, <1>12, <2>3
      <4> QED
        BY <4>1
    <3> QED
      BY <3>1, <3>2, <3>3
  <2>4. D2 \subseteq Nat /\ prt \subseteq D2
    BY <1>2, <1>11
  <2> HIDE DEF D2
  <2> QED
    BY <2>1, <2>2, <2>3, <2>4 DEF Layout
<1>15. Lists(g, own2, D2, prt, blk2, cnt, at)
  <2>1. \A b \in D : g.mem[b] = h.mem[b] /\ blk2[b] = blk[b] /\ (b \notin DOMAIN own => b \notin DOMAIN own2)
    BY <1>4, <1>7, <1>8, <1>9, <1>11, <1>12 DEF Sound, Shape
  <2> QED
    BY <1>7, <1>11, <1>13, <2>1 DEF Sound, Lists
<1>16. Large(g, own2, D2, prt, blk2)
  BY <1>7, <1>8, <1>9, <1>11, <1>13 DEF Sound, Large
<1>17. Headers(g, own2, D2, prt, blk2)
  <2>1. \A b \in D : g.mem[b - 1] = h.mem[b - 1] /\ blk2[b] = blk[b]
    BY <1>4, <1>7, <1>9, <1>11, <1>12 DEF Sound, Shape
  <2>2. g.mem[a - 1] = n
    BY <1>4, <1>7 DEF Sound, Shape
  <2> QED
    BY <1>8, <1>9, <1>11, <1>13, <2>1, <2>2 DEF Sound, Headers
<1>18. Recorded(g.live, own2, D2, prt, blk2)
  BY <1>8, <1>9, <1>10, <1>11, <1>13 DEF Sound, Recorded
<1>19. Sound(g, own2, D2, prt, blk2, cnt, at)
  BY <1>7, <1>14, <1>15, <1>16, <1>17, <1>18 DEF Sound
<1>20. a \in Nat \ {0}
  BY <1>1, <1>2
<1> QED
  BY <1>7, <1>13, <1>19, <1>20, Zenon DEF a, g, own2, blk2

\* A block taken from the list of its class: the rest of the list is as it was.
LEMMA PopTaken ==
  ASSUME NEW h, NEW own, NEW D, NEW prt, NEW blk, NEW cnt, NEW at, Sound(h, own, D, prt, blk, cnt, at),
         NEW c \in Classes, h.heads[c] \in Words
  PROVE  LET a == h.heads[c]
             g == Pop(h, c).heap
         IN  /\ Pop(h, c) = [heap |-> g, at |-> a, size |-> c]
             /\ a \in D \ DOMAIN own /\ a # 0 /\ a \notin prt
             /\ Sound(g, With(own, a, c), D, prt, blk, [cnt EXCEPT ![c] = @ - 1], at)
             /\ g.mem = [h.mem EXCEPT ![a - 1] = c] /\ g.live = With(h.live, a, c)
             /\ blk[a] = c /\ g.large_free = h.large_free
<1> DEFINE a == h.heads[c]
           k == [h EXCEPT !.heads[c] = h.mem[h.heads[c]]]
           g == Pop(h, c).heap
           own2 == With(own, a, c)
           cnt2 == [cnt EXCEPT ![c] = @ - 1]
<1>1. Shape(h) /\ Layout(h, D, prt, blk) /\ Lists(h, own, D, prt, blk, cnt, at)
  BY DEF Sound
<1>2. cnt[c] \in Nat /\ cnt[c] # 0 /\ cnt[c] \in 1 .. cnt[c] /\ a = at[c][cnt[c]]
  <2>1. cnt[c] \in Nat
    BY <1>1 DEF Lists
  <2>2. cnt[c] # 0
    BY <1>1, HeapAssumption DEF Lists, Words
  <2> QED
    BY <1>1, <2>1, <2>2 DEF Lists
<1>3. /\ a \in D \ DOMAIN own /\ blk[a] = c /\ a \notin prt
      /\ h.mem[a] = IF cnt[c] = 1 THEN 0 ELSE at[c][cnt[c] - 1]
  BY <1>1, <1>2 DEF Lists
<1>4. a \in Nat /\ a > 0 /\ a - 1 \in Words /\ a \in Words
  BY <1>1, <1>3, BlockWords
<1>5. /\ Shape(k) /\ k.bump = h.bump /\ k.heads = [h.heads EXCEPT ![c] = h.mem[a]] /\ k.mem = h.mem
      /\ k.large_free = h.large_free /\ k.live = h.live
  BY <1>1, <1>4 DEF Shape
<1>6. Pop(h, c) = Handed(k, a, c)
  BY DEF Pop
<1>7. c \in Nat /\ c > 0
  BY ThresholdFacts
<1> HIDE DEF a, k
<1>8. /\ Shape(g) /\ Pop(h, c) = [heap |-> g, at |-> a, size |-> c]
      /\ g.bump = h.bump /\ g.heads = [h.heads EXCEPT ![c] = h.mem[a]]
      /\ g.large_free = h.large_free
      /\ g.mem = [h.mem EXCEPT ![a - 1] = c] /\ g.live = With(h.live, a, c)
  BY <1>4, <1>5, <1>6, <1>7, HandedFields
<1> HIDE DEF g
<1>9. /\ DOMAIN own2 = DOMAIN own \cup {a} /\ own2[a] = c
      /\ \A b \in DOMAIN own : b # a => own2[b] = own[b]
  BY DEF With
<1>10. /\ DOMAIN g.live = DOMAIN h.live \cup {a} /\ g.live[a] = c
       /\ \A b \in DOMAIN h.live : b # a => g.live[b] = h.live[b]
  BY <1>8 DEF With
<1> HIDE DEF own2
<1>11. Layout(g, D, prt, blk)
  BY <1>1, <1>8 DEF Layout
<1>12. \A b \in D : /\ g.mem[b] = h.mem[b]
                    /\ b # a => g.mem[b - 1] = h.mem[b - 1]
  <2> TAKE b \in D
  <2>1. b \in Words /\ b - 1 \in Words /\ b \in Nat
    BY <1>1, BlockWords
  <2>2. b # a - 1
    BY <1>1, <1>3, <1>4, <2>1, BlocksApart
  <2>3. b # a => b - 1 # a - 1
    BY <1>4, <2>1
  <2>4. h.mem \in [Words -> Nat]
    BY <1>1 DEF Shape
  <2> QED
    BY <1>4, <1>8, <2>1, <2>2, <2>3, <2>4
<1>13. Lists(g, own2, D, prt, blk, cnt2, at)
  <2>1. cnt2 \in [Classes -> Nat] /\ cnt2[c] = cnt[c] - 1 /\ \A d \in Classes : d # c => cnt2[d] = cnt[d]
    BY <1>1, <1>2 DEF Lists
  <2> HIDE DEF cnt2
  <2>2. ASSUME NEW d \in Classes
        PROVE  /\ g.heads[d] = IF cnt2[d] = 0 THEN 0 ELSE at[d][cnt2[d]]
               /\ \A i \in 1 .. cnt2[d] :
                    /\ at[d][i] \in D \ DOMAIN own2 /\ at[d][i] \notin prt
                    /\ blk[at[d][i]] = d
                    /\ g.mem[at[d][i]] = IF i = 1 THEN 0 ELSE at[d][i - 1]
               /\ \A i, j \in 1 .. cnt2[d] : at[d][i] = at[d][j] => i = j
    <3>1. cnt[d] \in Nat /\ cnt2[d] \in Nat /\ cnt2[d] <= cnt[d]
      <4>1. cnt[d] \in Nat
        BY <1>1 DEF Lists
      <4> QED
        BY <1>2, <2>1, <4>1
    <3>2. \A i \in 1 .. cnt2[d] : i \in 1 .. cnt[d] /\ i \in Nat
      BY <3>1
    <3>3. ASSUME NEW i \in 1 .. cnt2[d]
          PROVE  at[d][i] # a
      <4>1. CASE d = c
        BY <1>1, <1>2, <2>1, <3>2, <4>1 DEF Lists
      <4>2. CASE d # c
        BY <1>1, <1>3, <3>2, <4>2 DEF Lists
      <4> QED
        BY <4>1, <4>2
    <3>4. g.heads[d] = IF cnt2[d] = 0 THEN 0 ELSE at[d][cnt2[d]]
      <4>1. h.heads \in [Classes -> Nat]
        BY <1>1 DEF Shape
      <4>2. CASE d = c
        BY <1>2, <1>3, <1>8, <2>1, <4>1, <4>2
      <4>3. CASE d # c
        BY <1>1, <1>8, <2>1, <4>1, <4>3 DEF Lists
      <4> QED
        BY <4>2, <4>3
    <3>5. ASSUME NEW i \in 1 .. cnt2[d]
          PROVE  /\ at[d][i] \in D \ DOMAIN own2 /\ at[d][i] \notin prt
                 /\ blk[at[d][i]] = d
                 /\ g.mem[at[d][i]] = IF i = 1 THEN 0 ELSE at[d][i - 1]
      <4>1. /\ at[d][i] \in D \ DOMAIN own /\ at[d][i] \notin prt /\ blk[at[d][i]] = d
            /\ h.mem[at[d][i]] = IF i = 1 THEN 0 ELSE at[d][i - 1]
        BY <1>1, <3>2 DEF Lists
      <4>2. g.mem[at[d][i]] = h.mem[at[d][i]]
        BY <1>12, <4>1
      <4> QED
        BY <1>9, <3>3, <4>1, <4>2
    <3>6. \A i, j \in 1 .. cnt2[d] : at[d][i] = at[d][j] => i = j
      BY <1>1, <3>2 DEF Lists
    <3> QED
      BY <3>4, <3>5, <3>6
  <2>3. at \in [Classes -> [Nat -> Nat]]
    BY <1>1 DEF Lists
  <2> QED
    BY <2>1, <2>2, <2>3 DEF Lists
<1>14. Large(g, own2, D, prt, blk)
  <2>1. \A f \in h.large_free : f.address # a
    BY <1>3, <1>7, ThresholdFacts DEF Sound, Large
  <2> QED
    BY <1>8, <1>9, <2>1 DEF Sound, Large
<1>15. Headers(g, own2, D, prt, blk)
  <2>1. g.mem[a - 1] = c
    BY <1>1, <1>4, <1>8 DEF Shape
  <2>2. DOMAIN own2 \subseteq D /\ \A b \in DOMAIN own2 : own2[b] = blk[b]
    BY <1>3, <1>9 DEF Sound, Headers
  <2>3. ASSUME NEW b \in D \ prt
        PROVE  g.mem[b - 1] = IF b \in DOMAIN own2 THEN blk[b] ELSE 0
    <3>1. CASE b = a
      BY <1>3, <1>9, <2>1, <3>1
    <3>2. CASE b # a
      <4>1. h.mem[b - 1] = IF b \in DOMAIN own THEN blk[b] ELSE 0
        BY DEF Sound, Headers
      <4> QED
        BY <1>9, <1>12, <3>2, <4>1
    <3> QED
      BY <3>1, <3>2
  <2> QED
    BY <2>2, <2>3 DEF Headers
<1>16. Recorded(g.live, own2, D, prt, blk)
  BY <1>3, <1>9, <1>10 DEF Sound, Recorded
<1>17. Sound(g, own2, D, prt, blk, cnt2, at)
  BY <1>8, <1>11, <1>13, <1>14, <1>15, <1>16 DEF Sound
<1>18. a # 0
  BY <1>4
<1> QED
  BY <1>3, <1>8, <1>17, <1>18, Zenon DEF a, g, own2

\* The large free blocks of a heap that are at no address of D.
Cut(h, D) == {f.address : f \in h.large_free} \ D

\* All large free blocks of a sound heap are at its addresses.
LEMMA NothingCut ==
  ASSUME NEW h, NEW own, NEW D, NEW prt, NEW blk, Large(h, own, D, prt, blk)
  PROVE  Cut(h, D) = {}
BY DEF Cut, Large

\* A large free block is reused: it keeps its place and gets the size of the
\* request, and a rest of the threshold or more becomes a part behind it.
LEMMA ReuseTaken ==
  ASSUME NEW h, NEW own, NEW D, NEW prt, NEW blk, NEW cnt, NEW at,
         Sound(h, own, D, prt, blk, cnt, at),
         NEW n \in Nat, n > Threshold, NEW b \in BestFits(h, n)
  PROVE  LET a == b.address
             g == Reuse(h, b, n).heap
         IN  /\ Reuse(h, b, n) = [heap |-> g, at |-> a, size |-> n]
             /\ a \in D \ DOMAIN own /\ a # 0
             /\ \E blk2 : Sound(g, With(own, a, n), D \cup Cut(g, D), prt \cup Cut(g, D),
                                blk2, cnt, at)
             /\ g.mem = [h.mem EXCEPT ![a - 1] = n] /\ g.live = With(h.live, a, n)
<1> DEFINE a == b.address
           p == a + n
           m == b.size - n
           split == b.size >= n + Threshold
           F == IF split THEN {[address |-> p, size |-> m]} ELSE {}
           R == IF split THEN {p} ELSE {}
           k == [h EXCEPT !.large_free = (h.large_free \ {b}) \cup F]
           g == Reuse(h, b, n).heap
           own2 == With(own, a, n)
           D2 == D \cup R
           prt2 == prt \cup R
           blk2 == [x \in D2 |-> IF x = a THEN n ELSE IF x \in D THEN blk[x] ELSE m]
<1>1. Shape(h) /\ Layout(h, D, prt, blk) /\ Lists(h, own, D, prt, blk, cnt, at)
  BY DEF Sound
<1>2. Threshold \in Nat /\ Threshold > 0 /\ n \notin Classes /\ BlockSize(n)
  BY ThresholdFacts DEF BlockSize
<1>3. b \in h.large_free /\ b.size >= n
  BY DEF BestFits
<1>4. a \in D \ DOMAIN own /\ b.size = blk[a]
  BY <1>3 DEF Sound, Large
<1>5. a \in Nat /\ a > 0 /\ a - 1 \in Words /\ blk[a] \in Nat /\ h.bump \in Nat
  BY <1>1, <1>4, BlockWords
<1>6. b \in [address : Nat, size : Nat] /\ b.size \in Nat /\ b.size > Threshold /\ b.size \notin Classes
  <2>1. b \in [address : Nat, size : Nat]
    BY <1>1, <1>3 DEF Shape
  <2>2. b.size \in Nat /\ b.size > Threshold
    BY <1>2, <1>3, <2>1
  <2> QED
    BY <2>1, <2>2, ThresholdFacts
<1>7. p \in Nat /\ m \in Nat /\ p + m = a + blk[a] /\ p > a /\ p > 0
  BY <1>2, <1>3, <1>4, <1>5, <1>6
<1>8. split => m > 0 /\ m >= Threshold
  BY <1>2, <1>6
<1>9. Reuse(h, b, n) = Handed(k, a, n)
  BY DEF Reuse
<1> HIDE DEF a, p, m, split
<1>10. F \in SUBSET [address : Nat, size : Nat] /\ F = IF split THEN {[address |-> p, size |-> m]} ELSE {}
  BY <1>7
<1> HIDE DEF F
<1>11. /\ Shape(k) /\ k.bump = h.bump /\ k.heads = h.heads /\ k.mem = h.mem
       /\ k.large_free = (h.large_free \ {b}) \cup F /\ k.live = h.live
  BY <1>1, <1>10 DEF Shape
<1> HIDE DEF k
<1>12. /\ Shape(g) /\ Reuse(h, b, n) = [heap |-> g, at |-> a, size |-> n]
       /\ g.bump = h.bump /\ g.heads = h.heads
       /\ g.large_free = (h.large_free \ {b}) \cup F
       /\ g.mem = [h.mem EXCEPT ![a - 1] = n] /\ g.live = With(h.live, a, n)
  BY <1>5, <1>9, <1>11, HandedFields
<1> HIDE DEF g
<1>13. /\ DOMAIN own2 = DOMAIN own \cup {a} /\ own2[a] = n
       /\ \A x \in DOMAIN own : x # a => own2[x] = own[x]
  BY DEF With
<1>14. /\ DOMAIN g.live = DOMAIN h.live \cup {a} /\ g.live[a] = n
       /\ \A x \in DOMAIN h.live : x # a => g.live[x] = h.live[x]
  BY <1>12 DEF With
<1> HIDE DEF own2
<1>15. ASSUME NEW x \in D
       PROVE  /\ x \in Nat /\ blk[x] \in Nat /\ blk[x] > 0 /\ Base < x /\ x + blk[x] <= h.bump
              /\ x < a => x + blk[x] <= a
              /\ a < x => a + blk[a] <= x
              /\ split => x # p
  <2>1. /\ x \in Nat /\ blk[x] \in Nat /\ blk[x] > 0 /\ Base < x /\ x + blk[x] <= h.bump
        /\ x < a => x + blk[x] <= a
        /\ a < x => a + blk[a] <= x
    BY <1>1, <1>4 DEF Layout
  <2>2. split => x # p
    BY <1>5, <1>7, <1>8, <2>1
  <2> QED
    BY <2>1, <2>2
<1>16. /\ R \cap D = {} /\ (\A x \in R : x = p /\ split) /\ (split => R = {p})
       /\ prt \subseteq D /\ DOMAIN own \subseteq D
  BY <1>1, <1>15 DEF Sound, Layout, Headers
<1>17. /\ blk2 \in [D2 -> Nat] /\ blk2[a] = n
       /\ \A x \in D : x # a => blk2[x] = blk[x]
       /\ \A x \in R : blk2[x] = m
  <2>1. p # a
    BY <1>5, <1>7
  <2> QED
    BY <1>4, <1>7, <1>15, <1>16, <2>1
<1> HIDE DEF blk2, R
<1>18. Layout(g, D2, prt2, blk2)
  <2>1. D2 \subseteq Nat /\ prt2 \subseteq D2
    BY <1>7, <1>15, <1>16
  <2>2. ASSUME NEW x \in D2
        PROVE  /\ blk2[x] > 0 /\ Base < x /\ x + blk2[x] <= g.bump
               /\ x \notin prt2 => BlockSize(blk2[x])
    <3>1. CASE x = a
      BY <1>2, <1>3, <1>4, <1>5, <1>6, <1>12, <1>15, <1>17, <3>1
    <3>2. CASE x \in D /\ x # a
      <4>1. x \notin prt => BlockSize(blk[x])
        BY <1>1, <3>2 DEF Layout
      <4> QED
        BY <1>12, <1>15, <1>17, <3>2, <4>1
    <3>3. CASE x \in R
      <4>1. x = p /\ blk2[x] = m /\ m > 0 /\ a + blk[a] <= h.bump /\ Base < a
        BY <1>4, <1>8, <1>15, <1>16, <1>17, <3>3
      <4> QED
        BY <1>5, <1>7, <1>12, <3>3, <4>1, HeapAssumption
    <3> QED
      BY <3>1, <3>2, <3>3
  <2>3. ASSUME NEW x \in D2, NEW y \in D2, x < y
        PROVE  /\ x + blk2[x] <= y
               /\ y \notin prt2 \/ (x \notin prt2 /\ blk2[x] \in Classes) => x + blk2[x] < y
    <3>1. ASSUME NEW u \in D, NEW v \in D, u < v
          PROVE  /\ u + blk[u] <= v
                 /\ v \notin prt \/ (u \notin prt /\ blk[u] \in Classes) => u + blk[u] < v
      BY <1>1, <3>1 DEF Layout
    <3>2. CASE x \in D /\ x # a /\ y \in D
      BY <1>16, <1>17, <2>3, <3>1, <3>2
    <3>3. CASE x = a /\ y \in D
      <4>1. a + blk[a] <= y /\ (y \notin prt => a + blk[a] < y)
        BY <1>4, <2>3, <3>1, <3>3
      <4>2. a + n <= a + blk[a] /\ y \in Nat
        BY <1>3, <1>4, <1>5, <1>15, <3>3
      <4> QED
        BY <1>2, <1>5, <1>17, <3>3, <4>1, <4>2
    <3>4. CASE x = a /\ y \in R
      <4>1. y = p /\ y \in prt2 /\ blk2[x] = n /\ n \notin Classes
        BY <1>2, <1>16, <1>17, <3>4
      <4> QED
        BY <1>5, <1>7, <3>4, <4>1 DEF p
    <3>5. CASE x \in D /\ x # a /\ y \in R
      <4>1. y = p /\ x \in Nat /\ blk[x] \in Nat /\ blk2[x] = blk[x]
        BY <1>15, <1>16, <1>17, <3>5
      <4>2. x < a
        <5>1. a < x => p + m <= x
          BY <1>7, <1>15, <3>5
        <5> QED
          BY <1>5, <1>7, <2>3, <3>5, <4>1, <5>1
      <4>3. x + blk[x] <= a
        BY <1>15, <3>5, <4>2
      <4> QED
        BY <1>5, <1>7, <4>1, <4>3
    <3>6. CASE x \in R /\ y \in D
      <4>1. x = p /\ blk2[x] = m /\ x \in prt2 /\ y \in Nat
        BY <1>15, <1>16, <1>17, <3>6
      <4>2. a < y
        BY <1>5, <1>7, <2>3, <4>1
      <4>3. a + blk[a] <= y /\ (y \notin prt => a + blk[a] < y)
        BY <1>4, <3>1, <3>6, <4>2
      <4> QED
        BY <1>7, <4>1, <4>3
    <3>7. ~(x \in R /\ y \in R)
      BY <1>7, <1>16, <2>3
    <3> QED
      BY <3>2, <3>3, <3>4, <3>5, <3>6, <3>7
  <2> QED
    BY <1>17, <2>1, <2>2, <2>3 DEF Layout
<1>19. \A x \in D : /\ x \notin prt /\ blk[x] \in Classes => g.mem[x] = h.mem[x]
                    /\ x # a => g.mem[x - 1] = h.mem[x - 1]
  <2> TAKE x \in D
  <2>1. x \in Words /\ x - 1 \in Words /\ x \in Nat
    BY <1>1, BlockWords
  <2>2. x \notin prt /\ blk[x] \in Classes => x # a - 1
    <3>1. CASE x = a
      BY <1>5, <3>1
    <3> QED
      BY <1>1, <1>4, <3>1, BlocksApart
  <2>3. x # a => x - 1 # a - 1
    BY <1>5, <2>1
  <2>4. h.mem \in [Words -> Nat]
    BY <1>1 DEF Shape
  <2> QED
    BY <1>5, <1>12, <2>1, <2>2, <2>3, <2>4
<1>20. Lists(g, own2, D2, prt2, blk2, cnt, at)
  <2>1. ASSUME NEW c \in Classes, NEW i \in 1 .. cnt[c]
        PROVE  /\ at[c][i] \in D2 \ DOMAIN own2 /\ at[c][i] \notin prt2
               /\ blk2[at[c][i]] = c
               /\ g.mem[at[c][i]] = IF i = 1 THEN 0 ELSE at[c][i - 1]
    <3>1. /\ at[c][i] \in D \ DOMAIN own /\ blk[at[c][i]] = c /\ at[c][i] \notin prt
          /\ h.mem[at[c][i]] = IF i = 1 THEN 0 ELSE at[c][i - 1]
      BY <1>1 DEF Lists
    <3>2. at[c][i] # a
      BY <1>4, <1>6, <3>1
    <3>3. at[c][i] \notin prt2
      BY <1>16, <3>1
    <3>4. g.mem[at[c][i]] = h.mem[at[c][i]]
      BY <1>19, <3>1
    <3> QED
      BY <1>13, <1>17, <3>1, <3>2, <3>3, <3>4
  <2> QED
    BY <1>1, <1>12, <2>1 DEF Lists
<1>21. Large(g, own2, D2, prt2, blk2)
  <2>1. ASSUME NEW f \in g.large_free
        PROVE  /\ f.address \in D2 \ DOMAIN own2 /\ f.size = blk2[f.address]
               /\ f.address \notin prt2 => f.size > Threshold
    <3>1. CASE f \in h.large_free /\ f # b
      <4>2. /\ f.address \in D \ DOMAIN own /\ f.size = blk[f.address]
            /\ f.address \notin prt => f.size > Threshold
        BY <3>1 DEF Sound, Large
      <4>3. f.address # a
        <5>1. f \in [address : Nat, size : Nat]
          BY <1>1, <3>1 DEF Shape
        <5> QED
          BY <1>4, <1>6, <3>1, <4>2, <5>1 DEF a
      <4> QED
        BY <1>13, <1>17, <4>2, <4>3
    <3>2. CASE f \in F
      <4>1. split /\ f.address = p /\ f.size = m
        BY <1>10, <3>2
      <4>2. p \in R /\ p \notin D
        BY <1>16, <4>1
      <4> QED
        BY <1>4, <1>13, <1>16, <1>17, <4>1, <4>2
    <3> QED
      BY <1>12, <3>1, <3>2
  <2> QED
    BY <2>1 DEF Large
<1>22. Headers(g, own2, D2, prt2, blk2)
  <2>1. g.mem[a - 1] = n
    BY <1>1, <1>5, <1>12 DEF Shape
  <2>2. DOMAIN own2 \subseteq D2
    BY <1>4, <1>13, <1>16
  <2>3. \A x \in DOMAIN own2 : own2[x] = blk2[x]
    BY <1>13, <1>16, <1>17 DEF Sound, Headers
  <2>4. ASSUME NEW x \in D2 \ prt2
        PROVE  g.mem[x - 1] = IF x \in DOMAIN own2 THEN blk2[x] ELSE 0
    <3>1. x \in D \ prt
      OBVIOUS
    <3>2. CASE x = a
      BY <1>13, <1>17, <2>1, <3>2
    <3>3. CASE x # a
      <4>1. h.mem[x - 1] = IF x \in DOMAIN own THEN blk[x] ELSE 0
        BY <3>1 DEF Sound, Headers
      <4> QED
        BY <1>13, <1>17, <1>19, <3>1, <3>3, <4>1
    <3> QED
      BY <3>2, <3>3
  <2> QED
    BY <2>2, <2>3, <2>4 DEF Headers
<1>23. Recorded(g.live, own2, D2, prt2, blk2)
  <2>1. Recorded(h.live, own, D, prt, blk)
    BY DEF Sound
  <2>2. \A x \in DOMAIN g.live :
          x \in D2 /\ g.live[x] = blk2[x] /\ (x \notin DOMAIN own2 => Accel)
    BY <1>4, <1>13, <1>14, <1>17, <2>1 DEF Recorded
  <2>3. ASSUME NEW x \in DOMAIN own2, x \in prt2
        PROVE  x \in DOMAIN g.live /\ blk2[x] > Threshold
    <3>1. CASE x = a
      BY <1>14, <1>17, <3>1
    <3>2. CASE x # a
      <4>1. x \in DOMAIN own /\ x \in prt /\ x \in D
        BY <1>13, <1>16, <2>3, <3>2
      <4> QED
        BY <1>14, <1>17, <2>1, <3>2, <4>1 DEF Recorded
    <3> QED
      BY <3>1, <3>2
  <2> QED
    BY <2>2, <2>3 DEF Recorded
<1>24. Sound(g, own2, D2, prt2, blk2, cnt, at)
  BY <1>12, <1>18, <1>20, <1>21, <1>22, <1>23 DEF Sound
<1>25. Cut(g, D) = R
  <2>1. \A f \in h.large_free : f.address \in D
    BY DEF Sound, Large
  <2>2. \A f \in F : f.address = p /\ split
    BY <1>10
  <2>3. split => \E f \in F : f.address = p
    BY <1>10
  <2>4. \A x \in Cut(g, D) : x \in R
    BY <1>12, <1>16, <2>1, <2>2 DEF Cut
  <2>5. \A x \in R : x \in Cut(g, D)
    BY <1>12, <1>16, <2>3 DEF Cut
  <2> QED
    BY <2>4, <2>5
<1>26. a # 0
  BY <1>5
<1>27. \E u : Sound(g, own2, D \cup Cut(g, D), prt \cup Cut(g, D), u, cnt, at)
  BY <1>24, <1>25
<1> QED
  BY <1>4, <1>12, <1>26, <1>27, Zenon DEF a, g, own2

\* What an allocation that succeeds does, with result r: a block the guest does
\* not hold is its own from now on and only its header is written; a small
\* request takes no part, cuts nothing off and leaves blocks their sizes.
TakenAs(h, own, D, prt, blk, at, r, n, blk2, cnt2) ==
  /\ r = [heap |-> r.heap, at |-> r.at, size |-> n]
  /\ r.at \in Nat \ {0} /\ r.at \notin DOMAIN own
  /\ Sound(r.heap, With(own, r.at, n), D \cup {r.at} \cup Cut(r.heap, D),
           prt \cup Cut(r.heap, D), blk2, cnt2, at)
  /\ r.heap.mem = [h.mem EXCEPT ![r.at - 1] = n] /\ r.heap.live = With(h.live, r.at, n)
  /\ n \in Classes =>
       r.at \notin prt /\ Cut(r.heap, D) = {} /\ \A b \in D : blk2[b] = blk[b]

\* bump_alloc succeeds or leaves the heap alone.
LEMMA BumpOutcome ==
  ASSUME NEW h, NEW own, NEW D, NEW prt, NEW blk, NEW cnt, NEW at,
         Sound(h, own, D, prt, blk, cnt, at),
         NEW n, BlockSize(n), NEW r, r = BumpAlloc(h, n)
  PROVE  \/ r.at = 0 /\ r.heap = h
         \/ \E blk2, cnt2 : TakenAs(h, own, D, prt, blk, at, r, n, blk2, cnt2)
<1> DEFINE a == Payload(h.bump)
<1>1. h.bump \in Nat
  BY HeapAssumption DEF Sound, Shape
<1>2. a \in Nat /\ n \in Nat
  BY <1>1, AlignUpFacts, BlockSizeFacts DEF Payload
<1>3. CASE a + n > End
  BY <1>3 DEF BumpAlloc, Null
<1>4. CASE a + n <= End
  <2>1. /\ r = [heap |-> r.heap, at |-> a, size |-> n] /\ a \in Nat \ {0} /\ a \notin D
        /\ Sound(r.heap, With(own, a, n), D \cup {a}, prt, With(blk, a, n), cnt, at)
        /\ r.heap.mem = [h.mem EXCEPT ![a - 1] = n] /\ r.heap.live = With(h.live, a, n)
        /\ r.heap.large_free = h.large_free
    BY <1>4, BumpTaken
  <2>2. r.at = a
    BY <2>1
  <2>3. DOMAIN own \subseteq D /\ DOMAIN blk = D /\ prt \subseteq D
    BY DEF Sound, Headers, Layout
  <2>4. \A b \in D : With(blk, a, n)[b] = blk[b]
    BY <2>1, <2>3 DEF With
  <2>5. Cut(r.heap, D) = {}
    BY <2>1, NothingCut DEF Sound, Cut
  <2> HIDE DEF a
  <2>6. D \cup {a} \cup {} = D \cup {a} /\ prt \cup {} = prt
    OBVIOUS
  <2>7. TakenAs(h, own, D, prt, blk, at, r, n, With(blk, a, n), cnt)
    BY <2>1, <2>2, <2>3, <2>4, <2>5, <2>6 DEF TakenAs
  <2> QED
    BY <2>7
<1> QED
  BY <1>2, <1>3, <1>4, HeapAssumption

\* A small request, of the host path or of the helper in the guest.
LEMMA ClassOutcome ==
  ASSUME NEW h, NEW own, NEW D, NEW prt, NEW blk, NEW cnt, NEW at,
         Sound(h, own, D, prt, blk, cnt, at),
         NEW c \in Classes, NEW r, r = AllocClass(h, c)
  PROVE  \/ r.at = 0 /\ r.heap = h
         \/ \E blk2, cnt2 : TakenAs(h, own, D, prt, blk, at, r, c, blk2, cnt2)
<1>1. CASE h.heads[c] \in Words
  <2> DEFINE a == h.heads[c]
             cnt2 == [cnt EXCEPT ![c] = @ - 1]
  <2>1. r = Pop(h, c)
    BY <1>1 DEF AllocClass
  <2>2. /\ r = [heap |-> r.heap, at |-> a, size |-> c] /\ a \in D \ DOMAIN own /\ a # 0
        /\ a \notin prt
        /\ Sound(r.heap, With(own, a, c), D, prt, blk, cnt2, at)
        /\ r.heap.mem = [h.mem EXCEPT ![a - 1] = c] /\ r.heap.live = With(h.live, a, c)
        /\ r.heap.large_free = h.large_free
    BY <1>1, <2>1, PopTaken
  <2>3. r.at = a /\ a \in Nat
    BY <2>2 DEF Sound, Layout
  <2>4. Cut(r.heap, D) = {}
    BY <2>2, NothingCut DEF Sound, Cut
  <2>5. D \cup {a} \cup {} = D /\ prt \cup {} = prt
    BY <2>2
  <2> HIDE DEF a, cnt2
  <2>6. TakenAs(h, own, D, prt, blk, at, r, c, blk, cnt2)
    BY <2>2, <2>3, <2>4, <2>5 DEF TakenAs
  <2> QED
    BY <2>6
<1>2. CASE h.heads[c] \notin Words
  <2>1. r = BumpAlloc(h, c) /\ BlockSize(c)
    BY <1>2, ThresholdFacts DEF AllocClass, BlockSize
  <2> QED
    BY <2>1, BumpOutcome
<1> QED
  BY <1>1, <1>2

\* Any request on the host path.
LEMMA AllocOutcome ==
  ASSUME NEW h, NEW own, NEW D, NEW prt, NEW blk, NEW cnt, NEW at,
         Sound(h, own, D, prt, blk, cnt, at),
         NEW size \in Requests, NEW r \in AllocCoherent(h, size)
  PROVE  \/ r.at = 0 /\ r.heap = h
         \/ \E blk2, cnt2 : TakenAs(h, own, D, prt, blk, at, r, RoundUp(size), blk2, cnt2)
<1> DEFINE n == RoundUp(size)
<1>1. size \in Nat /\ size > 0 /\ Threshold \in Nat
  BY HeapAssumption, ThresholdFacts
<1>2. /\ BlockSize(n) /\ n \in Nat
      /\ size <= Threshold => n \in Classes /\ n <= Threshold
      /\ size > Threshold => n > Threshold
  BY <1>1, RoundUpFacts, RoundUpBlock
<1>3. CASE size <= Threshold
  <2>1. r = AllocClass(h, n)
    BY <1>2, <1>3 DEF AllocCoherent
  <2> HIDE DEF n
  <2>2. \/ r.at = 0 /\ r.heap = h
        \/ \E blk2, cnt2 : TakenAs(h, own, D, prt, blk, at, r, n, blk2, cnt2)
    BY <1>2, <1>3, <2>1, ClassOutcome
  <2> QED
    BY <2>2 DEF n
<1>4. CASE size > Threshold
  <2>1. r \in AllocLarge(h, n)
    BY <1>1, <1>2, <1>4 DEF AllocCoherent
  <2>2. CASE BestFits(h, n) = {}
    <3>1. r = BumpAlloc(h, n)
      BY <2>1, <2>2 DEF AllocLarge
    <3> HIDE DEF n
    <3>2. \/ r.at = 0 /\ r.heap = h
          \/ \E blk2, cnt2 : TakenAs(h, own, D, prt, blk, at, r, n, blk2, cnt2)
      BY <1>2, <3>1, BumpOutcome
    <3> QED
      BY <3>2 DEF n
  <2>3. CASE BestFits(h, n) # {}
    <3>1. PICK b \in BestFits(h, n) : r = Reuse(h, b, n)
      BY <2>1, <2>3 DEF AllocLarge
    <3> DEFINE a == b.address
    <3> HIDE DEF n
    <3>2. n > Threshold /\ n \in Nat
      BY <1>2, <1>4
    <3> DEFINE g == Reuse(h, b, n).heap
    <3>7. /\ Reuse(h, b, n) = [heap |-> g, at |-> a, size |-> n] /\ a \in D \ DOMAIN own /\ a # 0
          /\ \E blk2 : Sound(g, With(own, a, n), D \cup Cut(g, D), prt \cup Cut(g, D),
                             blk2, cnt, at)
          /\ g.mem = [h.mem EXCEPT ![a - 1] = n] /\ g.live = With(h.live, a, n)
      BY <3>1, <3>2, ReuseTaken, ZenonT(60)
    <3>8. r = [heap |-> g, at |-> a, size |-> n] /\ r.heap = g
      BY <3>1, <3>7
    <3> HIDE DEF g, a
    <3>3. r.at = a /\ D \cup {a} = D /\ a \in Nat
      BY <3>7, <3>8 DEF Sound, Layout
    <3>4. n \notin Classes
      BY <1>1, <1>2, <1>4, ThresholdFacts
    <3>5. PICK blk2 : Sound(g, With(own, a, n), D \cup Cut(g, D), prt \cup Cut(g, D),
                            blk2, cnt, at)
      BY <3>7
    <3>6. TakenAs(h, own, D, prt, blk, at, r, n, blk2, cnt)
      BY <3>3, <3>4, <3>5, <3>7, <3>8 DEF TakenAs
    <3> QED
      BY <3>6 DEF n
  <2> QED
    BY <2>2, <2>3
<1> QED
  BY <1>1, <1>3, <1>4

---------------------------------------------------------------------------
(* Filling a block, and the host's record *)

\* Writes inside a block the guest holds touch no header and no link.
LEMMA Filled ==
  ASSUME NEW h, NEW own, NEW D, NEW prt, NEW blk, NEW cnt, NEW at, Sound(h, own, D, prt, blk, cnt, at),
         NEW a \in DOMAIN own, NEW m \in [Words -> Nat],
         \A w \in Words : w \notin Extent(a, own[a]) => m[w] = h.mem[w]
  PROVE  Sound([h EXCEPT !.mem = m], own, D, prt, blk, cnt, at)
<1> DEFINE g == [h EXCEPT !.mem = m]
<1>1. Shape(h) /\ Layout(h, D, prt, blk) /\ a \in D /\ own[a] = blk[a] /\ DOMAIN own \subseteq D
  BY DEF Sound, Headers
<1>2. /\ Shape(g) /\ g.mem = m /\ g.bump = h.bump /\ g.heads = h.heads
      /\ g.large_free = h.large_free /\ g.live = h.live
  BY <1>1 DEF Shape
<1> HIDE DEF g
<1>3. ASSUME NEW b \in D
      PROVE  (b \notin prt => m[b - 1] = h.mem[b - 1]) /\ (b # a => m[b] = h.mem[b])
  <2>1. b \in Nat /\ b \in Words /\ b - 1 \in Words /\ blk[b] \in Nat /\ blk[b] > 0
    BY <1>1, BlockWords
  <2>2. a \in Nat /\ blk[a] \in Nat
    BY <1>1, BlockWords
  <2>3. b # a => b \notin Extent(a, own[a])
    <3>1. b \in Extent(b, blk[b])
      BY <2>1 DEF Extent
    <3> QED
      BY <1>1, <3>1, BlocksApart
  <2>4. b \notin prt => b - 1 \notin Extent(a, own[a])
    <3>1. CASE b = a
      BY <1>1, <2>2, <3>1 DEF Extent
    <3> QED
      BY <1>1, <3>1, BlocksApart
  <2> QED
    BY <2>1, <2>3, <2>4
<1>4. Layout(g, D, prt, blk)
  BY <1>1, <1>2 DEF Layout
<1>5. Lists(g, own, D, prt, blk, cnt, at)
  <2>1. \A b \in D \ DOMAIN own : g.mem[b] = h.mem[b]
    BY <1>2, <1>3
  <2>2. ASSUME NEW c \in Classes, NEW i \in 1 .. cnt[c]
        PROVE  /\ at[c][i] \in D \ DOMAIN own /\ at[c][i] \notin prt /\ blk[at[c][i]] = c
               /\ g.mem[at[c][i]] = IF i = 1 THEN 0 ELSE at[c][i - 1]
    <3>1. /\ at[c][i] \in D \ DOMAIN own /\ at[c][i] \notin prt /\ blk[at[c][i]] = c
          /\ h.mem[at[c][i]] = IF i = 1 THEN 0 ELSE at[c][i - 1]
      BY DEF Sound, Lists
    <3> QED
      BY <2>1, <3>1
  <2> QED
    BY <1>2, <2>2 DEF Sound, Lists
<1>6. Large(g, own, D, prt, blk)
  BY <1>2 DEF Sound, Large
<1>7. Headers(g, own, D, prt, blk)
  BY <1>2, <1>3 DEF Sound, Headers
<1>8. Recorded(g.live, own, D, prt, blk)
  BY <1>2 DEF Sound
<1>9. Sound(g, own, D, prt, blk, cnt, at)
  BY <1>2, <1>4, <1>5, <1>6, <1>7, <1>8 DEF Sound
<1> QED
  BY <1>9 DEF g

\* The host's record may be another one with the right sizes.
LEMMA OtherRecord ==
  ASSUME NEW h, NEW own, NEW D, NEW prt, NEW blk, NEW cnt, NEW at, Sound(h, own, D, prt, blk, cnt, at),
         NEW live, Recorded(live, own, D, prt, blk)
  PROVE  Sound([h EXCEPT !.live = live], own, D, prt, blk, cnt, at)
<1> DEFINE g == [h EXCEPT !.live = live]
<1>1. /\ Shape(g) /\ g.mem = h.mem /\ g.bump = h.bump /\ g.heads = h.heads
      /\ g.large_free = h.large_free /\ g.live = live
  BY DEF Sound, Shape
<1> HIDE DEF g
<1>2. Sound(g, own, D, prt, blk, cnt, at)
  BY <1>1 DEF Sound, Layout, Lists, Large, Headers
<1> QED
  BY <1>2 DEF g

---------------------------------------------------------------------------
(* Releasing a block *)

\* What releasing block a does to the words of the heap: its header and words of its own change.
Released(h, own, D, prt, blk, a, g) ==
  /\ \E cnt2, at2 : Sound(g, Without(own, a), D, prt, blk, cnt2, at2)
  /\ \A w \in Words : w # a - 1 /\ w \notin Extent(a, blk[a]) => g.mem[w] = h.mem[w]
  /\ h.large_free \subseteq g.large_free

\* free_known_block of a block above the threshold.
LEMMA LargeFreed ==
  ASSUME NEW h, NEW own, NEW D, NEW prt, NEW blk, NEW cnt, NEW at,
         Shape(h), Layout(h, D, prt, blk), Lists(h, own, D, prt, blk, cnt, at), Large(h, own, D, prt, blk),
         Headers(h, own, D, prt, blk), NEW a \in DOMAIN own,
         Recorded(h.live, Without(own, a), D, prt, blk), own[a] > Threshold
  PROVE  Released(h, own, D, prt, blk, a, FreeKnown(h, a, own[a]))
<1> DEFINE g == FreeKnown(h, a, own[a])
           own2 == Without(own, a)
           f0 == [address |-> a, size |-> own[a]]
           M == [h.mem EXCEPT ![a - 1] = 0]
           F == h.large_free \cup {f0}
<1>1. a \in D /\ own[a] = blk[a] /\ DOMAIN own \subseteq D
  BY DEF Headers
<1>2. a \in Nat /\ a > 0 /\ a - 1 \in Words /\ a \in Words /\ blk[a] \in Nat
  BY <1>1, BlockWords
<1>3. g = [h EXCEPT !.large_free = F, !.mem = M]
  BY DEF FreeKnown, Cleared
<1>4. M \in [Words -> Nat] /\ F \in SUBSET [address : Nat, size : Nat]
  BY <1>1, <1>2 DEF Shape
<1> HIDE DEF f0, M, F, g
<1>15. /\ Shape(g) /\ g.bump = h.bump /\ g.heads = h.heads /\ g.live = h.live
       /\ g.large_free = F /\ g.mem = M
  BY <1>3, <1>4 DEF Shape
<1>5. /\ Shape(g) /\ g.bump = h.bump /\ g.heads = h.heads /\ g.live = h.live
      /\ g.large_free = h.large_free \cup {f0} /\ g.mem = [h.mem EXCEPT ![a - 1] = 0]
  BY <1>15 DEF M, F
<1>6. /\ DOMAIN own2 = DOMAIN own \ {a}
      /\ \A b \in DOMAIN own : b # a => own2[b] = own[b]
  BY DEF Without
<1> HIDE DEF own2
<1>7. \A w \in Words : w # a - 1 => g.mem[w] = h.mem[w]
  BY <1>2, <1>5 DEF Shape
<1>8. g.mem[a - 1] = 0
  BY <1>2, <1>5 DEF Shape
<1>9. \A b \in D : /\ b \notin prt /\ blk[b] \in Classes => g.mem[b] = h.mem[b]
                   /\ b # a => g.mem[b - 1] = h.mem[b - 1]
  <2> TAKE b \in D
  <2>1. b \in Words /\ b - 1 \in Words /\ b \in Nat
    BY BlockWords
  <2>2. b \notin prt /\ blk[b] \in Classes => b # a - 1
    <3>1. CASE b = a
      BY <1>2, <3>1
    <3> QED
      BY <1>1, <3>1, BlocksApart
  <2>3. b # a => b - 1 # a - 1
    BY <1>2, <2>1
  <2> QED
    BY <1>7, <2>1, <2>2, <2>3
<1>10. Layout(g, D, prt, blk)
  BY <1>5 DEF Layout
<1>11. Lists(g, own2, D, prt, blk, cnt, at)
  <2>1. ASSUME NEW c \in Classes, NEW i \in 1 .. cnt[c]
        PROVE  /\ at[c][i] \in D \ DOMAIN own2 /\ at[c][i] \notin prt
               /\ blk[at[c][i]] = c
               /\ g.mem[at[c][i]] = IF i = 1 THEN 0 ELSE at[c][i - 1]
    <3>1. /\ at[c][i] \in D \ DOMAIN own /\ at[c][i] \notin prt /\ blk[at[c][i]] = c
          /\ h.mem[at[c][i]] = IF i = 1 THEN 0 ELSE at[c][i - 1]
      BY DEF Lists
    <3>2. g.mem[at[c][i]] = h.mem[at[c][i]]
      BY <1>9, <3>1
    <3> QED
      BY <1>6, <3>1, <3>2
  <2> QED
    BY <1>5, <2>1 DEF Lists
<1>12. Large(g, own2, D, prt, blk)
  <2>1. f0.address = a /\ f0.size = blk[a]
    BY <1>1 DEF f0
  <2> QED
    BY <1>1, <1>5, <1>6, <2>1 DEF Large
<1>13. Headers(g, own2, D, prt, blk)
  BY <1>1, <1>6, <1>8, <1>9 DEF Headers
<1>14. Sound(g, own2, D, prt, blk, cnt, at)
  BY <1>5, <1>10, <1>11, <1>12, <1>13 DEF Sound, own2
<1> QED
  BY <1>5, <1>7, <1>14 DEF Released, g, own2

\* free_known_block of a block of a class: it becomes the head of the list.
LEMMA ClassFreed ==
  ASSUME NEW h, NEW own, NEW D, NEW prt, NEW blk, NEW cnt, NEW at,
         Shape(h), Layout(h, D, prt, blk), Lists(h, own, D, prt, blk, cnt, at), Large(h, own, D, prt, blk),
         Headers(h, own, D, prt, blk), NEW a \in DOMAIN own,
         Recorded(h.live, Without(own, a), D, prt, blk), own[a] \in Classes, a \notin prt
  PROVE  Released(h, own, D, prt, blk, a, FreeKnown(h, a, own[a]))
<1> DEFINE c == own[a]
           g == FreeKnown(h, a, own[a])
           own2 == Without(own, a)
           M == [[h.mem EXCEPT ![a] = h.heads[c]] EXCEPT ![a - 1] = 0]
           k == cnt[c] + 1
           cnt2 == [cnt EXCEPT ![c] = k]
           at2 == [at EXCEPT ![c] = [at[c] EXCEPT ![k] = a]]
<1>1. a \in D /\ c = blk[a] /\ DOMAIN own \subseteq D
  BY DEF Headers
<1>2. a \in Nat /\ a > 0 /\ a - 1 \in Words /\ a \in Words /\ a # a - 1
  BY <1>1, BlockWords
<1>3. c \in Classes /\ c \in Nat /\ ~(c > Threshold) /\ ClassOf(c) = c
  <2>1. c \in Classes
    OBVIOUS
  <2> HIDE DEF c
  <2>2. c \in Nat /\ c <= Threshold /\ Threshold \in Nat
    BY <2>1, ThresholdFacts
  <2> QED
    BY <2>1, <2>2, ClassOfClass
<1>4. g = [h EXCEPT !.mem = M, !.heads[c] = a]
  BY <1>3 DEF FreeKnown, Cleared
<1>5. h.mem \in [Words -> Nat] /\ h.heads \in [Classes -> Nat]
  BY DEF Shape
<1>6. cnt \in [Classes -> Nat] /\ at \in [Classes -> [Nat -> Nat]] /\ cnt[c] \in Nat
      /\ k \in Nat /\ k = cnt[c] + 1 /\ at[c] \in [Nat -> Nat]
  BY <1>3 DEF Lists
<1> HIDE DEF c, k
<1>18. M \in [Words -> Nat]
  BY <1>2, <1>3, <1>5
<1> HIDE DEF M, g
<1>19. /\ Shape(g) /\ g.bump = h.bump /\ g.heads = [h.heads EXCEPT ![c] = a] /\ g.live = h.live
       /\ g.large_free = h.large_free /\ g.mem = M
  BY <1>2, <1>3, <1>4, <1>5, <1>18 DEF Shape
<1>7. /\ Shape(g) /\ g.bump = h.bump /\ g.heads = [h.heads EXCEPT ![c] = a] /\ g.live = h.live
      /\ g.large_free = h.large_free
      /\ g.mem = [[h.mem EXCEPT ![a] = h.heads[c]] EXCEPT ![a - 1] = 0]
  BY <1>19 DEF M
<1>8. /\ DOMAIN own2 = DOMAIN own \ {a}
      /\ \A b \in DOMAIN own : b # a => own2[b] = own[b]
  BY DEF Without
<1> HIDE DEF own2
<1>9. /\ \A w \in Words : w # a - 1 /\ w # a => g.mem[w] = h.mem[w]
      /\ g.mem[a - 1] = 0 /\ g.mem[a] = h.heads[c]
  BY <1>2, <1>5, <1>7
<1>10. \A b \in D : b # a => g.mem[b] = h.mem[b] /\ g.mem[b - 1] = h.mem[b - 1]
  <2> SUFFICES ASSUME NEW b \in D, b # a
               PROVE  g.mem[b] = h.mem[b] /\ g.mem[b - 1] = h.mem[b - 1]
    OBVIOUS
  <2>1. b \in Words /\ b - 1 \in Words /\ b \in Nat
    BY BlockWords
  <2>2. b # a - 1 /\ b - 1 # a
    <3>1. blk[a] \in Classes
      BY <1>1, <1>3
    <3> QED
      BY <1>1, <3>1, BlocksApart
  <2>3. b - 1 # a - 1
    BY <1>2, <2>1
  <2> QED
    BY <1>9, <2>1, <2>2, <2>3
<1>11. Layout(g, D, prt, blk)
  BY <1>7 DEF Layout
<1>12. cnt2 \in [Classes -> Nat] /\ cnt2[c] = k /\ \A d \in Classes : d # c => cnt2[d] = cnt[d]
  BY <1>3, <1>6
<1>13. /\ at2 \in [Classes -> [Nat -> Nat]] /\ at2[c][k] = a
       /\ \A i \in Nat : i # k => at2[c][i] = at[c][i]
       /\ \A d \in Classes : d # c => at2[d] = at[d]
  BY <1>2, <1>3, <1>6
<1> HIDE DEF cnt2, at2
<1>14. Lists(g, own2, D, prt, blk, cnt2, at2)
  <2> DEFINE P(d) ==
               /\ g.heads[d] = IF cnt2[d] = 0 THEN 0 ELSE at2[d][cnt2[d]]
               /\ \A i \in 1 .. cnt2[d] :
                    /\ at2[d][i] \in D \ DOMAIN own2 /\ at2[d][i] \notin prt
                    /\ blk[at2[d][i]] = d
                    /\ g.mem[at2[d][i]] = IF i = 1 THEN 0 ELSE at2[d][i - 1]
               /\ \A i, j \in 1 .. cnt2[d] : at2[d][i] = at2[d][j] => i = j
  <2>1. ASSUME NEW d \in Classes, d # c
        PROVE  P(d)
    <3>1. cnt2[d] = cnt[d] /\ at2[d] = at[d] /\ g.heads[d] = h.heads[d]
      BY <1>3, <1>5, <1>7, <1>12, <1>13, <2>1
    <3>2. /\ h.heads[d] = IF cnt[d] = 0 THEN 0 ELSE at[d][cnt[d]]
          /\ \A i \in 1 .. cnt[d] :
               /\ at[d][i] \in D \ DOMAIN own /\ at[d][i] \notin prt
               /\ blk[at[d][i]] = d
               /\ h.mem[at[d][i]] = IF i = 1 THEN 0 ELSE at[d][i - 1]
          /\ \A i, j \in 1 .. cnt[d] : at[d][i] = at[d][j] => i = j
      BY DEF Lists
    <3>3. \A b \in D \ DOMAIN own : b # a /\ b \notin DOMAIN own2 /\ g.mem[b] = h.mem[b]
      BY <1>8, <1>10
    <3> QED
      BY <3>1, <3>2, <3>3
  <2>2. g.heads[c] = IF cnt2[c] = 0 THEN 0 ELSE at2[c][cnt2[c]]
    BY <1>3, <1>5, <1>6, <1>7, <1>12, <1>13
  <2>3. h.heads[c] = IF cnt[c] = 0 THEN 0 ELSE at[c][cnt[c]]
    BY <1>3 DEF Lists
  <2>4. ASSUME NEW i \in 1 .. cnt2[c], i # k
        PROVE  /\ i \in 1 .. cnt[c] /\ at2[c][i] = at[c][i] /\ i - 1 # k /\ i \in Nat
               /\ at[c][i] \in D \ DOMAIN own /\ at[c][i] # a /\ blk[at[c][i]] = c
               /\ at[c][i] \notin prt
               /\ h.mem[at[c][i]] = IF i = 1 THEN 0 ELSE at[c][i - 1]
    <3>1. i \in 1 .. cnt[c] /\ i \in Nat /\ i - 1 # k
      BY <1>6, <1>12, <2>4
    <3> QED
      BY <1>3, <1>13, <2>4, <3>1 DEF Lists
  <2>5. ASSUME NEW i \in 1 .. cnt2[c]
        PROVE  /\ at2[c][i] \in D \ DOMAIN own2 /\ at2[c][i] \notin prt
               /\ blk[at2[c][i]] = c
               /\ g.mem[at2[c][i]] = IF i = 1 THEN 0 ELSE at2[c][i - 1]
    <3>1. CASE i = k
      <4>1. g.mem[a] = IF k = 1 THEN 0 ELSE at2[c][k - 1]
        <5>1. cnt[c] = k - 1 /\ k - 1 \in Nat /\ k - 1 # k /\ (cnt[c] = 0 <=> k = 1)
          <6>1. cnt[c] \in Nat /\ k = cnt[c] + 1
            BY <1>6
          <6> QED
            BY <6>1
        <5> QED
          BY <1>9, <1>13, <2>3, <5>1
      <4> QED
        BY <1>1, <1>8, <1>13, <3>1, <4>1
    <3>2. CASE i # k
      <4>1. g.mem[at[c][i]] = h.mem[at[c][i]]
        BY <1>10, <2>4, <3>2
      <4>2. i = 1 \/ at2[c][i - 1] = at[c][i - 1]
        BY <1>13, <2>4, <3>2
      <4> QED
        BY <1>8, <2>4, <3>2, <4>1, <4>2
    <3> QED
      BY <3>1, <3>2
  <2>6. ASSUME NEW i \in 1 .. cnt2[c], NEW j \in 1 .. cnt2[c], at2[c][i] = at2[c][j]
        PROVE  i = j
    <3>1. CASE i = k \/ j = k
      BY <1>13, <2>4, <2>6, <3>1
    <3>2. CASE i # k /\ j # k
      <4>1. at[c][i] = at[c][j] /\ i \in 1 .. cnt[c] /\ j \in 1 .. cnt[c]
        BY <2>4, <2>6, <3>2
      <4> QED
        BY <1>3, <4>1 DEF Lists
    <3> QED
      BY <3>1, <3>2
  <2>7. P(c)
    BY <2>2, <2>5, <2>6
  <2> HIDE DEF P
  <2>8. \A d \in Classes : P(d)
    BY <2>1, <2>7
  <2> QED
    BY <1>12, <1>13, <2>8 DEF Lists, P
<1>15. Large(g, own2, D, prt, blk)
  BY <1>7, <1>8 DEF Large
<1>16. Headers(g, own2, D, prt, blk)
  BY <1>1, <1>8, <1>9, <1>10 DEF Headers
<1>17. Sound(g, own2, D, prt, blk, cnt2, at2)
  BY <1>7, <1>11, <1>14, <1>15, <1>16 DEF Sound, own2
<1>20. a \in Extent(a, blk[a])
  BY <1>1, <1>2, BlockWords DEF Extent
<1> QED
  BY <1>7, <1>9, <1>17, <1>20 DEF Released, g, own2

\* free_known_block, whatever the size of the block.
LEMMA KnownFreed ==
  ASSUME NEW h, NEW own, NEW D, NEW prt, NEW blk, NEW cnt, NEW at, Sound(h, own, D, prt, blk, cnt, at),
         NEW a \in DOMAIN own, NEW live, Recorded(live, Without(own, a), D, prt, blk)
  PROVE  Released(h, own, D, prt, blk, a, FreeKnown([h EXCEPT !.live = live], a, own[a]))
<1> DEFINE k == [h EXCEPT !.live = live]
<1>1. /\ Shape(k) /\ k.mem = h.mem /\ k.bump = h.bump /\ k.heads = h.heads
      /\ k.large_free = h.large_free /\ k.live = live
  BY DEF Sound, Shape
<1> HIDE DEF k
<1>2. /\ Layout(k, D, prt, blk) /\ Lists(k, own, D, prt, blk, cnt, at) /\ Large(k, own, D, prt, blk)
      /\ Headers(k, own, D, prt, blk)
  BY <1>1 DEF Sound, Layout, Lists, Large, Headers
<1>3. (own[a] \in Classes /\ a \notin prt) \/ own[a] > Threshold
  <2>1. a \in D /\ own[a] = blk[a] /\ (a \in prt => blk[a] > Threshold)
    BY DEF Sound, Headers, Recorded
  <2>2. a \notin prt => BlockSize(blk[a])
    BY <2>1 DEF Sound, Layout
  <2> QED
    BY <2>1, <2>2 DEF BlockSize
<1>4. Released(k, own, D, prt, blk, a, FreeKnown(k, a, own[a]))
  BY <1>1, <1>2, <1>3, LargeFreed, ClassFreed
<1>5. Released(h, own, D, prt, blk, a, FreeKnown(k, a, own[a]))
  BY <1>1, <1>4 DEF Released
<1> QED
  BY <1>5 DEF k

\* free_coherent of a block the guest holds.
LEMMA Freed ==
  ASSUME NEW h, NEW own, NEW D, NEW prt, NEW blk, NEW cnt, NEW at, Sound(h, own, D, prt, blk, cnt, at),
         NEW a \in DOMAIN own
  PROVE  Released(h, own, D, prt, blk, a, FreeCoherent(h, a))
<1>1. /\ a \in D /\ own[a] = blk[a] /\ (a \notin prt => h.mem[a - 1] = blk[a])
      /\ Recorded(h.live, own, D, prt, blk)
  BY DEF Sound, Headers
<1>2. DOMAIN Without(own, a) = DOMAIN own \ {a}
  BY DEF Without
<1>3. CASE a \in DOMAIN h.live
  <2>1. h.live[a] = own[a]
    BY <1>1, <1>3 DEF Recorded
  <2>2. FreeCoherent(h, a) = FreeKnown([h EXCEPT !.live = Without(h.live, a)], a, own[a])
    BY <1>3, <2>1 DEF FreeCoherent
  <2>3. /\ DOMAIN Without(h.live, a) = DOMAIN h.live \ {a}
        /\ \A b \in DOMAIN h.live : b # a => Without(h.live, a)[b] = h.live[b]
    BY DEF Without
  <2>4. Recorded(Without(h.live, a), Without(own, a), D, prt, blk)
    BY <1>1, <1>2, <2>3 DEF Recorded
  <2> QED
    BY <2>2, <2>4, KnownFreed
<1>4. CASE a \notin DOMAIN h.live
  <2>0. a \notin prt
    BY <1>1, <1>4 DEF Recorded
  <2>1. h.mem[a - 1] # 0
    BY <1>1, <2>0, BlockWords DEF Sound
  <2>2. FreeCoherent(h, a) = FreeKnown(h, a, own[a])
    BY <1>1, <1>4, <2>0, <2>1 DEF FreeCoherent
  <2>3. [h EXCEPT !.live = h.live] = h
    BY DEF Sound, Shape
  <2>4. Recorded(h.live, Without(own, a), D, prt, blk)
    BY <1>1, <1>2, <1>4 DEF Recorded
  <2>5. Released(h, own, D, prt, blk, a, FreeKnown([h EXCEPT !.live = h.live], a, own[a]))
    BY <2>4, KnownFreed
  <2> QED
    BY <2>2, <2>3, <2>5
<1> QED
  BY <1>3, <1>4

\* The helper's free of a block the guest holds.
LEMMA HelperFreed ==
  ASSUME Accel,
         NEW h, NEW own, NEW D, NEW prt, NEW blk, NEW cnt, NEW at, Sound(h, own, D, prt, blk, cnt, at),
         NEW a \in DOMAIN own, a \notin prt, h.mem[a - 1] \in Classes
  PROVE  Released(h, own, D, prt, blk, a, FreeKnown(h, a, h.mem[a - 1]))
<1>1. a \in D /\ own[a] = blk[a] /\ h.mem[a - 1] = blk[a] /\ Recorded(h.live, own, D, prt, blk)
  BY DEF Sound, Headers
<1>2. DOMAIN Without(own, a) = DOMAIN own \ {a}
  BY DEF Without
<1>3. Recorded(h.live, Without(own, a), D, prt, blk)
  BY <1>1, <1>2 DEF Recorded
<1>4. [h EXCEPT !.live = h.live] = h
  BY DEF Sound, Shape
<1>5. Released(h, own, D, prt, blk, a, FreeKnown([h EXCEPT !.live = h.live], a, own[a]))
  BY <1>3, KnownFreed
<1> QED
  BY <1>1, <1>4, <1>5

---------------------------------------------------------------------------
(* Zeroing and copying into a new block *)

\* What filling words of block b does to a result r: only words of the block change.
FilledAs(own, D, prt, blk, cnt, at, b, g, z) ==
  /\ z = [heap |-> z.heap, at |-> b, size |-> own[b]]
  /\ Sound(z.heap, own, D, prt, blk, cnt, at)
  /\ z.heap.live = g.live /\ z.heap.large_free = g.large_free
  /\ \A w \in Words : w \notin Extent(b, own[b]) => z.heap.mem[w] = g.mem[w]

\* Any such filling of words with numbers.
LEMMA FillResult ==
  ASSUME NEW g, NEW own, NEW D, NEW prt, NEW blk, NEW cnt, NEW at, Sound(g, own, D, prt, blk, cnt, at),
         NEW b \in DOMAIN own, NEW S, S \subseteq Extent(b, own[b]), NEW v,
         \A w \in Words \cap S : v[w] \in Nat,
         NEW z, z = [[heap |-> g, at |-> b, size |-> own[b]] EXCEPT
                       !.heap.mem = [w \in Words |-> IF w \in S THEN v[w] ELSE @[w]]]
  PROVE  FilledAs(own, D, prt, blk, cnt, at, b, g, z)
<1> DEFINE M == [w \in Words |-> IF w \in S THEN v[w] ELSE g.mem[w]]
           k == [g EXCEPT !.mem = M]
<1>1. Shape(g) /\ g.mem \in [Words -> Nat]
  BY DEF Sound, Shape
<1>2. M \in [Words -> Nat] /\ \A w \in Words : w \notin Extent(b, own[b]) => M[w] = g.mem[w]
  BY <1>1
<1>3. z = [heap |-> k, at |-> b, size |-> own[b]]
  OBVIOUS
<1> HIDE DEF M
<1>4. Sound(k, own, D, prt, blk, cnt, at)
  BY <1>2, Filled
<1>5. k.live = g.live /\ k.mem = M /\ k.large_free = g.large_free
  BY <1>1 DEF Shape
<1> HIDE DEF k
<1>6. z.heap = k
  BY <1>3
<1> QED
  BY <1>2, <1>3, <1>4, <1>5, <1>6 DEF FilledAs

\* HEAP_ZERO_MEMORY.
LEMMA ZeroResult ==
  ASSUME NEW g, NEW own, NEW D, NEW prt, NEW blk, NEW cnt, NEW at, Sound(g, own, D, prt, blk, cnt, at),
         NEW b \in DOMAIN own, NEW from \in Nat, NEW to \in Nat, to <= own[b],
         NEW r, r = [heap |-> g, at |-> b, size |-> own[b]]
  PROVE  FilledAs(own, D, prt, blk, cnt, at, b, g, Zeroed(r, from, to))
<1> DEFINE S == b + from .. b + to - 1
           v == [w \in Words |-> 0]
           z == [[heap |-> g, at |-> b, size |-> own[b]] EXCEPT
                       !.heap.mem = [w \in Words |-> IF w \in S THEN v[w] ELSE @[w]]]
<1>1. b \in Nat /\ own[b] \in Nat
  <2>1. b \in D /\ own[b] = blk[b]
    BY DEF Sound, Headers
  <2> QED
    BY <2>1, BlockWords DEF Sound
<1>2. S \subseteq Extent(b, own[b])
  BY <1>1 DEF Extent
<1>3. Zeroed(r, from, to) = z
  BY DEF Zeroed
<1>4. \A w \in Words \cap S : v[w] \in Nat
  OBVIOUS
<1> HIDE DEF S, v
<1>5. FilledAs(own, D, prt, blk, cnt, at, b, g, z)
  BY <1>2, <1>4, FillResult
<1> QED
  BY <1>3, <1>5

\* The copy of the old block's words.
LEMMA CopyResult ==
  ASSUME NEW g, NEW own, NEW D, NEW prt, NEW blk, NEW cnt, NEW at, Sound(g, own, D, prt, blk, cnt, at),
         NEW b \in DOMAIN own, NEW a \in Nat, NEW n \in Nat, n <= own[b],
         \A w \in a .. a + n - 1 : w \in Words,
         NEW r, r = [heap |-> g, at |-> b, size |-> own[b]]
  PROVE  FilledAs(own, D, prt, blk, cnt, at, b, g, Copied(r, a, n))
<1> DEFINE S == b .. b + n - 1
           v == [w \in Words |-> g.mem[a + w - b]]
           z == [[heap |-> g, at |-> b, size |-> own[b]] EXCEPT
                       !.heap.mem = [w \in Words |-> IF w \in S THEN v[w] ELSE @[w]]]
<1>1. b \in Nat /\ own[b] \in Nat
  <2>1. b \in D /\ own[b] = blk[b]
    BY DEF Sound, Headers
  <2> QED
    BY <2>1, BlockWords DEF Sound
<1>2. S \subseteq Extent(b, own[b])
  BY <1>1 DEF Extent
<1>3. Copied(r, a, n) = z
  BY DEF Copied
<1>4. ASSUME NEW w \in Words \cap S
      PROVE  v[w] \in Nat
  <2>1. w \in Int /\ a + w - b \in a .. a + n - 1
    BY <1>1, HeapAssumption, SMTT(30) DEF Words
  <2>2. g.mem \in [Words -> Nat]
    BY DEF Sound, Shape
  <2> QED
    BY <2>1, <2>2
<1> HIDE DEF S, v
<1>5. FilledAs(own, D, prt, blk, cnt, at, b, g, z)
  BY <1>2, <1>4, FillResult, ZenonT(30)
<1> QED
  BY <1>3, <1>5

---------------------------------------------------------------------------
(* The calls *)

\* Blocks the guest keeps holding keep their content, but for the word in front
\* of a part that is handed out or taken back.
Intact ==
  \A a \in DOMAIN owned \cap DOMAIN owned' : \A w \in Extent(a, owned[a]) :
    \/ heap'.mem[w] = heap.mem[w]
    \/ w + 1 \in parts /\ (w + 1 \in DOMAIN owned) # (w + 1 \in DOMAIN owned')

\* Two ways of saying that a block comes and another goes.
LEMMA SwapEntry ==
  ASSUME NEW f, NEW a, NEW b, NEW n, a # b
  PROVE  With(Without(f, a), b, n) = Without(With(f, b, n), a)
<1> DEFINE l == With(Without(f, a), b, n)
           r == Without(With(f, b, n), a)
           D == (DOMAIN f \ {a}) \cup {b}
           z == [x \in D |-> IF x = b THEN n ELSE f[x]]
<1>1. l = z
  BY DEF With, Without
<1>2. r = z
  BY DEF With, Without
<1> QED
  BY <1>1, <1>2

\* An entry that is not there can be taken away.
LEMMA NoEntry ==
  ASSUME NEW f, NEW a, a \notin DOMAIN f, NEW b, NEW n
  PROVE  With(Without(f, a), b, n) = With(f, b, n)
<1> DEFINE D == DOMAIN f \cup {b}
           z == [x \in D |-> IF x = b THEN n ELSE f[x]]
<1>1. DOMAIN f \ {a} = DOMAIN f
  OBVIOUS
<1>2. With(Without(f, a), b, n) = z
  BY <1>1 DEF With, Without
<1>3. With(f, b, n) = z
  BY DEF With
<1> QED
  BY <1>2, <1>3

\* The guest receives block a of n words, out of a heap in which nothing but that block changed.
LEMMA Receipt ==
  ASSUME NEW blk, NEW cnt, NEW at, Sound(heap, owned, Places, parts, blk, cnt, at),
         NEW a \in Nat \ {0}, a \notin DOMAIN owned, NEW n, NEW g, NEW blk2, NEW cnt2, NEW at2,
         Sound(g, With(owned, a, n), Places \cup {a} \cup Cut(g, Places), parts \cup Cut(g, Places),
               blk2, cnt2, at2),
         \A w \in Words : w # a - 1 /\ w \notin Extent(a, n) => g.mem[w] = heap.mem[w],
         Receives([heap |-> g, at |-> a, size |-> n], 0)
  PROVE  HeapSound' /\ Intact
<1> DEFINE own2 == With(owned, a, n)
           D2 == Places \cup {a} \cup Cut(g, Places)
           prt2 == parts \cup Cut(g, Places)
<1>1. /\ DOMAIN own2 = DOMAIN owned \cup {a} /\ own2[a] = n
      /\ \A b \in DOMAIN owned : b # a => own2[b] = owned[b]
  BY DEF With
<1>2. 0 \notin DOMAIN owned
  BY HeapAssumption DEF Sound, Headers, Layout
<1>3. /\ Shape(g) /\ Layout(g, D2, prt2, blk2) /\ DOMAIN own2 \subseteq D2
      /\ \A b \in DOMAIN own2 : own2[b] = blk2[b]
  BY DEF Sound, Headers
<1>4. blk2[a] = n /\ a \notin Cut(g, Places)
  <2>1. \A f \in g.large_free : f.address \notin DOMAIN own2
    BY DEF Sound, Large
  <2> QED
    BY <1>1, <1>3, <2>1 DEF Cut
<1>5. heap' = g /\ given' = given \cup {a} /\ parts' = prt2
  <2>1. heap' = g /\ given' = given \cup ({a} \ {0})
        /\ parts' = parts \cup ({f.address : f \in g.large_free} \ given)
    BY DEF Receives
  <2> QED
    BY <2>1 DEF Cut, Places
<1>6. owned' = With(Without(owned, 0), a, n)
  BY DEF Receives
<1>7. owned' = own2
  BY <1>2, <1>6, NoEntry
<1>8. Places' = D2
  BY <1>5 DEF Places
<1> HIDE DEF own2, D2, prt2
<1>9. Sound(heap', owned', Places', parts', blk2, cnt2, at2)
  BY <1>5, <1>7, <1>8 DEF own2, D2, prt2
<1>10. HeapSound'
  BY <1>9 DEF HeapSound
<1>11. ASSUME NEW b \in DOMAIN owned, NEW w \in Extent(b, owned[b])
       PROVE  \/ heap'.mem[w] = heap.mem[w]
              \/ w + 1 \in parts /\ (w + 1 \in DOMAIN owned) # (w + 1 \in DOMAIN owned')
  <2>1. b # a /\ b \in D2 /\ a \in D2 /\ owned[b] = blk2[b]
    BY <1>1, <1>3
  <2>2. b \in Nat /\ blk2[b] \in Nat /\ w \in Words
    BY <1>3, <2>1, BlockWords
  <2>3. w \notin Extent(a, n) /\ (a \notin prt2 => w # a - 1)
    BY <1>3, <1>4, <2>1, BlocksApart
  <2>4. CASE w # a - 1
    BY <1>5, <2>2, <2>3, <2>4
  <2>5. CASE w = a - 1
    <3>1. a \in parts
      BY <1>4, <2>3, <2>5 DEF prt2
    <3>2. w + 1 = a
      BY <2>5
    <3> QED
      BY <1>1, <1>7, <3>1, <3>2
  <2> QED
    BY <2>4, <2>5
<1> QED
  BY <1>10, <1>11 DEF Intact

\* HeapAlloc on the host path.
LEMMA HeapAllocStep ==
  ASSUME HeapSound, NEW size \in Requests, HeapAlloc(size)
  PROVE  HeapSound' /\ Intact
<1> DEFINE n == RoundUp(size)
<1>1. PICK blk, cnt, at : Sound(heap, owned, Places, parts, blk, cnt, at)
  BY DEF HeapSound
<1>2. PICK r \in AllocCoherent(heap, size), zero \in BOOLEAN :
        Receives(IF zero /\ r.at # 0 THEN Zeroed(r, 0, r.heap.live[r.at]) ELSE r, 0)
  BY DEF HeapAlloc
<1> HIDE DEF n
<1>3. CASE r.at = 0 /\ r.heap = heap
  <2>1. heap' = heap /\ owned' = owned /\ given' = given
        /\ parts' = parts \cup ({f.address : f \in heap.large_free} \ given)
    BY <1>2, <1>3 DEF Receives
  <2>2. Cut(heap, Places) = {}
    BY <1>1, NothingCut DEF Sound
  <2>3. parts' = parts /\ Places' = Places
    BY <2>1, <2>2 DEF Cut, Places
  <2> QED
    BY <1>1, <2>1, <2>3 DEF HeapSound, Intact
<1>4. ASSUME NEW blk2, NEW cnt2, TakenAs(heap, owned, Places, parts, blk, at, r, n, blk2, cnt2)
      PROVE  HeapSound' /\ Intact
  <2> DEFINE a == r.at
             g == r.heap
             own2 == With(owned, a, n)
             D2 == Places \cup {a} \cup Cut(g, Places)
             prt2 == parts \cup Cut(g, Places)
  <2>1. /\ r = [heap |-> g, at |-> a, size |-> n] /\ a \in Nat \ {0} /\ a \notin DOMAIN owned
        /\ Sound(g, own2, D2, prt2, blk2, cnt2, at)
        /\ g.mem = [heap.mem EXCEPT ![a - 1] = n] /\ g.live = With(heap.live, a, n)
    BY <1>4 DEF TakenAs
  <2>2. a \in DOMAIN own2 /\ own2[a] = n /\ g.live[a] = n
    BY <2>1 DEF With
  <2>3. n \in Nat
    BY RoundUpBlock DEF n
  <2> HIDE DEF a, g, D2, prt2
  <2>4. \A w \in Words : w # a - 1 => g.mem[w] = heap.mem[w]
    BY <1>1, <2>1 DEF Sound, Shape
  <2>5. CASE zero
    <3> DEFINE z == Zeroed(r, 0, n)
    <3>1. FilledAs(own2, D2, prt2, blk2, cnt2, at, a, g, z)
      BY <2>1, <2>2, <2>3, ZeroResult
    <3>2. Receives(z, 0)
      BY <1>2, <2>1, <2>2, <2>5 DEF a, g
    <3> HIDE DEF z, own2
    <3>3. /\ z = [heap |-> z.heap, at |-> a, size |-> n]
          /\ Sound(z.heap, own2, D2, prt2, blk2, cnt2, at) /\ z.heap.large_free = g.large_free
      BY <2>2, <3>1 DEF FilledAs
    <3>4. \A w \in Words : w # a - 1 /\ w \notin Extent(a, n) => z.heap.mem[w] = heap.mem[w]
      BY <2>2, <2>4, <3>1 DEF FilledAs
    <3>5. Receives([heap |-> z.heap, at |-> a, size |-> n], 0)
      BY <3>2, <3>3
    <3>6. Cut(z.heap, Places) = Cut(g, Places)
      BY <3>3 DEF Cut
    <3>7. Sound(z.heap, With(owned, a, n), Places \cup {a} \cup Cut(z.heap, Places),
                parts \cup Cut(z.heap, Places), blk2, cnt2, at)
      BY <3>3, <3>6 DEF own2, D2, prt2
    <3> QED
      BY <1>1, <2>1, <3>4, <3>5, <3>7, Receipt
  <2>6. CASE ~zero
    <3>1. Receives([heap |-> g, at |-> a, size |-> n], 0)
      BY <1>2, <2>1, <2>6
    <3>2. \A w \in Words : w # a - 1 /\ w \notin Extent(a, n) => g.mem[w] = heap.mem[w]
      BY <2>4
    <3>3. Sound(g, With(owned, a, n), Places \cup {a} \cup Cut(g, Places),
                parts \cup Cut(g, Places), blk2, cnt2, at)
      BY <2>1 DEF D2, prt2
    <3>4. a \in Nat \ {0} /\ a \notin DOMAIN owned
      BY <2>1
    <3> HIDE DEF own2
    <3> QED
      BY <1>1, <3>1, <3>2, <3>3, <3>4, Receipt
  <2> QED
    BY <2>5, <2>6
<1>5. \/ r.at = 0 /\ r.heap = heap
      \/ \E blk2, cnt2 : TakenAs(heap, owned, Places, parts, blk, at, r, n, blk2, cnt2)
  BY <1>1, AllocOutcome DEF n
<1> QED
  BY <1>3, <1>4, <1>5

\* HeapAlloc in the guest: the host's record is not changed.
LEMMA GuestHeapAllocStep ==
  ASSUME HeapSound, NEW size \in Requests, GuestHeapAlloc(size)
  PROVE  HeapSound' /\ Intact
<1> DEFINE n == RoundUp(size)
           r == AllocClass(heap, n)
<1>1. PICK blk, cnt, at : Sound(heap, owned, Places, parts, blk, cnt, at)
  BY DEF HeapSound
<1>2. Accel /\ r.at # 0 /\ Receives([r EXCEPT !.heap.live = heap.live], 0) /\ n <= Threshold
  BY DEF GuestHeapAlloc
<1>3. n \in Classes /\ n \in Nat
  <2>1. BlockSize(n)
    BY RoundUpBlock
  <2> HIDE DEF n
  <2> QED
    BY <1>2, <2>1, ThresholdFacts DEF BlockSize
<1> HIDE DEF n
<1>4. PICK blk2, cnt2 : TakenAs(heap, owned, Places, parts, blk, at, r, n, blk2, cnt2)
  BY <1>1, <1>2, <1>3, ClassOutcome
<1> DEFINE a == r.at
           g == r.heap
           k == [g EXCEPT !.live = heap.live]
           own2 == With(owned, a, n)
           D2 == Places \cup {a}
<1> HIDE DEF r
<1>5. /\ r = [heap |-> g, at |-> a, size |-> n] /\ a \in Nat \ {0} /\ a \notin DOMAIN owned
      /\ Sound(g, own2, Places \cup {a} \cup Cut(g, Places), parts \cup Cut(g, Places),
               blk2, cnt2, at)
      /\ g.mem = [heap.mem EXCEPT ![a - 1] = n]
      /\ a \notin parts /\ Cut(g, Places) = {} /\ \A b \in Places : blk2[b] = blk[b]
  BY <1>3, <1>4 DEF TakenAs
<1> HIDE DEF a, g
<1>6. /\ DOMAIN own2 = DOMAIN owned \cup {a}
      /\ Places \cup {a} \cup {} = D2 /\ parts \cup {} = parts
  BY DEF With
<1>7. Sound(g, own2, D2, parts, blk2, cnt2, at)
  BY <1>5, <1>6
<1>8. Recorded(heap.live, own2, D2, parts, blk2)
  <2>1. Recorded(heap.live, owned, Places, parts, blk) /\ DOMAIN owned \subseteq Places
    BY <1>1 DEF Sound, Headers
  <2> QED
    BY <1>5, <1>6, <2>1 DEF Recorded
<1> HIDE DEF own2
<1>9. Sound(k, own2, D2, parts, blk2, cnt2, at)
  BY <1>7, <1>8, OtherRecord
<1>10. k.mem = g.mem /\ k.large_free = g.large_free
  BY <1>7 DEF Sound, Shape
<1>11. \A w \in Words : w # a - 1 => k.mem[w] = heap.mem[w]
  BY <1>1, <1>5, <1>10 DEF Sound, Shape
<1>12. Receives([heap |-> k, at |-> a, size |-> n], 0)
  BY <1>2, <1>5
<1>13. Cut(k, Places) = {}
  BY <1>5, <1>10 DEF Cut
<1> HIDE DEF k
<1>14. Sound(k, With(owned, a, n), Places \cup {a} \cup Cut(k, Places), parts \cup Cut(k, Places),
             blk2, cnt2, at)
  BY <1>6, <1>9, <1>13 DEF own2
<1> QED
  BY <1>1, <1>5, <1>11, <1>12, <1>14, Receipt

\* The guest gives a block back.
LEMMA ReleaseStep ==
  ASSUME NEW blk, NEW cnt, NEW at, Sound(heap, owned, Places, parts, blk, cnt, at),
         NEW a \in DOMAIN owned, Released(heap, owned, Places, parts, blk, a, heap'),
         owned' = Without(owned, a), given' = given, parts' = parts
  PROVE  HeapSound' /\ Intact
<1>0. Places' = Places
  BY DEF Places
<1>1. PICK cnt2, at2 : Sound(heap', owned', Places', parts', blk, cnt2, at2)
  BY <1>0 DEF Released
<1>2. HeapSound'
  BY <1>1 DEF HeapSound
<1>3. ASSUME NEW b \in DOMAIN owned \cap DOMAIN owned', NEW w \in Extent(b, owned[b])
      PROVE  \/ heap'.mem[w] = heap.mem[w]
             \/ w + 1 \in parts /\ (w + 1 \in DOMAIN owned) # (w + 1 \in DOMAIN owned')
  <2>1. b # a /\ a \notin DOMAIN owned'
    BY DEF Without
  <2>2. /\ a \in Places /\ b \in Places /\ owned[b] = blk[b]
        /\ Shape(heap) /\ Layout(heap, Places, parts, blk)
    BY DEF Sound, Headers
  <2>3. w \in Words /\ a \in Nat
    BY <2>2, BlockWords
  <2>4. w \notin Extent(a, blk[a]) /\ (a \notin parts => w # a - 1)
    BY <2>1, <2>2, BlocksApart
  <2>5. CASE w # a - 1
    BY <2>3, <2>4, <2>5 DEF Released
  <2>6. CASE w = a - 1
    <3>1. w + 1 = a
      BY <2>3, <2>6
    <3> QED
      BY <2>1, <2>4, <2>6, <3>1
  <2> QED
    BY <2>5, <2>6
<1> QED
  BY <1>2, <1>3 DEF Intact

\* HeapFree on the host path; a second free is recognised and changes nothing,
\* or is one that should not have been served.
LEMMA HeapFreeStep ==
  ASSUME HeapSound, NEW a \in given, HeapFree(a)
  PROVE  /\ Misfree(heap, a) => Accel \/ parts # {}
         /\ ~Misfree(heap, a) => HeapSound' /\ Intact
<1>1. PICK blk, cnt, at : Sound(heap, owned, Places, parts, blk, cnt, at)
  BY DEF HeapSound
<1>2. /\ heap' = FreeCoherent(heap, a) /\ owned' = Without(owned, a)
      /\ given' = given /\ parts' = parts /\ Places' = Places
  BY DEF HeapFree, Places
<1>3. ASSUME a \in DOMAIN owned PROVE HeapSound' /\ Intact
  BY <1>1, <1>2, <1>3, Freed, ReleaseStep
<1>4. ASSUME Misfree(heap, a) PROVE Accel \/ parts # {}
  <2>1. CASE a \in DOMAIN heap.live
    BY <1>1, <1>4, <2>1 DEF Sound, Recorded, Misfree
  <2>2. CASE a \notin DOMAIN heap.live
    BY <1>4, <2>2 DEF Misfree
  <2> QED
    BY <1>4, <2>1, <2>2
<1>5. ASSUME a \notin DOMAIN owned, ~Misfree(heap, a) PROVE HeapSound' /\ Intact
  <2>1. a \notin DOMAIN heap.live
    BY <1>5 DEF Misfree
  <2>2. heap.mem[a - 1] = 0
    <3>1. CASE a \in parts
      BY <1>5, <2>1, <3>1 DEF Misfree
    <3>2. CASE a \notin parts
      BY <1>1, <1>5, <3>2 DEF Sound, Headers, Places
    <3> QED
      BY <3>1, <3>2
  <2>3. heap' = heap
    BY <1>2, <2>1, <2>2 DEF FreeCoherent
  <2>4. DOMAIN owned' = DOMAIN owned /\ \A b \in DOMAIN owned : owned'[b] = owned[b]
    BY <1>2, <1>5 DEF Without
  <2>5. Sound(heap, owned', Places, parts, blk, cnt, at)
    <3>1. Lists(heap, owned', Places, parts, blk, cnt, at)
      BY <1>1, <2>4 DEF Sound, Lists
    <3>2. Large(heap, owned', Places, parts, blk) /\ Headers(heap, owned', Places, parts, blk)
      BY <1>1, <2>4 DEF Sound, Large, Headers
    <3>3. Recorded(heap.live, owned', Places, parts, blk)
      BY <1>1, <2>4 DEF Sound, Recorded
    <3> QED
      BY <1>1, <3>1, <3>2, <3>3 DEF Sound
  <2>6. Sound(heap', owned', Places', parts', blk, cnt, at)
    BY <1>2, <2>3, <2>5
  <2> QED
    BY <2>3, <2>6 DEF HeapSound, Intact
<1> QED
  BY <1>3, <1>4, <1>5

\* HeapFree in the guest: the header of a block that is no part shows whether it is held.
LEMMA GuestHeapFreeStep ==
  ASSUME HeapSound, NEW a \in given, GuestHeapFree(a), a \notin parts
  PROVE  HeapSound' /\ Intact
<1>1. PICK blk, cnt, at : Sound(heap, owned, Places, parts, blk, cnt, at)
  BY DEF HeapSound
<1>2. /\ Accel /\ heap.mem[a - 1] \in Classes
      /\ heap' = FreeKnown(heap, a, heap.mem[a - 1])
      /\ owned' = Without(owned, a) /\ given' = given /\ parts' = parts
  BY DEF GuestHeapFree
<1>3. a \in DOMAIN owned
  <2>1. a \notin DOMAIN owned => heap.mem[a - 1] = 0
    BY <1>1 DEF Sound, Headers, Places
  <2> QED
    BY <1>2, <2>1, HeapAssumption
<1> QED
  BY <1>1, <1>2, <1>3, HelperFreed, ReleaseStep

\* A store of the guest into a block it holds.
LEMMA GuestWriteStep ==
  ASSUME HeapSound, NEW a \in given, NEW w \in Words, GuestWrite(a, w)
  PROVE  HeapSound'
<1> DEFINE M == [heap.mem EXCEPT ![w] = Data]
<1>1. PICK blk, cnt, at : Sound(heap, owned, Places, parts, blk, cnt, at)
  BY DEF HeapSound
<1>2. /\ a \in DOMAIN owned /\ w \in Extent(a, owned[a]) /\ heap' = [heap EXCEPT !.mem[w] = Data]
      /\ owned' = owned /\ parts' = parts /\ Places' = Places
  BY DEF GuestWrite, Extent, Places
<1>3. heap.mem \in [Words -> Nat] /\ Shape(heap)
  BY <1>1 DEF Sound, Shape
<1>4. M \in [Words -> Nat] /\ \A x \in Words : x \notin Extent(a, owned[a]) => M[x] = heap.mem[x]
  BY <1>2, <1>3, HeapAssumption
<1>5. heap' = [heap EXCEPT !.mem = M]
  BY <1>2
<1> HIDE DEF M
<1>6. Sound([heap EXCEPT !.mem = M], owned, Places, parts, blk, cnt, at)
  BY <1>1, <1>2, <1>4, Filled
<1>7. Sound(heap', owned', Places', parts', blk, cnt, at)
  BY <1>2, <1>5, <1>6
<1> QED
  BY <1>7 DEF HeapSound

\* HeapReAlloc to another block: take, copy, zero, give back.  The free at its
\* end is of a block that is held, with the size it has.
LEMMA ReAllocMoveStep ==
  ASSUME HeapSound, NEW size \in Requests, NEW a \in given, ReAllocMove(a, size)
  PROVE  HeapSound' /\ Intact /\ (misfreed' <=> misfreed)
<1> DEFINE n == RoundUp(size)
           q == Lesser(OldSize(a), size)
<1>1. PICK blk, cnt, at : Sound(heap, owned, Places, parts, blk, cnt, at)
  BY DEF HeapSound
<1>2. a \in DOMAIN owned
  BY DEF ReAllocMove
<1>3. PICK r \in AllocCoherent(heap, size), zero \in BOOLEAN :
        LET full == IF zero THEN Zeroed(Copied(r, a, q), OldSize(a), size) ELSE Copied(r, a, q)
        IN  IF r.at = 0 THEN UNCHANGED <<heap, owned, given, parts, misfreed>>
            ELSE /\ Receives([full EXCEPT !.heap = FreeCoherent(@, a)], a)
                 /\ misfreed' = (misfreed \/ Misfree(full.heap, a))
  BY DEF ReAllocMove
<1>4. /\ OldSize(a) = owned[a] /\ owned[a] = blk[a] /\ owned[a] \in Nat /\ a \in Nat /\ a \in Places
      /\ \A w \in Extent(a, owned[a]) : w \in Words
      /\ a \in parts => a \in DOMAIN heap.live
  <2>1. /\ a \in Places /\ owned[a] = blk[a] /\ (a \notin parts => heap.mem[a - 1] = blk[a])
        /\ a \in parts => a \in DOMAIN heap.live
    BY <1>1, <1>2 DEF Sound, Headers, Recorded
  <2>2. a \in DOMAIN heap.live => heap.live[a] = blk[a]
    BY <1>1 DEF Sound, Recorded
  <2>3. blk[a] \in Nat /\ a \in Nat /\ \A w \in Extent(a, blk[a]) : w \in Words
    BY <1>1, <2>1, BlockWords DEF Sound
  <2> QED
    BY <2>1, <2>2, <2>3 DEF OldSize
<1>5. size \in Nat /\ size > 0 /\ n \in Nat /\ size <= n
  BY HeapAssumption, RoundUpFacts
<1>6. q \in Nat /\ q <= owned[a] /\ q <= n
  BY <1>4, <1>5 DEF Lesser
<1> HIDE DEF n, q
<1>7. CASE r.at = 0
  <2>1. heap' = heap /\ owned' = owned /\ given' = given /\ parts' = parts /\ (misfreed' <=> misfreed)
    BY <1>3, <1>7
  <2> QED
    BY <1>1, <2>1 DEF HeapSound, Intact, Places
<1>8. ASSUME NEW blk2, NEW cnt2, TakenAs(heap, owned, Places, parts, blk, at, r, n, blk2, cnt2)
      PROVE  HeapSound' /\ Intact /\ (misfreed' <=> misfreed)
  <2> DEFINE b == r.at
             g == r.heap
             own2 == With(owned, b, n)
             D2 == Places \cup {b} \cup Cut(g, Places)
             prt2 == parts \cup Cut(g, Places)
             y == Copied(r, a, q)
             z == IF zero THEN Zeroed(y, OldSize(a), size) ELSE y
             k == FreeCoherent(z.heap, a)
  <2>1. /\ r = [heap |-> g, at |-> b, size |-> n] /\ b \in Nat \ {0} /\ b \notin DOMAIN owned
        /\ Sound(g, own2, D2, prt2, blk2, cnt2, at)
        /\ g.mem = [heap.mem EXCEPT ![b - 1] = n] /\ g.live = With(heap.live, b, n)
    BY <1>8 DEF TakenAs
  <2>2. /\ DOMAIN own2 = DOMAIN owned \cup {b} /\ own2[b] = n
        /\ \A x \in DOMAIN owned : x # b => own2[x] = owned[x]
    BY DEF With
  <2>3. heap.mem \in [Words -> Nat]
    BY <1>1 DEF Sound, Shape
  <2>4. /\ Receives([z EXCEPT !.heap = FreeCoherent(@, a)], a)
        /\ misfreed' = (misfreed \/ Misfree(z.heap, a))
    BY <1>3, <2>1
  <2> HIDE DEF b, g, own2, D2, prt2
  <2>5. \A w \in Words : w # b - 1 => g.mem[w] = heap.mem[w]
    BY <2>1, <2>3
  <2>6. FilledAs(own2, D2, prt2, blk2, cnt2, at, b, g, y)
    <3>1. \A w \in a .. a + q - 1 : w \in Words
      BY <1>4, <1>6 DEF Extent
    <3> QED
      BY <1>4, <1>6, <2>1, <2>2, <3>1, CopyResult
  <2> HIDE DEF y
  <2>7. /\ z = [heap |-> z.heap, at |-> b, size |-> n] /\ Sound(z.heap, own2, D2, prt2, blk2, cnt2, at)
        /\ z.heap.live = g.live /\ z.heap.large_free = g.large_free
        /\ \A w \in Words : w # b - 1 /\ w \notin Extent(b, n) => z.heap.mem[w] = heap.mem[w]
    <3>1. /\ y = [heap |-> y.heap, at |-> b, size |-> n]
          /\ Sound(y.heap, own2, D2, prt2, blk2, cnt2, at)
          /\ y.heap.live = g.live /\ y.heap.large_free = g.large_free
          /\ \A w \in Words : w \notin Extent(b, n) => y.heap.mem[w] = g.mem[w]
      BY <2>2, <2>6 DEF FilledAs
    <3>2. CASE ~zero
      BY <2>5, <3>1, <3>2
    <3>3. CASE zero
      <4>1. z = Zeroed(y, owned[a], size)
        BY <1>4, <3>3
      <4>2. FilledAs(own2, D2, prt2, blk2, cnt2, at, b, y.heap, Zeroed(y, owned[a], size))
        BY <1>4, <1>5, <2>2, <3>1, ZeroResult
      <4> HIDE DEF z
      <4> QED
        BY <2>2, <2>5, <3>1, <4>1, <4>2 DEF FilledAs
    <3> QED
      BY <3>2, <3>3
  <2> HIDE DEF z
  <2>8. a # b /\ a \in DOMAIN own2
    BY <1>2, <2>1, <2>2
  <2>9. Released(z.heap, own2, D2, prt2, blk2, a, k)
    BY <2>7, <2>8, Freed
  <2>10. [z EXCEPT !.heap = FreeCoherent(@, a)] = [heap |-> k, at |-> b, size |-> n]
    BY <2>7
  <2>18. misfreed' <=> misfreed
    <3>1. DOMAIN z.heap.live = DOMAIN heap.live \cup {b}
      BY <2>1, <2>7 DEF With
    <3>2. ~Misfree(z.heap, a)
      BY <1>2, <1>4, <3>1 DEF Misfree
    <3> QED
      BY <2>4, <3>2
  <2> HIDE DEF k
  <2>11. PICK cnt3, at3 : Sound(k, Without(own2, a), D2, prt2, blk2, cnt3, at3)
    BY <2>9 DEF Released
  <2>12. /\ Shape(z.heap) /\ Layout(z.heap, D2, prt2, blk2) /\ DOMAIN own2 \subseteq D2
         /\ \A x \in DOMAIN own2 : own2[x] = blk2[x]
    BY <2>7 DEF Sound, Headers
  <2>13. a \in D2 /\ b \in D2 /\ b \in DOMAIN own2 /\ blk2[b] = n /\ b \notin Cut(g, Places)
    <3>1. \A f \in g.large_free : f.address \notin DOMAIN own2
      BY <2>1 DEF Sound, Large
    <3> QED
      BY <2>2, <2>8, <2>12, <3>1 DEF Cut
  <2>14. parts' = prt2 /\ heap' = k /\ given' = given \cup {b} /\ owned' = With(Without(owned, a), b, n)
    <3>1. /\ heap' = k /\ given' = given \cup ({b} \ {0})
          /\ parts' = parts \cup ({f.address : f \in k.large_free} \ given)
          /\ owned' = With(Without(owned, a), b, n)
      BY <2>1, <2>4, <2>10 DEF Receives
    <3>2. z.heap.large_free \subseteq k.large_free
      BY <2>9 DEF Released
    <3>3. \A f \in k.large_free : f.address \in D2 /\ f.address \notin DOMAIN Without(own2, a)
      BY <2>11 DEF Sound, Large
    <3>4. b \in DOMAIN Without(own2, a)
      BY <2>2, <2>8 DEF Without
    <3>5. ASSUME NEW x \in parts' PROVE x \in prt2
      <4>1. CASE x \in parts
        BY <4>1 DEF prt2
      <4>2. ASSUME NEW f \in k.large_free, x = f.address, x \notin given
            PROVE  x \in prt2
        BY <3>3, <3>4, <4>2 DEF D2, prt2, Places
      <4> QED
        BY <3>1, <4>1, <4>2
    <3>6. ASSUME NEW x \in prt2 PROVE x \in parts'
      BY <2>7, <3>1, <3>2 DEF prt2, Cut, Places
    <3> QED
      BY <2>1, <3>1, <3>5, <3>6
  <2>15. Places' = D2
    BY <2>14 DEF Places, D2, prt2
  <2>16. owned' = Without(own2, a)
    BY <2>8, <2>14, SwapEntry DEF own2
  <2>17. HeapSound'
    <3>1. Sound(heap', owned', Places', parts', blk2, cnt3, at3)
      BY <2>11, <2>14, <2>15, <2>16
    <3> QED
      BY <3>1 DEF HeapSound
  <2>19. ASSUME NEW x \in DOMAIN owned \cap DOMAIN owned', NEW w \in Extent(x, owned[x])
         PROVE  \/ heap'.mem[w] = heap.mem[w]
                \/ w + 1 \in parts /\ (w + 1 \in DOMAIN owned) # (w + 1 \in DOMAIN owned')
    <3>1. x # a /\ DOMAIN owned' = DOMAIN own2 \ {a}
      BY <2>16 DEF Without
    <3>2. x # b /\ x \in D2 /\ owned[x] = blk2[x]
      BY <2>1, <2>2, <2>12
    <3>3. w \in Words
      BY <2>12, <3>2, BlockWords
    <3>4. w \notin Extent(a, blk2[a]) /\ (a \notin prt2 => w # a - 1)
      BY <2>12, <2>13, <3>1, <3>2, BlocksApart
    <3>5. w \notin Extent(b, n) /\ (b \notin prt2 => w # b - 1)
      BY <2>12, <2>13, <3>2, BlocksApart
    <3>6. CASE w # a - 1 /\ w # b - 1
      <4>1. z.heap.mem[w] = heap.mem[w]
        BY <2>7, <3>3, <3>5, <3>6
      <4>2. k.mem[w] = z.heap.mem[w]
        BY <2>9, <3>3, <3>4, <3>6 DEF Released
      <4> QED
        BY <2>14, <4>1, <4>2
    <3>7. CASE w = a - 1
      <4>1. a \in parts
        <5>1. a \notin Cut(g, Places)
          BY <1>4 DEF Cut
        <5> QED
          BY <3>4, <3>7, <5>1 DEF prt2
      <4>2. w + 1 = a
        BY <1>4, <3>7
      <4> QED
        BY <1>2, <3>1, <4>1, <4>2
    <3>8. CASE w = b - 1
      <4>1. b \in parts
        BY <2>13, <3>5, <3>8 DEF prt2
      <4>2. w + 1 = b
        BY <2>1, <3>8
      <4> QED
        BY <2>1, <2>2, <2>8, <3>1, <4>1, <4>2
    <3> QED
      BY <3>6, <3>7, <3>8
  <2> QED
    BY <2>17, <2>18, <2>19 DEF Intact
<1>9. \/ r.at = 0 /\ r.heap = heap
      \/ \E blk2, cnt2 : TakenAs(heap, owned, Places, parts, blk, at, r, n, blk2, cnt2)
  BY <1>1, AllocOutcome DEF n
<1> QED
  BY <1>7, <1>8, <1>9

---------------------------------------------------------------------------
(* The free lists *)

\* A free list is no longer than the region.
LEMMA ListFits ==
  ASSUME NEW blk, NEW cnt, NEW at, Sound(heap, owned, Places, parts, blk, cnt, at), NEW c \in Classes
  PROVE  cnt[c] \in Nat /\ cnt[c] <= End
<1> DEFINE f == [i \in 1 .. cnt[c] |-> at[c][i]]
<1>1. cnt[c] \in Nat /\ Lists(heap, owned, Places, parts, blk, cnt, at)
  BY DEF Sound, Lists
<1>2. \A i \in 1 .. cnt[c] : at[c][i] \in Words
  <2> TAKE i \in 1 .. cnt[c]
  <2>1. at[c][i] \in Places
    BY <1>1 DEF Lists
  <2> QED
    BY <2>1, BlockWords DEF Sound
<1>3. f \in Injection(1 .. cnt[c], Words)
  BY <1>1, <1>2 DEF Lists, Injection, IsInjective
<1>4. IsFiniteSet(Words) /\ Cardinality(Words) <= End
  <2>1. IsFiniteSet(Base .. End - 1)
        /\ Cardinality(Base .. End - 1) = IF Base > End - 1 THEN 0 ELSE End - 1 - Base + 1
    BY HeapAssumption, FS_Interval
  <2> QED
    BY <2>1, HeapAssumption DEF Words
<1>5. Cardinality(1 .. cnt[c]) = cnt[c]
  BY <1>1, FS_Interval
<1>6. Cardinality(1 .. cnt[c]) <= Cardinality(Words)
  BY <1>3, <1>4, FS_Injection
<1>7. Cardinality(Words) \in Nat
  BY <1>4, FS_CardinalityType
<1> QED
  BY <1>1, <1>4, <1>5, <1>6, <1>7, HeapAssumption

\* Following the links of a class visits the blocks of its list and ends at 0.
LEMMA WalkIsList ==
  ASSUME NEW blk, NEW cnt, NEW at, Sound(heap, owned, Places, parts, blk, cnt, at), NEW c \in Classes
  PROVE  Walk(c) = <<{at[c][i] : i \in 1 .. cnt[c]}, 0>>
<1> DEFINE N == cnt[c]
           L == at[c]
           Some(n) == {L[i] : i \in N - n + 1 .. N}
           G == [n \in 0 .. End |-> IF n < N THEN <<Some(n), L[N - n]>>
                                    ELSE <<{L[i] : i \in 1 .. N}, 0>>]
           Steps[n \in 0 .. End] ==
             IF n = 0 THEN <<{}, heap.heads[c]>>
             ELSE LET r == Steps[n - 1] IN
                    IF r[2] \in Words /\ r[2] \notin r[1]
                      THEN <<r[1] \cup {r[2]}, heap.mem[r[2]]>> ELSE r
<1>1. Walk(c) = Steps[End]
  BY DEF Walk
<1>2. N \in Nat /\ N <= End /\ End \in Nat
  BY ListFits, HeapAssumption
<1>3. /\ heap.heads[c] = IF N = 0 THEN 0 ELSE L[N]
      /\ \A i \in 1 .. N : L[i] \in Places /\ heap.mem[L[i]] = IF i = 1 THEN 0 ELSE L[i - 1]
      /\ \A i, j \in 1 .. N : L[i] = L[j] => i = j
  BY DEF Sound, Lists
<1>4. \A i \in 1 .. N : L[i] \in Words
  BY <1>3, BlockWords DEF Sound
<1>5. 0 \notin Words
  BY HeapAssumption DEF Words
<1> HIDE DEF N, L
<1>6. G[0] = <<{}, heap.heads[c]>>
  <2>1. CASE N = 0
    <3>1. {L[i] : i \in 1 .. N} = {}
      BY <2>1
    <3> QED
      BY <1>2, <1>3, <2>1, <3>1
  <2>2. CASE N # 0
    <3>1. Some(0) = {}
      BY <1>2
    <3>2. 0 < N /\ N - 0 = N
      BY <1>2, <2>2
    <3> QED
      BY <1>2, <1>3, <2>2, <3>1, <3>2
  <2> QED
    BY <2>1, <2>2
<1>7. ASSUME NEW n \in 1 .. End, NEW r, r = G[n - 1]
      PROVE  G[n] = IF r[2] \in Words /\ r[2] \notin r[1]
                      THEN <<r[1] \cup {r[2]}, heap.mem[r[2]]>> ELSE r
  <2>1. n \in Nat /\ n > 0 /\ n - 1 \in 0 .. End /\ n \in 0 .. End
    BY <1>2
  <2>2. CASE n - 1 < N
    <3> DEFINE m == N - (n - 1)
    <3>1. m \in 1 .. N /\ m \in Nat
      BY <1>2, <2>1, <2>2
    <3>2. r = <<Some(n - 1), L[m]>>
      BY <1>7, <2>1, <2>2
    <3>3. L[m] \notin Some(n - 1)
      <4>1. \A i \in N - (n - 1) + 1 .. N : i \in 1 .. N /\ i # m
        BY <1>2, <2>1, <3>1
      <4> HIDE DEF m
      <4> QED
        BY <1>3, <3>1, <4>1
    <3>4. Some(n - 1) \cup {L[m]} = Some(n)
      <4>1. N - n + 1 = m /\ N - (n - 1) + 1 = m + 1
        BY <1>2, <2>1
      <4> HIDE DEF m
      <4>2. m .. N = (m + 1 .. N) \cup {m}
        BY <1>2, <3>1
      <4> QED
        BY <4>1, <4>2
    <3>5. L[m] \in Words
      BY <1>4, <3>1
    <3>6. heap.mem[L[m]] = IF m = 1 THEN 0 ELSE L[m - 1]
      BY <1>3, <3>1
    <3>7. G[n] = <<Some(n), heap.mem[L[m]]>>
      <4>1. CASE n < N
        <5>1. m # 1 /\ m - 1 = N - n
          BY <1>2, <2>1, <4>1
        <5> QED
          BY <2>1, <3>6, <4>1, <5>1
      <4>2. CASE ~(n < N)
        <5>1. n = N /\ m = 1 /\ N - n + 1 = 1
          BY <1>2, <2>1, <2>2, <4>2
        <5> QED
          BY <2>1, <3>6, <4>2, <5>1
      <4> QED
        BY <4>1, <4>2
    <3> HIDE DEF m, G, Some
    <3>8. r[1] = Some(n - 1) /\ r[2] = L[m]
      BY <3>2
    <3> QED
      BY <3>3, <3>4, <3>5, <3>7, <3>8
  <2>3. CASE ~(n - 1 < N)
    <3>1. ~(n < N)
      BY <1>2, <2>1, <2>3
    <3>2. G[n] = <<{L[i] : i \in 1 .. N}, 0>> /\ G[n - 1] = <<{L[i] : i \in 1 .. N}, 0>>
      BY <2>1, <2>3, <3>1
    <3>3. r[2] = 0
      BY <1>7, <3>2
    <3> HIDE DEF G
    <3> QED
      BY <1>5, <1>7, <3>2, <3>3
  <2> QED
    BY <2>2, <2>3
<1> HIDE DEF G
<1> DEFINE Good(f) == f = [n \in 0 .. End |->
             IF n = 0 THEN <<{}, heap.heads[c]>>
             ELSE LET r == f[n - 1] IN
                    IF r[2] \in Words /\ r[2] \notin r[1]
                      THEN <<r[1] \cup {r[2]}, heap.mem[r[2]]>> ELSE r]
<1>8. Good(G)
  <2>1. G = [n \in 0 .. End |-> G[n]]
    BY DEF G
  <2>2. \A n \in 0 .. End :
          G[n] = IF n = 0 THEN <<{}, heap.heads[c]>>
                 ELSE IF G[n - 1][2] \in Words /\ G[n - 1][2] \notin G[n - 1][1]
                      THEN <<G[n - 1][1] \cup {G[n - 1][2]}, heap.mem[G[n - 1][2]]>> ELSE G[n - 1]
    <3> TAKE n \in 0 .. End
    <3>1. CASE n = 0
      BY <1>6, <3>1
    <3>2. CASE n # 0
      <4>1. n \in 1 .. End
        BY <1>2, <3>2
      <4> QED
        BY <1>7, <3>2, <4>1
    <3> QED
      BY <3>1, <3>2
  <2> QED
    BY <2>1, <2>2
<1>9. Good(Steps)
  <2>1. \E f : Good(f)
    BY <1>8
  <2> QED
    BY <2>1, Zenon
<1> HIDE DEF Steps
<1>10. Steps = G
  <2> DEFINE Bad == {n \in 0 .. End : Steps[n] # G[n]}
  <2>1. ASSUME Bad # {}
        PROVE  FALSE
    <3>1. Bad \in SUBSET Nat
      BY <1>2
    <3>2. PICK n \in Bad : \A m \in Bad : n <= m
      BY <2>1, <3>1, LeastExists
    <3>3. n # 0
      BY <1>8, <1>9
    <3>4. n - 1 \in 0 .. End /\ n \in 0 .. End /\ ~(n <= n - 1)
      BY <1>2, <3>3
    <3>5. Steps[n - 1] = G[n - 1]
      BY <3>2, <3>4
    <3>6. Steps[n] = G[n]
      BY <1>8, <1>9, <3>3, <3>4, <3>5, ZenonT(30)
    <3> QED
      BY <3>2, <3>6
  <2>2. Steps = [n \in 0 .. End |-> Steps[n]] /\ G = [n \in 0 .. End |-> G[n]]
    BY <1>8, <1>9
  <2> QED
    BY <2>1, <2>2
<1>11. G[End] = <<{L[i] : i \in 1 .. N}, 0>>
  BY <1>2 DEF G
<1> QED
  BY <1>1, <1>10, <1>11 DEF N, L

\* The free lists of a sound heap are what FreeListsSound says.
LEMMA SoundLists ==
  ASSUME HeapInv
  PROVE  FreeListsSound
<1>1. CASE misfreed
  BY <1>1 DEF HeapInv, FreeListsSound
<1>2. CASE ~misfreed
  <2>1. PICK blk, cnt, at : Sound(heap, owned, Places, parts, blk, cnt, at)
    BY <1>2 DEF HeapInv, HeapSound
  <2>2. ASSUME NEW c \in Classes
        PROVE  Walk(c)[2] = 0 /\ FreeOf(c) = {at[c][i] : i \in 1 .. cnt[c]}
    BY <2>1, WalkIsList DEF FreeOf
  <2>3. ASSUME NEW c \in Classes, NEW a \in FreeOf(c)
        PROVE  /\ a \in Places \ DOMAIN owned /\ blk[a] = c /\ a \notin parts
               /\ heap.mem[a - 1] = 0
    <3>1. a \in Places \ DOMAIN owned /\ blk[a] = c /\ a \notin parts
      BY <2>1, <2>2, <2>3 DEF Sound, Lists
    <3> QED
      BY <2>1, <3>1 DEF Sound, Headers
  <2>4. /\ Shape(heap) /\ Layout(heap, Places, parts, blk)
        /\ \A b \in DOMAIN owned : b \in Places /\ owned[b] = blk[b]
    BY <2>1 DEF Sound, Headers
  <2>5. ASSUME NEW f \in FreeBlocks
        PROVE  /\ f \in [address : Nat, size : Nat]
               /\ f.address \in Places \ DOMAIN owned /\ f.size = blk[f.address]
    <3>1. CASE f \in heap.large_free
      BY <2>1, <2>4, <3>1 DEF Sound, Large, Shape
    <3>2. ASSUME NEW c \in Classes, NEW a \in FreeOf(c), f = [address |-> a, size |-> c]
          PROVE  /\ f \in [address : Nat, size : Nat]
                 /\ f.address \in Places \ DOMAIN owned /\ f.size = blk[f.address]
      <4>1. a \in Places \ DOMAIN owned /\ blk[a] = c
        BY <2>3
      <4>2. a \in Nat /\ c \in Nat
        BY <2>4, <4>1, ThresholdFacts, BlockWords
      <4> QED
        BY <3>2, <4>1, <4>2
    <3> QED
      BY <3>1, <3>2 DEF FreeBlocks
  <2>6. ASSUME NEW f \in FreeBlocks, NEW g \in FreeBlocks \ {f}
        PROVE  Extent(f.address, f.size) \cap Extent(g.address, g.size) = {}
    <3>1. /\ f \in [address : Nat, size : Nat] /\ g \in [address : Nat, size : Nat] /\ f # g
          /\ f.address \in Places /\ g.address \in Places
          /\ f.size = blk[f.address] /\ g.size = blk[g.address]
      BY <2>5
    <3>2. f.address # g.address
      BY <3>1
    <3>3. \A w \in Extent(f.address, blk[f.address]) : w \notin Extent(g.address, blk[g.address])
      BY <2>4, <3>1, <3>2, BlocksApart
    <3> QED
      BY <3>1, <3>3
  <2>7. ASSUME NEW f \in FreeBlocks, NEW b \in DOMAIN owned
        PROVE  Extent(f.address, f.size) \cap Own(b, owned[b]) = {}
    <3>1. /\ f.address \in Places /\ f.address # b /\ f.size = blk[f.address]
          /\ b \in Places /\ owned[b] = blk[b] /\ b \in Nat /\ blk[b] \in Nat
      BY <2>4, <2>5, BlockWords
    <3>2. \A w \in Extent(f.address, blk[f.address]) :
            w \notin Extent(b, blk[b]) /\ (b \notin parts => w # b - 1)
      BY <2>4, <3>1, BlocksApart
    <3>3. \A w \in Own(b, blk[b]) : w \in Extent(b, blk[b]) \/ (b \notin parts /\ w = b - 1)
      BY <3>1 DEF Own, Extent
    <3> QED
      BY <3>1, <3>2, <3>3
  <2>8. \A c \in Classes : Walk(c)[2] = 0 /\ \A a \in FreeOf(c) : heap.mem[a - 1] = 0
    BY <2>2, <2>3
  <2> QED
    BY <1>2, <2>6, <2>7, <2>8 DEF FreeListsSound
<1> QED
  BY <1>1, <1>2

\* The blocks of a sound heap are what BlocksDisjoint says.
LEMMA SoundBlocks ==
  ASSUME HeapInv
  PROVE  BlocksDisjoint
<1> SUFFICES ASSUME ~misfreed
             PROVE  \A a \in DOMAIN owned :
                      /\ Own(a, owned[a]) \subseteq Base .. heap.bump - 1
                      /\ \A b \in DOMAIN owned \ {a} : Own(a, owned[a]) \cap Own(b, owned[b]) = {}
  BY DEF BlocksDisjoint
<1>1. PICK blk, cnt, at : Sound(heap, owned, Places, parts, blk, cnt, at)
  BY DEF HeapInv, HeapSound
<1>2. /\ Shape(heap) /\ Layout(heap, Places, parts, blk)
      /\ \A b \in DOMAIN owned : b \in Places /\ owned[b] = blk[b]
  BY <1>1 DEF Sound, Headers
<1>3. ASSUME NEW a \in DOMAIN owned
      PROVE  Own(a, owned[a]) \subseteq Base .. heap.bump - 1
  <2>1. a \in Nat /\ blk[a] \in Nat /\ heap.bump \in Nat /\ a \in Places /\ owned[a] = blk[a]
    BY <1>2, BlockWords
  <2>2. Base < a /\ a + blk[a] <= heap.bump
    BY <1>2, <2>1 DEF Layout
  <2>3. Own(a, owned[a]) \subseteq a - 1 .. a + blk[a] - 1
    BY <2>1 DEF Own, Extent
  <2> QED
    BY <2>1, <2>2, <2>3, HeapAssumption
<1>4. ASSUME NEW a \in DOMAIN owned, NEW b \in DOMAIN owned \ {a}
      PROVE  Own(a, owned[a]) \cap Own(b, owned[b]) = {}
  <2>1. ASSUME NEW x \in DOMAIN owned
        PROVE  \A w \in Own(x, owned[x]) :
                 w \in Extent(x, blk[x]) \/ (x \notin parts /\ w = x - 1)
    <3>1. x \in Nat /\ blk[x] \in Nat /\ owned[x] = blk[x]
      BY <1>2, BlockWords
    <3> QED
      BY <3>1 DEF Own, Extent
  <2>2. /\ a - 1 # b - 1
        /\ \A w \in Extent(a, blk[a]) : w \notin Extent(b, blk[b]) /\ (b \notin parts => w # b - 1)
        /\ \A w \in Extent(b, blk[b]) : a \notin parts => w # a - 1
    BY <1>2, BlocksApart
  <2> QED
    BY <2>1, <2>2
<1> QED
  BY <1>3, <1>4

---------------------------------------------------------------------------
(* The theorems *)

\* A heap from which nothing was taken is sound.
LEMMA HeapInit ==
  ASSUME Init
  PROVE  HeapInv
<1> DEFINE blk == [a \in {} |-> 0]
           cnt == [c \in Classes |-> 0]
           at == [c \in Classes |-> [i \in Nat |-> 0]]
<1>1. /\ heap.bump = Base /\ heap.heads = [c \in Classes |-> 0] /\ heap.mem = [w \in Words |-> 0]
      /\ heap.large_free = {} /\ heap.live = Empty /\ owned = Empty /\ Places = {} /\ parts = {}
      /\ misfreed = FALSE
  BY DEF Init, Places
<1>2. DOMAIN Empty = {}
  BY DEF Empty
<1>3. Shape(heap)
  BY HeapAssumption DEF Init, Shape
<1>4. Layout(heap, Places, parts, blk)
  BY <1>1 DEF Layout
<1>5. Lists(heap, owned, Places, parts, blk, cnt, at)
  BY <1>1 DEF Lists
<1>6. /\ Large(heap, owned, Places, parts, blk) /\ Headers(heap, owned, Places, parts, blk)
      /\ Recorded(heap.live, owned, Places, parts, blk)
  BY <1>1, <1>2 DEF Large, Headers, Recorded
<1>7. Sound(heap, owned, Places, parts, blk, cnt, at)
  BY <1>3, <1>4, <1>5, <1>6 DEF Sound
<1> QED
  BY <1>1, <1>7 DEF HeapInv, HeapSound

\* Parts stay parts, and a free that was served stays served.
LEMMA GhostsGrow ==
  ASSUME misfreed \in BOOLEAN, [Next]_vars
  PROVE  parts \subseteq parts' /\ (misfreed = TRUE => misfreed' = TRUE)
<1> DEFINE Goal == parts \subseteq parts' /\ (misfreed = TRUE => misfreed' = TRUE)
<1>1. ASSUME NEW r, NEW old, Receives(r, old) PROVE parts \subseteq parts'
  BY <1>1 DEF Receives
<1>2. ASSUME NEW size \in Requests, HeapAlloc(size) PROVE Goal
  BY <1>1, <1>2, Zenon DEF HeapAlloc
<1>3. ASSUME NEW size \in Requests, GuestHeapAlloc(size) PROVE Goal
  BY <1>1, <1>3, Zenon DEF GuestHeapAlloc
<1>4. ASSUME NEW size \in Requests, NEW a \in given, ReAllocInPlace(a, size) PROVE Goal
  BY <1>4 DEF ReAllocInPlace
<1>5. ASSUME NEW size \in Requests, NEW a \in given, ReAllocMove(a, size) PROVE Goal
  <2>1. \/ parts' = parts /\ misfreed' = misfreed
        \/ \E full, r : Receives(r, a) /\ misfreed' = (misfreed \/ Misfree(full, a))
    BY <1>5, Zenon DEF ReAllocMove
  <2> QED
    BY <1>1, <2>1, Zenon
<1>6. ASSUME NEW a \in given, HeapFree(a) PROVE Goal
  BY <1>6, Zenon DEF HeapFree
<1>7. ASSUME NEW a \in given, GuestHeapFree(a) PROVE Goal
  BY <1>7, Zenon DEF GuestHeapFree
<1>8. ASSUME NEW a \in given, NEW w \in Words, GuestWrite(a, w) PROVE Goal
  BY <1>8 DEF GuestWrite
<1>9. ASSUME UNCHANGED vars PROVE Goal
  BY <1>9 DEF vars
<1> HIDE DEF Goal
<1>10. ASSUME Next PROVE Goal
  BY <1>2, <1>3, <1>4, <1>5, <1>6, <1>7, <1>8, <1>10, Zenon DEF Next
<1>11. Goal
  BY <1>9, <1>10
<1> QED
  BY <1>11 DEF Goal

\* From a sound heap, every call that does not serve a free it should refuse
\* keeps the heap sound, and only the guest's own stores change what it holds.
LEMMA SoundStep ==
  ASSUME HeapSound, ~misfreed, [Next]_vars
  PROVE  \/ misfreed' = TRUE /\ (Accel \/ parts # {})
         \/ /\ HeapSound' /\ misfreed' = FALSE
            /\ Intact \/ \E a \in DOMAIN owned, w \in Words : GuestWrite(a, w)
<1> DEFINE Kept == /\ HeapSound' /\ misfreed' = FALSE
                   /\ Intact \/ \E a \in DOMAIN owned, w \in Words : GuestWrite(a, w)
           Goal == (misfreed' = TRUE /\ (Accel \/ parts # {})) \/ Kept
<1>1. ASSUME NEW size \in Requests, HeapAlloc(size) PROVE Goal
  <2>1. misfreed' = misfreed
    BY <1>1 DEF HeapAlloc
  <2> QED
    BY <1>1, <2>1, HeapAllocStep
<1>2. ASSUME NEW size \in Requests, GuestHeapAlloc(size) PROVE Goal
  <2>1. misfreed' = misfreed
    BY <1>2 DEF GuestHeapAlloc
  <2> QED
    BY <1>2, <2>1, GuestHeapAllocStep
<1>3. ASSUME heap' = heap, owned' = owned, given' = given, parts' = parts, misfreed' = misfreed
      PROVE  Goal
  BY <1>3 DEF HeapSound, Intact, Places
<1>4. ASSUME NEW size \in Requests, NEW a \in given, ReAllocInPlace(a, size) PROVE Goal
  BY <1>3, <1>4 DEF ReAllocInPlace
<1>5. ASSUME NEW size \in Requests, NEW a \in given, ReAllocMove(a, size) PROVE Goal
  BY <1>5, ReAllocMoveStep
<1>6. ASSUME NEW a \in given, HeapFree(a) PROVE Goal
  <2>1. misfreed' = (misfreed \/ Misfree(heap, a))
    BY <1>6 DEF HeapFree
  <2> QED
    BY <1>6, <2>1, HeapFreeStep, Zenon
<1>7. ASSUME NEW a \in given, GuestHeapFree(a) PROVE Goal
  <2>1. Accel /\ misfreed' = (misfreed \/ a \in parts)
    BY <1>7 DEF GuestHeapFree
  <2> QED
    BY <1>7, <2>1, GuestHeapFreeStep
<1>8. ASSUME NEW a \in given, NEW w \in Words, GuestWrite(a, w) PROVE Goal
  <2>1. a \in DOMAIN owned /\ misfreed' = misfreed
    BY <1>8 DEF GuestWrite
  <2> QED
    BY <1>8, <2>1, GuestWriteStep
<1>9. ASSUME UNCHANGED vars PROVE Goal
  BY <1>3, <1>9 DEF vars
<1> HIDE DEF Goal
<1>10. ASSUME Next PROVE Goal
  BY <1>1, <1>2, <1>4, <1>5, <1>6, <1>7, <1>8, <1>10, Zenon DEF Next
<1>11. Goal
  BY <1>9, <1>10
<1> QED
  BY <1>11 DEF Goal

\* Every step keeps the invariant, and blocks the guest keeps are intact until
\* a free is served that should be refused.
LEMMA HeapStep ==
  ASSUME HeapInv, [Next]_vars
  PROVE  /\ HeapInv'
         /\ misfreed' \/ Intact \/ \E a \in DOMAIN owned, w \in Words : GuestWrite(a, w)
<1>1. CASE misfreed = TRUE
  <2>1. misfreed' = TRUE
    BY <1>1, GhostsGrow
  <2>2. Accel \/ parts' # {}
    BY <1>1, GhostsGrow DEF HeapInv
  <2> QED
    BY <2>1, <2>2 DEF HeapInv
<1>2. CASE misfreed = FALSE
  <2>1. CASE misfreed' = TRUE /\ (Accel \/ parts # {})
    BY <1>2, <2>1, GhostsGrow DEF HeapInv
  <2>2. CASE /\ HeapSound' /\ misfreed' = FALSE
             /\ Intact \/ \E a \in DOMAIN owned, w \in Words : GuestWrite(a, w)
    BY <2>2 DEF HeapInv
  <2> QED
    BY <1>2, <2>1, <2>2, SoundStep DEF HeapInv
<1> QED
  BY <1>1, <1>2 DEF HeapInv

\* The heap is sound in every reachable state, until a free is served that
\* should be refused; that takes the helpers in the guest or a block cut in two.
THEOREM HeapStaysSound == Spec => []HeapInv
<1>1. Init => HeapInv
  BY HeapInit
<1>2. HeapInv /\ [Next]_vars => HeapInv'
  BY HeapStep
<1> QED
  BY <1>1, <1>2, PTL DEF Spec

\* Two blocks the guest holds share no word, headers included but for parts,
\* until free_coherent or the helper serves a free that it should refuse.
THEOREM HeldBlocksApart == Spec => []BlocksDisjoint
<1>1. HeapInv => BlocksDisjoint
  BY SoundBlocks
<1> QED
  BY <1>1, HeapStaysSound, PTL

\* Every free list is a finite chain of blocks of its class that nobody holds,
\* with 0 for their headers, and free blocks share no words; a free that should
\* be refused is served only with the helpers in the guest or parts in play.
THEOREM FreeListsStaySound == Spec => []FreeListsSound
<1>1. HeapInv => FreeListsSound
  BY SoundLists
<1> QED
  BY <1>1, HeapStaysSound, PTL

\* Of a block the guest keeps, a heap call changes no word but the one in front
\* of a part that it hands out or takes back.
THEOREM PayloadsIntact == Spec => PayloadIntact
<1>1. HeapInv /\ [Next]_vars =>
        [\/ misfreed'
         \/ \A a \in DOMAIN owned \cap DOMAIN owned' : \A w \in Extent(a, owned[a]) :
              \/ heap'.mem[w] = heap.mem[w]
              \/ w + 1 \in parts /\ (w + 1 \in DOMAIN owned) # (w + 1 \in DOMAIN owned')
         \/ \E a \in DOMAIN owned, w \in Words : GuestWrite(a, w)]_vars
  BY HeapStep DEF Intact
<1> QED
  BY <1>1, HeapStaysSound, PTL DEF Spec, PayloadIntact
=============================================================================
