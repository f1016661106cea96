---------------------------- MODULE GuestHeap ----------------------------
(***************************************************************************)
(* The guest process heap: GuestHeap (guest_heap.rs) with its control      *)
(* block in guest memory, the heap handlers of kernel32.rs that call it,   *)
(* and the in-guest HeapAlloc and HeapFree helpers of guest_heap_accel.rs  *)
(* that share the control block when WIE_GUEST_HEAP is on.                 *)
(*                                                                         *)
(* Addresses and sizes are counted in 8-byte words: a size header is one   *)
(* word and payloads are aligned to two.  A host call runs under the       *)
(* WinAPI mutex and a helper belongs to a single-threaded guest, so each   *)
(* call is one step.                                                       *)
(***************************************************************************)
EXTENDS Naturals

CONSTANTS
  Base, End,    \* the heap region, in words; word 0 is NULL
  Classes,      \* SIZE_CLASSES
  Requests,     \* bound: sizes the guest asks for
  Data,         \* what the guest writes into its blocks
  Accel,        \* WIE_GUEST_HEAP: HeapAlloc and HeapFree run in the guest
  FreesTwice,   \* whether the guest may free an address it does not hold
  MaxOps        \* bound: heap calls made

ASSUME HeapAssumption ==
  /\ Base \in Nat \ {0} /\ End \in Nat /\ Base < End
  /\ Classes \subseteq Nat \ {0} /\ \E c \in Classes : \A d \in Classes : d <= c
  /\ Requests \subseteq Nat \ {0}
  /\ Data \in Nat \ {0}
  /\ Accel \in BOOLEAN /\ FreesTwice \in BOOLEAN
  /\ MaxOps \in Nat

\* LARGE_THRESHOLD is the largest class.
Threshold == CHOOSE c \in Classes : \A d \in Classes : d <= c

VARIABLES
  heap,         \* GuestHeap: bump and heads are the control block, mem holds headers,
                \* links and data, live the sizes of the blocks the host gave out
  owned,        \* blocks the guest holds: payload address -> words it may use
  given,        \* addresses the guest was ever given
  parts,        \* addresses of the blocks that were cut off a large free block
  misfreed,     \* a free was served that the heap should have refused
  ops           \* heap calls made so far

vars == <<heap, owned, given, parts, misfreed, ops>>

Words == Base .. End - 1

Empty == [a \in {} |-> 0]

Init ==
  /\ heap = [bump |-> Base, heads |-> [c \in Classes |-> 0],
             mem |-> [w \in Words |-> 0], large_free |-> {}, live |-> Empty]
  /\ owned = Empty
  /\ given = {}
  /\ parts = {}
  /\ misfreed = FALSE
  /\ ops = 0

---------------------------------------------------------------------------
(* Sizes and addresses *)

AlignUp(n) == n + (n % 2)

\* round_up_size: the smallest class that fits, or alignment for large sizes.
RoundUp(n) ==
  IF n <= Threshold
    THEN CHOOSE c \in Classes : c >= n /\ \A d \in Classes : d >= n => c <= d
    ELSE AlignUp(n)

With(f, a, n) == [b \in DOMAIN f \cup {a} |-> IF b = a THEN n ELSE f[b]]

Without(f, a) == [b \in DOMAIN f \ {a} |-> f[b]]

\* Faulty: a word is set aside for the header of the first block only.
Payload_NoHeader(bump) == IF bump = Base THEN AlignUp(bump + 1) ELSE AlignUp(bump)

\* bump_alloc: a word for the header, then the aligned payload.
Payload(bump) == AlignUp(bump + 1)

---------------------------------------------------------------------------
(* Allocation.  A result is the heap after, the address and the size of the *)
(* block; at = 0 for NULL.                                                  *)

Null(h) == [heap |-> h, at |-> 0, size |-> 0]

\* The block of n words at a is handed out: header and record written.
Handed(h, a, n) ==
  [heap |-> [h EXCEPT !.mem[a - 1] = n, !.live = With(h.live, a, n)], at |-> a, size |-> n]

\* bump_alloc.
BumpAlloc(h, n) ==
  LET a == Payload(h.bump) IN
    IF a + n > End THEN Null(h) ELSE Handed([h EXCEPT !.bump = a + n], a, n)

\* Pop the head of the class's free list: the link is its first word.
Pop(h, c) == Handed([h EXCEPT !.heads[c] = h.mem[h.heads[c]]], h.heads[c], c)

AllocClass(h, c) == IF h.heads[c] \in Words THEN Pop(h, c) ELSE BumpAlloc(h, c)

\* find_large_fit: the smallest free large blocks that are big enough.
BestFits(h, n) ==
  {b \in h.large_free :
     b.size >= n /\ \A d \in h.large_free : d.size >= n => b.size <= d.size}

\* A remainder of at least the threshold goes back to the free list.
Reuse(h, b, n) ==
  LET rest == IF b.size >= n + Threshold
                THEN {[address |-> b.address + n, size |-> b.size - n]} ELSE {}
  IN Handed([h EXCEPT !.large_free = (@ \ {b}) \cup rest], b.address, n)

AllocLarge(h, n) ==
  IF BestFits(h, n) = {} THEN {BumpAlloc(h, n)} ELSE {Reuse(h, b, n) : b \in BestFits(h, n)}

\* alloc_coherent; which of several best fits is taken is left open.
AllocCoherent(h, size) ==
  LET n == RoundUp(size) IN
    IF n <= Threshold THEN {AllocClass(h, n)} ELSE AllocLarge(h, n)

---------------------------------------------------------------------------
(* Release *)

\* The header is zeroed so that a second free is recognised.
Cleared(m, a) == [m EXCEPT ![a - 1] = 0]

\* Faulty: freed blocks go to the list of the largest class.
ClassOf_Largest(n) == Threshold

\* Smallest class that takes n words.
ClassOf(n) == RoundUp(n)

\* free_known_block.
FreeKnown(h, a, n) ==
  IF n > Threshold
    THEN [h EXCEPT !.large_free = @ \cup {[address |-> a, size |-> n]}, !.mem = Cleared(@, a)]
    ELSE [h EXCEPT !.mem = Cleared([@ EXCEPT ![a] = h.heads[ClassOf(n)]], a),
                   !.heads[ClassOf(n)] = a]

\* free_coherent: the host's record, else the header, else refused.
FreeCoherent(h, a) ==
  IF a \in DOMAIN h.live
    THEN FreeKnown([h EXCEPT !.live = Without(@, a)], a, h.live[a])
  ELSE IF h.mem[a - 1] # 0 THEN FreeKnown(h, a, h.mem[a - 1])
  ELSE h

\* free_coherent serves a free it should refuse: the record still lists a block
\* that the helper freed, or the size is read in front of a part, whose header
\* is the last word of the block before it.
Misfree(h, a) ==
  IF a \in DOMAIN h.live THEN a \notin DOMAIN owned ELSE a \in parts /\ h.mem[a - 1] # 0

---------------------------------------------------------------------------
(* Calls of the guest *)

Call == ops < MaxOps /\ ops' = ops + 1

\* The guest's side of an allocation with result r.  A large free block that
\* was never handed out is the part that this allocation cut off.
Receives(r, old) ==
  /\ heap' = r.heap
  /\ given' = given \cup ({r.at} \ {0})
  /\ parts' = parts \cup ({f.address : f \in r.heap.large_free} \ given)
  /\ owned' = IF r.at = 0 THEN owned ELSE With(Without(owned, old), r.at, r.size)

\* Faulty: a count of bytes is taken for a count of words.
Zeroed_Bytes(r, from, to) ==
  [r EXCEPT !.heap.mem =
     [w \in Words |-> IF w \in r.at + from .. r.at + 8 * to - 1 THEN 0 ELSE @[w]]]

\* The words from .. to - 1 of the new block are zeroed.
Zeroed(r, from, to) ==
  [r EXCEPT !.heap.mem =
     [w \in Words |-> IF w \in r.at + from .. r.at + to - 1 THEN 0 ELSE @[w]]]

\* HeapAlloc on the host path; LocalAlloc, GlobalAlloc, malloc, new and the
\* handlers that allocate for themselves.  HEAP_ZERO_MEMORY clears the block.
\* A request for no bytes is one for one byte.
HeapAlloc(size) ==
  /\ Call
  /\ \E r \in AllocCoherent(heap, size), zero \in BOOLEAN :
       Receives(IF zero /\ r.at # 0 THEN Zeroed(r, 0, r.heap.live[r.at]) ELSE r, 0)
  /\ UNCHANGED misfreed

\* What the guest passes to a free: a block it holds, or one it held.
Freeable == IF FreesTwice THEN given ELSE DOMAIN owned

\* HeapFree on the host path, LocalFree, GlobalFree, free.  HeapReAlloc to zero bytes frees too.
HeapFree(a) ==
  /\ Call
  /\ a \in Freeable
  /\ heap' = FreeCoherent(heap, a)
  /\ owned' = Without(owned, a)
  /\ misfreed' = (misfreed \/ Misfree(heap, a))
  /\ UNCHANGED <<given, parts>>

\* The block has room already: try_realloc_in_place.
ReAllocInPlace(a, size) ==
  /\ Call
  /\ a \in DOMAIN owned /\ a \in DOMAIN heap.live
  /\ RoundUp(size) <= heap.live[a]
  /\ UNCHANGED <<heap, owned, given, parts, misfreed>>

OldSize(a) == IF a \in DOMAIN heap.live THEN heap.live[a] ELSE heap.mem[a - 1]

Lesser(m, n) == IF m < n THEN m ELSE n

Copied(r, a, n) ==
  [r EXCEPT !.heap.mem =
     [w \in Words |-> IF w \in r.at .. r.at + n - 1 THEN @[a + w - r.at] ELSE @[w]]]

\* HeapReAlloc that moves: allocate, copy, zero the rest if asked, free the old
\* block; on failure the old block stays.
ReAllocMove(a, size) ==
  /\ Call
  /\ a \in DOMAIN owned
  /\ ~(a \in DOMAIN heap.live /\ RoundUp(size) <= heap.live[a])
  /\ \E r \in AllocCoherent(heap, size), zero \in BOOLEAN :
       IF r.at = 0 THEN UNCHANGED <<heap, owned, given, parts, misfreed>>
       ELSE LET copy == Copied(r, a, Lesser(OldSize(a), size))
                full == IF zero THEN Zeroed(copy, OldSize(a), size) ELSE copy
            IN /\ Receives([full EXCEPT !.heap = FreeCoherent(@, a)], a)
               /\ misfreed' = (misfreed \/ Misfree(full.heap, a))

\* The guest writes a word of a block it holds.
GuestWrite(a, w) ==
  /\ a \in DOMAIN owned /\ w \in a .. a + owned[a] - 1
  /\ heap.mem[w] # Data
  /\ heap' = [heap EXCEPT !.mem[w] = Data]
  /\ UNCHANGED <<owned, given, parts, misfreed, ops>>

---------------------------------------------------------------------------
(* The helpers in the guest *)

\* The helper does not know the host's record; sizes it does not serve, and
\* an exhausted region, go to the host path.
GuestHeapAlloc(size) ==
  /\ Accel /\ Call
  /\ RoundUp(size) <= Threshold
  /\ LET r == AllocClass(heap, RoundUp(size)) IN
       /\ r.at # 0
       /\ Receives([r EXCEPT !.heap.live = heap.live], 0)
  /\ UNCHANGED misfreed

\* Served when the header is exactly a class size; in front of a part it may be
\* data that looks like one.
GuestHeapFree(a) ==
  /\ Accel /\ Call
  /\ a \in Freeable
  /\ heap.mem[a - 1] \in Classes
  /\ heap' = FreeKnown(heap, a, heap.mem[a - 1])
  /\ owned' = Without(owned, a)
  /\ misfreed' = (misfreed \/ a \in parts)
  /\ UNCHANGED <<given, parts>>

---------------------------------------------------------------------------

Next ==
  \/ \E size \in Requests :
       \/ HeapAlloc(size) \/ GuestHeapAlloc(size)
       \/ \E a \in given : ReAllocInPlace(a, size) \/ ReAllocMove(a, size)
  \/ \E a \in given :
       HeapFree(a) \/ GuestHeapFree(a) \/ \E w \in Words : GuestWrite(a, w)

Spec == Init /\ [][Next]_vars

---------------------------------------------------------------------------
(* Properties *)

\* The words of a block: its payload, and the header in front of it unless it
\* is a part.
Extent(a, n) == a .. a + n - 1

Own(a, n) == IF a \in parts THEN Extent(a, n) ELSE a - 1 .. a + n - 1

\* Until a free is served that should not be, no two blocks the guest holds
\* share a word, and none reaches beyond the carved part of the region: whether
\* carved from the region, popped from a list or cut off a large block, by the
\* host or in the guest, a block is the guest's alone, with its header in front
\* of it, except that a part has none of its own.
BlocksDisjoint ==
  ~misfreed =>
    \A a \in DOMAIN owned :
      /\ Own(a, owned[a]) \subseteq Base .. heap.bump - 1
      /\ \A b \in DOMAIN owned \ {a} : Own(a, owned[a]) \cap Own(b, owned[b]) = {}

\* Walk(c): the blocks of class c's free list by the links, and the link that ends the walk.
Walk(c) ==
  LET Steps[n \in 0 .. End] ==
        IF n = 0 THEN <<{}, heap.heads[c]>>
        ELSE LET r == Steps[n - 1] IN
               IF r[2] \in Words /\ r[2] \notin r[1]
                 THEN <<r[1] \cup {r[2]}, heap.mem[r[2]]>> ELSE r
  IN Steps[End]

FreeOf(c) == Walk(c)[1]

FreeBlocks ==
  heap.large_free \cup
  UNION {{[address |-> a, size |-> c] : a \in FreeOf(c)} : c \in Classes}

\* A free is served that should be refused only with the helpers or parts in
\* play, so without them every second free is refused.  Until then each chain
\* ends, no two free blocks and no free and no held block share a word, and
\* every block on a list has 0 as its header, by which the helper and a host
\* without a stale record refuse a second free.
FreeListsSound ==
  IF misfreed THEN Accel \/ parts # {}
  ELSE /\ \A c \in Classes :
            Walk(c)[2] = 0 /\ \A a \in FreeOf(c) : heap.mem[a - 1] = 0
       /\ \A f \in FreeBlocks :
            /\ \A g \in FreeBlocks \ {f} :
                 Extent(f.address, f.size) \cap Extent(g.address, g.size) = {}
            /\ \A b \in DOMAIN owned :
                 Extent(f.address, f.size) \cap Own(b, owned[b]) = {}

\* A word inside a block the guest keeps holding changes only when the guest
\* writes it, or when it is the word in front of a part that this call hands out
\* or takes back: no other header, link, zeroing or copy lands there.
PayloadIntact ==
  [][\/ misfreed'
     \/ \A a \in DOMAIN owned \cap DOMAIN owned' : \A w \in Extent(a, owned[a]) :
          \/ heap'.mem[w] = heap.mem[w]
          \/ w + 1 \in parts /\ (w + 1 \in DOMAIN owned) # (w + 1 \in DOMAIN owned')
     \/ \E a \in DOMAIN owned, w \in Words : GuestWrite(a, w)]_vars

\* What the layout promises ("every block has an 8-byte size header
\* immediately before the payload"): no held block's header is another's data.
HeadersPrivate ==
  \A a, b \in DOMAIN owned : a - 1 \notin Extent(b, owned[b])

\* What clearing the header promises ("a second free (or host free_coherent)
\* sees double-free"): freeing an address that is not held changes nothing.
SecondFreeSeen ==
  [][\A a \in given \ DOMAIN owned : HeapFree(a) => UNCHANGED heap]_vars

=============================================================================
