---------------------------- MODULE AddressSpace ----------------------------
(***************************************************************************)
(* What the guest's address space promises, page by page: a page belongs   *)
(* to at most one allocation, walks through the Windows page states Free,  *)
(* Reserved and Committed, carries one protection, and holds what was last *)
(* written to it since it was committed, zero before that.                 *)
(*                                                                         *)
(* The run-length page map, the VAD table, the arenas and the caches of    *)
(* GuestMemory implement this specification.                               *)
(***************************************************************************)
EXTENDS Integers, FiniteSetsExt

CONSTANTS
    First, Last,    \* the pages of the guest address space, by page key
    Protects        \* protections, each a set of rights among "r", "w", "x"

VARIABLE space      \* space[p] is the guest-visible condition of page p

Pages == First..Last
Intervals == {lo..hi : lo, hi \in Pages} \ {{}}

Free == [state |-> "free", owner |-> 0, protect |-> {}, data |-> 0]

Page(state, owner, protect, data) ==
    [state |-> state, owner |-> owner, protect |-> protect, data |-> data]

Put(S, New(_)) == space' = [p \in Pages |-> IF p \in S THEN New(p) ELSE space[p]]

(* The pages S belong to one allocation. *)
OneOwner(S) ==
    /\ \A p \in S : space[p].state # "free"
    /\ \A p, q \in S : space[p].owner = space[q].owner

Init == space = [p \in Pages |-> Free]

(* A fresh allocation takes free pages only, is owned by its first page, and reads as zero. *)
Allocate(S, state, protect) ==
    /\ \A p \in S : space[p] = Free
    /\ Put(S, LAMBDA p : Page(state, Min(S), protect, 0))

(* Committing pages of one allocation gives them the protection asked for and keeps their bytes;   *)
(* changing the protection of committed pages is the same step.                                    *)
Commit(S, protect) ==
    /\ OneOwner(S)
    /\ Put(S, LAMBDA p : Page("committed", space[p].owner, protect, space[p].data))

Decommit(S) ==
    /\ OneOwner(S)
    /\ Put(S, LAMBDA p : Page("reserved", space[p].owner, {}, 0))

(* A release gives back every page of the allocation, and no other page. *)
Release(b) ==
    /\ \E p \in Pages : space[p].owner = b
    /\ Put({p \in Pages : space[p].owner = b}, LAMBDA p : Free)

(* A store lands in full or not at all. *)
Write(S) ==
    /\ \A p \in S : space[p].state = "committed" /\ "w" \in space[p].protect
    /\ Put(S, LAMBDA p : [space[p] EXCEPT !.data = 1])

Next ==
    \/ \E b \in Pages : Release(b)
    \/ \E S \in Intervals :
         \/ Allocate(S, "reserved", {})
         \/ Decommit(S)
         \/ Write(S)
         \/ \E q \in Protects : Allocate(S, "committed", q) \/ Commit(S, q)

Spec == Init /\ [][Next]_space
=============================================================================
