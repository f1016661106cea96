------------------------------- MODULE JitCode -------------------------------
(***************************************************************************)
(* The code cache of crates/wie-cpu/src/jit: one cache of compiled blocks  *)
(* shared by the engines of all guest threads, the index of guest pages    *)
(* that hold compiled code, the ids a later compile may call directly, and *)
(* each thread's own chain table and edge cache.  Guest threads look up,   *)
(* compile and run blocks; host calls write guest memory, change rights,   *)
(* free memory and flush, and drop the blocks concerned.                   *)
(*                                                                         *)
(* A step is what happens under one lock.  Host calls run under the WinAPI *)
(* mutex, so at most one thread is in one.  Addresses are bytes of a small *)
(* code area; the block at a given address always has the same length and  *)
(* the same successors.                                                    *)
(***************************************************************************)
EXTENDS Naturals, Sequences, FiniteSets

CONSTANTS
    Threads,     \* guest threads, one engine each
    Crews,       \* the sets of threads a guest program may have
    First, Last, \* the bytes of the code area
    PageSize,
    Rips,        \* addresses at which blocks start
    End,         \* End[r]: first byte after the block at r
    Succ,        \* Succ[r]: where the block at r may go next
    Stubs,       \* blocks matched by match_micro_stub: no function id, no direct calls
    Thr,         \* Thr[r]: visits before the block at r is compiled, 0 for at once
    Requests,    \* the byte ranges host calls are made for
    Stores,      \* the bytes of the code area the guest stores to
    MaxDepth,    \* MAX_CHAIN_DEPTH
    PageCap,     \* PENDING_WRITE_PAGE_CAP
    MaxFuncs,    \* MaxFuncs[n]: bound on the blocks a program of n threads compiles
    MaxCalls     \* MaxCalls[n]: bound on its host calls that touch memory or flush

ASSUME JitCodeAssumption ==
    /\ First \in Nat /\ Last \in Nat /\ PageSize \in Nat \ {0}
    /\ Rips \subseteq First..Last /\ Stubs \subseteq Rips
    /\ End \in [Rips -> First..(Last + 1)] /\ \A r \in Rips : r < End[r]
    /\ Requests \subseteq {s \in (First..Last) \X (First..(Last + 1)) : s[1] < s[2]}
    /\ Stores \subseteq First..Last
    /\ Succ \in [Rips -> SUBSET Rips] /\ Thr \in [Rips -> Nat]
    /\ MaxDepth \in Nat /\ PageCap \in Nat /\ IsFiniteSet(Threads)
    /\ Crews \subseteq SUBSET Threads
    /\ \A c \in Crews : Cardinality(c) \in DOMAIN MaxFuncs \cap DOMAIN MaxCalls

VARIABLES
    cache,        \* cache[r]: "none", "never", "hot" with visits, "ready" with a function
    chain_ids,    \* chain_ids[r]: the function later blocks call directly, 0 for none
    code_pages,   \* code_pages[p]: how many Ready blocks are counted on page p
    funcs,        \* every function ever compiled
    chain, edge,  \* chain[t][r], edge[t][r]: the function thread t goes on to, 0 for none
    pending,      \* pending_code_writes
    overflow,     \* pending_code_overflow
    noexec,       \* pages without execute permission
    th,           \* what each thread is doing
    calls,        \* host calls so far
    lost          \* history: the pages that were owed a count when the index was last cleared

vars == <<cache, chain_ids, code_pages, funcs, chain, edge, pending, overflow, noexec,
          th, calls, lost>>
tables == <<chain, edge>>

PageOf(a) == a \div PageSize
PagesOf(lo, hi) == PageOf(lo)..PageOf(hi - 1)
Pages == PagesOf(First, Last + 1)

None == [kind |-> "none", n |-> 0]
Never == [kind |-> "never", n |-> 0]
Hot(n) == [kind |-> "hot", n |-> n]
Ready(id) == [kind |-> "ready", n |-> id]
IsReady(r) == cache[r].kind = "ready"
NoTable == [r \in Rips |-> 0]

Idle == [pc |-> "loop", rip |-> 0, n |-> 0, id |-> 0, depth |-> 0, taint |-> {},
         todo |-> <<>>, drop |-> {}, api |-> FALSE]

At(t, pc) == th[t].pc = pc
Becomes(t, new) == th' = [th EXCEPT ![t] = new]
Goto(t, pc) == Becomes(t, [th[t] EXCEPT !.pc = pc])
Return(t) == Becomes(t, Idle)

(* The threads of this program: the primary, and workers that may not have started yet. *)
Crew == {t \in Threads : ~At(t, "absent")}

Overlaps(r, lo, hi) == r < hi /\ lo < End[r]

-----------------------------------------------------------------------------
Init ==
    /\ cache = [r \in Rips |-> None]
    /\ chain_ids = NoTable
    /\ code_pages = [p \in Pages |-> 0]
    /\ funcs = <<>>
    /\ chain = [t \in Threads |-> NoTable] /\ edge = [t \in Threads |-> NoTable]
    /\ pending = <<>> /\ overflow = FALSE
    /\ noexec = {}
    /\ \E c \in Crews : \E primary \in c :
          th = [t \in Threads |-> [Idle EXCEPT !.pc = IF t = primary THEN "loop"
                                                    ELSE IF t \in c THEN "hooks" ELSE "absent"]]
    /\ calls = 0 /\ lost = {}

-----------------------------------------------------------------------------
(* code_pages_add_range and code_pages_remove_range, for the block at r. *)
AddRange(r) == [p \in Pages |-> IF p \in PagesOf(r, End[r]) THEN code_pages[p] + 1 ELSE code_pages[p]]

RemoveRange(r) ==
    [p \in Pages |-> IF p \in PagesOf(r, End[r]) /\ code_pages[p] > 0
                     THEN code_pages[p] - 1 ELSE code_pages[p]]

(* step_one: the entry is cloned under the read lock, and acted on after it is released. *)
Lookup(t, r) ==
    LET e == cache[r]
    IN  /\ At(t, "loop")
        /\ Becomes(t,
             CASE e.kind = "ready" -> [th[t] EXCEPT !.pc = "native", !.rip = r, !.id = e.n]
               [] e.kind = "never" -> [th[t] EXCEPT !.pc = "interp", !.rip = r]
               [] e.kind = "hot" /\ e.n + 1 < Thr[r] -> [th[t] EXCEPT !.pc = "bump", !.rip = r, !.n = e.n + 1]
               [] e.kind = "none" /\ Thr[r] > 0 -> [th[t] EXCEPT !.pc = "bump", !.rip = r, !.n = 1]
               [] OTHER -> [th[t] EXCEPT !.pc = "decode", !.rip = r])
        /\ UNCHANGED <<cache, chain_ids, code_pages, funcs, tables, pending, overflow, noexec, calls, lost>>

(* Writing the visit count back, over whatever the entry is by now; then one interpreted step. *)
Bump(t) ==
    /\ At(t, "bump")
    /\ cache' = [cache EXCEPT ![th[t].rip] = Hot(th[t].n)]
    /\ Goto(t, "interp")
    /\ UNCHANGED <<chain_ids, code_pages, funcs, tables, pending, overflow, noexec, calls, lost>>

(* try_compile: decode under the memory lock, which is released before the compile; a block that *)
(* is not pure, or fails to lower, becomes Never.                                                *)
Decode(t) ==
    /\ At(t, "decode")
    /\ \/ /\ Len(funcs) + Cardinality({u \in Threads : At(u, "compile")}) < MaxFuncs[Cardinality(Crew)]
          /\ Becomes(t, [th[t] EXCEPT !.pc = "compile", !.taint = {}])
       \/ Goto(t, "never")
    /\ UNCHANGED <<cache, chain_ids, code_pages, funcs, tables, pending, overflow, noexec, calls, lost>>

MarkNever(t) ==
    /\ At(t, "never")
    /\ cache' = [cache EXCEPT ![th[t].rip] = Never]
    /\ Goto(t, "interp")
    /\ UNCHANGED <<chain_ids, code_pages, funcs, tables, pending, overflow, noexec, calls, lost>>

(* The direct calls compile_block plants: the successors that have an id by now, itself excepted. *)
Direct(r) == [s \in Rips |-> IF r \notin Stubs /\ s \in Succ[r] \ {r} THEN chain_ids[s] ELSE 0]

(* compile_block, or the hand-written trampoline of a stub; the new function goes into this       *)
(* thread's chain table.                                                                          *)
Compile(t) ==
    LET r == th[t].rip
        id == Len(funcs) + 1
    IN  /\ At(t, "compile")
        /\ funcs' = Append(funcs, [rip |-> r, direct |-> Direct(r), taint |-> th[t].taint])
        /\ chain' = [chain EXCEPT ![t][r] = id]
        /\ Becomes(t, [th[t] EXCEPT !.pc = "take", !.id = id, !.taint = {}])
        /\ UNCHANGED <<cache, chain_ids, code_pages, edge, pending, overflow, noexec, calls, lost>>

(* insert_ready, one step per lock: take the old entry out, uncount it, publish the id, count the *)
(* pages, put the new entry in.  The block then runs.                                             *)
InsertTake(t) ==
    LET r == th[t].rip
    IN  /\ At(t, "take")
        /\ cache' = [cache EXCEPT ![r] = None]
        /\ chain_ids' = IF IsReady(r) THEN [chain_ids EXCEPT ![r] = 0] ELSE chain_ids
        /\ Goto(t, IF IsReady(r) THEN "uncount" ELSE "publish")
        /\ UNCHANGED <<code_pages, funcs, tables, pending, overflow, noexec, calls, lost>>

InsertUncount(t) ==
    /\ At(t, "uncount")
    /\ code_pages' = RemoveRange(th[t].rip)
    /\ Goto(t, "publish")
    /\ UNCHANGED <<cache, chain_ids, funcs, tables, pending, overflow, noexec, calls, lost>>

InsertPublish(t) ==
    /\ At(t, "publish")
    /\ chain_ids' = IF th[t].rip \in Stubs THEN chain_ids ELSE [chain_ids EXCEPT ![th[t].rip] = th[t].id]
    /\ Goto(t, "count")
    /\ UNCHANGED <<cache, code_pages, funcs, tables, pending, overflow, noexec, calls, lost>>

InsertCount(t) ==
    /\ At(t, "count")
    /\ code_pages' = AddRange(th[t].rip)
    /\ Goto(t, "put")
    /\ UNCHANGED <<cache, chain_ids, funcs, tables, pending, overflow, noexec, calls, lost>>

InsertPut(t) ==
    /\ At(t, "put")
    /\ cache' = [cache EXCEPT ![th[t].rip] = Ready(th[t].id)]
    /\ Goto(t, "native")
    /\ UNCHANGED <<chain_ids, code_pages, funcs, tables, pending, overflow, noexec, calls, lost>>

-----------------------------------------------------------------------------
(* A store into the code area marks the functions made from the bytes it changes, and the blocks *)
(* being compiled from them.  The marks are history; the code keeps nothing of the kind.          *)
Tainted(lo, hi, kind) ==
    [i \in DOMAIN funcs |->
        IF Overlaps(funcs[i].rip, lo, hi) THEN [funcs[i] EXCEPT !.taint = @ \cup {kind}] ELSE funcs[i]]

Spoilt(lo, hi, kind) ==
    [t \in Threads |->
        IF At(t, "compile") /\ Overlaps(th[t].rip, lo, hi) THEN [th[t] EXCEPT !.taint = @ \cup {kind}] ELSE th[t]]

(* A guest store by compiled or interpreted code.  GuestMemory::write notes nothing. *)
GuestStore(t, a) ==
    /\ th[t].pc \in {"native", "interp"}
    /\ funcs' = Tainted(a, a + 1, "guest")
    /\ th' = [Spoilt(a, a + 1, "guest") EXCEPT ![t].pc = IF At(t, "interp") THEN "drain" ELSE "native"]
    /\ UNCHANGED <<cache, chain_ids, code_pages, tables, pending, overflow, noexec, calls, lost>>

(* exec::step without a store to code, and the exit of a compiled block to the dispatcher: at the *)
(* depth limit, where no successor is known, or by a fault.  Both end at the safe point.          *)
Leave(t) ==
    /\ th[t].pc \in {"native", "interp"}
    /\ Goto(t, "drain")
    /\ UNCHANGED <<cache, chain_ids, code_pages, funcs, tables, pending, overflow, noexec, calls, lost>>

(* chain_tail of a stub: the chain table only. *)
StubNext(t, s) == [fn |-> chain[t][s], install |-> FALSE]

(* wie_jit_chain_lookup: the edge cache, then the chain table, whose answer enters the edge cache. *)
LateBound(t, s) ==
    IF edge[t][s] # 0 THEN [fn |-> edge[t][s], install |-> FALSE]
    ELSE [fn |-> chain[t][s], install |-> chain[t][s] # 0]

(* emit_chain_or_exit: the direct call when there is one, else late binding. *)
Chain(t, s) ==
    LET f == funcs[th[t].id]
        next == IF f.rip \in Stubs THEN StubNext(t, s)
                ELSE IF f.direct[s] # 0 THEN [fn |-> f.direct[s], install |-> FALSE]
                ELSE LateBound(t, s)
    IN  /\ At(t, "native")
        /\ s \in Succ[f.rip] /\ th[t].depth < MaxDepth
        /\ next.fn # 0
        /\ Becomes(t, [th[t] EXCEPT !.rip = s, !.id = next.fn, !.depth = th[t].depth + 1])
        /\ edge' = IF next.install THEN [edge EXCEPT ![t][s] = next.fn] ELSE edge
        /\ UNCHANGED <<cache, chain_ids, code_pages, funcs, chain, pending, overflow, noexec, calls, lost>>

-----------------------------------------------------------------------------
Empty == \A r \in Rips : cache[r] = None

(* note_code_write: the pages written, the first only if it was not the last noted, or the overflow *)
(* flag when the list is full before the last of them.                                              *)
Note(lo, hi) ==
    LET n == Cardinality(PagesOf(lo, hi))
        pages == [i \in 1..n |-> PageOf(lo) + i - 1]
        seen == pending # <<>> /\ pending[Len(pending)] = PageOf(lo)
        before == Len(pending) + n - (IF seen /\ n > 1 THEN 2 ELSE 1)
    IN  IF overflow THEN [pages |-> pending, over |-> TRUE]
        ELSE IF before >= PageCap THEN [pages |-> <<>>, over |-> TRUE]
        ELSE [pages |-> pending \o (IF seen THEN Tail(pages) ELSE pages), over |-> FALSE]

NoteWrite(t) ==
    LET noted == Note(th[t].todo[1][1], th[t].todo[1][2])
    IN  /\ At(t, "note")
        /\ pending' = noted.pages /\ overflow' = noted.over
        /\ Becomes(t, [th[t] EXCEPT !.pc = "drain", !.todo = <<>>])
        /\ UNCHANGED <<cache, chain_ids, code_pages, funcs, tables, noexec, calls, lost>>

(* drain_pending_code_writes: take what any thread noted; a full flush after an overflow. *)
Drain(t) ==
    LET spans == [i \in DOMAIN pending |-> <<pending[i] * PageSize, (pending[i] + 1) * PageSize>>]
    IN  /\ At(t, "drain")
        /\ overflow' = FALSE /\ pending' = <<>>
        /\ IF overflow
           THEN IF Empty THEN Return(t) ELSE Goto(t, "flush")
           ELSE IF pending = <<>> THEN Return(t) ELSE Becomes(t, [th[t] EXCEPT !.pc = "test", !.todo = spans])
        /\ UNCHANGED <<cache, chain_ids, code_pages, funcs, tables, noexec, calls, lost>>

-----------------------------------------------------------------------------
(* invalidate_code_range, for the spans in todo. *)
NextSpan(t) ==
    IF Len(th[t].todo) = 1 THEN Return(t)
    ELSE Becomes(t, [th[t] EXCEPT !.pc = "test", !.todo = Tail(th[t].todo), !.drop = {}])

(* The fast reject: nothing cached, or no compiled code on any page of the span. *)
InvalidateTest(t) ==
    LET s == th[t].todo[1]
    IN  /\ At(t, "test")
        /\ IF Empty \/ \A p \in PagesOf(s[1], s[2]) \cap Pages : code_pages[p] = 0
           THEN NextSpan(t) ELSE Goto(t, "collect")
        /\ UNCHANGED <<cache, chain_ids, code_pages, funcs, tables, pending, overflow, noexec, calls, lost>>

(* Mutant: only blocks that start inside the span are found. *)
ToDrop_StartsInside(lo, hi) == {r \in Rips : IsReady(r) /\ lo <= r /\ r < hi}

ToDrop(lo, hi) == {r \in Rips : IsReady(r) /\ Overlaps(r, lo, hi)}

InvalidateCollect(t) ==
    LET found == ToDrop(th[t].todo[1][1], th[t].todo[1][2])
    IN  /\ At(t, "collect")
        /\ IF found = {} THEN NextSpan(t) ELSE Becomes(t, [th[t] EXCEPT !.pc = "drop", !.drop = found])
        /\ UNCHANGED <<cache, chain_ids, code_pages, funcs, tables, pending, overflow, noexec, calls, lost>>

(* Mutant: pages are uncounted without looking at what was removed. *)
DropEntry_Always(t, r) ==
    /\ At(t, "drop") /\ r \in th[t].drop
    /\ cache' = [cache EXCEPT ![r] = None]
    /\ Becomes(t, [th[t] EXCEPT !.pc = "dropUncount", !.rip = r])
    /\ UNCHANGED <<chain_ids, code_pages, funcs, tables, pending, overflow, noexec, calls, lost>>

(* The entry is removed whatever it is by now; its pages are uncounted only if it is Ready. *)
DropEntry(t, r) ==
    /\ At(t, "drop") /\ r \in th[t].drop
    /\ cache' = [cache EXCEPT ![r] = None]
    /\ Becomes(t, [th[t] EXCEPT !.pc = IF IsReady(r) THEN "dropUncount" ELSE "dropId", !.rip = r])
    /\ UNCHANGED <<chain_ids, code_pages, funcs, tables, pending, overflow, noexec, calls, lost>>

DropUncount(t) ==
    /\ At(t, "dropUncount")
    /\ code_pages' = RemoveRange(th[t].rip)
    /\ Goto(t, "dropId")
    /\ UNCHANGED <<cache, chain_ids, funcs, tables, pending, overflow, noexec, calls, lost>>

(* Mutant: the id for direct calls survives the block. *)
DropId_Kept(t) ==
    LET left == th[t].drop \ {th[t].rip}
    IN  /\ At(t, "dropId")
        /\ Becomes(t, [th[t] EXCEPT !.pc = IF left = {} THEN "relink" ELSE "drop", !.drop = left])
        /\ UNCHANGED <<cache, chain_ids, code_pages, funcs, tables, pending, overflow, noexec, calls, lost>>

DropId(t) ==
    LET left == th[t].drop \ {th[t].rip}
    IN  /\ At(t, "dropId")
        /\ chain_ids' = [chain_ids EXCEPT ![th[t].rip] = 0]
        /\ Becomes(t, [th[t] EXCEPT !.pc = IF left = {} THEN "relink" ELSE "drop", !.drop = left])
        /\ UNCHANGED <<cache, code_pages, funcs, tables, pending, overflow, noexec, calls, lost>>

(* Mutant: the edge cache survives. *)
Relink_KeepsEdges(t) ==
    /\ At(t, "relink")
    /\ chain' = [chain EXCEPT ![t] = [r \in Rips |-> IF IsReady(r) THEN cache[r].n ELSE 0]]
    /\ NextSpan(t)
    /\ UNCHANGED <<cache, chain_ids, code_pages, funcs, edge, pending, overflow, noexec, calls, lost>>

(* invalidate_chain_and_shadow, then this thread's chain table again from what is Ready. *)
Relink(t) ==
    /\ At(t, "relink")
    /\ chain' = [chain EXCEPT ![t] = [r \in Rips |-> IF IsReady(r) THEN cache[r].n ELSE 0]]
    /\ edge' = [edge EXCEPT ![t] = NoTable]
    /\ NextSpan(t)
    /\ UNCHANGED <<cache, chain_ids, code_pages, funcs, pending, overflow, noexec, calls, lost>>

(* install_runtime_hooks, the first thing a worker does, outside the WinAPI mutex: clear_compiled *)
(* on the shared cache and the worker's own tables, whatever the other threads are doing.          *)
InstallRuntimeHooks(t) ==
    /\ At(t, "hooks")
    /\ Goto(t, "flush")
    /\ UNCHANGED <<cache, chain_ids, code_pages, funcs, tables, pending, overflow, noexec, calls, lost>>

(* clear_compiled under its three locks, and this thread's tables. *)
FlushCache(t) ==
    /\ At(t, "flush")
    /\ cache' = [r \in Rips |-> None]
    /\ Goto(t, "flushIds")
    /\ UNCHANGED <<chain_ids, code_pages, funcs, tables, pending, overflow, noexec, calls, lost>>

FlushIds(t) ==
    /\ At(t, "flushIds")
    /\ chain_ids' = NoTable
    /\ Goto(t, "flushPages")
    /\ UNCHANGED <<cache, code_pages, funcs, tables, pending, overflow, noexec, calls, lost>>

(* A page is owed a count by a block that is Ready on it, and by a thread between counting a block *)
(* and putting it in, or between taking it out and uncounting it.                                  *)
ReadyOn(p) == {r \in Rips : IsReady(r) /\ p \in PagesOf(r, End[r])}
Holding == {"put", "uncount", "dropUncount"}
Holders(p) == {t \in Threads : th[t].pc \in Holding /\ p \in PagesOf(th[t].rip, End[th[t].rip])}

FlushPages(t) ==
    /\ At(t, "flushPages")
    /\ code_pages' = [p \in Pages |-> 0]
    /\ lost' = {p \in Pages : ReadyOn(p) # {} \/ Holders(p) # {}}
    /\ Goto(t, "flushTables")
    /\ UNCHANGED <<cache, chain_ids, funcs, tables, pending, overflow, noexec, calls>>

FlushTables(t) ==
    /\ At(t, "flushTables")
    /\ chain' = [chain EXCEPT ![t] = NoTable] /\ edge' = [edge EXCEPT ![t] = NoTable]
    /\ Return(t)
    /\ UNCHANGED <<cache, chain_ids, code_pages, funcs, pending, overflow, noexec, calls, lost>>

-----------------------------------------------------------------------------
(* Host calls, made by the handler of a guest thread that stopped at an API. *)
HostCall(t) ==
    /\ At(t, "loop")
    /\ \A u \in Threads : ~th[u].api
    /\ calls < MaxCalls[Cardinality(Crew)]
    /\ calls' = calls + 1
    /\ UNCHANGED <<cache, chain_ids, code_pages, tables, pending, overflow, lost>>

In(t, pc, span, threads) ==
    th' = [threads EXCEPT ![t] = [Idle EXCEPT !.pc = pc, !.todo = <<span>>, !.api = TRUE]]

(* mem_write: the bytes change under the memory lock; noting and draining follow. *)
MemWrite(t, lo, hi) ==
    /\ HostCall(t)
    /\ funcs' = Tainted(lo, hi, "host")
    /\ In(t, "note", <<lo, hi>>, Spoilt(lo, hi, "host"))
    /\ UNCHANGED noexec

(* virtual_protect: rights change for whole pages; when execute is lost, the blocks that overlap *)
(* the bytes of the request are dropped.                                                          *)
VirtualProtect(t, lo, hi, executable) ==
    /\ HostCall(t)
    /\ noexec' = IF executable THEN noexec \ PagesOf(lo, hi) ELSE noexec \cup PagesOf(lo, hi)
    /\ IF executable THEN UNCHANGED th ELSE In(t, "test", <<lo, hi>>, th)
    /\ UNCHANGED funcs

(* code_inv_span_for_free: the pages of the request. *)
CodeInvSpanForFree(lo, hi) == <<PageOf(lo) * PageSize, (PageOf(hi - 1) + 1) * PageSize>>

(* virtual_free: the pages go, then every block on them. *)
VirtualFree(t, lo, hi) ==
    LET span == CodeInvSpanForFree(lo, hi)
    IN  /\ HostCall(t)
        /\ noexec' = noexec \cup PagesOf(lo, hi)
        /\ funcs' = Tainted(span[1], span[2], "host")
        /\ In(t, "test", span, Spoilt(span[1], span[2], "host"))

(* virtual_alloc and mem_map set the rights of pages and touch no compiled code. *)
VirtualAlloc(t, p, executable) ==
    /\ HostCall(t)
    /\ noexec' = IF executable THEN noexec \ {p} ELSE noexec \cup {p}
    /\ UNCHANGED <<funcs, th>>

(* flush_instruction_cache: a range, or everything for size 0. *)
FlushRange(t, lo, hi) ==
    /\ HostCall(t)
    /\ In(t, "test", <<lo, hi>>, th)
    /\ UNCHANGED <<funcs, noexec>>

FlushAll(t) ==
    /\ HostCall(t)
    /\ ~Empty
    /\ In(t, "flush", <<First, Last + 1>>, th)
    /\ UNCHANGED <<funcs, noexec>>

-----------------------------------------------------------------------------
Run(t) ==
    \/ \E r \in Rips : Lookup(t, r) \/ Chain(t, r)
    \/ Bump(t) \/ Decode(t) \/ MarkNever(t) \/ Compile(t)
    \/ InsertTake(t) \/ InsertUncount(t) \/ InsertPublish(t) \/ InsertCount(t) \/ InsertPut(t)
    \/ \E a \in Stores : GuestStore(t, a)
    \/ Leave(t) \/ Drain(t)

Invalidate(t) ==
    \/ InvalidateTest(t) \/ InvalidateCollect(t)
    \/ \E r \in Rips : DropEntry(t, r)
    \/ DropUncount(t) \/ DropId(t) \/ Relink(t)
    \/ InstallRuntimeHooks(t)
    \/ FlushCache(t) \/ FlushIds(t) \/ FlushPages(t) \/ FlushTables(t)

Call(t) ==
    \/ \E s \in Requests : MemWrite(t, s[1], s[2]) \/ VirtualFree(t, s[1], s[2]) \/ FlushRange(t, s[1], s[2])
    \/ \E s \in Requests, x \in BOOLEAN : VirtualProtect(t, s[1], s[2], x)
    \/ \E p \in Pages, x \in BOOLEAN : VirtualAlloc(t, p, x)
    \/ NoteWrite(t) \/ FlushAll(t)

Next == \E t \in Threads : Run(t) \/ Invalidate(t) \/ Call(t)

Spec == Init /\ [][Next]_vars

-----------------------------------------------------------------------------
(* Whatever the installs, drops and full flushes of several threads do between their locks, and   *)
(* though every worker flushes as it starts, the index of code pages misses a Ready block only on  *)
(* a page that a flush uncounted between another thread's count and its entry; everywhere else the *)
(* fast reject of invalidate_code_range is sound, again after the next flush that meets nobody.    *)
IndexCovers ==
    \A p \in Pages \ lost : ReadyOn(p) # {} => code_pages[p] > 0

(* The program has one thread, and it is between two blocks or in one. *)
Alone(t) == Crew = {t} /\ th[t].pc \in {"loop", "interp", "native"}

(* With one thread the index counts exactly the Ready blocks of each page, and the ids for direct *)
(* calls are those of the Ready blocks.                                                           *)
IndexExact ==
    \A t \in Threads : Alone(t) =>
        /\ \A p \in Pages : code_pages[p] = Cardinality(ReadyOn(p))
        /\ \A r \in Rips : chain_ids[r] = IF IsReady(r) /\ r \notin Stubs THEN cache[r].n ELSE 0

(* With one thread, no block stays Ready once a host write or a free changed its bytes, however   *)
(* many pages the write covered.                                                                  *)
ReadyCurrent ==
    \A t \in Threads : Alone(t) =>
        \A r \in Rips : IsReady(r) => "host" \notin funcs[cache[r].n].taint

(* "Chain table + edge IC never dispatch to a non-Ready guest VA", with one thread. *)
TablesReady ==
    \A t \in Threads : Alone(t) =>
        \A r \in Rips : {chain[t][r], edge[t][r]} \subseteq {0} \cup {cache[q].n : q \in {r} \cap {x \in Rips : IsReady(x)}}

(* "Chain table + edge IC never dispatch to a non-Ready guest VA", as the text says it: for every *)
(* thread that is about to run guest code while no call is under way.                             *)
AllTablesReady ==
    (\A t \in Crew : At(t, "loop")) =>
        \A t \in Crew, r \in Rips :
            chain[t][r] # 0 => cache[r] = Ready(chain[t][r])

(* "A Ready block may run only while its guest range [...] has not been written since compile":   *)
(* the functions one thread enters, at the dispatcher or through a chain, are current.            *)
RunsCurrent ==
    [][\A t \in Threads :
          Alone(t) /\ th'[t].pc = "native" /\ (At(t, "loop") \/ th'[t].depth > th[t].depth)
              => "host" \notin funcs[th'[t].id].taint]_vars

(* "Successful store overlapping a Ready range -> that range is not Ready after the next safe     *)
(* point": the same for the guest's own stores.                                                   *)
StoresNoticed ==
    \A t \in Threads : Crew = {t} /\ At(t, "loop") =>
        \A r \in Rips : IsReady(r) => "guest" \notin funcs[cache[r].n].taint

(* "A Ready block may run only while its guest range is still executable". *)
ReadyExecutable ==
    \A t \in Threads : Crew = {t} /\ At(t, "loop") =>
        \A r \in Rips : IsReady(r) => PagesOf(r, End[r]) \cap noexec = {}

(* The same as IndexCovers, also on a page a flush has uncounted too early. *)
IndexCoversAlways ==
    \A p \in Pages : ReadyOn(p) # {} => code_pages[p] > 0
=============================================================================
