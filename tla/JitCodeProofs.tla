---------------------------- MODULE JitCodeProofs ----------------------------
(***************************************************************************)
(* The code cache for every set of threads, every layout of blocks and     *)
(* every page size: a thread runs only functions compiled for the address  *)
(* it is at, the index of code pages never misses a Ready block, and with  *)
(* one thread the index, the ids for direct calls and the links are exact  *)
(* and no Ready block is out of date.                                      *)
(***************************************************************************)
EXTENDS JitCode, FiniteSetTheorems, SequenceTheorems, TLAPS

Labels ==
    {"absent", "loop", "native", "interp", "drain", "note", "test", "collect", "relink", "flush",
     "flushIds", "flushPages", "flushTables", "hooks", "bump", "decode", "never", "compile", "take", "uncount",
     "publish", "count", "put", "drop", "dropUncount", "dropId"}

(* Where rip is the address of a block, and where id is a function for it. *)
Placed ==
    {"native", "bump", "decode", "never", "compile", "take", "uncount", "publish", "count", "put",
     "dropUncount", "dropId"}
Loaded == {"native", "take", "uncount", "publish", "count", "put"}

(* Where a span of the invalidation is under way. *)
Spanning == {"note", "test", "collect", "drop", "dropUncount", "dropId", "relink"}

Marks == {"host", "guest"}
Spans == {s \in Nat \X Nat : s[1] < s[2]}
Entries == [kind : {"none", "never", "hot", "ready"}, n : Nat]
FuncRecords == [rip : Rips, direct : [Rips -> Nat], taint : SUBSET Marks]
ThreadStates ==
    [pc : Labels, rip : Rips \cup {0}, n : Nat, id : Nat, depth : Nat, taint : SUBSET Marks,
     todo : Seq(Spans), drop : SUBSET Rips, api : BOOLEAN]

TypeOK ==
    /\ cache \in [Rips -> Entries]
    /\ chain_ids \in [Rips -> Nat]
    /\ code_pages \in [Pages -> Nat]
    /\ funcs \in Seq(FuncRecords)
    /\ chain \in [Threads -> [Rips -> Nat]] /\ edge \in [Threads -> [Rips -> Nat]]
    /\ pending \in Seq(Nat)
    /\ overflow \in BOOLEAN /\ lost \in SUBSET Pages
    /\ th \in [Threads -> ThreadStates]

(* id is a function of F compiled for the address r. *)
For(F, id, r) == id \in 1..Len(F) /\ F[id].rip = r

LinkOK(F, id, r) == id = 0 \/ For(F, id, r)

ThreadOK(F, x) ==
    /\ x.pc \in Placed => x.rip \in Rips
    /\ x.pc \in Loaded => For(F, x.id, x.rip)
    /\ x.pc \in Spanning => x.todo # <<>>

(* Every id kept anywhere is that of a function compiled for the address it is kept for. *)
EntriesRight == \A r \in Rips : IsReady(r) => For(funcs, cache[r].n, r)
IdsRight == \A r \in Rips : LinkOK(funcs, chain_ids[r], r)
TablesRight == \A t \in Threads, r \in Rips : LinkOK(funcs, chain[t][r], r) /\ LinkOK(funcs, edge[t][r], r)
DirectRight == \A i \in 1..Len(funcs), s \in Rips : LinkOK(funcs, funcs[i].direct[s], s)
ThreadsRight == \A t \in Threads : ThreadOK(funcs, th[t])

Basics == TypeOK /\ EntriesRight /\ IdsRight /\ TablesRight /\ DirectRight /\ ThreadsRight

-----------------------------------------------------------------------------
(* What the count of page p owes: its Ready blocks, and the threads between two locks. *)
Claims(p) == Cardinality(ReadyOn(p)) + Cardinality(Holders(p))

(* Every Ready block and every block on its way in or out is counted, unless a flush lost it. *)
ClaimsCounted == \A p \in Pages \ lost : Claims(p) <= code_pages[p]

IInv == Basics /\ ClaimsCounted
-----------------------------------------------------------------------------
(* A program of one thread. *)
Solo(t) == Crew = {t}

Inserting == {"take", "publish", "count", "put"}
Dropping == {"drop", "dropUncount", "dropId"}
Flushing == {"flushIds", "flushPages", "flushTables"}

(* What it compiles or drops is not Ready, and a flush has emptied the cache. *)
SoloEntries(t) ==
    /\ th[t].pc \in Inserting \cup {"bump", "decode", "never", "compile", "dropUncount", "dropId"} =>
           ~IsReady(th[t].rip)
    /\ th[t].pc # "uncount"
    /\ th[t].pc \in Flushing => Empty

SoloIndex(t) == th[t].pc \notin {"flushIds", "flushPages"} => \A p \in Pages : code_pages[p] = Claims(p)

IdOf(r) == IF IsReady(r) /\ r \notin Stubs THEN cache[r].n ELSE 0

SoloIds(t) ==
    th[t].pc # "flushIds" =>
        \A r \in Rips :
            \/ r = th[t].rip /\ th[t].pc \in {"dropUncount", "dropId"}
            \/ chain_ids[r] = IF r = th[t].rip /\ th[t].pc \in {"count", "put"} /\ r \notin Stubs
                              THEN th[t].id ELSE IdOf(r)

EntryOf(r) == IF IsReady(r) THEN {0, cache[r].n} ELSE {0}

SoloTables(t) ==
    th[t].pc \notin Dropping \cup Flushing \cup {"relink"} =>
        \A r \in Rips :
            /\ edge[t][r] \in EntryOf(r)
            /\ \/ chain[t][r] \in EntryOf(r)
               \/ r = th[t].rip /\ th[t].pc \in Inserting /\ chain[t][r] = th[t].id

SoloWrites(t) == th[t].pc # "drain" => pending = <<>> /\ ~overflow

SoloClean(t) ==
    /\ th[t].pc = "compile" => th[t].taint = {}
    /\ th[t].pc \in Inserting => "host" \notin funcs[th[t].id].taint

OverlapsOne(r, spans, k) == \E i \in k..Len(spans) : Overlaps(r, spans[i][1], spans[i][2])

(* The block at r is about to be dropped. *)
Due(t, r) ==
    \/ th[t].pc = "note" /\ Overlaps(r, th[t].todo[1][1], th[t].todo[1][2])
    \/ th[t].pc = "drain" /\ overflow
    \/ /\ th[t].pc = "drain"
       /\ \E i \in 1..Len(pending) : Overlaps(r, pending[i] * PageSize, (pending[i] + 1) * PageSize)
    \/ th[t].pc \in {"test", "collect"} /\ OverlapsOne(r, th[t].todo, 1)
    \/ th[t].pc \in Dropping /\ (r \in th[t].drop \/ OverlapsOne(r, th[t].todo, 2))
    \/ th[t].pc = "relink" /\ OverlapsOne(r, th[t].todo, 2)
    \/ th[t].pc = "flush"

SoloCurrent(t) ==
    \A r \in Rips : IsReady(r) /\ "host" \in funcs[cache[r].n].taint => Due(t, r)

SoloRest(t) ==
    SoloEntries(t) /\ SoloIds(t) /\ SoloTables(t) /\ SoloWrites(t) /\ SoloClean(t) /\ SoloCurrent(t)

SoloInv == \A t \in Threads : Solo(t) => SoloIndex(t) /\ SoloRest(t)
-----------------------------------------------------------------------------
(* Pages. *)
LEMMA PageFacts ==
    ASSUME NEW a \in Nat
    PROVE  PageOf(a) \in Nat /\ PageOf(a) * PageSize <= a /\ a < (PageOf(a) + 1) * PageSize
BY JitCodeAssumption DEF PageOf

(* Pages follow the order of addresses. *)
LEMMA PageMonotone ==
    ASSUME NEW a \in Nat, NEW b \in Nat, a <= b
    PROVE  PageOf(a) <= PageOf(b)
BY JitCodeAssumption DEF PageOf

(* A block is on pages of the code area, and its bytes are on its pages. *)
LEMMA BlockPages ==
    ASSUME NEW r \in Rips
    PROVE  /\ r \in Nat /\ End[r] \in Nat /\ r < End[r]
           /\ PagesOf(r, End[r]) \subseteq Pages
           /\ \A a \in Nat : r <= a /\ a < End[r] => PageOf(a) \in PagesOf(r, End[r])
<1>1. /\ First \in Nat /\ Last \in Nat /\ r \in Nat /\ End[r] \in Nat /\ End[r] - 1 \in Nat
      /\ First <= r /\ r < End[r] /\ End[r] - 1 <= Last
  BY JitCodeAssumption
<1>2. PageOf(First) <= PageOf(r) /\ PageOf(End[r] - 1) <= PageOf(Last)
  BY <1>1, PageMonotone
<1>3. PageOf(First) \in Nat /\ PageOf(Last) \in Nat /\ PageOf(r) \in Nat /\ PageOf(End[r] - 1) \in Nat
  BY <1>1, PageFacts
<1>4. PagesOf(r, End[r]) \subseteq Pages
  BY <1>1, <1>2, <1>3 DEF PagesOf, Pages
<1>5. ASSUME NEW a \in Nat, r <= a, a < End[r]
      PROVE  PageOf(a) \in PagesOf(r, End[r])
  BY <1>1, <1>3, <1>5, PageMonotone, PageFacts DEF PagesOf
<1> QED
  BY <1>1, <1>4, <1>5

(* A block and a span that overlap share a page. *)
LEMMA SharedPage ==
    ASSUME NEW r \in Rips, NEW s \in Spans, Overlaps(r, s[1], s[2])
    PROVE  \E a \in Nat : /\ s[1] <= a /\ a < s[2] /\ r <= a /\ a < End[r]
                          /\ PageOf(a) \in PagesOf(r, End[r]) /\ PageOf(a) \in PagesOf(s[1], s[2])
<1>1. r \in Nat /\ End[r] \in Nat /\ r < End[r] /\ r < s[2] /\ s[1] < End[r]
  BY BlockPages DEF Overlaps
<1>2. s[1] \in Nat /\ s[2] \in Nat /\ s[2] - 1 \in Nat /\ s[1] < s[2]
  BY DEF Spans
<1>3. PICK a \in Nat : s[1] <= a /\ a < s[2] /\ r <= a /\ a < End[r]
  <2>1. CASE r <= s[1]
    BY <1>1, <1>2, <2>1
  <2>2. CASE ~(r <= s[1])
    BY <1>1, <1>2, <2>2
  <2> QED
    BY <2>1, <2>2
<1>4. PageOf(s[1]) <= PageOf(a) /\ PageOf(a) <= PageOf(s[2] - 1)
  BY <1>2, <1>3, PageMonotone
<1>5. PageOf(a) \in Nat /\ PageOf(s[1]) \in Nat /\ PageOf(s[2] - 1) \in Nat
  BY <1>2, PageFacts
<1> QED
  BY <1>3, <1>4, <1>5, BlockPages DEF PagesOf

-----------------------------------------------------------------------------
(* Functions are only added, and keep the address they were compiled for. *)
Grows ==
    /\ funcs' \in Seq(FuncRecords)
    /\ Len(funcs) <= Len(funcs')
    /\ \A i \in 1..Len(funcs) : funcs'[i].rip = funcs[i].rip

(* Links into the table of functions stay right as it grows. *)
LEMMA LinksKept ==
    ASSUME TypeOK, Grows
    PROVE  \A id, r : /\ For(funcs, id, r) => For(funcs', id, r)
                      /\ LinkOK(funcs, id, r) => LinkOK(funcs', id, r)
<1>1. Len(funcs) \in Nat /\ Len(funcs') \in Nat
  BY DEF TypeOK, Grows
<1>2. \A id, r : For(funcs, id, r) => For(funcs', id, r)
  BY <1>1 DEF For, Grows
<1> QED
  BY <1>2 DEF LinkOK

(* A table of functions that does not change grows, trivially. *)
LEMMA StillGrows ==
    ASSUME TypeOK, funcs' = funcs
    PROVE  Grows
BY DEF TypeOK, Grows

(* One thread changes. *)
LEMMA OneThread ==
    ASSUME Basics, NEW t \in Threads, NEW x \in ThreadStates, th' = [th EXCEPT ![t] = x],
           Grows, ThreadOK(funcs', x)
    PROVE  /\ th' \in [Threads -> ThreadStates]
           /\ ThreadsRight'
           /\ th'[t] = x /\ \A u \in Threads \ {t} : th'[u] = th[u]
<1>1. /\ th' \in [Threads -> ThreadStates]
      /\ th'[t] = x /\ \A u \in Threads \ {t} : th'[u] = th[u]
  BY DEF Basics, TypeOK
<1>2. ASSUME NEW u \in Threads \ {t}
      PROVE  ThreadOK(funcs', th'[u])
  <2>1. th'[u] = th[u] /\ ThreadOK(funcs, th[u])
    BY <1>1 DEF Basics, ThreadsRight
  <2> QED
    BY <2>1, LinksKept DEF ThreadOK, Basics
<1> QED
  BY <1>1, <1>2 DEF ThreadsRight

(* A step that touches no function and no link. *)
LEMMA QuietBasics ==
    ASSUME Basics, NEW t \in Threads, NEW x \in ThreadStates, th' = [th EXCEPT ![t] = x],
           ThreadOK(funcs, x),
           UNCHANGED <<cache, chain_ids, funcs, chain, edge>>,
           code_pages' \in [Pages -> Nat], pending' \in Seq(Nat),
           overflow' \in BOOLEAN, lost' \in SUBSET Pages
    PROVE  Basics'
<1>1. Grows
  BY StillGrows DEF Basics
<1>2. th' \in [Threads -> ThreadStates] /\ ThreadsRight'
  BY <1>1, OneThread
<1>3. EntriesRight' /\ IdsRight' /\ TablesRight' /\ DirectRight'
  BY DEF Basics, EntriesRight, IdsRight, TablesRight, DirectRight, IsReady
<1> QED
  BY <1>2, <1>3 DEF Basics, TypeOK

(* Moving a thread to another label changes nothing else of it. *)
LEMMA Moved ==
    ASSUME NEW x \in ThreadStates, NEW l \in Labels
    PROVE  LET y == [x EXCEPT !.pc = l]
           IN  y \in ThreadStates /\ y.pc = l /\ y.rip = x.rip /\ y.id = x.id /\ y.todo = x.todo
BY DEF ThreadStates

(* A thread that only moves on, to a label its rip, id and spans allow. *)
LEMMA GotoBasics ==
    ASSUME Basics, NEW t \in Threads, NEW l \in Labels, Goto(t, l),
           l \in Placed => th[t].pc \in Placed,
           l \in Loaded => th[t].pc \in Loaded,
           l \in Spanning => th[t].pc \in Spanning,
           UNCHANGED <<cache, chain_ids, funcs, chain, edge>>,
           code_pages' \in [Pages -> Nat], pending' \in Seq(Nat),
           overflow' \in BOOLEAN, lost' \in SUBSET Pages
    PROVE  Basics'
<1> DEFINE x == [th[t] EXCEPT !.pc = l]
<1>1. th[t] \in ThreadStates /\ ThreadOK(funcs, th[t])
  BY DEF Basics, TypeOK, ThreadsRight
<1>2. x \in ThreadStates /\ x.pc = l /\ x.rip = th[t].rip /\ x.id = th[t].id /\ x.todo = th[t].todo
  BY <1>1, Moved
<1>3. ThreadOK(funcs, x)
  BY <1>1, <1>2 DEF ThreadOK
<1>4. th' = [th EXCEPT ![t] = x]
  BY DEF Goto, Becomes
<1> HIDE DEF x
<1> QED
  BY <1>2, <1>3, <1>4, QuietBasics

(* A thread that is back in its loop owes nothing. *)
LEMMA IdleTyped == Idle \in ThreadStates /\ \A F : ThreadOK(F, Idle)
<1>1. <<>> \in Seq(Spans)
  OBVIOUS
<1> QED
  BY <1>1 DEF Idle, ThreadStates, Labels, ThreadOK, Placed, Loaded, Spanning

(* A call that returns. *)
LEMMA ReturnBasics ==
    ASSUME Basics, NEW t \in Threads, Return(t),
           UNCHANGED <<cache, chain_ids, funcs, chain, edge>>,
           code_pages' \in [Pages -> Nat], pending' \in Seq(Nat),
           overflow' \in BOOLEAN, lost' \in SUBSET Pages
    PROVE  Basics'
BY IdleTyped, QuietBasics DEF Return, Becomes

(* The loop looks up an address: run, interpret or count. *)
LEMMA LookupBasics ==
    ASSUME Basics, NEW t \in Threads, NEW r \in Rips, Lookup(t, r)
    PROVE  Basics'
<1>1. th[t] \in ThreadStates /\ cache[r] \in Entries /\ Thr[r] \in Nat
  BY JitCodeAssumption DEF Basics, TypeOK
<1>2. PICK x : /\ th' = [th EXCEPT ![t] = x]
               /\ \/ cache[r].kind = "ready" /\ x = [th[t] EXCEPT !.pc = "native", !.rip = r, !.id = cache[r].n]
                  \/ x = [th[t] EXCEPT !.pc = "interp", !.rip = r]
                  \/ x = [th[t] EXCEPT !.pc = "bump", !.rip = r, !.n = cache[r].n + 1]
                  \/ x = [th[t] EXCEPT !.pc = "bump", !.rip = r, !.n = 1]
                  \/ x = [th[t] EXCEPT !.pc = "decode", !.rip = r]
  BY DEF Lookup, Becomes
<1>3. x \in ThreadStates
  <2>1. cache[r].n \in Nat /\ cache[r].n + 1 \in Nat
    BY <1>1 DEF Entries
  <2>2. {"native", "interp", "bump", "decode"} \subseteq Labels
    BY DEF Labels
  <2>3. CASE x = [th[t] EXCEPT !.pc = "native", !.rip = r, !.id = cache[r].n]
    BY <1>1, <2>1, <2>2, <2>3 DEF ThreadStates
  <2>4. CASE x = [th[t] EXCEPT !.pc = "interp", !.rip = r]
    BY <1>1, <2>2, <2>4 DEF ThreadStates
  <2>5. CASE x = [th[t] EXCEPT !.pc = "bump", !.rip = r, !.n = cache[r].n + 1]
    BY <1>1, <2>1, <2>2, <2>5 DEF ThreadStates
  <2>6. CASE x = [th[t] EXCEPT !.pc = "bump", !.rip = r, !.n = 1]
    BY <1>1, <2>2, <2>6 DEF ThreadStates
  <2>7. CASE x = [th[t] EXCEPT !.pc = "decode", !.rip = r]
    BY <1>1, <2>2, <2>7 DEF ThreadStates
  <2> QED
    BY <1>2, <2>3, <2>4, <2>5, <2>6, <2>7
<1>4. ThreadOK(funcs, x)
  <2>1. cache[r].kind = "ready" => For(funcs, cache[r].n, r)
    BY DEF Basics, EntriesRight, IsReady
  <2> QED
    BY <1>1, <1>2, <2>1 DEF ThreadOK, ThreadStates, Placed, Loaded, Spanning
<1> QED
  BY <1>2, <1>3, <1>4, QuietBasics DEF Lookup, tables, Basics, TypeOK

(* The visit count and Never overwrite an entry; no id is lost or made. *)
LEMMA MarkBasics ==
    ASSUME Basics, NEW t \in Threads, Bump(t) \/ MarkNever(t)
    PROVE  Basics'
<1> DEFINE r == th[t].rip
<1> DEFINE x == [th[t] EXCEPT !.pc = "interp"]
<1>1. th[t] \in ThreadStates /\ r \in Rips
  BY DEF Basics, TypeOK, ThreadsRight, ThreadOK, Bump, MarkNever, At, Placed
<1>2. x \in ThreadStates /\ x.pc = "interp" /\ th' = [th EXCEPT ![t] = x]
  BY <1>1 DEF Bump, MarkNever, Goto, Becomes, ThreadStates, Labels
<1>3. ThreadOK(funcs, x)
  BY <1>2 DEF ThreadOK, Placed, Loaded, Spanning
<1>4. \E e \in Entries : cache' = [cache EXCEPT ![r] = e] /\ e.kind # "ready"
  BY <1>1 DEF Bump, MarkNever, Hot, Never, Entries, ThreadStates
<1>5. cache' \in [Rips -> Entries] /\ EntriesRight'
  BY <1>1, <1>4 DEF Basics, TypeOK, EntriesRight, IsReady, Bump, MarkNever
<1>6. Grows
  BY StillGrows DEF Basics, Bump, MarkNever
<1>7. th' \in [Threads -> ThreadStates] /\ ThreadsRight'
  <2> HIDE DEF x
  <2> QED
    BY <1>2, <1>3, <1>6, OneThread DEF Bump, MarkNever
<1>8. IdsRight' /\ TablesRight' /\ DirectRight'
  BY DEF Basics, IdsRight, TablesRight, DirectRight, Bump, MarkNever, tables
<1> QED
  BY <1>5, <1>7, <1>8 DEF Basics, TypeOK, Bump, MarkNever, tables

(* A hot block is decoded. *)
LEMMA DecodeBasics ==
    ASSUME Basics, NEW t \in Threads, Decode(t)
    PROVE  Basics'
<1>1. /\ th[t] \in ThreadStates /\ th[t].rip \in Rips /\ th[t].pc = "decode"
      /\ UNCHANGED <<cache, chain_ids, funcs, chain, edge>>
  BY DEF Basics, TypeOK, ThreadsRight, ThreadOK, Decode, At, Placed, tables
<1>2. CASE Becomes(t, [th[t] EXCEPT !.pc = "compile", !.taint = {}])
  <2> DEFINE x == [th[t] EXCEPT !.pc = "compile", !.taint = {}]
  <2>1. x \in ThreadStates /\ x.pc = "compile" /\ x.rip = th[t].rip
    BY <1>1 DEF ThreadStates, Labels
  <2>2. ThreadOK(funcs, x)
    BY <1>1, <2>1 DEF ThreadOK, Loaded, Spanning
  <2>3. th' = [th EXCEPT ![t] = x]
    BY <1>2 DEF Becomes
  <2> HIDE DEF x
  <2> QED
    BY <1>1, <2>1, <2>2, <2>3, QuietBasics DEF Decode, Basics, TypeOK
<1>3. CASE Goto(t, "never")
  <2>1. "never" \in Labels /\ "never" \notin Loaded \cup Spanning /\ "decode" \in Placed
    BY DEF Labels, Loaded, Spanning, Placed
  <2> QED
    BY <1>1, <1>3, <2>1, GotoBasics DEF Decode, Basics, TypeOK
<1> QED
  BY <1>2, <1>3 DEF Decode

(* The direct calls baked into a block lead to functions that exist. *)
LEMMA DirectTyped ==
    ASSUME Basics, NEW r \in Rips
    PROVE  Direct(r) \in [Rips -> Nat] /\ \A s \in Rips : LinkOK(funcs, Direct(r)[s], s)
BY DEF Direct, Basics, TypeOK, IdsRight, LinkOK

(* The compiled function is appended, with its direct calls. *)
LEMMA CompileBasics ==
    ASSUME Basics, NEW t \in Threads, Compile(t)
    PROVE  Basics'
<1> DEFINE r == th[t].rip
<1> DEFINE id == Len(funcs) + 1
<1> DEFINE f == [rip |-> r, direct |-> Direct(r), taint |-> th[t].taint]
<1> DEFINE x == [th[t] EXCEPT !.pc = "take", !.id = id, !.taint = {}]
<1>1. th[t] \in ThreadStates /\ r \in Rips /\ th[t].taint \in SUBSET Marks
  BY DEF Basics, TypeOK, ThreadsRight, ThreadOK, Compile, At, Placed, ThreadStates
<1>2. Len(funcs) \in Nat /\ id \in Nat
  BY DEF Basics, TypeOK
<1>3. f \in FuncRecords
  BY <1>1, DirectTyped DEF FuncRecords
<1>4. /\ funcs' = Append(funcs, f) /\ chain' = [chain EXCEPT ![t][r] = id]
      /\ th' = [th EXCEPT ![t] = x]
      /\ UNCHANGED <<cache, chain_ids, code_pages, edge, pending, overflow, noexec, calls, lost>>
  BY DEF Compile, Becomes
<1>5. x \in ThreadStates /\ x.pc = "take" /\ x.rip = r /\ x.id = id
  BY <1>1, <1>2 DEF ThreadStates, Labels
<1> HIDE DEF x, f
<1>6. /\ funcs' \in Seq(FuncRecords) /\ Len(funcs') = id
      /\ funcs'[id] = f /\ \A i \in 1..Len(funcs) : funcs'[i] = funcs[i]
  BY <1>2, <1>3, <1>4 DEF Basics, TypeOK
<1>7. Grows
  BY <1>2, <1>6 DEF Grows
<1>8. For(funcs', id, r)
  BY <1>2, <1>6 DEF For, f
<1>9. th' \in [Threads -> ThreadStates] /\ ThreadsRight'
  <2>1. ThreadOK(funcs', x)
    BY <1>1, <1>5, <1>8 DEF ThreadOK, Spanning
  <2> QED
    BY <1>4, <1>5, <1>7, <2>1, OneThread
<1>10. EntriesRight' /\ IdsRight'
  BY <1>4, <1>7, LinksKept DEF Basics, EntriesRight, IdsRight, IsReady
<1>11. chain' \in [Threads -> [Rips -> Nat]] /\ TablesRight'
  <2>1. /\ chain' \in [Threads -> [Rips -> Nat]]
        /\ \A u \in Threads, s \in Rips : chain'[u][s] = IF u = t /\ s = r THEN id ELSE chain[u][s]
    BY <1>1, <1>2, <1>4 DEF Basics, TypeOK
  <2>2. ASSUME NEW u \in Threads, NEW s \in Rips
        PROVE  LinkOK(funcs', chain'[u][s], s) /\ LinkOK(funcs', edge'[u][s], s)
    <3>1. LinkOK(funcs, chain[u][s], s) /\ LinkOK(funcs, edge[u][s], s) /\ edge' = edge
      BY <1>4 DEF Basics, TablesRight
    <3>2. LinkOK(funcs', chain[u][s], s) /\ LinkOK(funcs', edge[u][s], s)
      BY <1>7, <3>1, LinksKept DEF Basics
    <3> QED
      BY <1>8, <2>1, <3>1, <3>2 DEF LinkOK
  <2> QED
    BY <2>1, <2>2 DEF TablesRight
<1>12. DirectRight'
  <2> SUFFICES ASSUME NEW i \in 1..Len(funcs'), NEW s \in Rips
               PROVE  LinkOK(funcs', funcs'[i].direct[s], s)
    BY DEF DirectRight
  <2>1. CASE i = id
    <3>1. LinkOK(funcs, Direct(r)[s], s)
      BY <1>1, DirectTyped
    <3> QED
      BY <1>6, <1>7, <2>1, <3>1, LinksKept DEF f, Basics
  <2>2. CASE i # id
    <3>1. i \in 1..Len(funcs) /\ funcs'[i] = funcs[i]
      BY <1>2, <1>6, <2>2
    <3> QED
      BY <1>7, <3>1, LinksKept DEF Basics, DirectRight
  <2> QED
    BY <2>1, <2>2
<1> QED
  BY <1>4, <1>6, <1>9, <1>10, <1>11, <1>12 DEF Basics, TypeOK

(* The index stays a function from pages to counts. *)
LEMMA RangesTyped ==
    ASSUME TypeOK, NEW r \in Rips
    PROVE  AddRange(r) \in [Pages -> Nat] /\ RemoveRange(r) \in [Pages -> Nat]
BY DEF TypeOK, AddRange, RemoveRange

(* Taking an entry out, in an insert or in a drop. *)
LEMMA TakenBasics ==
    ASSUME Basics, NEW t \in Threads, NEW r \in Rips, NEW x \in ThreadStates,
           th' = [th EXCEPT ![t] = x], ThreadOK(funcs, x),
           cache' = [cache EXCEPT ![r] = None],
           chain_ids' = chain_ids \/ chain_ids' = [chain_ids EXCEPT ![r] = 0],
           UNCHANGED <<code_pages, funcs, chain, edge, pending, overflow, lost>>
    PROVE  Basics'
<1>1. Grows
  BY StillGrows DEF Basics
<1>2. th' \in [Threads -> ThreadStates] /\ ThreadsRight'
  BY <1>1, OneThread
<1>3. cache' \in [Rips -> Entries] /\ EntriesRight'
  BY DEF Basics, TypeOK, EntriesRight, IsReady, None, Entries
<1>4. chain_ids' \in [Rips -> Nat] /\ IdsRight'
  <2>1. chain_ids' \in [Rips -> Nat] /\ \A s \in Rips : chain_ids'[s] \in {0, chain_ids[s]}
    <3>1. chain_ids \in [Rips -> Nat]
      BY DEF Basics, TypeOK
    <3>2. CASE chain_ids' = [chain_ids EXCEPT ![r] = 0]
      BY <3>1, <3>2
    <3> QED
      BY <3>1, <3>2
  <2> QED
    BY <2>1 DEF Basics, IdsRight, LinkOK
<1>5. TablesRight' /\ DirectRight'
  BY DEF Basics, TablesRight, DirectRight
<1> QED
  BY <1>2, <1>3, <1>4, <1>5 DEF Basics, TypeOK

(* The steps of an insertion. *)
LEMMA InsertBasics ==
    ASSUME Basics, NEW t \in Threads,
           \/ InsertTake(t) \/ InsertUncount(t) \/ InsertPublish(t) \/ InsertCount(t) \/ InsertPut(t)
    PROVE  Basics'
<1> DEFINE r == th[t].rip
<1> DEFINE id == th[t].id
<1>1. /\ th[t].pc \in {"take", "uncount", "publish", "count", "put"}
      /\ th[t] \in ThreadStates /\ r \in Rips /\ id \in Nat /\ For(funcs, id, r)
  BY DEF Basics, TypeOK, ThreadsRight, ThreadOK, Placed, Loaded, ThreadStates, At,
         InsertTake, InsertUncount, InsertPublish, InsertCount, InsertPut
<1>2. {"uncount", "publish", "count", "put", "native"} \subseteq Labels \cap Placed \cap Loaded
  BY DEF Labels, Placed, Loaded
<1>3. {"uncount", "publish", "count", "put", "native"} \cap Spanning = {}
  BY DEF Spanning
<1>4. th[t].pc \in Placed /\ th[t].pc \in Loaded
  BY <1>1 DEF Placed, Loaded
<1>5. ASSUME NEW l \in {"uncount", "publish", "count", "put", "native"}, Goto(t, l)
      PROVE  \E x \in ThreadStates : th' = [th EXCEPT ![t] = x] /\ ThreadOK(funcs, x)
  <2>1. [th[t] EXCEPT !.pc = l] \in ThreadStates /\ ThreadOK(funcs, [th[t] EXCEPT !.pc = l])
    BY <1>1, <1>2, <1>3, Moved DEF ThreadOK
  <2> QED
    BY <1>5, <2>1 DEF Goto, Becomes
<1>6. CASE InsertTake(t)
  <2>1. PICK x \in ThreadStates : th' = [th EXCEPT ![t] = x] /\ ThreadOK(funcs, x)
    BY <1>5, <1>6 DEF InsertTake
  <2> QED
    BY <1>1, <1>6, <2>1, TakenBasics DEF InsertTake, tables
<1>7. CASE InsertUncount(t) \/ InsertCount(t)
  <2>1. PICK x \in ThreadStates : th' = [th EXCEPT ![t] = x] /\ ThreadOK(funcs, x)
    BY <1>5, <1>7 DEF InsertUncount, InsertCount
  <2>2. code_pages' \in [Pages -> Nat]
    BY <1>1, <1>7, RangesTyped DEF InsertUncount, InsertCount, Basics
  <2> QED
    BY <1>7, <2>1, <2>2, QuietBasics DEF InsertUncount, InsertCount, tables, Basics, TypeOK
<1>8. CASE InsertPublish(t)
  <2>1. PICK x \in ThreadStates : th' = [th EXCEPT ![t] = x] /\ ThreadOK(funcs, x)
    BY <1>5, <1>8 DEF InsertPublish
  <2>2. Grows
    BY <1>8, StillGrows DEF Basics, InsertPublish
  <2>3. th' \in [Threads -> ThreadStates] /\ ThreadsRight'
    BY <1>8, <2>1, <2>2, OneThread DEF InsertPublish
  <2>4. chain_ids' \in [Rips -> Nat] /\ IdsRight'
    BY <1>1, <1>8 DEF InsertPublish, Basics, TypeOK, IdsRight, LinkOK
  <2>5. EntriesRight' /\ TablesRight' /\ DirectRight'
    BY <1>8 DEF InsertPublish, Basics, EntriesRight, TablesRight, DirectRight, IsReady, tables
  <2> QED
    BY <1>8, <2>3, <2>4, <2>5 DEF InsertPublish, Basics, TypeOK, tables
<1>9. CASE InsertPut(t)
  <2>1. PICK x \in ThreadStates : th' = [th EXCEPT ![t] = x] /\ ThreadOK(funcs, x)
    BY <1>5, <1>9 DEF InsertPut
  <2>2. Grows
    BY <1>9, StillGrows DEF Basics, InsertPut
  <2>3. th' \in [Threads -> ThreadStates] /\ ThreadsRight'
    BY <1>9, <2>1, <2>2, OneThread DEF InsertPut
  <2>4. Ready(id) \in Entries /\ Ready(id).n = id
    BY <1>1 DEF Ready, Entries
  <2>5. cache' = [cache EXCEPT ![r] = Ready(id)] /\ cache' \in [Rips -> Entries]
    BY <1>1, <1>9, <2>4 DEF InsertPut, Basics, TypeOK
  <2>6. EntriesRight'
    BY <1>1, <1>9, <2>4, <2>5 DEF InsertPut, Basics, TypeOK, EntriesRight, IsReady
  <2>7. IdsRight' /\ TablesRight' /\ DirectRight'
    BY <1>9 DEF InsertPut, Basics, IdsRight, TablesRight, DirectRight, tables
  <2> QED
    BY <1>9, <2>3, <2>5, <2>6, <2>7 DEF InsertPut, Basics, TypeOK, tables
<1> QED
  BY <1>6, <1>7, <1>8, <1>9
(* Stores and host writes mark functions and compiles; nothing else about them changes. *)
LEMMA TaintedTyped ==
    ASSUME TypeOK, NEW lo, NEW hi, NEW kind \in Marks
    PROVE  LET F == Tainted(lo, hi, kind)
           IN  /\ F \in Seq(FuncRecords) /\ Len(F) = Len(funcs)
               /\ \A i \in 1..Len(funcs) :
                    /\ F[i].rip = funcs[i].rip /\ F[i].direct = funcs[i].direct
                    /\ F[i].taint = IF Overlaps(funcs[i].rip, lo, hi) THEN funcs[i].taint \cup {kind}
                                    ELSE funcs[i].taint
<1> DEFINE F == Tainted(lo, hi, kind)
<1>1. Len(funcs) \in Nat /\ DOMAIN funcs = 1..Len(funcs) /\ \A i \in 1..Len(funcs) : funcs[i] \in FuncRecords
  BY DEF TypeOK
<1>2. ASSUME NEW i \in 1..Len(funcs)
      PROVE  /\ F[i] \in FuncRecords
             /\ F[i].rip = funcs[i].rip /\ F[i].direct = funcs[i].direct
             /\ F[i].taint = IF Overlaps(funcs[i].rip, lo, hi) THEN funcs[i].taint \cup {kind}
                             ELSE funcs[i].taint
  <2>1. funcs[i] \in FuncRecords
    BY <1>1
  <2>2. F[i] = IF Overlaps(funcs[i].rip, lo, hi) THEN [funcs[i] EXCEPT !.taint = @ \cup {kind}] ELSE funcs[i]
    BY <1>1 DEF Tainted
  <2> HIDE DEF F
  <2> QED
    BY <2>1, <2>2 DEF FuncRecords
<1>3. F = [i \in 1..Len(funcs) |-> F[i]]
  BY <1>1 DEF Tainted
<1> HIDE DEF F
<1>4. F \in Seq(FuncRecords) /\ Len(F) = Len(funcs)
  <2>1. F \in [1..Len(funcs) -> FuncRecords]
    BY <1>2, <1>3
  <2> QED
    BY <1>1, <2>1
<1> QED
  BY <1>2, <1>4 DEF F

(* A write marks the decoded bytes of other threads and moves nobody. *)
LEMMA SpoiltTyped ==
    ASSUME TypeOK, NEW lo, NEW hi, NEW kind \in Marks
    PROVE  LET S == Spoilt(lo, hi, kind)
           IN  /\ S \in [Threads -> ThreadStates]
               /\ \A u \in Threads :
                    /\ S[u].pc = th[u].pc /\ S[u].rip = th[u].rip /\ S[u].id = th[u].id
                    /\ S[u].todo = th[u].todo /\ S[u].n = th[u].n /\ S[u].depth = th[u].depth
                    /\ S[u].drop = th[u].drop /\ S[u].api = th[u].api
                    /\ th[u].pc # "compile" => S[u] = th[u]
<1> DEFINE S == Spoilt(lo, hi, kind)
<1>1. ASSUME NEW u \in Threads
      PROVE  /\ S[u] \in ThreadStates
             /\ S[u].pc = th[u].pc /\ S[u].rip = th[u].rip /\ S[u].id = th[u].id
             /\ S[u].todo = th[u].todo /\ S[u].n = th[u].n /\ S[u].depth = th[u].depth
             /\ S[u].drop = th[u].drop /\ S[u].api = th[u].api
             /\ th[u].pc # "compile" => S[u] = th[u]
  <2>1. th[u] \in ThreadStates
    BY DEF TypeOK
  <2>2. S[u] = IF At(u, "compile") /\ Overlaps(th[u].rip, lo, hi)
               THEN [th[u] EXCEPT !.taint = @ \cup {kind}] ELSE th[u]
    BY DEF Spoilt
  <2> HIDE DEF S
  <2> QED
    BY <2>1, <2>2 DEF ThreadStates, At
<1>2. S = [u \in Threads |-> S[u]]
  BY DEF Spoilt
<1> HIDE DEF S
<1> QED
  BY <1>1, <1>2 DEF S

(* A write marks functions and decoded bytes. *)
LEMMA SpoiltBasics ==
    ASSUME Basics, NEW t \in Threads, NEW lo, NEW hi, NEW kind \in Marks, NEW x \in ThreadStates,
           funcs' = Tainted(lo, hi, kind), th' = [Spoilt(lo, hi, kind) EXCEPT ![t] = x],
           ThreadOK(funcs, x),
           UNCHANGED <<cache, chain_ids, code_pages, chain, edge, pending, overflow, lost>>
    PROVE  /\ Basics'
           /\ th'[t] = x
           /\ \A u \in Threads \ {t} : th'[u].pc = th[u].pc /\ th'[u].rip = th[u].rip /\ th'[u].api = th[u].api
<1> DEFINE S == Spoilt(lo, hi, kind)
<1>1. /\ S \in [Threads -> ThreadStates]
      /\ \A u \in Threads : /\ S[u].pc = th[u].pc /\ S[u].rip = th[u].rip /\ S[u].id = th[u].id
                            /\ S[u].todo = th[u].todo /\ S[u].api = th[u].api
  BY SpoiltTyped DEF Basics
<1>2. Grows /\ Len(funcs') = Len(funcs) /\ \A i \in 1..Len(funcs) : funcs'[i].direct = funcs[i].direct
  <2>1. Len(funcs) \in Nat /\ TypeOK
    BY DEF Basics, TypeOK
  <2>2. /\ funcs' \in Seq(FuncRecords) /\ Len(funcs') = Len(funcs)
        /\ \A i \in 1..Len(funcs) : funcs'[i].rip = funcs[i].rip /\ funcs'[i].direct = funcs[i].direct
    BY <2>1, TaintedTyped
  <2> QED
    BY <2>1, <2>2 DEF Grows
<1> HIDE DEF S
<1>3. /\ th' \in [Threads -> ThreadStates]
      /\ th'[t] = x /\ \A u \in Threads \ {t} : th'[u] = S[u]
  BY <1>1 DEF S
<1>4. ThreadsRight'
  <2> SUFFICES ASSUME NEW u \in Threads
               PROVE  ThreadOK(funcs', th'[u])
    BY DEF ThreadsRight
  <2>1. ThreadOK(funcs, th'[u])
    <3>1. ThreadOK(funcs, th[u])
      BY DEF Basics, ThreadsRight
    <3> QED
      BY <1>1, <1>3, <3>1 DEF ThreadOK
  <2> QED
    BY <1>2, <2>1, LinksKept DEF ThreadOK, Basics
<1>5. EntriesRight' /\ IdsRight' /\ TablesRight'
  BY <1>2, LinksKept DEF Basics, EntriesRight, IdsRight, TablesRight, IsReady
<1>6. DirectRight'
  BY <1>2, LinksKept DEF Basics, DirectRight
<1> QED
  BY <1>1, <1>2, <1>3, <1>4, <1>5, <1>6 DEF Basics, TypeOK, Grows

(* A store of the guest. *)
LEMMA StoreBasics ==
    ASSUME Basics, NEW t \in Threads, NEW a, GuestStore(t, a)
    PROVE  /\ Basics'
           /\ th'[t].pc = IF th[t].pc = "interp" THEN "drain" ELSE "native"
           /\ \A u \in Threads \ {t} : th'[u].pc = th[u].pc /\ th'[u].rip = th[u].rip
<1> DEFINE S == Spoilt(a, a + 1, "guest")
<1> DEFINE l == IF At(t, "interp") THEN "drain" ELSE "native"
<1> DEFINE x == [S[t] EXCEPT !.pc = l]
<1>1. S \in [Threads -> ThreadStates] /\ S[t] = th[t] /\ "guest" \in Marks
  <2>1. th[t].pc # "compile" /\ "guest" \in Marks
    BY DEF GuestStore, Marks
  <2> QED
    BY <2>1, SpoiltTyped DEF Basics
<1>2. th[t] \in ThreadStates /\ ThreadOK(funcs, th[t]) /\ th[t].pc \in {"native", "interp"}
  BY DEF Basics, TypeOK, ThreadsRight, GuestStore
<1>3. l \in Labels
  BY DEF Labels
<1>4. x \in ThreadStates /\ x.pc = l /\ x.rip = th[t].rip /\ x.id = th[t].id /\ x.todo = th[t].todo
  <2> HIDE DEF l, S
  <2> QED
    BY <1>1, <1>2, <1>3, Moved
<1>5. ThreadOK(funcs, x)
  <2> HIDE DEF x
  <2> QED
    BY <1>2, <1>4 DEF ThreadOK, At, Placed, Loaded, Spanning
<1>6. th' = [S EXCEPT ![t] = x]
  <2>1. th' = [S EXCEPT ![t].pc = l]
    BY DEF GuestStore
  <2> HIDE DEF S, l
  <2> QED
    BY <1>1, <2>1
<1> HIDE DEF x
<1>7. /\ Basics' /\ th'[t] = x
      /\ \A u \in Threads \ {t} : th'[u].pc = th[u].pc /\ th'[u].rip = th[u].rip
  BY <1>1, <1>4, <1>5, <1>6, SpoiltBasics DEF GuestStore, tables
<1> QED
  BY <1>4, <1>7 DEF At

(* Compiled code returns to the loop. *)
LEMMA LeaveBasics ==
    ASSUME Basics, NEW t \in Threads, Leave(t)
    PROVE  Basics'
<1>1. "drain" \in Labels /\ "drain" \notin Placed \cup Loaded \cup Spanning
  BY DEF Labels, Placed, Loaded, Spanning
<1> QED
  BY <1>1, GotoBasics DEF Leave, tables, Basics, TypeOK
(* A chain goes to a function compiled for the address it goes to. *)
LEMMA ChainBasics ==
    ASSUME Basics, NEW t \in Threads, NEW s \in Rips, Chain(t, s)
    PROVE  Basics'
<1> DEFINE f == funcs[th[t].id]
<1> DEFINE next == IF f.rip \in Stubs THEN StubNext(t, s)
                   ELSE IF f.direct[s] # 0 THEN [fn |-> f.direct[s], install |-> FALSE]
                   ELSE LateBound(t, s)
<1> DEFINE x == [th[t] EXCEPT !.rip = s, !.id = next.fn, !.depth = th[t].depth + 1]
<1>1. /\ th[t] \in ThreadStates /\ th[t].pc = "native" /\ th[t].id \in 1..Len(funcs)
      /\ ThreadOK(funcs, th[t])
  BY DEF Basics, TypeOK, ThreadsRight, ThreadOK, Chain, At, Loaded, For
<1>2. /\ th' = [th EXCEPT ![t] = x] /\ next.fn # 0
      /\ edge' = IF next.install THEN [edge EXCEPT ![t][s] = next.fn] ELSE edge
      /\ UNCHANGED <<cache, chain_ids, code_pages, funcs, chain, pending, overflow, noexec, calls, lost>>
  BY DEF Chain, Becomes
<1>3. f.direct[s] \in Nat /\ chain[t][s] \in Nat /\ edge[t][s] \in Nat
  <2>1. f \in FuncRecords
    BY <1>1 DEF Basics, TypeOK
  <2> QED
    BY <2>1 DEF Basics, TypeOK, FuncRecords
<1>4. LinkOK(funcs, f.direct[s], s) /\ LinkOK(funcs, chain[t][s], s) /\ LinkOK(funcs, edge[t][s], s)
  BY <1>1 DEF Basics, DirectRight, TablesRight
<1>5. next.fn \in {f.direct[s], chain[t][s], edge[t][s]}
  BY DEF StubNext, LateBound
<1> HIDE DEF next, f
<1>6. next.fn \in Nat /\ For(funcs, next.fn, s)
  BY <1>2, <1>3, <1>4, <1>5 DEF LinkOK
<1>7. x \in ThreadStates /\ x.pc = "native" /\ x.rip = s /\ x.id = next.fn
  <2>1. th[t].depth + 1 \in Nat
    BY <1>1 DEF ThreadStates
  <2> QED
    BY <1>1, <1>6, <2>1 DEF ThreadStates
<1> HIDE DEF x
<1>8. Grows
  BY <1>2, StillGrows DEF Basics
<1>9. th' \in [Threads -> ThreadStates] /\ ThreadsRight'
  <2>1. ThreadOK(funcs', x)
    BY <1>2, <1>6, <1>7 DEF ThreadOK, Spanning
  <2> QED
    BY <1>2, <1>7, <1>8, <2>1, OneThread
<1>10. edge' \in [Threads -> [Rips -> Nat]] /\ TablesRight'
  <2>1. /\ edge' \in [Threads -> [Rips -> Nat]]
        /\ \A u \in Threads, r \in Rips : edge'[u][r] = edge[u][r] \/ (r = s /\ edge'[u][r] = next.fn)
    BY <1>2, <1>6 DEF Basics, TypeOK
  <2> QED
    BY <1>2, <1>6, <2>1 DEF Basics, TablesRight, LinkOK
<1>11. EntriesRight' /\ IdsRight' /\ DirectRight'
  BY <1>2 DEF Basics, EntriesRight, IdsRight, DirectRight, IsReady
<1> QED
  BY <1>2, <1>9, <1>10, <1>11 DEF Basics, TypeOK

(* The pages of a span as a sequence. *)
LEMMA NotePages ==
    ASSUME NEW lo \in Nat, NEW hi \in Nat, lo < hi
    PROVE  LET n == Cardinality(PagesOf(lo, hi))
               pages == [i \in 1..n |-> PageOf(lo) + i - 1]
           IN  /\ n \in Nat \ {0} /\ n = PageOf(hi - 1) - PageOf(lo) + 1
               /\ pages \in Seq(Nat) /\ Len(pages) = n
<1> DEFINE n == Cardinality(PagesOf(lo, hi))
<1> DEFINE pages == [i \in 1..n |-> PageOf(lo) + i - 1]
<1>1. hi - 1 \in Nat /\ lo <= hi - 1
  OBVIOUS
<1>2. PageOf(lo) \in Nat /\ PageOf(hi - 1) \in Nat /\ PageOf(lo) <= PageOf(hi - 1)
  BY <1>1, PageFacts, PageMonotone
<1>3. n = PageOf(hi - 1) - PageOf(lo) + 1
  BY <1>2, FS_Interval DEF PagesOf
<1>4. n \in Nat \ {0}
  BY <1>2, <1>3
<1> HIDE DEF n
<1>5. pages \in [1..n -> Nat]
  BY <1>2, <1>4
<1>6. pages \in Seq(Nat) /\ Len(pages) = n
  BY <1>4, <1>5
<1> QED
  BY <1>3, <1>4, <1>6 DEF n

(* Noting a written span keeps the list of pages well formed. *)
LEMMA NoteTyped ==
    ASSUME TypeOK, NEW lo \in Nat, NEW hi \in Nat, lo < hi
    PROVE  Note(lo, hi).pages \in Seq(Nat) /\ Note(lo, hi).over \in BOOLEAN
<1> DEFINE n == Cardinality(PagesOf(lo, hi))
<1> DEFINE pages == [i \in 1..n |-> PageOf(lo) + i - 1]
<1> DEFINE seen == pending # <<>> /\ pending[Len(pending)] = PageOf(lo)
<1>1. n \in Nat \ {0} /\ pages \in Seq(Nat) /\ Len(pages) = n
  BY NotePages
<1>2. pending \in Seq(Nat)
  BY DEF TypeOK
<1>3. \/ Note(lo, hi) = [pages |-> pending, over |-> TRUE]
      \/ Note(lo, hi) = [pages |-> <<>>, over |-> TRUE]
      \/ Note(lo, hi) = [pages |-> pending \o (IF seen THEN Tail(pages) ELSE pages), over |-> FALSE]
  BY DEF Note
<1> HIDE DEF n, pages, seen
<1>4. Tail(pages) \in Seq(Nat)
  BY <1>1
<1>5. pending \o Tail(pages) \in Seq(Nat) /\ pending \o pages \in Seq(Nat)
  BY <1>1, <1>2, <1>4
<1>6. <<>> \in Seq(Nat)
  OBVIOUS
<1>7. (pending \o (IF seen THEN Tail(pages) ELSE pages)) \in Seq(Nat)
  BY <1>5
<1>8. CASE Note(lo, hi) = [pages |-> pending, over |-> TRUE]
  BY <1>2, <1>8
<1>9. CASE Note(lo, hi) = [pages |-> <<>>, over |-> TRUE]
  BY <1>6, <1>9
<1>10. CASE Note(lo, hi) = [pages |-> pending \o (IF seen THEN Tail(pages) ELSE pages), over |-> FALSE]
  BY <1>7, <1>10
<1> QED
  BY <1>3, <1>8, <1>9, <1>10

(* A host write is noted. *)
LEMMA NoteWriteBasics ==
    ASSUME Basics, NEW t \in Threads, NoteWrite(t)
    PROVE  Basics'
<1> DEFINE x == [th[t] EXCEPT !.pc = "drain", !.todo = <<>>]
<1>1. th[t] \in ThreadStates /\ th[t].todo \in Seq(Spans) /\ th[t].todo # <<>>
  BY DEF Basics, TypeOK, ThreadsRight, ThreadOK, NoteWrite, At, Spanning, ThreadStates
<1>2. th[t].todo[1] \in Spans
  BY <1>1
<1>3. pending' \in Seq(Nat) /\ overflow' \in BOOLEAN
  <2>1. th[t].todo[1][1] \in Nat /\ th[t].todo[1][2] \in Nat /\ th[t].todo[1][1] < th[t].todo[1][2]
    BY <1>2 DEF Spans
  <2> QED
    BY <2>1, NoteTyped DEF NoteWrite, Basics
<1>4. x \in ThreadStates /\ x.pc = "drain"
  <2>1. <<>> \in Seq(Spans)
    OBVIOUS
  <2> QED
    BY <1>1, <2>1 DEF ThreadStates, Labels
<1>5. th' = [th EXCEPT ![t] = x]
  BY DEF NoteWrite, Becomes
<1> HIDE DEF x
<1>6. ThreadOK(funcs, x)
  BY <1>4 DEF ThreadOK, Placed, Loaded, Spanning
<1> QED
  BY <1>3, <1>4, <1>5, <1>6, QuietBasics DEF NoteWrite, tables, Basics, TypeOK

(* The spans of the pages a drain takes. *)
DrainSpans == [i \in DOMAIN pending |-> <<pending[i] * PageSize, (pending[i] + 1) * PageSize>>]

(* The spans that a drain takes over. *)
LEMMA DrainSpansTyped ==
    ASSUME TypeOK
    PROVE  /\ DrainSpans \in Seq(Spans) /\ Len(DrainSpans) = Len(pending)
           /\ \A i \in 1..Len(pending) : DrainSpans[i] = <<pending[i] * PageSize, (pending[i] + 1) * PageSize>>
           /\ pending # <<>> => DrainSpans # <<>>
<1>1. Len(pending) \in Nat /\ DOMAIN pending = 1..Len(pending) /\ \A i \in 1..Len(pending) : pending[i] \in Nat
  BY DEF TypeOK
<1>2. ASSUME NEW k \in Nat
      PROVE  <<k * PageSize, (k + 1) * PageSize>> \in Spans
  <2>1. k * PageSize \in Nat /\ (k + 1) * PageSize \in Nat /\ (k + 1) * PageSize = k * PageSize + PageSize
    BY JitCodeAssumption
  <2> QED
    BY <2>1, JitCodeAssumption DEF Spans
<1>3. DrainSpans \in [1..Len(pending) -> Spans]
  BY <1>1, <1>2 DEF DrainSpans
<1>4. DrainSpans \in Seq(Spans) /\ Len(DrainSpans) = Len(pending)
  BY <1>1, <1>3
<1>5. pending # <<>> => Len(pending) # 0
  BY DEF TypeOK
<1> QED
  BY <1>1, <1>4, <1>5 DEF DrainSpans

(* The noted pages become spans to invalidate. *)
LEMMA DrainBasics ==
    ASSUME Basics, NEW t \in Threads, Drain(t)
    PROVE  Basics'
<1>1. th[t] \in ThreadStates /\ TypeOK /\ <<>> \in Seq(Nat)
  BY DEF Basics, TypeOK
<1>2. /\ UNCHANGED <<cache, chain_ids, code_pages, funcs, chain, edge, lost>>
      /\ pending' \in Seq(Nat) /\ overflow' \in BOOLEAN
      /\ code_pages' \in [Pages -> Nat] /\ lost' \in SUBSET Pages
  BY <1>1 DEF Drain, tables, TypeOK
<1>3. CASE Return(t)
  BY <1>2, <1>3, ReturnBasics
<1>4. CASE Goto(t, "flush")
  <2>1. "flush" \in Labels /\ "flush" \notin Placed \cup Loaded \cup Spanning
    BY DEF Labels, Placed, Loaded, Spanning
  <2> QED
    BY <1>2, <1>4, <2>1, GotoBasics
<1>5. CASE pending # <<>> /\ Becomes(t, [th[t] EXCEPT !.pc = "test", !.todo = DrainSpans])
  <2> DEFINE x == [th[t] EXCEPT !.pc = "test", !.todo = DrainSpans]
  <2>1. x \in ThreadStates /\ x.pc = "test" /\ x.todo = DrainSpans
    BY <1>1, DrainSpansTyped DEF ThreadStates, Labels
  <2>2. th' = [th EXCEPT ![t] = x]
    BY <1>5 DEF Becomes
  <2> HIDE DEF x
  <2>3. ThreadOK(funcs, x)
    BY <1>1, <1>5, <2>1, DrainSpansTyped DEF ThreadOK, Placed, Loaded
  <2> QED
    BY <1>2, <2>1, <2>2, <2>3, QuietBasics
<1> QED
  BY <1>3, <1>4, <1>5 DEF Drain, DrainSpans
(* On to the next span, or back to the loop. *)
LEMMA NextSpanMoves ==
    ASSUME Basics, NEW t \in Threads, th[t].pc \in Spanning, NextSpan(t)
    PROVE  \E x \in ThreadStates :
             /\ th' = [th EXCEPT ![t] = x]
             /\ \A F : ThreadOK(F, x)
             /\ \/ Len(th[t].todo) = 1 /\ x = Idle
                \/ Len(th[t].todo) > 1 /\ x.pc = "test" /\ x.todo = Tail(th[t].todo)
<1>1. th[t] \in ThreadStates /\ th[t].todo \in Seq(Spans) /\ th[t].todo # <<>>
  BY DEF Basics, TypeOK, ThreadsRight, ThreadOK, ThreadStates
<1>2. Len(th[t].todo) \in Nat \ {0}
  BY <1>1
<1>3. CASE Len(th[t].todo) = 1
  BY <1>3, IdleTyped DEF NextSpan, Return, Becomes
<1>4. CASE Len(th[t].todo) # 1
  <2> DEFINE x == [th[t] EXCEPT !.pc = "test", !.todo = Tail(th[t].todo), !.drop = {}]
  <2>1. Tail(th[t].todo) \in Seq(Spans) /\ Tail(th[t].todo) # <<>>
    <3>1. Tail(th[t].todo) \in Seq(Spans) /\ Len(Tail(th[t].todo)) = Len(th[t].todo) - 1
      BY <1>1
    <3>2. Len(Tail(th[t].todo)) # 0 /\ Len(<<>>) = 0
      BY <1>2, <1>4, <3>1
    <3> QED
      BY <3>1, <3>2
  <2>2. x \in ThreadStates /\ x.pc = "test" /\ x.todo = Tail(th[t].todo)
    BY <1>1, <2>1 DEF ThreadStates, Labels
  <2>3. th' = [th EXCEPT ![t] = x]
    BY <1>4 DEF NextSpan, Becomes
  <2> HIDE DEF x
  <2>4. \A F : ThreadOK(F, x)
    BY <2>1, <2>2 DEF ThreadOK, Placed, Loaded
  <2>5. Len(th[t].todo) > 1
    <3>1. ASSUME NEW n \in Nat \ {0}, n # 1
          PROVE  n > 1
      BY <3>1
    <3> QED
      BY <1>2, <1>4, <3>1
  <2> QED
    BY <2>2, <2>3, <2>4, <2>5
<1> QED
  BY <1>3, <1>4

(* The test of a span against the page index. *)
LEMMA TestBasics ==
    ASSUME Basics, NEW t \in Threads, InvalidateTest(t) \/ InvalidateCollect(t)
    PROVE  Basics'
<1>1. /\ th[t] \in ThreadStates /\ th[t].pc \in {"test", "collect"} /\ ThreadOK(funcs, th[t])
      /\ UNCHANGED <<cache, chain_ids, code_pages, funcs, chain, edge, pending, overflow, lost>>
  BY DEF Basics, TypeOK, ThreadsRight, InvalidateTest, InvalidateCollect, At, tables
<1>2. /\ th[t].pc \in Spanning /\ {"collect", "drop"} \subseteq Spanning \cap Labels
      /\ {"collect", "drop"} \cap (Placed \cup Loaded) = {}
  BY <1>1 DEF Spanning, Labels, Placed, Loaded
<1>3. PICK x \in ThreadStates : th' = [th EXCEPT ![t] = x] /\ ThreadOK(funcs, x)
  <2>1. CASE NextSpan(t)
    BY <1>2, <2>1, NextSpanMoves
  <2>2. CASE Goto(t, "collect")
    <3>1. [th[t] EXCEPT !.pc = "collect"] \in ThreadStates /\ ThreadOK(funcs, [th[t] EXCEPT !.pc = "collect"])
      BY <1>1, <1>2, Moved DEF ThreadOK
    <3> QED
      BY <2>2, <3>1 DEF Goto, Becomes
  <2>3. CASE \E D \in SUBSET Rips : Becomes(t, [th[t] EXCEPT !.pc = "drop", !.drop = D])
    <3>1. PICK D \in SUBSET Rips : th' = [th EXCEPT ![t] = [th[t] EXCEPT !.pc = "drop", !.drop = D]]
      BY <2>3 DEF Becomes
    <3> DEFINE x == [th[t] EXCEPT !.pc = "drop", !.drop = D]
    <3>2. x \in ThreadStates /\ x.pc = "drop" /\ x.todo = th[t].todo
      BY <1>1, <1>2 DEF ThreadStates
    <3> HIDE DEF x
    <3>3. ThreadOK(funcs, x)
      BY <1>1, <1>2, <3>2 DEF ThreadOK
    <3> QED
      BY <3>1, <3>2, <3>3 DEF x
  <2> QED
    BY <2>1, <2>2, <2>3 DEF InvalidateTest, InvalidateCollect, ToDrop
<1> QED
  BY <1>1, <1>3, QuietBasics DEF Basics, TypeOK

(* An invalidation takes a block out of the cache. *)
LEMMA DropEntryBasics ==
    ASSUME Basics, NEW t \in Threads, NEW r \in Rips, DropEntry(t, r)
    PROVE  Basics'
<1> DEFINE l == IF IsReady(r) THEN "dropUncount" ELSE "dropId"
<1> DEFINE x == [th[t] EXCEPT !.pc = l, !.rip = r]
<1>1. th[t] \in ThreadStates /\ th[t].pc = "drop" /\ ThreadOK(funcs, th[t])
  BY DEF Basics, TypeOK, ThreadsRight, DropEntry, At
<1>2. l \in {"dropUncount", "dropId"} /\ l \in Labels
  BY DEF Labels
<1>3. th' = [th EXCEPT ![t] = x]
  BY DEF DropEntry, Becomes
<1> HIDE DEF l
<1>4. x \in ThreadStates /\ x.pc = l /\ x.rip = r /\ x.todo = th[t].todo
  BY <1>1, <1>2 DEF ThreadStates
<1> HIDE DEF x
<1>5. ThreadOK(funcs, x)
  BY <1>1, <1>2, <1>4 DEF ThreadOK, Loaded, Spanning
<1> QED
  BY <1>3, <1>4, <1>5, TakenBasics DEF DropEntry, tables

(* It gives up the pages of the block. *)
LEMMA DropUncountBasics ==
    ASSUME Basics, NEW t \in Threads, DropUncount(t)
    PROVE  Basics'
<1>1. th[t].pc = "dropUncount" /\ th[t].rip \in Rips
  BY DEF Basics, ThreadsRight, ThreadOK, Placed, DropUncount, At
<1>2. code_pages' \in [Pages -> Nat]
  BY <1>1, RangesTyped DEF DropUncount, Basics
<1>3. "dropId" \in Labels /\ "dropUncount" \in Placed /\ "dropUncount" \in Spanning /\ "dropId" \notin Loaded
  BY DEF Labels, Placed, Spanning, Loaded
<1> QED
  BY <1>1, <1>2, <1>3, GotoBasics DEF DropUncount, tables, Basics, TypeOK

(* It forgets the direct-call id of the block. *)
LEMMA DropIdBasics ==
    ASSUME Basics, NEW t \in Threads, DropId(t)
    PROVE  Basics'
<1> DEFINE left == th[t].drop \ {th[t].rip}
<1> DEFINE l == IF left = {} THEN "relink" ELSE "drop"
<1> DEFINE x == [th[t] EXCEPT !.pc = l, !.drop = left]
<1>1. th[t] \in ThreadStates /\ th[t].pc = "dropId" /\ ThreadOK(funcs, th[t]) /\ th[t].rip \in Rips
  BY DEF Basics, TypeOK, ThreadsRight, ThreadOK, DropId, At, Placed
<1>2. l \in {"relink", "drop"} /\ l \in Labels
  BY DEF Labels
<1>3. th' = [th EXCEPT ![t] = x]
  BY DEF DropId, Becomes
<1>4. left \in SUBSET Rips
  BY <1>1 DEF ThreadStates
<1> HIDE DEF l, left
<1>5. x \in ThreadStates /\ x.pc = l /\ x.todo = th[t].todo
  BY <1>1, <1>2, <1>4 DEF ThreadStates
<1> HIDE DEF x
<1>6. ThreadOK(funcs, x)
  BY <1>1, <1>2, <1>5 DEF ThreadOK, Loaded, Placed, Spanning
<1>7. Grows
  BY StillGrows DEF Basics, DropId
<1>8. th' \in [Threads -> ThreadStates] /\ ThreadsRight'
  BY <1>3, <1>5, <1>6, <1>7, OneThread DEF DropId
<1>9. chain_ids' \in [Rips -> Nat] /\ IdsRight'
  BY <1>1 DEF DropId, Basics, TypeOK, IdsRight, LinkOK
<1>10. EntriesRight' /\ TablesRight' /\ DirectRight'
  BY DEF DropId, tables, Basics, EntriesRight, TablesRight, DirectRight, IsReady
<1> QED
  BY <1>8, <1>9, <1>10 DEF DropId, tables, Basics, TypeOK

(* It clears the chain table of its own thread. *)
LEMMA RelinkBasics ==
    ASSUME Basics, NEW t \in Threads, Relink(t)
    PROVE  Basics'
<1> DEFINE new == [r \in Rips |-> IF IsReady(r) THEN cache[r].n ELSE 0]
<1>1. th[t].pc \in Spanning
  BY DEF Relink, At, Spanning
<1>2. PICK x \in ThreadStates : th' = [th EXCEPT ![t] = x] /\ \A F : ThreadOK(F, x)
  BY <1>1, NextSpanMoves DEF Relink
<1>3. Grows
  BY StillGrows DEF Basics, Relink
<1>4. th' \in [Threads -> ThreadStates] /\ ThreadsRight'
  BY <1>2, <1>3, OneThread
<1>5. new \in [Rips -> Nat] /\ \A r \in Rips : LinkOK(funcs, new[r], r)
  BY DEF Basics, TypeOK, Entries, EntriesRight, LinkOK
<1>6. NoTable \in [Rips -> Nat] /\ \A r \in Rips : LinkOK(funcs, NoTable[r], r)
  BY DEF NoTable, LinkOK
<1>7. /\ chain' = [chain EXCEPT ![t] = new] /\ edge' = [edge EXCEPT ![t] = NoTable]
      /\ UNCHANGED <<cache, chain_ids, code_pages, funcs, pending, overflow, lost>>
  BY DEF Relink
<1> HIDE DEF new
<1>8. chain' \in [Threads -> [Rips -> Nat]] /\ edge' \in [Threads -> [Rips -> Nat]] /\ TablesRight'
  BY <1>5, <1>6, <1>7 DEF Basics, TypeOK, TablesRight
<1>9. EntriesRight' /\ IdsRight' /\ DirectRight'
  BY <1>7 DEF Basics, EntriesRight, IdsRight, DirectRight, IsReady
<1> QED
  BY <1>4, <1>7, <1>8, <1>9 DEF Basics, TypeOK

(* The steps of a flush. *)
LEMMA FlushBasics ==
    ASSUME Basics, NEW t \in Threads,
           FlushCache(t) \/ FlushIds(t) \/ FlushPages(t) \/ FlushTables(t)
    PROVE  Basics'
<1>1. PICK x \in ThreadStates : th' = [th EXCEPT ![t] = x] /\ ThreadOK(funcs, x)
  <2>1. CASE \E l \in {"flushIds", "flushPages", "flushTables"} : Goto(t, l)
    <3>1. PICK l \in {"flushIds", "flushPages", "flushTables"} : th' = [th EXCEPT ![t] = [th[t] EXCEPT !.pc = l]]
      BY <2>1 DEF Goto, Becomes
    <3>2. l \in Labels /\ l \notin Placed \cup Loaded \cup Spanning
      BY DEF Labels, Placed, Loaded, Spanning
    <3>3. [th[t] EXCEPT !.pc = l] \in ThreadStates /\ [th[t] EXCEPT !.pc = l].pc = l
      BY <3>2, Moved DEF Basics, TypeOK
    <3> QED
      BY <3>1, <3>2, <3>3 DEF ThreadOK
  <2>2. CASE Return(t)
    BY <2>2, IdleTyped DEF Return, Becomes
  <2> QED
    BY <2>1, <2>2 DEF FlushCache, FlushIds, FlushPages, FlushTables
<1>2. Grows /\ funcs' = funcs
  BY StillGrows DEF Basics, FlushCache, FlushIds, FlushPages, FlushTables
<1>3. th' \in [Threads -> ThreadStates] /\ ThreadsRight'
  BY <1>1, <1>2, OneThread
<1>4. lost' \in SUBSET Pages
  BY DEF Basics, TypeOK, FlushCache, FlushIds, FlushPages, FlushTables
<1>5. cache' \in [Rips -> Entries] /\ EntriesRight'
  BY <1>2 DEF Basics, TypeOK, EntriesRight, IsReady, None, Entries,
              FlushCache, FlushIds, FlushPages, FlushTables
<1>6. NoTable \in [Rips -> Nat] /\ \A r \in Rips : LinkOK(funcs, NoTable[r], r)
  BY DEF NoTable, LinkOK
<1>7. chain_ids' \in [Rips -> Nat] /\ IdsRight'
  BY <1>2, <1>6 DEF Basics, TypeOK, IdsRight, FlushCache, FlushIds, FlushPages, FlushTables
<1>8. code_pages' \in [Pages -> Nat]
  BY DEF Basics, TypeOK, FlushCache, FlushIds, FlushPages, FlushTables
<1>9. chain' \in [Threads -> [Rips -> Nat]] /\ edge' \in [Threads -> [Rips -> Nat]] /\ TablesRight'
  <2>1. CASE chain' = chain /\ edge' = edge
    BY <1>2, <2>1 DEF Basics, TypeOK, TablesRight
  <2>2. CASE chain' = [chain EXCEPT ![t] = NoTable] /\ edge' = [edge EXCEPT ![t] = NoTable]
    BY <1>2, <1>6, <2>2 DEF Basics, TypeOK, TablesRight
  <2> QED
    BY <2>1, <2>2 DEF FlushCache, FlushIds, FlushPages, FlushTables, tables
<1>10. DirectRight'
  BY <1>2 DEF Basics, DirectRight
<1> QED
  BY <1>2, <1>3, <1>4, <1>5, <1>7, <1>8, <1>9, <1>10
  DEF Basics, TypeOK, FlushCache, FlushIds, FlushPages, FlushTables
(* The other threads stay where they are. *)
Others(t) == \A u \in Threads \ {t} : th'[u].pc = th[u].pc /\ th'[u].rip = th[u].rip

(* The range of a host call is a span of the code area. *)
LEMMA RequestSpan ==
    ASSUME NEW s \in Requests
    PROVE  /\ <<s[1], s[2]>> \in Spans
           /\ s[1] \in Nat /\ s[2] \in Nat /\ s[1] < s[2]
<1>1. s \in (First..Last) \X (First..(Last + 1)) /\ s[1] < s[2] /\ First \in Nat /\ Last \in Nat
  BY JitCodeAssumption
<1>2. s[1] \in Nat /\ s[2] \in Nat
  BY <1>1
<1> QED
  BY <1>1, <1>2 DEF Spans

(* The span a free invalidates covers the request. *)
LEMMA FreeSpan ==
    ASSUME NEW s \in Requests
    PROVE  LET f == CodeInvSpanForFree(s[1], s[2])
           IN  f \in Spans /\ f[1] <= s[1] /\ s[2] <= f[2]
<1> DEFINE a == PageOf(s[1])
<1> DEFINE b == PageOf(s[2] - 1)
<1>1. s[1] \in Nat /\ s[2] \in Nat /\ s[1] < s[2] /\ s[2] - 1 \in Nat /\ s[1] <= s[2] - 1
  <2>1. s[1] \in Nat /\ s[2] \in Nat /\ s[1] < s[2]
    BY RequestSpan
  <2>2. \A i \in Nat, j \in Nat : i < j => j - 1 \in Nat /\ i <= j - 1
    OBVIOUS
  <2> QED
    BY <2>1, <2>2
<1>2. a \in Nat /\ b \in Nat /\ a * PageSize <= s[1] /\ s[2] - 1 < (b + 1) * PageSize
  BY <1>1, PageFacts
<1> HIDE DEF a, b
<1>3. a * PageSize \in Nat /\ (b + 1) * PageSize \in Nat
  BY <1>2, JitCodeAssumption
<1>4. a * PageSize < (b + 1) * PageSize /\ s[2] <= (b + 1) * PageSize
  BY <1>1, <1>2, <1>3
<1>5. CodeInvSpanForFree(s[1], s[2]) = <<a * PageSize, (b + 1) * PageSize>>
  BY DEF CodeInvSpanForFree, a, b
<1> QED
  BY <1>2, <1>3, <1>4, <1>5 DEF Spans

(* A thread that enters a host call. *)
Entered(l, span) == [Idle EXCEPT !.pc = l, !.todo = <<span>>, !.api = TRUE]

(* A thread that has just entered a host call. *)
LEMMA EnteredTyped ==
    ASSUME NEW l \in {"note", "test", "flush"}, NEW s \in Spans
    PROVE  /\ Entered(l, s) \in ThreadStates
           /\ Entered(l, s).pc = l /\ Entered(l, s).todo = <<s>>
           /\ \A F : ThreadOK(F, Entered(l, s))
<1>1. <<s>> \in Seq(Spans) /\ <<s>> # <<>>
  OBVIOUS
<1>2. /\ Entered(l, s) \in ThreadStates /\ Entered(l, s).pc = l /\ Entered(l, s).todo = <<s>>
  <2>1. l \in Labels
    BY DEF Labels
  <2> QED
    BY <1>1, <2>1, IdleTyped DEF Entered, ThreadStates
<1> QED
  BY <1>1, <1>2 DEF ThreadOK, Placed, Loaded

(* The part of a host call under its first lock. *)
HostStep(t) ==
    \/ \E s \in Requests : MemWrite(t, s[1], s[2]) \/ VirtualFree(t, s[1], s[2]) \/ FlushRange(t, s[1], s[2])
    \/ \E s \in Requests, x \in BOOLEAN : VirtualProtect(t, s[1], s[2], x)
    \/ \E p \in Pages, x \in BOOLEAN : VirtualAlloc(t, p, x)
    \/ FlushAll(t)

(* What it does to the functions and to its own thread: mark and enter, enter, or nothing. *)
LEMMA HostShape ==
    ASSUME Basics, NEW t \in Threads, HostStep(t)
    PROVE  /\ th[t].pc = "loop"
           /\ UNCHANGED <<cache, chain_ids, code_pages, chain, edge, pending, overflow, lost>>
           /\ \/ \E s \in Spans, l \in {"note", "test"} :
                   /\ funcs' = Tainted(s[1], s[2], "host")
                   /\ th' = [Spoilt(s[1], s[2], "host") EXCEPT ![t] = Entered(l, s)]
              \/ \E s \in Spans, l \in {"test", "flush"} :
                   funcs' = funcs /\ th' = [th EXCEPT ![t] = Entered(l, s)]
              \/ funcs' = funcs /\ th' = th
<1> DEFINE Goal ==
      /\ th[t].pc = "loop"
      /\ UNCHANGED <<cache, chain_ids, code_pages, chain, edge, pending, overflow, lost>>
      /\ \/ \E s \in Spans, l \in {"note", "test"} :
              /\ funcs' = Tainted(s[1], s[2], "host")
              /\ th' = [Spoilt(s[1], s[2], "host") EXCEPT ![t] = Entered(l, s)]
         \/ \E s \in Spans, l \in {"test", "flush"} :
              funcs' = funcs /\ th' = [th EXCEPT ![t] = Entered(l, s)]
         \/ funcs' = funcs /\ th' = th
<1>0. ASSUME HostCall(t)
      PROVE  /\ th[t].pc = "loop"
             /\ UNCHANGED <<cache, chain_ids, code_pages, chain, edge, pending, overflow, lost>>
  BY <1>0 DEF HostCall, At, tables
<1>1. ASSUME NEW s \in Requests, MemWrite(t, s[1], s[2])
      PROVE  Goal
  <2> DEFINE q == <<s[1], s[2]>>
  <2>1. q \in Spans /\ q[1] = s[1] /\ q[2] = s[2]
    BY RequestSpan
  <2>2. /\ funcs' = Tainted(q[1], q[2], "host")
        /\ th' = [Spoilt(q[1], q[2], "host") EXCEPT ![t] = Entered("note", q)]
    BY <1>1, <2>1 DEF MemWrite, In, Entered
  <2> HIDE DEF q
  <2> QED
    BY <1>0, <1>1, <2>1, <2>2 DEF MemWrite
<1>2. ASSUME NEW s \in Requests, VirtualFree(t, s[1], s[2])
      PROVE  Goal
  <2> DEFINE q == CodeInvSpanForFree(s[1], s[2])
  <2>1. q \in Spans
    BY FreeSpan
  <2>2. /\ funcs' = Tainted(q[1], q[2], "host")
        /\ th' = [Spoilt(q[1], q[2], "host") EXCEPT ![t] = Entered("test", q)]
    BY <1>2 DEF VirtualFree, In, Entered
  <2> HIDE DEF q
  <2> QED
    BY <1>0, <1>2, <2>1, <2>2 DEF VirtualFree
<1>3. ASSUME NEW s \in Requests, FlushRange(t, s[1], s[2]) \/ VirtualProtect(t, s[1], s[2], FALSE)
      PROVE  Goal
  <2> DEFINE q == <<s[1], s[2]>>
  <2>1. q \in Spans
    BY RequestSpan
  <2>2. funcs' = funcs /\ th' = [th EXCEPT ![t] = Entered("test", q)] /\ HostCall(t)
    BY <1>3 DEF FlushRange, VirtualProtect, In, Entered
  <2> HIDE DEF q
  <2> QED
    BY <1>0, <2>1, <2>2
<1>4. ASSUME FlushAll(t)
      PROVE  Goal
  <2> DEFINE q == <<First, Last + 1>>
  <2>1. CASE First < Last + 1
    <3>1. q \in Spans
      BY <2>1, JitCodeAssumption DEF Spans
    <3>2. funcs' = funcs /\ th' = [th EXCEPT ![t] = Entered("flush", q)] /\ HostCall(t)
      BY <1>4 DEF FlushAll, In, Entered
    <3> HIDE DEF q
    <3> QED
      BY <1>0, <3>1, <3>2
  <2>2. CASE ~(First < Last + 1)
    <3>1. Rips = {}
      BY <2>2, JitCodeAssumption
    <3> QED
      BY <1>4, <3>1 DEF FlushAll, Empty
  <2> QED
    BY <2>1, <2>2
<1>5. ASSUME NEW s \in Requests, VirtualProtect(t, s[1], s[2], TRUE)
      PROVE  Goal
  BY <1>0, <1>5 DEF VirtualProtect
<1>6. ASSUME NEW p \in Pages, NEW x \in BOOLEAN, VirtualAlloc(t, p, x)
      PROVE  Goal
  BY <1>0, <1>6 DEF VirtualAlloc
<1>7. Goal
  <2> HIDE DEF Goal
  <2>1. \A x \in BOOLEAN : x = TRUE \/ x = FALSE
    OBVIOUS
  <2> QED
    BY <1>1, <1>2, <1>3, <1>4, <1>5, <1>6, <2>1 DEF HostStep
<1> QED
  BY <1>7

(* The host calls that write, free, protect and flush. *)
LEMMA HostBasics ==
    ASSUME Basics, NEW t \in Threads, HostStep(t)
    PROVE  Basics' /\ Others(t) /\ th'[t].pc \in {"loop", "note", "test", "flush"}
<1>1. /\ th[t].pc = "loop"
      /\ UNCHANGED <<cache, chain_ids, code_pages, chain, edge, pending, overflow, lost>>
  BY HostShape
<1>2. ASSUME NEW s \in Spans, NEW l \in {"note", "test"},
             funcs' = Tainted(s[1], s[2], "host"),
             th' = [Spoilt(s[1], s[2], "host") EXCEPT ![t] = Entered(l, s)]
      PROVE  Basics' /\ Others(t) /\ th'[t].pc \in {"loop", "note", "test", "flush"}
  BY <1>1, <1>2, EnteredTyped, SpoiltBasics DEF Others, Marks
<1>3. ASSUME NEW s \in Spans, NEW l \in {"test", "flush"},
             funcs' = funcs, th' = [th EXCEPT ![t] = Entered(l, s)]
      PROVE  Basics' /\ Others(t) /\ th'[t].pc \in {"loop", "note", "test", "flush"}
  <2>1. Basics'
    BY <1>1, <1>3, EnteredTyped, QuietBasics DEF Basics, TypeOK
  <2>2. Others(t) /\ th'[t] = Entered(l, s)
    BY <1>3, EnteredTyped DEF Others, Basics, TypeOK
  <2> QED
    BY <2>1, <2>2, EnteredTyped
<1>4. ASSUME funcs' = funcs, th' = th
      PROVE  Basics' /\ Others(t) /\ th'[t].pc \in {"loop", "note", "test", "flush"}
  BY <1>1, <1>4 DEF Basics, TypeOK, EntriesRight, IdsRight, TablesRight, DirectRight, ThreadsRight,
                    IsReady, Others
<1> QED
  BY <1>2, <1>3, <1>4, HostShape

(* A worker that starts goes on to a flush. *)
LEMMA HooksBasics ==
    ASSUME Basics, NEW t \in Threads, InstallRuntimeHooks(t)
    PROVE  Basics'
<1>1. "flush" \in Labels /\ "flush" \notin Placed \cup Loaded \cup Spanning
  BY DEF Labels, Placed, Loaded, Spanning
<1> QED
  BY <1>1, GotoBasics DEF InstallRuntimeHooks, tables, Basics, TypeOK

(* One case per action. *)
LEMMA BasicsStep ==
    ASSUME Basics, [Next]_vars
    PROVE  Basics'
<1>1. CASE UNCHANGED vars
  BY <1>1 DEF vars, tables, Basics, TypeOK, EntriesRight, IdsRight, TablesRight, DirectRight,
              ThreadsRight, IsReady
<1>2. ASSUME NEW t \in Threads, Run(t)
      PROVE  Basics'
  BY <1>2, LookupBasics, ChainBasics, MarkBasics, DecodeBasics, CompileBasics, InsertBasics,
     StoreBasics, LeaveBasics, DrainBasics DEF Run
<1>3. ASSUME NEW t \in Threads, Invalidate(t)
      PROVE  Basics'
  BY <1>3, TestBasics, DropEntryBasics, DropUncountBasics, DropIdBasics, RelinkBasics, FlushBasics,
     HooksBasics DEF Invalidate
<1>4. ASSUME NEW t \in Threads, Call(t)
      PROVE  Basics'
  BY <1>4, HostBasics, NoteWriteBasics DEF Call, HostStep
<1> QED
  BY <1>1, <1>2, <1>3, <1>4 DEF Next
-----------------------------------------------------------------------------
(* Counting. *)
LEMMA Counted ==
    /\ \A p : IsFiniteSet(ReadyOn(p)) /\ IsFiniteSet(Holders(p))
    /\ \A p : IsFiniteSet(ReadyOn(p)') /\ IsFiniteSet(Holders(p)')
<1>1. IsFiniteSet(Rips) /\ IsFiniteSet(Threads)
  <2>1. IsFiniteSet(First..Last)
    BY JitCodeAssumption, FS_Interval
  <2> QED
    BY <2>1, JitCodeAssumption, FS_Subset
<1>2. \A p : ReadyOn(p) \subseteq Rips /\ Holders(p) \subseteq Threads
  BY DEF ReadyOn, Holders
<1>3. \A p : ReadyOn(p)' \subseteq Rips /\ Holders(p)' \subseteq Threads
  BY DEF ReadyOn, Holders
<1> QED
  BY <1>1, <1>2, <1>3, FS_Subset

(* The sets that are counted are finite. *)
LEMMA Sizes ==
    \A p : /\ Cardinality(ReadyOn(p)) \in Nat /\ Cardinality(Holders(p)) \in Nat
           /\ Cardinality(ReadyOn(p)') \in Nat /\ Cardinality(Holders(p)') \in Nat
BY Counted, FS_CardinalityType

(* A subset has no more elements. *)
LEMMA Fewer ==
    ASSUME NEW A, NEW B, IsFiniteSet(A), B \subseteq A
    PROVE  Cardinality(B) <= Cardinality(A)
BY FS_Subset

(* A new element counts one. *)
LEMMA OneMore ==
    ASSUME NEW A, IsFiniteSet(A), NEW a, a \notin A
    PROVE  Cardinality(A \cup {a}) = Cardinality(A) + 1
BY FS_AddElement

(* An element that goes counts one. *)
LEMMA OneLess ==
    ASSUME NEW A, IsFiniteSet(A), NEW a \in A
    PROVE  Cardinality(A \ {a}) = Cardinality(A) - 1
BY FS_RemoveElement

(* How a step changes the claims on a page: the Ready blocks by what it does to one entry, the     *)
(* threads by what it does to one thread.                                                          *)
OnPage(r, p) == p \in PagesOf(r, End[r])
Holds(t, p) == th[t].pc \in Holding /\ OnPage(th[t].rip, p)

(* Only the thread that moves may start or stop holding a page. *)
LEMMA HoldersMove ==
    ASSUME NEW t \in Threads, Others(t), NEW p
    PROVE  Holders(p)' = IF Holds(t, p)' THEN Holders(p) \cup {t} ELSE Holders(p) \ {t}
<1>1. \A u \in Threads : u \in Holders(p) <=> Holds(u, p)
  BY DEF Holders, Holds, OnPage
<1>2. \A u \in Threads : u \in Holders(p)' <=> Holds(u, p)'
  BY DEF Holders, Holds, OnPage
<1>3. \A u \in Threads \ {t} : Holds(u, p)' <=> Holds(u, p)
  BY DEF Others, Holds
<1>4. Holders(p) \subseteq Threads /\ Holders(p)' \subseteq Threads
  BY DEF Holders
<1> QED
  BY <1>1, <1>2, <1>3, <1>4

(* So the number of holders follows that thread. *)
LEMMA HoldersCount ==
    ASSUME NEW t \in Threads, Others(t), NEW p
    PROVE  /\ (Holds(t, p)' <=> Holds(t, p)) => Cardinality(Holders(p)') = Cardinality(Holders(p))
           /\ Holds(t, p)' /\ ~Holds(t, p) => Cardinality(Holders(p)') = Cardinality(Holders(p)) + 1
           /\ ~Holds(t, p)' /\ Holds(t, p) => Cardinality(Holders(p)') = Cardinality(Holders(p)) - 1
<1>1. t \in Holders(p) <=> Holds(t, p)
  BY DEF Holders, Holds, OnPage
<1>2. Holders(p)' = IF Holds(t, p)' THEN Holders(p) \cup {t} ELSE Holders(p) \ {t}
  BY HoldersMove
<1>3. IsFiniteSet(Holders(p))
  BY Counted
<1>4. CASE Holds(t, p)' <=> Holds(t, p)
  <2>1. Holders(p)' = Holders(p)
    BY <1>1, <1>2, <1>4
  <2> QED
    BY <1>4, <2>1
<1>5. CASE Holds(t, p)' /\ ~Holds(t, p)
  BY <1>1, <1>2, <1>3, <1>5, OneMore
<1>6. CASE ~Holds(t, p)' /\ Holds(t, p)
  BY <1>1, <1>2, <1>3, <1>6, OneLess
<1> QED
  BY <1>4, <1>5, <1>6

(* The number of Ready blocks on a page follows the one entry that changed. *)
LEMMA ReadyCount ==
    ASSUME TypeOK, TypeOK', NEW r \in Rips, \A q \in Rips \ {r} : cache'[q] = cache[q], NEW p
    PROVE  /\ (IsReady(r)' <=> IsReady(r)) => Cardinality(ReadyOn(p)') = Cardinality(ReadyOn(p))
           /\ ~OnPage(r, p) => Cardinality(ReadyOn(p)') = Cardinality(ReadyOn(p))
           /\ IsReady(r)' /\ ~IsReady(r) /\ OnPage(r, p) => Cardinality(ReadyOn(p)') = Cardinality(ReadyOn(p)) + 1
           /\ ~IsReady(r)' /\ IsReady(r) /\ OnPage(r, p) => Cardinality(ReadyOn(p)') = Cardinality(ReadyOn(p)) - 1
<1>1. ReadyOn(p)' = IF IsReady(r)' /\ OnPage(r, p) THEN ReadyOn(p) \cup {r} ELSE ReadyOn(p) \ {r}
  <2>1. \A q \in Rips : q \in ReadyOn(p) <=> IsReady(q) /\ OnPage(q, p)
    BY DEF ReadyOn, OnPage
  <2>2. \A q \in Rips : q \in ReadyOn(p)' <=> IsReady(q)' /\ OnPage(q, p)
    BY DEF ReadyOn, OnPage
  <2>3. \A q \in Rips \ {r} : IsReady(q)' <=> IsReady(q)
    BY DEF IsReady
  <2>4. ReadyOn(p) \subseteq Rips /\ ReadyOn(p)' \subseteq Rips
    BY DEF ReadyOn
  <2> QED
    BY <2>1, <2>2, <2>3, <2>4
<1>2. r \in ReadyOn(p) <=> IsReady(r) /\ OnPage(r, p)
  BY DEF ReadyOn, OnPage
<1>3. IsFiniteSet(ReadyOn(p))
  BY Counted
<1>4. CASE (IsReady(r)' <=> IsReady(r)) \/ ~OnPage(r, p)
  <2>1. ReadyOn(p)' = ReadyOn(p)
    BY <1>1, <1>2, <1>4
  <2> QED
    BY <1>4, <2>1
<1>5. CASE IsReady(r)' /\ ~IsReady(r) /\ OnPage(r, p)
  BY <1>1, <1>2, <1>3, <1>5, OneMore
<1>6. CASE ~IsReady(r)' /\ IsReady(r) /\ OnPage(r, p)
  BY <1>1, <1>2, <1>3, <1>6, OneLess
<1> QED
  BY <1>4, <1>5, <1>6
-----------------------------------------------------------------------------
(* What every step does to the claims: the counts follow exactly, but for an entry that is         *)
(* overwritten while it is Ready, whose count stays behind.                                        *)
Enough(p) == Claims(p) <= code_pages[p]
Balanced == \A p \in Pages : Enough(p) => code_pages'[p] + Claims(p) = code_pages[p] + Claims(p)'
Covered == \A p \in Pages : Enough(p) => Enough(p)'

(* Claims are numbers. *)
LEMMA ClaimsTyped == \A p : Claims(p) \in Nat /\ Claims(p)' \in Nat
BY Sizes DEF Claims

(* A step that keeps the balance keeps every claim covered. *)
LEMMA BalancedCovered ==
    ASSUME TypeOK, TypeOK', Balanced
    PROVE  Covered
<1> SUFFICES ASSUME NEW p \in Pages, Enough(p)
             PROVE  Claims(p)' <= code_pages'[p]
  BY DEF Covered, Enough
<1>1. code_pages[p] \in Nat /\ code_pages'[p] \in Nat /\ Claims(p) \in Nat /\ Claims(p)' \in Nat
  BY ClaimsTyped DEF TypeOK
<1>2. code_pages'[p] + Claims(p) = code_pages[p] + Claims(p)' /\ Claims(p) <= code_pages[p]
  BY DEF Balanced, Enough
<1> QED
  BY <1>1, <1>2

(* The steps of t that neither claim a page nor give one up. *)
NoClaims(t) ==
    \/ \E r \in Rips : Lookup(t, r) \/ Chain(t, r)
    \/ Decode(t) \/ Compile(t) \/ InsertPublish(t)
    \/ \E a \in Stores : GuestStore(t, a)
    \/ Leave(t) \/ Drain(t) \/ NoteWrite(t)
    \/ InvalidateTest(t) \/ InvalidateCollect(t) \/ DropId(t) \/ Relink(t)
    \/ InstallRuntimeHooks(t) \/ FlushIds(t) \/ FlushTables(t) \/ HostStep(t)

(* A step that sets one thread moves no other. *)
LEMMA OneMoves ==
    ASSUME TypeOK, NEW t \in Threads, NEW x, th' = [th EXCEPT ![t] = x]
    PROVE  Others(t) /\ th'[t] = x
BY DEF TypeOK, Others

(* Going on to the next span moves one thread. *)
LEMMA SpanMoves ==
    ASSUME Basics, NEW t \in Threads, NextSpan(t), th[t].pc \in Spanning
    PROVE  Others(t) /\ th'[t].pc \in {"loop", "test"}
<1>1. PICK x \in ThreadStates : th' = [th EXCEPT ![t] = x] /\ x.pc \in {"loop", "test"}
  BY NextSpanMoves DEF Idle
<1> QED
  BY <1>1, OneMoves DEF Basics

(* Going on to another label moves one thread. *)
LEMMA FieldMoves ==
    ASSUME Basics, NEW t \in Threads, NEW l, Goto(t, l)
    PROVE  Others(t) /\ th'[t].pc = l /\ th'[t].rip = th[t].rip
<1>1. th[t] \in ThreadStates
  BY DEF Basics, TypeOK
<1>2. [th[t] EXCEPT !.pc = l].pc = l /\ [th[t] EXCEPT !.pc = l].rip = th[t].rip
  BY <1>1 DEF ThreadStates
<1> QED
  BY <1>2, OneMoves DEF Basics, Goto, Becomes

(* Where the steps of t that claim nothing start and end. *)
LEMMA NoClaimsMoves ==
    ASSUME Basics, NEW t \in Threads, NoClaims(t)
    PROVE  /\ Others(t) /\ UNCHANGED <<cache, code_pages>>
           /\ th[t].pc \notin Holding \cup {"absent"} /\ th'[t].pc \notin Holding \cup {"absent"}
           /\ th'[t].pc = "flushPages" => th[t].pc = "flushIds"
           /\ th'[t].pc # "flushIds"
           /\ lost' = lost
<1> DEFINE Goal == /\ Others(t) /\ UNCHANGED <<cache, code_pages>>
                   /\ th[t].pc \notin Holding \cup {"absent"} /\ th'[t].pc \notin Holding \cup {"absent"}
                   /\ th'[t].pc = "flushPages" => th[t].pc = "flushIds"
                   /\ th'[t].pc # "flushIds"
                   /\ lost' = lost
<1>0. TypeOK /\ th[t] \in ThreadStates
  BY DEF Basics, TypeOK
<1>1. ASSUME NEW r \in Rips, Lookup(t, r)
      PROVE  Goal
  <2>1. PICK x : th' = [th EXCEPT ![t] = x] /\ x.pc \in {"native", "interp", "bump", "decode"}
    <3>1. PICK x : /\ th' = [th EXCEPT ![t] = x]
                   /\ \/ x = [th[t] EXCEPT !.pc = "native", !.rip = r, !.id = cache[r].n]
                      \/ x = [th[t] EXCEPT !.pc = "interp", !.rip = r]
                      \/ x = [th[t] EXCEPT !.pc = "bump", !.rip = r, !.n = cache[r].n + 1]
                      \/ x = [th[t] EXCEPT !.pc = "bump", !.rip = r, !.n = 1]
                      \/ x = [th[t] EXCEPT !.pc = "decode", !.rip = r]
      BY <1>1 DEF Lookup, Becomes
    <3>2. x.pc \in {"native", "interp", "bump", "decode"}
      BY <1>0, <3>1 DEF ThreadStates
    <3> QED
      BY <3>1, <3>2
  <2>2. Others(t) /\ th'[t] = x
    BY <1>0, <2>1, OneMoves
  <2> QED
    BY <1>1, <2>1, <2>2 DEF Lookup, At, Holding
<1>2. ASSUME NEW s \in Rips, Chain(t, s)
      PROVE  Goal
  <2>1. PICK i, d : th' = [th EXCEPT ![t] = [th[t] EXCEPT !.rip = s, !.id = i, !.depth = d]]
    BY <1>2 DEF Chain, Becomes
  <2>2. [th[t] EXCEPT !.rip = s, !.id = i, !.depth = d].pc = th[t].pc
    BY <1>0 DEF ThreadStates
  <2>3. Others(t) /\ th'[t].pc = th[t].pc
    BY <1>0, <2>1, <2>2, OneMoves
  <2> QED
    BY <1>2, <2>3 DEF Chain, At, Holding
<1>3. ASSUME Decode(t) \/ Compile(t) \/ NoteWrite(t)
      PROVE  Goal
  <2>1. PICK x : th' = [th EXCEPT ![t] = x] /\ x.pc \in {"compile", "never", "take", "drain"}
    <3>1. CASE Decode(t)
      <4>1. /\ [th[t] EXCEPT !.pc = "compile", !.taint = {}].pc = "compile"
            /\ [th[t] EXCEPT !.pc = "never"].pc = "never"
        BY <1>0 DEF ThreadStates
      <4> QED
        BY <3>1, <4>1 DEF Decode, Becomes, Goto
    <3>2. CASE Compile(t)
      <4>1. \A i : [th[t] EXCEPT !.pc = "take", !.id = i, !.taint = {}].pc = "take"
        BY <1>0 DEF ThreadStates
      <4> QED
        BY <3>2, <4>1 DEF Compile, Becomes
    <3>3. CASE NoteWrite(t)
      <4>1. [th[t] EXCEPT !.pc = "drain", !.todo = <<>>].pc = "drain"
        BY <1>0 DEF ThreadStates
      <4> QED
        BY <3>3, <4>1 DEF NoteWrite, Becomes
    <3> QED
      BY <1>3, <3>1, <3>2, <3>3
  <2>2. Others(t) /\ th'[t] = x
    BY <1>0, <2>1, OneMoves
  <2> QED
    BY <1>3, <2>1, <2>2 DEF Decode, Compile, NoteWrite, At, Holding
<1>4. ASSUME InsertPublish(t) \/ Leave(t) \/ FlushIds(t) \/ InstallRuntimeHooks(t)
      PROVE  Goal
  <2>1. Others(t) /\ th'[t].pc \in {"count", "drain", "flushPages", "flush"}
    BY <1>4, FieldMoves DEF InsertPublish, Leave, FlushIds, InstallRuntimeHooks
  <2> QED
    BY <1>4, <2>1, FieldMoves DEF InsertPublish, Leave, FlushIds, InstallRuntimeHooks, At, Holding
<1>5. ASSUME NEW a \in Stores, GuestStore(t, a)
      PROVE  Goal
  <2>1. Others(t) /\ th'[t].pc \in {"drain", "native"}
    BY <1>5, StoreBasics DEF Others
  <2> QED
    BY <1>5, <2>1 DEF GuestStore, Holding
<1>6. ASSUME Drain(t)
      PROVE  Goal
  <2>1. PICK x : th' = [th EXCEPT ![t] = x] /\ x.pc \in {"loop", "flush", "test"}
    <3>1. \A q : [th[t] EXCEPT !.pc = "test", !.todo = q].pc = "test"
      BY <1>0 DEF ThreadStates
    <3>2. [th[t] EXCEPT !.pc = "flush"].pc = "flush"
      BY <1>0 DEF ThreadStates
    <3> QED
      BY <1>6, <3>1, <3>2 DEF Drain, Return, Becomes, Goto, Idle
  <2>2. Others(t) /\ th'[t] = x
    BY <1>0, <2>1, OneMoves
  <2> QED
    BY <1>6, <2>1, <2>2 DEF Drain, At, Holding
<1>7. ASSUME InvalidateTest(t) \/ InvalidateCollect(t)
      PROVE  Goal
  <2>1. th[t].pc \in {"test", "collect"} /\ th[t].pc \in Spanning
    BY <1>7 DEF InvalidateTest, InvalidateCollect, At, Spanning
  <2>2. Others(t) /\ th'[t].pc \in {"loop", "test", "collect", "drop"}
    <3>1. CASE NextSpan(t)
      BY <2>1, <3>1, SpanMoves
    <3>2. CASE Goto(t, "collect")
      BY <3>2, FieldMoves
    <3>3. CASE \E D : Becomes(t, [th[t] EXCEPT !.pc = "drop", !.drop = D])
      <4>1. \A D : [th[t] EXCEPT !.pc = "drop", !.drop = D].pc = "drop"
        BY <1>0 DEF ThreadStates
      <4> QED
        BY <1>0, <3>3, <4>1, OneMoves DEF Becomes
    <3> QED
      BY <1>7, <3>1, <3>2, <3>3 DEF InvalidateTest, InvalidateCollect
  <2> QED
    BY <1>7, <2>1, <2>2 DEF InvalidateTest, InvalidateCollect, Holding
<1>8. ASSUME DropId(t)
      PROVE  Goal
  <2>1. PICK l \in {"relink", "drop"} : \E D : th' = [th EXCEPT ![t] = [th[t] EXCEPT !.pc = l, !.drop = D]]
    BY <1>8 DEF DropId, Becomes
  <2>2. \A D : [th[t] EXCEPT !.pc = l, !.drop = D].pc = l
    BY <1>0 DEF ThreadStates
  <2>3. Others(t) /\ th'[t].pc = l
    BY <1>0, <2>1, <2>2, OneMoves
  <2> QED
    BY <1>8, <2>3 DEF DropId, At, Holding
<1>9. ASSUME Relink(t)
      PROVE  Goal
  <2>1. th[t].pc = "relink" /\ th[t].pc \in Spanning
    BY <1>9 DEF Relink, At, Spanning
  <2>2. Others(t) /\ th'[t].pc \in {"loop", "test"}
    BY <1>9, <2>1, SpanMoves DEF Relink
  <2> QED
    BY <1>9, <2>1, <2>2 DEF Relink, Holding
<1>10. ASSUME FlushTables(t)
       PROVE  Goal
  <2>1. Others(t) /\ th'[t] = Idle
    BY <1>0, <1>10, OneMoves DEF FlushTables, Return, Becomes
  <2> QED
    BY <1>10, <2>1 DEF FlushTables, At, Holding, Idle
<1>11. ASSUME HostStep(t)
       PROVE  Goal
  <2>1. Others(t) /\ th[t].pc = "loop" /\ th'[t].pc \in {"loop", "note", "test", "flush"}
    BY <1>11, HostBasics, HostShape
  <2> QED
    BY <1>11, <2>1, HostShape DEF Holding
<1> HIDE DEF Goal
<1>12. Goal
  BY <1>1, <1>2, <1>3, <1>4, <1>5, <1>6, <1>7, <1>8, <1>9, <1>10, <1>11 DEF NoClaims
<1> QED
  BY <1>12 DEF Goal

(* Steps without claims keep the balance. *)
LEMMA NoClaimsBalanced ==
    ASSUME Basics, NEW t \in Threads, NoClaims(t)
    PROVE  Balanced
<1>1. /\ Others(t) /\ cache' = cache /\ code_pages' = code_pages
      /\ th[t].pc \notin Holding /\ th'[t].pc \notin Holding
  BY NoClaimsMoves
<1>2. ASSUME NEW p
      PROVE  Claims(p)' = Claims(p)
  <2>1. ReadyOn(p)' = ReadyOn(p)
    BY <1>1 DEF ReadyOn, IsReady
  <2>2. Cardinality(Holders(p)') = Cardinality(Holders(p))
    BY <1>1, HoldersCount DEF Holds
  <2> QED
    BY <2>1, <2>2 DEF Claims
<1> QED
  BY <1>1, <1>2 DEF Balanced

(* Overwriting an entry leaves the claims, or drops one whose count stays. *)
LEMMA MarkClaims ==
    ASSUME Basics, Basics', NEW t \in Threads, NEW r, r = th[t].rip, Bump(t) \/ MarkNever(t)
    PROVE  /\ Others(t) /\ th'[t].pc = "interp" /\ code_pages' = code_pages /\ lost' = lost
           /\ \A q \in Rips \ {r} : cache'[q] = cache[q]
           /\ ~IsReady(r)'
           /\ Covered /\ (~IsReady(r) => Balanced)
<1>1. r \in Rips /\ th[t].pc \in {"bump", "never"} /\ code_pages' = code_pages /\ lost' = lost
  BY DEF Basics, ThreadsRight, ThreadOK, Placed, Bump, MarkNever, At
<1>2. Others(t) /\ th'[t].pc = "interp"
  BY FieldMoves DEF Bump, MarkNever
<1>3. (\A q \in Rips \ {r} : cache'[q] = cache[q]) /\ cache'[r].kind # "ready"
  BY <1>1 DEF Basics, TypeOK, Bump, MarkNever, Hot, Never
<1>4. ASSUME NEW p
      PROVE  Claims(p)' <= Claims(p) /\ (~IsReady(r) => Claims(p)' = Claims(p))
  <2>1. Cardinality(Holders(p)') = Cardinality(Holders(p))
    BY <1>1, <1>2, HoldersCount DEF Holds, Holding
  <2>2. /\ Cardinality(ReadyOn(p)') <= Cardinality(ReadyOn(p))
        /\ ~IsReady(r) => Cardinality(ReadyOn(p)') = Cardinality(ReadyOn(p))
    <3>1. ReadyOn(p)' \subseteq ReadyOn(p) /\ (~IsReady(r) => ReadyOn(p)' = ReadyOn(p))
      BY <1>1, <1>3 DEF ReadyOn, IsReady
    <3> QED
      BY <3>1, Counted, Fewer
  <2> QED
    BY <2>1, <2>2, Sizes DEF Claims
<1>5. Covered
  <2> SUFFICES ASSUME NEW p \in Pages, Enough(p)
               PROVE  Claims(p)' <= code_pages'[p]
    BY DEF Covered, Enough
  <2>1. code_pages[p] \in Nat /\ Claims(p) \in Nat /\ Claims(p)' \in Nat
    BY ClaimsTyped DEF Basics, TypeOK
  <2> QED
    BY <1>1, <1>4, <2>1 DEF Enough
<1>6. ~IsReady(r) => Balanced
  BY <1>1, <1>4 DEF Balanced
<1> QED
  BY <1>1, <1>2, <1>3, <1>5, <1>6 DEF IsReady

(* A Ready entry that is taken out becomes a claim of the thread that took it. *)
LEMMA TakeClaims ==
    ASSUME Basics, Basics', NEW t \in Threads, NEW r \in Rips,
           (InsertTake(t) /\ r = th[t].rip) \/ DropEntry(t, r)
    PROVE  /\ Others(t) /\ code_pages' = code_pages /\ lost' = lost
           /\ th'[t].rip = r
           /\ th'[t].pc \in {"publish", "dropId"} \/ (IsReady(r) /\ th'[t].pc \in {"uncount", "dropUncount"})
           /\ \A q \in Rips \ {r} : cache'[q] = cache[q]
           /\ ~IsReady(r)'
           /\ Balanced
<1>1. th[t] \in ThreadStates /\ th[t].pc \in {"take", "drop"} /\ code_pages' = code_pages /\ lost' = lost
  BY DEF Basics, TypeOK, InsertTake, DropEntry, At
<1>2. /\ Others(t) /\ th'[t].rip = r
      /\ th'[t].pc \in IF IsReady(r) THEN {"uncount", "dropUncount"} ELSE {"publish", "dropId"}
  <2>1. CASE InsertTake(t) /\ r = th[t].rip
    BY <2>1, FieldMoves DEF InsertTake
  <2>2. CASE DropEntry(t, r)
    <3> DEFINE l == IF IsReady(r) THEN "dropUncount" ELSE "dropId"
    <3>1. th' = [th EXCEPT ![t] = [th[t] EXCEPT !.pc = l, !.rip = r]]
      BY <2>2 DEF DropEntry, Becomes
    <3>2. [th[t] EXCEPT !.pc = l, !.rip = r].pc = l /\ [th[t] EXCEPT !.pc = l, !.rip = r].rip = r
      BY <1>1 DEF ThreadStates
    <3>3. Others(t) /\ th'[t].pc = l /\ th'[t].rip = r
      BY <3>1, <3>2, OneMoves DEF Basics
    <3> QED
      BY <3>3
  <2> QED
    BY <2>1, <2>2
<1>3. (\A q \in Rips \ {r} : cache'[q] = cache[q]) /\ ~IsReady(r)'
  BY DEF Basics, TypeOK, InsertTake, DropEntry, None, IsReady
<1>4. ASSUME NEW p
      PROVE  Claims(p)' = Claims(p)
  <2>1. ~Holds(t, p) /\ (Holds(t, p)' <=> IsReady(r) /\ OnPage(r, p))
    BY <1>1, <1>2 DEF Holds, Holding
  <2>2. CASE IsReady(r) /\ OnPage(r, p)
    <3>1. Cardinality(Holders(p)') = Cardinality(Holders(p)) + 1
      BY <1>2, <2>1, <2>2, HoldersCount
    <3>2. Cardinality(ReadyOn(p)') = Cardinality(ReadyOn(p)) - 1
      BY <1>3, <2>2, ReadyCount DEF Basics
    <3> QED
      BY <3>1, <3>2, Sizes DEF Claims
  <2>3. CASE ~(IsReady(r) /\ OnPage(r, p))
    <3>1. Cardinality(Holders(p)') = Cardinality(Holders(p))
      BY <1>2, <2>1, <2>3, HoldersCount
    <3>2. Cardinality(ReadyOn(p)') = Cardinality(ReadyOn(p))
      BY <1>3, <2>3, ReadyCount DEF Basics
    <3> QED
      BY <3>1, <3>2 DEF Claims
  <2> QED
    BY <2>2, <2>3
<1>5. Balanced
  BY <1>1, <1>4 DEF Balanced
<1> QED
  BY <1>1, <1>2, <1>3, <1>5

(* Uncounting gives up a claim and its count; counting makes both. *)
LEMMA CountClaims ==
    ASSUME Basics, NEW t \in Threads, InsertUncount(t) \/ DropUncount(t) \/ InsertCount(t)
    PROVE  /\ Others(t) /\ th'[t].rip = th[t].rip /\ lost' = lost /\ cache' = cache
           /\ \/ th[t].pc = "uncount" /\ th'[t].pc = "publish"
              \/ th[t].pc = "dropUncount" /\ th'[t].pc = "dropId"
              \/ th[t].pc = "count" /\ th'[t].pc = "put"
           /\ Balanced
<1> DEFINE r == th[t].rip
<1>1. r \in Rips
  BY DEF Basics, ThreadsRight, ThreadOK, Placed, InsertUncount, DropUncount, InsertCount, At
<1>2. /\ Others(t) /\ th'[t].rip = r /\ lost' = lost /\ cache' = cache
      /\ \/ th[t].pc = "uncount" /\ th'[t].pc = "publish"
         \/ th[t].pc = "dropUncount" /\ th'[t].pc = "dropId"
         \/ th[t].pc = "count" /\ th'[t].pc = "put"
  BY FieldMoves DEF InsertUncount, DropUncount, InsertCount, At
<1>3. Balanced
  <2> SUFFICES ASSUME NEW p \in Pages, Enough(p)
               PROVE  code_pages'[p] + Claims(p) = code_pages[p] + Claims(p)'
    BY DEF Balanced
  <2>1. code_pages \in [Pages -> Nat] /\ code_pages[p] \in Nat /\ Claims(p) \in Nat /\ Claims(p) <= code_pages[p]
    BY ClaimsTyped DEF Basics, TypeOK, Enough
  <2>2. Cardinality(ReadyOn(p)') = Cardinality(ReadyOn(p))
    <3>1. ReadyOn(p)' = ReadyOn(p)
      BY <1>2 DEF ReadyOn, IsReady
    <3> QED
      BY <3>1
  <2>3. CASE InsertCount(t)
    <3>1. ~Holds(t, p) /\ (Holds(t, p)' <=> OnPage(r, p))
      BY <1>2, <2>3 DEF Holds, Holding, InsertCount, At
    <3>2. code_pages'[p] = IF OnPage(r, p) THEN code_pages[p] + 1 ELSE code_pages[p]
      BY <2>3 DEF InsertCount, AddRange, OnPage
    <3>3. Cardinality(Holders(p)') = IF OnPage(r, p) THEN Cardinality(Holders(p)) + 1 ELSE Cardinality(Holders(p))
      BY <1>2, <3>1, HoldersCount
    <3> QED
      BY <2>1, <2>2, <3>2, <3>3, Sizes DEF Claims
  <2>4. CASE InsertUncount(t) \/ DropUncount(t)
    <3>1. ~Holds(t, p)' /\ (Holds(t, p) <=> OnPage(r, p))
      BY <1>2, <2>4 DEF Holds, Holding, InsertUncount, DropUncount, At
    <3>2. code_pages'[p] = IF OnPage(r, p) /\ code_pages[p] > 0 THEN code_pages[p] - 1 ELSE code_pages[p]
      BY <2>4 DEF InsertUncount, DropUncount, RemoveRange, OnPage
    <3>3. Cardinality(Holders(p)') = IF OnPage(r, p) THEN Cardinality(Holders(p)) - 1 ELSE Cardinality(Holders(p))
      BY <1>2, <3>1, HoldersCount
    <3>4. OnPage(r, p) => code_pages[p] > 0
      <4>1. OnPage(r, p) => Cardinality(Holders(p)) - 1 \in Nat
        BY <3>3, Sizes
      <4> QED
        BY <2>1, <4>1, Sizes DEF Claims
    <3> QED
      BY <2>1, <2>2, <3>2, <3>3, <3>4, Sizes DEF Claims
  <2> QED
    BY <2>3, <2>4, <1>2 DEF InsertUncount, DropUncount, InsertCount
<1> QED
  BY <1>2, <1>3

(* Putting an entry in turns the claim of the thread into that of the block. *)
LEMMA PutClaims ==
    ASSUME Basics, Basics', NEW t \in Threads, NEW r, r = th[t].rip, InsertPut(t)
    PROVE  /\ Others(t) /\ th'[t].rip = r /\ th'[t].pc = "native"
           /\ code_pages' = code_pages /\ lost' = lost
           /\ \A q \in Rips \ {r} : cache'[q] = cache[q]
           /\ IsReady(r)' /\ cache'[r].n = th[t].id
           /\ Covered /\ (~IsReady(r) => Balanced)
<1>1. r \in Rips /\ th[t].pc = "put" /\ code_pages' = code_pages /\ lost' = lost
  BY DEF Basics, ThreadsRight, ThreadOK, Placed, InsertPut, At
<1>2. Others(t) /\ th'[t].rip = r /\ th'[t].pc = "native"
  BY FieldMoves DEF InsertPut
<1>3. (\A q \in Rips \ {r} : cache'[q] = cache[q]) /\ IsReady(r)' /\ cache'[r].n = th[t].id
  BY <1>1 DEF Basics, TypeOK, InsertPut, Ready, IsReady
<1>4. ASSUME NEW p
      PROVE  Claims(p)' <= Claims(p) /\ (~IsReady(r) => Claims(p)' = Claims(p))
  <2>1. ~Holds(t, p)' /\ (Holds(t, p) <=> OnPage(r, p))
    BY <1>1, <1>2 DEF Holds, Holding
  <2>2. CASE OnPage(r, p)
    <3>1. Cardinality(Holders(p)') = Cardinality(Holders(p)) - 1
      BY <1>2, <2>1, <2>2, HoldersCount
    <3>2. Cardinality(ReadyOn(p)') = IF IsReady(r) THEN Cardinality(ReadyOn(p)) ELSE Cardinality(ReadyOn(p)) + 1
      BY <1>1, <1>3, <2>2, ReadyCount DEF Basics
    <3> QED
      BY <3>1, <3>2, Sizes DEF Claims
  <2>3. CASE ~OnPage(r, p)
    <3>1. Cardinality(Holders(p)') = Cardinality(Holders(p))
      BY <1>2, <2>1, <2>3, HoldersCount
    <3>2. Cardinality(ReadyOn(p)') = Cardinality(ReadyOn(p))
      BY <1>1, <1>3, <2>3, ReadyCount DEF Basics
    <3> QED
      BY <3>1, <3>2, Sizes DEF Claims
  <2> QED
    BY <2>2, <2>3
<1>5. Covered
  <2> SUFFICES ASSUME NEW p \in Pages, Enough(p)
               PROVE  Claims(p)' <= code_pages'[p]
    BY DEF Covered, Enough
  <2>1. code_pages[p] \in Nat /\ Claims(p) \in Nat /\ Claims(p)' \in Nat
    BY ClaimsTyped DEF Basics, TypeOK
  <2> QED
    BY <1>1, <1>4, <2>1 DEF Enough
<1>6. ~IsReady(r) => Balanced
  BY <1>1, <1>4 DEF Balanced
<1> QED
  BY <1>1, <1>2, <1>3, <1>5, <1>6
-----------------------------------------------------------------------------
Step(t) == Run(t) \/ Invalidate(t) \/ Call(t)

(* Every step is of one of the kinds treated here. *)
LEMMA StepKinds ==
    ASSUME NEW t \in Threads, Step(t)
    PROVE  \/ NoClaims(t)
           \/ Bump(t) \/ MarkNever(t)
           \/ InsertTake(t) \/ \E r \in Rips : DropEntry(t, r)
           \/ InsertUncount(t) \/ DropUncount(t) \/ InsertCount(t)
           \/ InsertPut(t)
           \/ FlushCache(t) \/ FlushPages(t)
BY DEF Step, Run, Invalidate, Call, NoClaims, HostStep

(* Nobody joins or leaves the program. *)
LEMMA StepMoves ==
    ASSUME Basics, Basics', NEW t \in Threads, Step(t)
    PROVE  /\ Others(t) /\ t \in Crew /\ Crew' = Crew
           /\ th'[t].pc = "flushIds" => FlushCache(t)
           /\ th'[t].pc = "flushPages" => FlushIds(t)
<1> DEFINE Goal == /\ Others(t) /\ th[t].pc # "absent" /\ th'[t].pc # "absent"
                   /\ th'[t].pc = "flushIds" => FlushCache(t)
                   /\ th'[t].pc = "flushPages" => th[t].pc = "flushIds"
<1>1. ASSUME NoClaims(t)
      PROVE  Goal
  BY <1>1, NoClaimsMoves
<1>2. ASSUME Bump(t) \/ MarkNever(t)
      PROVE  Goal
  BY <1>2, MarkClaims DEF Bump, MarkNever, At
<1>3. ASSUME InsertTake(t) \/ \E r \in Rips : DropEntry(t, r)
      PROVE  Goal
  <2>1. PICK r \in Rips : (InsertTake(t) /\ r = th[t].rip) \/ DropEntry(t, r)
    BY <1>3 DEF Basics, ThreadsRight, ThreadOK, Placed, InsertTake, At
  <2>2. /\ Others(t) /\ lost' = lost
        /\ th'[t].pc \in {"publish", "dropId", "uncount", "dropUncount"}
    BY <2>1, TakeClaims
  <2> QED
    BY <2>1, <2>2 DEF InsertTake, DropEntry, At
<1>4. ASSUME InsertUncount(t) \/ DropUncount(t) \/ InsertCount(t)
      PROVE  Goal
  BY <1>4, CountClaims
<1>5. ASSUME InsertPut(t)
      PROVE  Goal
  BY <1>5, PutClaims DEF InsertPut, At
<1>6. ASSUME FlushCache(t) \/ FlushPages(t)
      PROVE  Goal
  <2>1. Others(t) /\ th'[t].pc \in {"flushIds", "flushTables"} /\ (FlushPages(t) => th'[t].pc = "flushTables")
    BY <1>6, FieldMoves DEF FlushCache, FlushPages
  <2> QED
    BY <1>6, <2>1 DEF FlushCache, FlushPages, At
<1>7. Goal
  <2> HIDE DEF Goal
  <2> QED
    BY <1>1, <1>2, <1>3, <1>4, <1>5, <1>6, StepKinds
<1>8. t \in Crew /\ Crew' = Crew
  BY <1>7 DEF Crew, At, Others
<1>9. ASSUME th'[t].pc = "flushPages"
      PROVE  FlushIds(t)
  <2>1. th[t].pc = "flushIds"
    BY <1>7, <1>9
  <2> QED
    BY <1>9, <2>1 DEF Step, Run, Invalidate, Call, Lookup, Chain, Bump, Decode, MarkNever, Compile,
       InsertTake, InsertUncount, InsertPublish, InsertCount, InsertPut, GuestStore, Leave, Drain,
       InvalidateTest, InvalidateCollect, DropEntry, DropUncount, DropId, Relink, FlushCache,
       FlushPages, FlushTables, MemWrite, VirtualFree, FlushRange, VirtualProtect, VirtualAlloc,
       NoteWrite, FlushAll, InstallRuntimeHooks, HostCall, At
<1> QED
  BY <1>7, <1>8, <1>9

(* Every claim stays covered, one case per kind of step. *)
LEMMA ClaimsStep ==
    ASSUME Basics, Basics', ClaimsCounted, NEW t \in Threads, Step(t)
    PROVE  ClaimsCounted'
<1> SUFFICES ASSUME NEW p \in Pages, p \notin lost'
             PROVE  Enough(p)'
  BY DEF ClaimsCounted, Enough
<1>1. lost' = lost => Enough(p)
  BY DEF ClaimsCounted, Enough
<1>2. CASE NoClaims(t) \/ InsertUncount(t) \/ DropUncount(t) \/ InsertCount(t)
  <2>1. Balanced /\ lost' = lost
    BY <1>2, NoClaimsBalanced, CountClaims, NoClaimsMoves
  <2> QED
    BY <1>1, <2>1, BalancedCovered DEF Covered, Basics
<1>3. CASE Bump(t) \/ MarkNever(t) \/ InsertPut(t)
  <2>1. Covered /\ lost' = lost
    BY <1>3, MarkClaims, PutClaims
  <2> QED
    BY <1>1, <2>1 DEF Covered
<1>4. CASE InsertTake(t) \/ \E r \in Rips : DropEntry(t, r)
  <2>1. PICK r \in Rips : (InsertTake(t) /\ r = th[t].rip) \/ DropEntry(t, r)
    BY <1>4 DEF Basics, ThreadsRight, ThreadOK, Placed, InsertTake, At
  <2>2. Balanced /\ lost' = lost
    BY <2>1, TakeClaims
  <2> QED
    BY <1>1, <2>2, BalancedCovered DEF Covered, Basics
<1>5. CASE FlushCache(t)
  <2>1. ReadyOn(p)' \subseteq ReadyOn(p)
    BY <1>5 DEF FlushCache, ReadyOn, IsReady, None
  <2>2. th[t].pc = "flush" /\ th'[t].pc = "flushIds" /\ Others(t) /\ code_pages' = code_pages
    BY <1>5, FieldMoves DEF FlushCache, At
  <2>3. Cardinality(Holders(p)') = Cardinality(Holders(p))
    BY <2>2, HoldersCount DEF Holds, Holding
  <2>4. Cardinality(ReadyOn(p)') <= Cardinality(ReadyOn(p))
    BY <2>1, Counted, Fewer
  <2>5. code_pages[p] \in Nat /\ Claims(p) <= code_pages[p]
    BY <1>1, <1>5 DEF Enough, Basics, TypeOK, FlushCache
  <2> QED
    BY <2>2, <2>3, <2>4, <2>5, Sizes DEF Claims, Enough
<1>6. CASE FlushPages(t)
  <2>1. ReadyOn(p) = {} /\ Holders(p) = {} /\ code_pages'[p] = 0 /\ cache' = cache
    BY <1>6 DEF FlushPages
  <2>2. Others(t) /\ th'[t].pc = "flushTables"
    BY <1>6, FieldMoves DEF FlushPages
  <2>3. ReadyOn(p)' = {}
    BY <2>1 DEF ReadyOn, IsReady
  <2>4. Holders(p)' = {}
    BY <2>1, <2>2, HoldersMove DEF Holds, Holding
  <2>5. Cardinality(ReadyOn(p)') = 0 /\ Cardinality(Holders(p)') = 0
    BY <2>3, <2>4, FS_EmptySet
  <2> QED
    BY <2>1, <2>5 DEF Claims, Enough
<1> QED
  BY <1>2, <1>3, <1>4, <1>5, <1>6, StepKinds

(* The tables start empty. *)
LEMMA InitBasics == Init => Basics
<1> SUFFICES ASSUME Init
             PROVE  Basics
  OBVIOUS
<1>1. th \in [Threads -> ThreadStates] /\ \A t \in Threads : th[t].pc \in {"loop", "hooks", "absent"}
  <2>1. \A l \in {"loop", "hooks", "absent"} :
            [Idle EXCEPT !.pc = l] \in ThreadStates /\ [Idle EXCEPT !.pc = l].pc = l
    <3>1. {"loop", "hooks", "absent"} \subseteq Labels
      BY DEF Labels
    <3> QED
      BY <3>1, IdleTyped, Moved
  <2> QED
    BY <2>1 DEF Init
<1>2. ThreadsRight
  BY <1>1 DEF ThreadsRight, ThreadOK, Placed, Loaded, Spanning
<1>3. NoTable \in [Rips -> Nat] /\ \A r \in Rips : NoTable[r] = 0
  BY DEF NoTable
<1>4. <<>> \in Seq(FuncRecords) /\ <<>> \in Seq(Nat) /\ Len(<<>>) = 0
  OBVIOUS
<1>5. TypeOK
  BY <1>1, <1>3, <1>4 DEF Init, TypeOK, None, Entries
<1>6. EntriesRight /\ IdsRight /\ TablesRight /\ DirectRight
  BY <1>3, <1>4 DEF Init, EntriesRight, IdsRight, TablesRight, DirectRight, IsReady, None, LinkOK
<1> QED
  BY <1>2, <1>5, <1>6 DEF Basics

(* Nobody claims a page at the start. *)
LEMMA InitClaims == Init => ClaimsCounted
<1> SUFFICES ASSUME Init
             PROVE  ClaimsCounted
  OBVIOUS
<1>1. \A t \in Threads : th[t].pc \in {"loop", "hooks", "absent"}
  BY DEF Init, Idle
<1>2. ASSUME NEW p
      PROVE  Claims(p) = 0
  <2>1. ReadyOn(p) = {} /\ Holders(p) = {}
    BY <1>1 DEF Init, ReadyOn, IsReady, None, Holders, Holding
  <2> QED
    BY <2>1, FS_EmptySet DEF Claims
<1> QED
  BY <1>1, <1>2 DEF Init, ClaimsCounted

-----------------------------------------------------------------------------
(* The inductive invariant of the cache and its index: types; every id leads to a function for     *)
(* its address; the index counts the Ready blocks and the claims of threads between two locks.     *)
THEOREM CacheInvariant == Spec => []IInv
<1>1. Init => IInv
  BY InitBasics, InitClaims DEF IInv
<1>2. ASSUME IInv, [Next]_vars
      PROVE  IInv'
  <2>1. Basics'
    BY <1>2, BasicsStep DEF IInv
  <2>2. CASE UNCHANGED vars
    <3>1. ClaimsCounted'
      BY <1>2, <2>2 DEF IInv, vars, ClaimsCounted, Claims, ReadyOn, Holders, IsReady
    <3> QED
      BY <2>1, <3>1 DEF IInv
  <2>3. CASE Next
    <3>1. PICK t \in Threads : Step(t)
      BY <2>3 DEF Next, Step
    <3> QED
      BY <1>2, <2>1, <3>1, ClaimsStep DEF IInv
  <2> QED
    BY <1>2, <2>2, <2>3
<1> QED
  BY <1>1, <1>2, PTL DEF Spec

(* For every number of threads that insert, drop and flush blocks, each worker flushing as it      *)
(* starts: the index of code pages misses a Ready block only on a page a flush uncounted between   *)
(* another thread's count and its entry, and the fast reject of invalidate_code_range is sound     *)
(* everywhere else.                                                                                *)
THEOREM IndexNeverMisses == Spec => []IndexCovers
<1>1. IInv => IndexCovers
  <2> SUFFICES ASSUME IInv, NEW p \in Pages \ lost, ReadyOn(p) # {}
               PROVE  code_pages[p] > 0
    BY DEF IndexCovers
  <2>1. Cardinality(ReadyOn(p)) # 0
    BY Counted, FS_EmptySet
  <2>2. Claims(p) <= code_pages[p] /\ code_pages[p] \in Nat
    BY DEF IInv, ClaimsCounted, Basics, TypeOK
  <2> QED
    BY <2>1, <2>2, Sizes DEF Claims
<1> QED
  BY <1>1, CacheInvariant, PTL

(* A thread runs only functions that were compiled for the address it is at, whether it got there  *)
(* by the cache, a direct call, the chain table or the edge cache, while other threads compile,    *)
(* drop and flush.                                                                                 *)
RunsItsBlock == \A t \in Threads : At(t, "native") => For(funcs, th[t].id, th[t].rip)

(* Whatever compiles and drops interleave, dispatch leads to a function of the right address. *)
THEOREM DispatchRight == Spec => []RunsItsBlock
<1>1. IInv => RunsItsBlock
  BY DEF IInv, Basics, ThreadsRight, ThreadOK, Loaded, RunsItsBlock, At
<1> QED
  BY <1>1, CacheInvariant, PTL

-----------------------------------------------------------------------------
(* A program of one thread. *)

(* No Ready block is out of date. *)
Clean == \A r \in Rips : IsReady(r) => "host" \notin funcs[cache[r].n].taint

(* Where a write may still be waiting for its blocks to be dropped. *)
Waiting == {"note", "drain", "test", "collect", "relink", "flush"} \cup Dropping

(* Where a thread between two blocks or in one may be. *)
Plain == {"loop", "native", "interp", "bump", "decode", "never", "compile"}
Fresh == {"bump", "decode", "never", "compile"}

SameReady == \A q \in Rips : (IsReady(q)' <=> IsReady(q)) /\ (IsReady(q) => cache'[q].n = cache[q].n)

(* Where no write is waiting, no Ready block is out of date. *)
LEMMA NotDue ==
    ASSUME NEW t \in Threads, SoloRest(t), th[t].pc \notin Waiting
    PROVE  Clean
BY DEF SoloRest, SoloCurrent, Due, Clean, Waiting

(* It stays so while neither entries nor bytes change. *)
LEMMA StillClean ==
    ASSUME Clean, SameReady, funcs' = funcs
    PROVE  Clean'
BY DEF Clean, SameReady

(* With nothing out of date nothing has to be due. *)
LEMMA CleanCurrent ==
    ASSUME NEW t \in Threads, Clean'
    PROVE  SoloCurrent(t)'
BY DEF Clean, SoloCurrent

(* What the tables should hold depends on the Ready entries only. *)
LEMMA SameEntries ==
    ASSUME SameReady
    PROVE  \A q \in Rips : IdOf(q)' = IdOf(q) /\ EntryOf(q)' = EntryOf(q)
<1> SUFFICES ASSUME NEW q \in Rips
             PROVE  IdOf(q)' = IdOf(q) /\ EntryOf(q)' = EntryOf(q)
  OBVIOUS
<1>1. (IsReady(q)' <=> IsReady(q)) /\ (IsReady(q) => cache'[q].n = cache[q].n)
  BY DEF SameReady
<1>2. CASE IsReady(q)
  BY <1>1, <1>2 DEF IdOf, EntryOf
<1>3. CASE ~IsReady(q)
  BY <1>1, <1>3 DEF IdOf, EntryOf
<1> QED
  BY <1>2, <1>3

(* A step between two blocks. *)
LEMMA SoloQuiet ==
    ASSUME NEW t \in Threads, SoloRest(t), th[t].pc \in Plain, th'[t].pc \in Plain \cup {"drain"},
           th'[t].pc \in Fresh => ~IsReady(th'[t].rip) /\ th'[t].rip \in Rips,
           th'[t].pc = "compile" => th'[t].taint = {},
           SameReady, UNCHANGED <<chain_ids, funcs, chain, edge, pending, overflow>>
    PROVE  SoloRest(t)'
<1>1. SoloEntries(t)'
  BY DEF SoloEntries, Plain, Inserting, Flushing, SameReady, IsReady, Fresh
<1>2. SoloIds(t)'
  BY SameEntries DEF SoloRest, SoloIds, Plain
<1>3. SoloTables(t)'
  BY SameEntries DEF SoloRest, SoloTables, Plain, Dropping, Flushing, Inserting
<1>4. SoloWrites(t)' /\ SoloClean(t)'
  BY DEF SoloRest, SoloWrites, SoloClean, Plain, Inserting
<1>5. SoloCurrent(t)'
  BY NotDue, StillClean, CleanCurrent DEF Plain, Waiting, Dropping
<1> QED
  BY <1>1, <1>2, <1>3, <1>4, <1>5 DEF SoloRest

(* The loop looks up an address. *)
LEMMA SoloLookup ==
    ASSUME Basics, NEW t \in Threads, SoloRest(t), NEW r \in Rips, Lookup(t, r)
    PROVE  SoloRest(t)'
<1>1. th[t] \in ThreadStates
  BY DEF Basics, TypeOK
<1>2. PICK x : /\ th' = [th EXCEPT ![t] = x]
               /\ \/ x = [th[t] EXCEPT !.pc = "native", !.rip = r, !.id = cache[r].n]
                  \/ x = [th[t] EXCEPT !.pc = "interp", !.rip = r]
                  \/ cache[r].kind # "ready" /\ x = [th[t] EXCEPT !.pc = "bump", !.rip = r, !.n = cache[r].n + 1]
                  \/ cache[r].kind # "ready" /\ x = [th[t] EXCEPT !.pc = "bump", !.rip = r, !.n = 1]
                  \/ cache[r].kind # "ready" /\ x = [th[t] EXCEPT !.pc = "decode", !.rip = r]
  BY DEF Lookup, Becomes
<1>3. x.pc \in {"native", "interp", "bump", "decode"} /\ x.rip = r /\ (x.pc \in Fresh => ~IsReady(r))
  <2>1. CASE x = [th[t] EXCEPT !.pc = "native", !.rip = r, !.id = cache[r].n] \/ x = [th[t] EXCEPT !.pc = "interp", !.rip = r]
    BY <1>1, <2>1 DEF ThreadStates, Fresh
  <2>2. CASE cache[r].kind # "ready" /\ x = [th[t] EXCEPT !.pc = "bump", !.rip = r, !.n = cache[r].n + 1]
    BY <1>1, <2>2 DEF ThreadStates, IsReady
  <2>3. CASE cache[r].kind # "ready" /\ x = [th[t] EXCEPT !.pc = "bump", !.rip = r, !.n = 1]
    BY <1>1, <2>3 DEF ThreadStates, IsReady
  <2>4. CASE cache[r].kind # "ready" /\ x = [th[t] EXCEPT !.pc = "decode", !.rip = r]
    BY <1>1, <2>4 DEF ThreadStates, IsReady
  <2> QED
    BY <1>2, <2>1, <2>2, <2>3, <2>4
<1>4. th'[t] = x
  BY <1>2, OneMoves DEF Basics
<1> QED
  BY <1>3, <1>4, SoloQuiet DEF Lookup, At, tables, Plain, SameReady, IsReady

(* A hot block is decoded. *)
LEMMA SoloDecode ==
    ASSUME Basics, NEW t \in Threads, SoloRest(t), Decode(t) \/ Leave(t)
    PROVE  SoloRest(t)'
<1>1. th[t] \in ThreadStates
  BY DEF Basics, TypeOK
<1>2. PICK x : /\ th' = [th EXCEPT ![t] = x]
               /\ \/ Decode(t) /\ x = [th[t] EXCEPT !.pc = "compile", !.taint = {}]
                  \/ Decode(t) /\ x = [th[t] EXCEPT !.pc = "never"]
                  \/ Leave(t) /\ x = [th[t] EXCEPT !.pc = "drain"]
  BY DEF Decode, Leave, Goto, Becomes
<1>3. /\ x.pc \in {"compile", "never", "drain"} /\ x.rip = th[t].rip
      /\ x.pc = "compile" => x.taint = {}
      /\ x.pc # "drain" => Decode(t)
  <2>1. CASE Decode(t) /\ x = [th[t] EXCEPT !.pc = "compile", !.taint = {}]
    BY <1>1, <2>1 DEF ThreadStates
  <2>2. CASE Decode(t) /\ x = [th[t] EXCEPT !.pc = "never"]
    BY <1>1, <2>2 DEF ThreadStates
  <2>3. CASE Leave(t) /\ x = [th[t] EXCEPT !.pc = "drain"]
    BY <1>1, <2>3 DEF ThreadStates
  <2> QED
    BY <1>2, <2>1, <2>2, <2>3
<1>4. th'[t] = x
  BY <1>2, OneMoves DEF Basics
<1>5. Decode(t) => ~IsReady(th[t].rip) /\ th[t].rip \in Rips
  BY DEF Decode, At, SoloRest, SoloEntries, Basics, ThreadsRight, ThreadOK, Placed
<1>6. th[t].pc \in Plain /\ UNCHANGED <<cache, chain_ids, funcs, chain, edge, pending, overflow>>
  BY DEF Decode, Leave, At, tables, Plain
<1>7. SameReady
  BY <1>6 DEF SameReady, IsReady
<1> QED
  BY <1>3, <1>4, <1>5, <1>6, <1>7, SoloQuiet DEF Plain, Fresh

(* A block that cannot be compiled is marked. *)
LEMMA SoloMark ==
    ASSUME Basics, NEW t \in Threads, SoloRest(t), Bump(t) \/ MarkNever(t)
    PROVE  SoloRest(t)'
<1> DEFINE r == th[t].rip
<1>1. r \in Rips /\ ~IsReady(r) /\ th[t].pc \in Plain
  BY DEF Bump, MarkNever, At, SoloRest, SoloEntries, Basics, ThreadsRight, ThreadOK, Placed, Plain
<1>2. SameReady
  <2>1. (\A q \in Rips \ {r} : cache'[q] = cache[q]) /\ cache'[r].kind # "ready"
    BY <1>1 DEF Basics, TypeOK, Bump, MarkNever, Hot, Never
  <2> HIDE DEF r
  <2> QED
    BY <1>1, <2>1 DEF SameReady, IsReady
<1>3. th'[t].pc = "interp"
  BY FieldMoves DEF Bump, MarkNever
<1> QED
  BY <1>1, <1>2, <1>3, SoloQuiet DEF Bump, MarkNever, tables, Plain, Fresh

(* Compiled code goes on to the next block. *)
LEMMA SoloChain ==
    ASSUME Basics, NEW t \in Threads, SoloRest(t), NEW s \in Rips, Chain(t, s)
    PROVE  SoloRest(t)'
<1>1. PICK i, d : th' = [th EXCEPT ![t] = [th[t] EXCEPT !.rip = s, !.id = i, !.depth = d]]
  BY DEF Chain, Becomes
<1>2. th[t].pc = "native" /\ th'[t].pc = "native"
  <2>1. th[t] \in ThreadStates
    BY DEF Basics, TypeOK
  <2>2. [th[t] EXCEPT !.rip = s, !.id = i, !.depth = d].pc = th[t].pc
    BY <2>1 DEF ThreadStates
  <2> QED
    BY <1>1, <2>2, OneMoves DEF Basics, Chain, At
<1>3. edge' = edge \/ edge' = [edge EXCEPT ![t][s] = chain[t][s]]
  BY DEF Chain, StubNext, LateBound
<1>4. UNCHANGED <<cache, chain_ids, funcs, chain, pending, overflow>>
  BY DEF Chain
<1>5. SoloTables(t)'
  <2>1. \A r \in Rips : edge[t][r] \in EntryOf(r) /\ chain[t][r] \in EntryOf(r)
    BY <1>2 DEF SoloRest, SoloTables, Dropping, Flushing, Inserting
  <2>2. \A r \in Rips : edge'[t][r] = edge[t][r] \/ edge'[t][r] = chain[t][r]
    BY <1>3 DEF Basics, TypeOK
  <2>3. \A r \in Rips : EntryOf(r)' = EntryOf(r)
    BY <1>4 DEF EntryOf, IsReady
  <2> QED
    BY <1>4, <2>1, <2>2, <2>3 DEF SoloTables
<1>6. SoloIds(t)'
  BY <1>2, <1>4 DEF SoloRest, SoloIds, IdOf, IsReady
<1>7. SoloEntries(t)' /\ SoloWrites(t)' /\ SoloClean(t)'
  BY <1>2, <1>4 DEF SoloRest, SoloEntries, SoloWrites, SoloClean, Inserting, Flushing
<1>8. SoloCurrent(t)'
  <2>1. SameReady
    BY <1>4 DEF SameReady, IsReady
  <2> QED
    BY <1>2, <1>4, <2>1, NotDue, StillClean, CleanCurrent DEF Waiting, Dropping
<1> QED
  BY <1>5, <1>6, <1>7, <1>8 DEF SoloRest

(* A store of the guest taints as "guest", which the property does not count. *)
LEMMA SoloStore ==
    ASSUME Basics, NEW t \in Threads, SoloRest(t), NEW a, GuestStore(t, a)
    PROVE  SoloRest(t)'
<1>1. /\ th[t].pc \in {"native", "interp"} /\ th'[t].pc \in {"native", "drain"}
      /\ UNCHANGED <<cache, chain_ids, chain, edge, pending, overflow>>
  BY StoreBasics DEF GuestStore, tables
<1>2. SoloEntries(t)' /\ SoloIds(t)' /\ SoloWrites(t)' /\ SoloClean(t)'
  BY <1>1 DEF SoloRest, SoloEntries, SoloIds, SoloWrites, SoloClean, Inserting, Flushing, IdOf, IsReady
<1>3. SoloTables(t)'
  BY <1>1 DEF SoloRest, SoloTables, Dropping, Flushing, Inserting, EntryOf, IsReady
<1>4. Clean'
  <2> SUFFICES ASSUME NEW r \in Rips, IsReady(r)'
               PROVE  "host" \notin funcs'[cache'[r].n].taint
    BY DEF Clean
  <2>1. IsReady(r) /\ cache'[r].n = cache[r].n /\ cache[r].n \in 1..Len(funcs)
    BY <1>1 DEF IsReady, Basics, EntriesRight, For
  <2>2. "host" \notin funcs[cache[r].n].taint
    BY <1>1, <2>1, NotDue DEF Clean, Waiting, Dropping
  <2>3. funcs'[cache[r].n].taint \subseteq funcs[cache[r].n].taint \cup {"guest"}
    <3>1. TypeOK /\ "guest" \in Marks /\ funcs' = Tainted(a, a + 1, "guest")
      BY DEF GuestStore, Basics, Marks
    <3>2. \A i \in 1..Len(funcs) : funcs'[i].taint = IF Overlaps(funcs[i].rip, a, a + 1)
                                                   THEN funcs[i].taint \cup {"guest"} ELSE funcs[i].taint
      BY <3>1, TaintedTyped
    <3> QED
      BY <2>1, <3>2
  <2> QED
    BY <2>1, <2>2, <2>3
<1> QED
  BY <1>2, <1>3, <1>4, CleanCurrent DEF SoloRest

(* The function just compiled is of current bytes: nothing was written since the decode. *)
LEMMA SoloCompile ==
    ASSUME Basics, NEW t \in Threads, SoloRest(t), Compile(t)
    PROVE  SoloRest(t)'
<1> DEFINE r == th[t].rip
<1> DEFINE id == Len(funcs) + 1
<1> DEFINE x == [th[t] EXCEPT !.pc = "take", !.id = id, !.taint = {}]
<1>1. /\ th[t] \in ThreadStates /\ th[t].pc = "compile" /\ r \in Rips /\ ~IsReady(r) /\ th[t].taint = {}
  BY DEF Compile, At, SoloRest, SoloEntries, SoloClean, Basics, TypeOK, ThreadsRight, ThreadOK, Placed
<1>2. th'[t] = x
  BY OneMoves DEF Compile, Becomes, Basics
<1>3. x.pc = "take" /\ x.id = id /\ x.rip = r
  BY <1>1 DEF ThreadStates
<1>4. /\ funcs' = Append(funcs, [rip |-> r, direct |-> Direct(r), taint |-> {}])
      /\ chain' = [chain EXCEPT ![t][r] = id]
      /\ UNCHANGED <<cache, chain_ids, edge, pending, overflow>>
  BY <1>1 DEF Compile
<1>5. /\ Len(funcs) \in Nat /\ funcs'[id].taint = {}
      /\ \A i \in 1..Len(funcs) : funcs'[i] = funcs[i]
  BY <1>4 DEF Basics, TypeOK
<1>6. chain'[t][r] = id /\ \A q \in Rips \ {r} : chain'[t][q] = chain[t][q]
  BY <1>1, <1>4 DEF Basics, TypeOK
<1> HIDE DEF x, id, r
<1>7. SoloEntries(t)'
  BY <1>1, <1>2, <1>3, <1>4 DEF SoloEntries, Flushing, IsReady
<1>8. SoloIds(t)'
  BY <1>1, <1>2, <1>3, <1>4 DEF SoloRest, SoloIds, IdOf, IsReady
<1>9. SoloTables(t)'
  <2>1. \A q \in Rips : edge[t][q] \in EntryOf(q) /\ chain[t][q] \in EntryOf(q)
    BY <1>1 DEF SoloRest, SoloTables, Dropping, Flushing, Inserting
  <2>2. \A q \in Rips : EntryOf(q)' = EntryOf(q)
    BY <1>4 DEF EntryOf, IsReady
  <2> QED
    BY <1>2, <1>3, <1>4, <1>6, <2>1, <2>2 DEF SoloTables, Inserting
<1>10. SoloWrites(t)' /\ SoloClean(t)'
  BY <1>1, <1>2, <1>3, <1>4, <1>5 DEF SoloRest, SoloWrites, SoloClean
<1>11. Clean'
  <2>1. Clean
    BY <1>1, NotDue DEF Waiting, Dropping
  <2>2. \A q \in Rips : IsReady(q) => cache[q].n \in 1..Len(funcs)
    BY DEF Basics, EntriesRight, For
  <2> QED
    BY <1>4, <1>5, <2>1, <2>2 DEF Clean, IsReady
<1> QED
  BY <1>7, <1>8, <1>9, <1>10, <1>11, CleanCurrent DEF SoloRest

(* Nothing to take out: the entry was not Ready when the block was compiled. *)
LEMMA SoloTake ==
    ASSUME Basics, NEW t \in Threads, SoloRest(t), InsertTake(t)
    PROVE  SoloRest(t)'
<1> DEFINE r == th[t].rip
<1>1. th[t] \in ThreadStates /\ th[t].pc = "take" /\ r \in Rips /\ ~IsReady(r)
  BY DEF InsertTake, At, SoloRest, SoloEntries, Inserting, Basics, TypeOK, ThreadsRight, ThreadOK, Placed
<1>2. /\ cache' = [cache EXCEPT ![r] = None] /\ Goto(t, "publish")
      /\ UNCHANGED <<chain_ids, funcs, chain, edge, pending, overflow>>
  BY <1>1 DEF InsertTake, tables
<1>3. th'[t].pc = "publish" /\ th'[t].rip = r /\ th'[t].id = th[t].id
  <2>1. th'[t] = [th[t] EXCEPT !.pc = "publish"]
    BY <1>2, OneMoves DEF Goto, Becomes, Basics
  <2> QED
    BY <1>1, <2>1 DEF ThreadStates
<1>4. SameReady /\ cache'[r].kind # "ready"
  <2>1. (\A q \in Rips \ {r} : cache'[q] = cache[q]) /\ cache'[r].kind # "ready"
    BY <1>1, <1>2 DEF Basics, TypeOK, None
  <2> HIDE DEF r
  <2> QED
    BY <1>1, <2>1 DEF SameReady, IsReady
<1> HIDE DEF r
<1>5. SoloEntries(t)'
  BY <1>3, <1>4 DEF SoloEntries, Flushing, IsReady
<1>6. SoloIds(t)'
  BY <1>1, <1>2, <1>3, <1>4, SameEntries DEF SoloRest, SoloIds
<1>7. SoloTables(t)'
  BY <1>1, <1>2, <1>3, <1>4, SameEntries DEF r, SoloRest, SoloTables, Dropping, Flushing, Inserting
<1>8. SoloWrites(t)' /\ SoloClean(t)'
  BY <1>1, <1>2, <1>3 DEF SoloRest, SoloWrites, SoloClean, Inserting
<1> QED
  BY <1>1, <1>2, <1>4, <1>5, <1>6, <1>7, <1>8, NotDue, StillClean, CleanCurrent DEF SoloRest, Waiting, Dropping

(* The direct-call id of a block is set before its entry. *)
LEMMA SoloPublish ==
    ASSUME Basics, NEW t \in Threads, SoloRest(t), InsertPublish(t) \/ InsertCount(t)
    PROVE  SoloRest(t)'
<1> DEFINE r == th[t].rip
<1> DEFINE l == IF th[t].pc = "publish" THEN "count" ELSE "put"
<1>1. /\ th[t] \in ThreadStates /\ th[t].pc \in {"publish", "count"} /\ r \in Rips /\ ~IsReady(r)
      /\ Goto(t, l) /\ UNCHANGED <<cache, funcs, chain, edge, pending, overflow>>
  BY DEF InsertPublish, InsertCount, At, SoloRest, SoloEntries, Inserting, Basics, TypeOK,
         ThreadsRight, ThreadOK, Placed, tables
<1>2. th'[t].pc = l /\ th'[t].rip = r /\ th'[t].id = th[t].id
  <2>1. th'[t] = [th[t] EXCEPT !.pc = l]
    BY <1>1, OneMoves DEF Goto, Becomes, Basics
  <2> QED
    BY <1>1, <2>1 DEF ThreadStates
<1>3. SoloEntries(t)'
  BY <1>1, <1>2 DEF SoloEntries, Flushing, IsReady
<1>4. SoloIds(t)'
  <2>1. ASSUME NEW q \in Rips
        PROVE  chain_ids'[q] = IF q = r /\ q \notin Stubs THEN th[t].id ELSE IdOf(q)
    <3>1. CASE InsertPublish(t)
      <4>1. chain_ids[q] = IdOf(q) /\ chain_ids \in [Rips -> Nat]
        BY <3>1 DEF InsertPublish, At, SoloRest, SoloIds, Basics, TypeOK
      <4> QED
        BY <1>1, <3>1, <4>1 DEF InsertPublish
    <3>2. CASE InsertCount(t)
      BY <3>2 DEF InsertCount, At, SoloRest, SoloIds
    <3> QED
      BY <3>1, <3>2
  <2>2. \A q \in Rips : IdOf(q)' = IdOf(q)
    BY <1>1 DEF IdOf, IsReady
  <2>3. th'[t].pc \in {"count", "put"}
    BY <1>2
  <2> HIDE DEF r, l
  <2> QED
    BY <1>2, <2>1, <2>2, <2>3 DEF SoloIds
<1>5. SoloTables(t)'
  BY <1>1, <1>2 DEF SoloRest, SoloTables, Dropping, Flushing, Inserting, EntryOf, IsReady
<1>6. SoloWrites(t)' /\ SoloClean(t)'
  BY <1>1, <1>2 DEF SoloRest, SoloWrites, SoloClean, Inserting
<1>7. Clean'
  BY <1>1, NotDue DEF Clean, IsReady, Waiting, Dropping
<1> QED
  BY <1>3, <1>4, <1>5, <1>6, <1>7, CleanCurrent DEF SoloRest

(* The entry is Ready, and its id and bytes are right. *)
LEMMA SoloPut ==
    ASSUME Basics, NEW t \in Threads, SoloRest(t), InsertPut(t)
    PROVE  SoloRest(t)'
<1> DEFINE r == th[t].rip
<1>1. /\ th[t] \in ThreadStates /\ th[t].pc = "put" /\ r \in Rips /\ ~IsReady(r)
      /\ "host" \notin funcs[th[t].id].taint
      /\ UNCHANGED <<chain_ids, funcs, chain, edge, pending, overflow>>
  BY DEF InsertPut, At, SoloRest, SoloEntries, SoloClean, Inserting, Basics, TypeOK,
         ThreadsRight, ThreadOK, Placed, tables
<1>2. th'[t].pc = "native"
  BY FieldMoves DEF InsertPut
<1>3. /\ \A q \in Rips \ {r} : cache'[q] = cache[q]
      /\ cache'[r].kind = "ready" /\ cache'[r].n = th[t].id
  BY <1>1 DEF Basics, TypeOK, InsertPut, Ready
<1> HIDE DEF r
<1>4. SoloEntries(t)' /\ SoloWrites(t)' /\ SoloClean(t)'
  BY <1>1, <1>2 DEF SoloRest, SoloEntries, SoloWrites, SoloClean, Inserting, Flushing
<1>5. SoloIds(t)'
  <2> SUFFICES ASSUME NEW q \in Rips
               PROVE  chain_ids'[q] = IdOf(q)'
    BY <1>2 DEF SoloIds
  <2>1. chain_ids[q] = IF q = r /\ q \notin Stubs THEN th[t].id ELSE IdOf(q)
    BY <1>1 DEF SoloRest, SoloIds, r
  <2>2. CASE q = r
    BY <1>1, <1>3, <2>1, <2>2 DEF IdOf, IsReady
  <2>3. CASE q # r
    BY <1>1, <1>3, <2>1, <2>3 DEF IdOf, IsReady
  <2> QED
    BY <2>2, <2>3
<1>6. SoloTables(t)'
  <2> SUFFICES ASSUME NEW q \in Rips
               PROVE  edge'[t][q] \in EntryOf(q)' /\ chain'[t][q] \in EntryOf(q)'
    BY DEF SoloTables
  <2>1. edge[t][q] \in EntryOf(q) /\ (chain[t][q] \in EntryOf(q) \/ (q = r /\ chain[t][q] = th[t].id))
    BY <1>1 DEF SoloRest, SoloTables, Dropping, Flushing, r
  <2>2. CASE q = r
    BY <1>1, <1>3, <2>1, <2>2 DEF EntryOf, IsReady
  <2>3. CASE q # r
    BY <1>1, <1>3, <2>1, <2>3 DEF EntryOf, IsReady
  <2> QED
    BY <2>2, <2>3
<1>7. Clean'
  <2>1. Clean
    BY <1>1, NotDue DEF Waiting, Dropping
  <2> QED
    BY <1>1, <1>3, <2>1 DEF Clean, IsReady
<1> QED
  BY <1>4, <1>5, <1>6, <1>7, CleanCurrent DEF SoloRest

(* A block that overlaps a span overlaps one of its pages. *)
LEMMA PageOverlap ==
    ASSUME NEW r \in Rips, NEW s \in Spans, Overlaps(r, s[1], s[2])
    PROVE  \E p \in PagesOf(s[1], s[2]) : /\ p \in Nat /\ p \in PagesOf(r, End[r]) /\ p \in Pages
                                          /\ Overlaps(r, p * PageSize, (p + 1) * PageSize)
<1>1. PICK a \in Nat : /\ r <= a /\ a < End[r]
                       /\ PageOf(a) \in PagesOf(r, End[r]) /\ PageOf(a) \in PagesOf(s[1], s[2])
  BY SharedPage
<1> DEFINE p == PageOf(a)
<1>2. p \in Nat /\ p * PageSize <= a /\ a < (p + 1) * PageSize
  BY PageFacts
<1>3. p \in Pages /\ r \in Nat /\ End[r] \in Nat
  BY <1>1, BlockPages
<1> HIDE DEF p
<1>4. p * PageSize \in Nat /\ (p + 1) * PageSize \in Nat
  BY <1>2, JitCodeAssumption
<1>5. Overlaps(r, p * PageSize, (p + 1) * PageSize)
  BY <1>1, <1>2, <1>3, <1>4 DEF Overlaps
<1> QED
  BY <1>1, <1>2, <1>3, <1>5 DEF p

(* On an empty list, a write notes each of its pages or overflows. *)
LEMMA NoteAll ==
    ASSUME NEW s \in Spans, pending = <<>>, ~overflow
    PROVE  LET noted == Note(s[1], s[2])
           IN  \/ noted.over
               \/ \A p \in PagesOf(s[1], s[2]) : \E i \in 1..Len(noted.pages) : noted.pages[i] = p
<1> DEFINE lo == s[1]
<1> DEFINE hi == s[2]
<1> DEFINE n == Cardinality(PagesOf(lo, hi))
<1> DEFINE pages == [i \in 1..n |-> PageOf(lo) + i - 1]
<1> DEFINE noted == Note(lo, hi)
<1>1. lo \in Nat /\ hi \in Nat /\ lo < hi /\ hi - 1 \in Nat
  BY DEF Spans
<1>2. n \in Nat \ {0} /\ n = PageOf(hi - 1) - PageOf(lo) + 1 /\ pages \in Seq(Nat) /\ Len(pages) = n
  BY <1>1, NotePages
<1>3. noted = [pages |-> <<>>, over |-> TRUE] \/ noted = [pages |-> <<>> \o pages, over |-> FALSE]
  BY DEF Note
<1>4. <<>> \o pages = pages
  BY <1>2
<1>5. PageOf(lo) \in Nat /\ PageOf(hi - 1) \in Nat
  BY <1>1, PageFacts
<1>6. ASSUME NEW p \in PagesOf(lo, hi)
      PROVE  \E i \in 1..Len(pages) : pages[i] = p
  <2>1. p \in Nat /\ PageOf(lo) <= p /\ p <= PageOf(hi - 1)
    BY <1>5 DEF PagesOf
  <2>2. p - PageOf(lo) + 1 \in 1..n
    BY <1>2, <1>5, <2>1
  <2>3. pages[p - PageOf(lo) + 1] = p
    BY <1>5, <2>1, <2>2
  <2> QED
    BY <1>2, <2>2, <2>3
<1> HIDE DEF noted, pages
<1>7. noted.over \/ noted.pages = pages
  BY <1>3, <1>4
<1>8. noted.over \/ \A p \in PagesOf(lo, hi) : \E i \in 1..Len(noted.pages) : noted.pages[i] = p
  BY <1>6, <1>7
<1> QED
  BY <1>8 DEF noted

(* What a host write made out of date is on the list of pages, or the list overflowed. *)
LEMMA SoloNote ==
    ASSUME Basics, NEW t \in Threads, SoloRest(t), NoteWrite(t)
    PROVE  SoloRest(t)'
<1> DEFINE s == th[t].todo[1]
<1>1. th[t] \in ThreadStates /\ th[t].pc = "note" /\ th[t].todo \in Seq(Spans) /\ th[t].todo # <<>>
  BY DEF Basics, TypeOK, ThreadsRight, ThreadOK, NoteWrite, At, Spanning, ThreadStates
<1>2. s \in Spans
  BY <1>1
<1>3. /\ th'[t] = [th[t] EXCEPT !.pc = "drain", !.todo = <<>>]
      /\ UNCHANGED <<cache, chain_ids, funcs, chain, edge>>
  BY OneMoves DEF NoteWrite, Becomes, Basics, tables
<1>4. th'[t].pc = "drain"
  BY <1>1, <1>3 DEF ThreadStates
<1>5. SoloEntries(t)' /\ SoloWrites(t)' /\ SoloClean(t)'
  BY <1>4 DEF SoloEntries, SoloWrites, SoloClean, Inserting, Flushing
<1>6. SoloIds(t)'
  BY <1>1, <1>3, <1>4 DEF SoloRest, SoloIds, IdOf, IsReady
<1>7. SoloTables(t)'
  BY <1>1, <1>3, <1>4 DEF SoloRest, SoloTables, Dropping, Flushing, Inserting, EntryOf, IsReady
<1>8. overflow' \/ \A p \in PagesOf(s[1], s[2]) : \E i \in 1..Len(pending') : pending'[i] = p
  <2>1. pending = <<>> /\ ~overflow
    BY <1>1 DEF SoloRest, SoloWrites
  <2> HIDE DEF s
  <2> QED
    BY <1>2, <2>1, NoteAll DEF NoteWrite, s
<1>9. SoloCurrent(t)'
  <2> SUFFICES ASSUME NEW r \in Rips, IsReady(r)', "host" \in funcs'[cache'[r].n].taint
               PROVE  Due(t, r)'
    BY DEF SoloCurrent
  <2>1. Due(t, r)
    BY <1>3 DEF SoloRest, SoloCurrent, IsReady
  <2>2. Overlaps(r, s[1], s[2])
    BY <1>1, <2>1 DEF Due, Dropping
  <2> HIDE DEF s
  <2>3. PICK p \in PagesOf(s[1], s[2]) : Overlaps(r, p * PageSize, (p + 1) * PageSize)
    BY <1>2, <2>2, PageOverlap
  <2>4. overflow' \/ \E i \in 1..Len(pending') : Overlaps(r, pending'[i] * PageSize, (pending'[i] + 1) * PageSize)
    BY <1>8, <2>3
  <2> QED
    BY <1>4, <2>4 DEF Due
<1> QED
  BY <1>5, <1>6, <1>7, <1>9 DEF SoloRest

(* Draining turns the pages into spans that cover the same blocks. *)
LEMMA SoloDrain ==
    ASSUME Basics, NEW t \in Threads, SoloRest(t), Drain(t)
    PROVE  SoloRest(t)'
<1>1. TypeOK /\ th[t] \in ThreadStates /\ th[t].pc = "drain"
  BY DEF Basics, TypeOK, Drain, At
<1>2. ~overflow' /\ pending' = <<>> /\ UNCHANGED <<cache, chain_ids, funcs, chain, edge>>
  BY DEF Drain, tables
<1>3. \/ th'[t] = Idle /\ (Empty \/ (~overflow /\ pending = <<>>))
      \/ th'[t] = [th[t] EXCEPT !.pc = "flush"]
      \/ th'[t] = [th[t] EXCEPT !.pc = "test", !.todo = DrainSpans] /\ ~overflow
  BY <1>1, OneMoves DEF Drain, Return, Goto, Becomes, DrainSpans
<1>4. \/ th'[t].pc = "loop" /\ (Empty \/ (~overflow /\ pending = <<>>))
      \/ th'[t].pc = "flush"
      \/ th'[t].pc = "test" /\ th'[t].todo = DrainSpans /\ ~overflow
  <2>1. CASE th'[t] = Idle /\ (Empty \/ (~overflow /\ pending = <<>>))
    BY <2>1 DEF Idle
  <2>2. CASE th'[t] = [th[t] EXCEPT !.pc = "flush"]
    BY <1>1, <2>2 DEF ThreadStates
  <2>3. CASE th'[t] = [th[t] EXCEPT !.pc = "test", !.todo = DrainSpans] /\ ~overflow
    BY <1>1, <2>3 DEF ThreadStates
  <2> QED
    BY <1>3, <2>1, <2>2, <2>3
<1>5. th'[t].pc \in {"loop", "flush", "test"}
  BY <1>4
<1>6. SoloEntries(t)' /\ SoloWrites(t)' /\ SoloClean(t)'
  BY <1>2, <1>5 DEF SoloEntries, SoloWrites, SoloClean, Inserting, Flushing
<1>7. SoloIds(t)'
  BY <1>1, <1>2, <1>5 DEF SoloRest, SoloIds, IdOf, IsReady
<1>8. SoloTables(t)'
  BY <1>1, <1>2, <1>5 DEF SoloRest, SoloTables, Dropping, Flushing, Inserting, EntryOf, IsReady
<1>9. SoloCurrent(t)'
  <2> SUFFICES ASSUME NEW r \in Rips, IsReady(r)', "host" \in funcs'[cache'[r].n].taint
               PROVE  Due(t, r)'
    BY DEF SoloCurrent
  <2>1. IsReady(r) /\ Due(t, r)
    BY <1>2 DEF SoloRest, SoloCurrent, IsReady
  <2>2. \/ overflow
        \/ \E i \in 1..Len(pending) : Overlaps(r, pending[i] * PageSize, (pending[i] + 1) * PageSize)
    BY <1>1, <2>1 DEF Due, Dropping
  <2>3. CASE th'[t].pc = "loop" /\ (Empty \/ (~overflow /\ pending = <<>>))
    <3>1. ~Empty
      BY <2>1 DEF Empty, None, IsReady
    <3>2. Len(<<>>) = 0
      OBVIOUS
    <3> QED
      BY <2>2, <2>3, <3>1, <3>2
  <2>4. CASE th'[t].pc = "flush"
    BY <2>4 DEF Due
  <2>5. CASE th'[t].pc = "test" /\ th'[t].todo = DrainSpans /\ ~overflow
    <3>1. PICK i \in 1..Len(pending) : Overlaps(r, pending[i] * PageSize, (pending[i] + 1) * PageSize)
      BY <2>2, <2>5
    <3>2. i \in 1..Len(DrainSpans) /\ Overlaps(r, DrainSpans[i][1], DrainSpans[i][2])
      BY <1>1, <3>1, DrainSpansTyped
    <3> QED
      BY <2>5, <3>2 DEF Due, OverlapsOne
  <2> QED
    BY <1>4, <2>3, <2>4, <2>5
<1> QED
  BY <1>6, <1>7, <1>8, <1>9 DEF SoloRest

(* The spans that remain are those after the first. *)
LEMMA SpanLeft ==
    ASSUME Basics, NEW t \in Threads, th[t].pc \in Spanning, NextSpan(t)
    PROVE  /\ th'[t].pc \in {"loop", "test"}
           /\ \A r : OverlapsOne(r, th[t].todo, 2) => th'[t].pc = "test" /\ OverlapsOne(r, th'[t].todo, 1)
<1> DEFINE q == th[t].todo
<1>1. PICK x \in ThreadStates : /\ th' = [th EXCEPT ![t] = x]
                                /\ \/ Len(q) = 1 /\ x = Idle
                                   \/ Len(q) > 1 /\ x.pc = "test" /\ x.todo = Tail(q)
  BY NextSpanMoves
<1>2. th'[t] = x
  BY <1>1, OneMoves DEF Basics
<1>3. q \in Seq(Spans) /\ q # <<>> /\ Len(q) \in Nat
  BY DEF Basics, TypeOK, ThreadsRight, ThreadOK, ThreadStates
<1> HIDE DEF q
<1>4. ASSUME NEW r, NEW i \in 2..Len(q), Overlaps(r, q[i][1], q[i][2])
      PROVE  th'[t].pc = "test" /\ OverlapsOne(r, th'[t].todo, 1)
  <2>1. Len(q) > 1 /\ i \in Nat /\ i - 1 \in 1..(Len(q) - 1) /\ Len(q) # 1
    <3>1. \A n \in Nat : \A j \in 2..n : n > 1 /\ j \in Nat /\ j - 1 \in 1..(n - 1) /\ n # 1
      OBVIOUS
    <3> QED
      BY <1>3, <3>1
  <2>2. th'[t].pc = "test" /\ th'[t].todo = Tail(q)
    BY <1>1, <1>2, <2>1
  <2>3. Len(Tail(q)) = Len(q) - 1 /\ Tail(q)[i - 1] = q[i]
    BY <1>3, <2>1
  <2> QED
    BY <1>4, <2>1, <2>2, <2>3 DEF OverlapsOne
<1>5. th'[t].pc \in {"loop", "test"}
  BY <1>1, <1>2 DEF Idle
<1> QED
  BY <1>4, <1>5 DEF OverlapsOne, q

(* The first span, or one of the others. *)
LEMMA FirstSpan ==
    ASSUME Basics, NEW t \in Threads, th[t].pc \in Spanning
    PROVE  /\ th[t].todo[1] \in Spans
           /\ \A r : OverlapsOne(r, th[t].todo, 1) =>
                       \/ Overlaps(r, th[t].todo[1][1], th[t].todo[1][2])
                       \/ OverlapsOne(r, th[t].todo, 2)
<1> DEFINE q == th[t].todo
<1>1. q \in Seq(Spans) /\ q # <<>> /\ Len(q) \in Nat
  BY DEF Basics, TypeOK, ThreadsRight, ThreadOK, ThreadStates
<1> HIDE DEF q
<1>2. q[1] \in Spans
  BY <1>1
<1>3. \A i \in 1..Len(q) : i = 1 \/ i \in 2..Len(q)
  BY <1>1
<1> QED
  BY <1>2, <1>3 DEF OverlapsOne, q

(* What a span in progress leaves alone until blocks are dropped. *)
LEMMA SoloSpan ==
    ASSUME NEW t \in Threads, SoloRest(t), th[t].pc \in {"test", "collect"},
           th'[t].pc \in {"loop", "test", "collect", "drop"},
           UNCHANGED <<cache, chain_ids, funcs, chain, edge, pending, overflow>>
    PROVE  SoloEntries(t)' /\ SoloIds(t)' /\ SoloTables(t)' /\ SoloWrites(t)' /\ SoloClean(t)'
<1>1. SoloEntries(t)' /\ SoloWrites(t)' /\ SoloClean(t)'
  BY DEF SoloRest, SoloEntries, SoloWrites, SoloClean, Inserting, Flushing
<1>2. SoloIds(t)'
  BY DEF SoloRest, SoloIds, IdOf, IsReady
<1>3. SoloTables(t)'
  BY DEF SoloRest, SoloTables, Dropping, Flushing, Inserting, EntryOf, IsReady
<1> QED
  BY <1>1, <1>2, <1>3

(* The fast reject leaves no block that overlaps the span: the index counts them all. *)
LEMMA SoloTest ==
    ASSUME Basics, NEW t \in Threads, SoloRest(t), SoloIndex(t), InvalidateTest(t)
    PROVE  SoloRest(t)'
<1> DEFINE s == th[t].todo[1]
<1>1. /\ th[t].pc = "test" /\ th[t].pc \in Spanning
      /\ UNCHANGED <<cache, chain_ids, funcs, chain, edge, pending, overflow>>
  BY DEF InvalidateTest, At, Spanning, tables
<1>2. s \in Spans
  BY <1>1, FirstSpan
<1>3. CASE (Empty \/ \A p \in PagesOf(s[1], s[2]) \cap Pages : code_pages[p] = 0) /\ NextSpan(t)
  <2>1. th'[t].pc \in {"loop", "test"}
    BY <1>1, <1>3, SpanLeft
  <2>2. SoloCurrent(t)'
    <3> SUFFICES ASSUME NEW r \in Rips, IsReady(r)', "host" \in funcs'[cache'[r].n].taint
                 PROVE  Due(t, r)'
      BY DEF SoloCurrent
    <3>1. IsReady(r) /\ Due(t, r)
      BY <1>1 DEF SoloRest, SoloCurrent, IsReady
    <3>2. OverlapsOne(r, th[t].todo, 1)
      BY <1>1, <3>1 DEF Due, Dropping
    <3>3. ~Overlaps(r, s[1], s[2])
      <4> SUFFICES ASSUME Overlaps(r, s[1], s[2])
                   PROVE  FALSE
        OBVIOUS
      <4> HIDE DEF s
      <4>1. PICK p \in PagesOf(s[1], s[2]) : p \in PagesOf(r, End[r]) /\ p \in Pages
        BY <1>2, PageOverlap
      <4>2. r \in ReadyOn(p)
        BY <3>1, <4>1 DEF ReadyOn
      <4>3. Cardinality(ReadyOn(p)) # 0
        BY <4>2, Counted, FS_EmptySet
      <4>4. code_pages[p] = Claims(p)
        BY <1>1, <4>1 DEF SoloIndex
      <4>5. ~Empty
        BY <3>1 DEF Empty, None, IsReady
      <4> QED
        BY <1>3, <4>1, <4>3, <4>4, <4>5, Sizes DEF Claims
    <3>4. OverlapsOne(r, th[t].todo, 2)
      BY <1>1, <3>2, <3>3, FirstSpan
    <3>5. th'[t].pc = "test" /\ OverlapsOne(r, th'[t].todo, 1)
      BY <1>1, <1>3, <3>4, SpanLeft
    <3> QED
      BY <3>5 DEF Due
  <2> QED
    BY <1>1, <2>1, <2>2, SoloSpan DEF SoloRest
<1>4. CASE Goto(t, "collect")
  <2>1. th[t] \in ThreadStates /\ th'[t] = [th[t] EXCEPT !.pc = "collect"]
    BY <1>4, OneMoves DEF Goto, Becomes, Basics, TypeOK
  <2>2. th'[t].pc = "collect" /\ th'[t].todo = th[t].todo
    BY <2>1 DEF ThreadStates
  <2>3. SoloCurrent(t)'
    BY <1>1, <2>2 DEF SoloRest, SoloCurrent, Due, IsReady, Dropping
  <2> QED
    BY <1>1, <2>2, <2>3, SoloSpan DEF SoloRest
<1> QED
  BY <1>3, <1>4 DEF InvalidateTest

(* The blocks to drop are all that overlap the span. *)
LEMMA SoloCollect ==
    ASSUME Basics, NEW t \in Threads, SoloRest(t), InvalidateCollect(t)
    PROVE  SoloRest(t)'
<1> DEFINE s == th[t].todo[1]
<1> DEFINE found == ToDrop(s[1], s[2])
<1>1. /\ th[t].pc = "collect" /\ th[t].pc \in Spanning
      /\ UNCHANGED <<cache, chain_ids, funcs, chain, edge, pending, overflow>>
  BY DEF InvalidateCollect, At, Spanning, tables
<1>2. ASSUME NEW r \in Rips, IsReady(r)', "host" \in funcs'[cache'[r].n].taint
      PROVE  r \in found \/ OverlapsOne(r, th[t].todo, 2)
  <2>1. IsReady(r) /\ Due(t, r)
    BY <1>1, <1>2 DEF SoloRest, SoloCurrent, IsReady
  <2>2. OverlapsOne(r, th[t].todo, 1)
    BY <1>1, <2>1 DEF Due, Dropping
  <2> QED
    BY <1>1, <2>1, <2>2, FirstSpan DEF ToDrop
<1>3. CASE found = {} /\ NextSpan(t)
  <2>1. th'[t].pc \in {"loop", "test"}
    BY <1>1, <1>3, SpanLeft
  <2>2. SoloCurrent(t)'
    BY <1>1, <1>2, <1>3, SpanLeft DEF SoloCurrent, Due
  <2> QED
    BY <1>1, <2>1, <2>2, SoloSpan DEF SoloRest
<1>4. CASE Becomes(t, [th[t] EXCEPT !.pc = "drop", !.drop = found])
  <2>1. th[t] \in ThreadStates /\ th'[t] = [th[t] EXCEPT !.pc = "drop", !.drop = found]
    BY <1>4, OneMoves DEF Becomes, Basics, TypeOK
  <2> HIDE DEF found
  <2>2. th'[t].pc = "drop" /\ th'[t].drop = found /\ th'[t].todo = th[t].todo
    BY <2>1 DEF ThreadStates
  <2>3. SoloCurrent(t)'
    BY <1>2, <2>2 DEF SoloCurrent, Due, Dropping
  <2> QED
    BY <1>1, <2>2, <2>3, SoloSpan DEF SoloRest
<1> QED
  BY <1>3, <1>4 DEF InvalidateCollect

(* A dropped block is no longer due. *)
LEMMA SoloDropEntry ==
    ASSUME Basics, NEW t \in Threads, SoloRest(t), NEW r \in Rips, DropEntry(t, r)
    PROVE  SoloRest(t)'
<1> DEFINE l == IF IsReady(r) THEN "dropUncount" ELSE "dropId"
<1>1. /\ th[t] \in ThreadStates /\ th[t].pc = "drop"
      /\ th'[t] = [th[t] EXCEPT !.pc = l, !.rip = r]
      /\ UNCHANGED <<chain_ids, funcs, chain, edge, pending, overflow>>
  BY OneMoves DEF DropEntry, At, Becomes, Basics, TypeOK, tables
<1>2. l \in {"dropUncount", "dropId"}
  OBVIOUS
<1> HIDE DEF l
<1>3. th'[t].pc = l /\ th'[t].rip = r /\ th'[t].drop = th[t].drop /\ th'[t].todo = th[t].todo
  BY <1>1 DEF ThreadStates
<1>4. (\A q \in Rips \ {r} : cache'[q] = cache[q]) /\ cache'[r].kind # "ready"
  BY DEF Basics, TypeOK, DropEntry, None
<1>5. SoloEntries(t)' /\ SoloTables(t)' /\ SoloWrites(t)' /\ SoloClean(t)'
  BY <1>1, <1>2, <1>3, <1>4 DEF SoloRest, SoloEntries, SoloTables, SoloWrites, SoloClean, Inserting,
     Flushing, Dropping, IsReady
<1>6. SoloIds(t)'
  <2> SUFFICES ASSUME NEW q \in Rips \ {r}
               PROVE  chain_ids'[q] = IdOf(q)'
    BY <1>2, <1>3 DEF SoloIds
  <2>1. chain_ids[q] = IdOf(q)
    BY <1>1 DEF SoloRest, SoloIds
  <2> QED
    BY <1>1, <1>4, <2>1 DEF IdOf, IsReady
<1>7. SoloCurrent(t)'
  <2> SUFFICES ASSUME NEW q \in Rips, IsReady(q)', "host" \in funcs'[cache'[q].n].taint
               PROVE  Due(t, q)'
    BY DEF SoloCurrent
  <2>1. cache'[q] = cache[q] /\ funcs' = funcs
    BY <1>1, <1>4 DEF IsReady
  <2>2. Due(t, q)
    BY <2>1 DEF SoloRest, SoloCurrent, IsReady
  <2> QED
    BY <1>1, <1>2, <1>3, <2>2 DEF Due, Dropping
<1> QED
  BY <1>5, <1>6, <1>7 DEF SoloRest

(* Its pages are given up. *)
LEMMA SoloDropUncount ==
    ASSUME Basics, NEW t \in Threads, SoloRest(t), DropUncount(t)
    PROVE  SoloRest(t)'
<1>1. /\ th[t] \in ThreadStates /\ th[t].pc = "dropUncount"
      /\ th'[t] = [th[t] EXCEPT !.pc = "dropId"]
      /\ UNCHANGED <<cache, chain_ids, funcs, chain, edge, pending, overflow>>
  BY OneMoves DEF DropUncount, At, Goto, Becomes, Basics, TypeOK, tables
<1>2. th'[t].pc = "dropId" /\ th'[t].rip = th[t].rip /\ th'[t].drop = th[t].drop /\ th'[t].todo = th[t].todo
  BY <1>1 DEF ThreadStates
<1>3. SoloEntries(t)' /\ SoloTables(t)' /\ SoloWrites(t)' /\ SoloClean(t)'
  BY <1>1, <1>2 DEF SoloRest, SoloEntries, SoloTables, SoloWrites, SoloClean, Inserting,
     Flushing, Dropping, IsReady
<1>4. SoloIds(t)'
  BY <1>1, <1>2 DEF SoloRest, SoloIds, IdOf, IsReady
<1>5. SoloCurrent(t)'
  BY <1>1, <1>2 DEF SoloRest, SoloCurrent, Due, Dropping, IsReady
<1> QED
  BY <1>3, <1>4, <1>5 DEF SoloRest

(* Its direct-call id is forgotten. *)
LEMMA SoloDropId ==
    ASSUME Basics, NEW t \in Threads, SoloRest(t), DropId(t)
    PROVE  SoloRest(t)'
<1> DEFINE r == th[t].rip
<1> DEFINE left == th[t].drop \ {r}
<1> DEFINE l == IF left = {} THEN "relink" ELSE "drop"
<1>1. /\ th[t] \in ThreadStates /\ th[t].pc = "dropId" /\ r \in Rips /\ ~IsReady(r)
      /\ th'[t] = [th[t] EXCEPT !.pc = l, !.drop = left]
      /\ chain_ids' = [chain_ids EXCEPT ![r] = 0]
      /\ UNCHANGED <<cache, funcs, chain, edge, pending, overflow>>
  BY OneMoves DEF DropId, At, Becomes, Basics, TypeOK, ThreadsRight, ThreadOK, Placed, tables,
     SoloRest, SoloEntries
<1>2. l \in {"relink", "drop"} /\ (left # {} => l = "drop")
  OBVIOUS
<1>3. \A q \in th[t].drop : q = r \/ q \in left
  OBVIOUS
<1> HIDE DEF l, left, r
<1>4. th'[t].pc = l /\ th'[t].drop = left /\ th'[t].todo = th[t].todo
  BY <1>1 DEF ThreadStates
<1>5. SoloEntries(t)' /\ SoloTables(t)' /\ SoloWrites(t)' /\ SoloClean(t)'
  BY <1>1, <1>2, <1>4 DEF SoloRest, SoloEntries, SoloTables, SoloWrites, SoloClean, Inserting,
     Flushing, Dropping, IsReady
<1>6. SoloIds(t)'
  <2> SUFFICES ASSUME NEW q \in Rips
               PROVE  chain_ids'[q] = IdOf(q)'
    BY <1>2, <1>4 DEF SoloIds
  <2>1. q # r => chain_ids[q] = IdOf(q)
    BY <1>1 DEF SoloRest, SoloIds, r
  <2>2. chain_ids'[q] = IF q = r THEN 0 ELSE chain_ids[q]
    BY <1>1 DEF Basics, TypeOK
  <2> QED
    BY <1>1, <2>1, <2>2 DEF IdOf, IsReady
<1>7. SoloCurrent(t)'
  <2> SUFFICES ASSUME NEW q \in Rips, IsReady(q)', "host" \in funcs'[cache'[q].n].taint
               PROVE  Due(t, q)'
    BY DEF SoloCurrent
  <2>1. IsReady(q) /\ Due(t, q) /\ q # r
    BY <1>1 DEF SoloRest, SoloCurrent, IsReady
  <2>2. q \in th[t].drop \/ OverlapsOne(q, th[t].todo, 2)
    BY <1>1, <2>1 DEF Due, Dropping
  <2> QED
    BY <1>2, <1>3, <1>4, <2>1, <2>2 DEF Due, Dropping
<1> QED
  BY <1>5, <1>6, <1>7 DEF SoloRest

(* The chain table is cleared once the blocks are gone. *)
LEMMA SoloRelink ==
    ASSUME Basics, NEW t \in Threads, SoloRest(t), Relink(t)
    PROVE  SoloRest(t)'
<1> DEFINE new == [r \in Rips |-> IF IsReady(r) THEN cache[r].n ELSE 0]
<1>1. /\ th[t].pc = "relink" /\ th[t].pc \in Spanning
      /\ chain' = [chain EXCEPT ![t] = new] /\ edge' = [edge EXCEPT ![t] = NoTable]
      /\ UNCHANGED <<cache, chain_ids, funcs, pending, overflow>>
  BY DEF Relink, At, Spanning
<1>2. th'[t].pc \in {"loop", "test"}
  BY <1>1, SpanLeft DEF Relink
<1>3. SoloEntries(t)' /\ SoloWrites(t)' /\ SoloClean(t)'
  BY <1>1, <1>2 DEF SoloRest, SoloEntries, SoloWrites, SoloClean, Inserting, Flushing
<1>4. SoloIds(t)'
  BY <1>1, <1>2 DEF SoloRest, SoloIds, IdOf, IsReady
<1>5. SoloTables(t)'
  <2> SUFFICES ASSUME NEW q \in Rips
               PROVE  edge'[t][q] \in EntryOf(q)' /\ chain'[t][q] \in EntryOf(q)'
    BY DEF SoloTables
  <2>1. edge'[t] = NoTable /\ chain'[t] = new
    BY <1>1 DEF Basics, TypeOK
  <2>2. edge'[t][q] = 0 /\ chain'[t][q] = IF IsReady(q) THEN cache[q].n ELSE 0
    BY <2>1 DEF NoTable
  <2> QED
    BY <1>1, <2>2 DEF EntryOf, IsReady
<1>6. SoloCurrent(t)'
  <2> SUFFICES ASSUME NEW q \in Rips, IsReady(q)', "host" \in funcs'[cache'[q].n].taint
               PROVE  Due(t, q)'
    BY DEF SoloCurrent
  <2>1. Due(t, q)
    BY <1>1 DEF SoloRest, SoloCurrent, IsReady
  <2>2. OverlapsOne(q, th[t].todo, 2)
    BY <1>1, <2>1 DEF Due, Dropping
  <2>3. th'[t].pc = "test" /\ OverlapsOne(q, th'[t].todo, 1)
    BY <1>1, <2>2, SpanLeft DEF Relink
  <2> QED
    BY <2>3 DEF Due
<1> QED
  BY <1>3, <1>4, <1>5, <1>6 DEF SoloRest

(* The hooks of a worker leave everything to the flush they start with. *)
LEMMA SoloHooks ==
    ASSUME Basics, NEW t \in Threads, SoloRest(t), InstallRuntimeHooks(t)
    PROVE  SoloRest(t)'
<1>1. th[t].pc = "hooks" /\ th'[t].pc = "flush" /\ UNCHANGED <<cache, chain_ids, chain, edge, funcs, pending, overflow>>
  BY FieldMoves DEF InstallRuntimeHooks, At, tables
<1>2. SoloEntries(t)' /\ SoloWrites(t)' /\ SoloClean(t)' /\ SoloCurrent(t)'
  BY <1>1 DEF SoloRest, SoloEntries, SoloWrites, SoloClean, SoloCurrent, Due, Inserting, Flushing
<1>3. SoloIds(t)' /\ SoloTables(t)'
  BY <1>1 DEF SoloRest, SoloIds, SoloTables, IdOf, EntryOf, IsReady, Inserting, Dropping, Flushing
<1> QED
  BY <1>2, <1>3 DEF SoloRest

(* A flush empties all tables. *)
LEMMA SoloFlush ==
    ASSUME Basics, NEW t \in Threads, SoloRest(t),
           FlushCache(t) \/ FlushIds(t) \/ FlushPages(t) \/ FlushTables(t)
    PROVE  SoloRest(t)'
<1>1. Empty' /\ UNCHANGED <<funcs, pending, overflow>>
  <2>1. CASE FlushCache(t)
    BY <2>1 DEF FlushCache, Empty
  <2>2. CASE FlushIds(t) \/ FlushPages(t) \/ FlushTables(t)
    BY <2>2 DEF FlushIds, FlushPages, FlushTables, At, SoloRest, SoloEntries, Flushing, Empty
  <2> QED
    BY <2>1, <2>2 DEF FlushCache, FlushIds, FlushPages, FlushTables
<1>2. \A r \in Rips : ~IsReady(r)' /\ IdOf(r)' = 0 /\ EntryOf(r)' = {0}
  BY <1>1 DEF Empty, None, IsReady, IdOf, EntryOf
<1>3. th'[t].pc \in {"flushIds", "flushPages", "flushTables", "loop"} /\ th[t].pc # "drain"
  <2>1. CASE FlushCache(t) \/ FlushIds(t) \/ FlushPages(t)
    BY <2>1, FieldMoves DEF FlushCache, FlushIds, FlushPages, At
  <2>2. CASE FlushTables(t)
    BY <2>2, OneMoves DEF FlushTables, Return, Becomes, Idle, At, Basics
  <2> QED
    BY <2>1, <2>2
<1>4. SoloEntries(t)' /\ SoloWrites(t)' /\ SoloClean(t)'
  BY <1>1, <1>3 DEF SoloRest, SoloEntries, SoloWrites, SoloClean, Inserting, Flushing
<1>5. SoloIds(t)'
  <2>1. CASE FlushCache(t)
    <3>1. th'[t].pc = "flushIds"
      BY <2>1, FieldMoves DEF FlushCache
    <3> QED
      BY <3>1 DEF SoloIds
  <2>2. CASE ~FlushCache(t)
    <3>1. \A r \in Rips : chain_ids'[r] = 0
      <4>1. CASE FlushIds(t)
        BY <4>1 DEF FlushIds, NoTable
      <4>2. CASE FlushPages(t) \/ FlushTables(t)
        <5>1. \A r \in Rips : IdOf(r) = 0
          BY <4>2 DEF FlushPages, FlushTables, At, SoloRest, SoloEntries, Flushing, Empty, None, IdOf, IsReady
        <5> QED
          BY <4>2, <5>1 DEF FlushPages, FlushTables, At, SoloRest, SoloIds
      <4> QED
        BY <2>2, <4>1, <4>2
    <3> QED
      BY <1>2, <1>3, <3>1 DEF SoloIds
  <2> QED
    BY <2>1, <2>2
<1>6. SoloTables(t)'
  <2>1. CASE FlushTables(t)
    <3>1. chain'[t] = NoTable /\ edge'[t] = NoTable
      BY <2>1 DEF FlushTables, Basics, TypeOK
    <3>2. \A r \in Rips : chain'[t][r] = 0 /\ edge'[t][r] = 0
      BY <3>1 DEF NoTable
    <3> QED
      BY <1>2, <3>2 DEF SoloTables
  <2>2. CASE FlushCache(t) \/ FlushIds(t) \/ FlushPages(t)
    BY <2>2, FieldMoves DEF FlushCache, FlushIds, FlushPages, SoloTables, Flushing
  <2> QED
    BY <2>1, <2>2
<1>7. SoloCurrent(t)'
  BY <1>2 DEF SoloCurrent
<1> QED
  BY <1>4, <1>5, <1>6, <1>7 DEF SoloRest

(* A write taints only the functions whose bytes it overlaps. *)
LEMMA NewTaint ==
    ASSUME TypeOK, NEW lo, NEW hi, NEW kind \in Marks, funcs' = Tainted(lo, hi, kind)
    PROVE  \A i \in 1..Len(funcs) : kind \in funcs'[i].taint /\ kind \notin funcs[i].taint =>
                                    Overlaps(funcs[i].rip, lo, hi)
<1>1. \A i \in 1..Len(funcs) : funcs'[i].taint = IF Overlaps(funcs[i].rip, lo, hi)
                                               THEN funcs[i].taint \cup {kind} ELSE funcs[i].taint
  BY TaintedTyped
<1> QED
  BY <1>1

(* A host write or a free marks only blocks that overlap the span it goes on to invalidate. *)
LEMMA SoloHost ==
    ASSUME Basics, NEW t \in Threads, SoloRest(t), HostStep(t)
    PROVE  SoloRest(t)'
<1>1. /\ th[t].pc = "loop"
      /\ UNCHANGED <<cache, chain_ids, code_pages, chain, edge, pending, overflow, lost>>
  BY HostShape
<1>2. th'[t].pc \in {"loop", "note", "test", "flush"}
  BY HostBasics
<1>3. SoloEntries(t)' /\ SoloWrites(t)' /\ SoloClean(t)'
  BY <1>1, <1>2 DEF SoloRest, SoloEntries, SoloWrites, SoloClean, Inserting, Flushing
<1>4. SoloIds(t)'
  BY <1>1, <1>2 DEF SoloRest, SoloIds, IdOf, IsReady
<1>5. SoloTables(t)'
  BY <1>1, <1>2 DEF SoloRest, SoloTables, Dropping, Flushing, Inserting, EntryOf, IsReady
<1>6. Clean
  BY <1>1, NotDue DEF Waiting, Dropping
<1>7. CASE funcs' = funcs
  BY <1>1, <1>3, <1>4, <1>5, <1>6, <1>7, CleanCurrent DEF Clean, IsReady, SoloRest
<1>8. ASSUME NEW s \in Spans, NEW l \in {"note", "test"},
             funcs' = Tainted(s[1], s[2], "host"),
             th' = [Spoilt(s[1], s[2], "host") EXCEPT ![t] = Entered(l, s)]
      PROVE  SoloRest(t)'
  <2>1. th'[t].pc = l /\ th'[t].todo = <<s>>
    <3>1. TypeOK /\ "host" \in Marks
      BY DEF Basics, Marks
    <3>2. Spoilt(s[1], s[2], "host") \in [Threads -> ThreadStates]
      BY <3>1, SpoiltTyped
    <3>3. th'[t] = Entered(l, s)
      BY <1>8, <3>2
    <3> QED
      BY <3>3, EnteredTyped
  <2>2. \A j \in 1..Len(funcs) : "host" \in funcs'[j].taint /\ "host" \notin funcs[j].taint =>
                                 Overlaps(funcs[j].rip, s[1], s[2])
    <3>1. TypeOK /\ "host" \in Marks
      BY DEF Basics, Marks
    <3> QED
      BY <1>8, <3>1, NewTaint
  <2>3. SoloCurrent(t)'
    <3> SUFFICES ASSUME NEW r \in Rips, IsReady(r)', "host" \in funcs'[cache'[r].n].taint
                 PROVE  Due(t, r)'
      BY DEF SoloCurrent
    <3> DEFINE i == cache[r].n
    <3>1. i \in 1..Len(funcs) /\ funcs[i].rip = r /\ "host" \notin funcs[i].taint /\ "host" \in funcs'[i].taint
      BY <1>1, <1>6 DEF Basics, EntriesRight, For, Clean, IsReady
    <3>4. Overlaps(r, s[1], s[2])
      BY <2>2, <3>1
    <3>5. Len(<<s>>) = 1 /\ <<s>>[1] = s
      OBVIOUS
    <3>6. OverlapsOne(r, th'[t].todo, 1) /\ Overlaps(r, th'[t].todo[1][1], th'[t].todo[1][2])
      BY <2>1, <3>4, <3>5 DEF OverlapsOne
    <3> QED
      BY <2>1, <3>6 DEF Due
  <2> QED
    BY <1>3, <1>4, <1>5, <2>3 DEF SoloRest
<1> QED
  BY <1>7, <1>8, HostShape

(* The counts of a lone thread are exact: nothing is overwritten while it is Ready. *)
LEMMA SoloIndexStep ==
    ASSUME Basics, Basics', NEW t \in Threads, Solo(t), SoloIndex(t), SoloRest(t), Step(t)
    PROVE  SoloIndex(t)'
<1> DEFINE Exact == \A p \in Pages : code_pages[p] = Claims(p)
<1>1. ASSUME Exact, Balanced
      PROVE  Exact'
  <2> SUFFICES ASSUME NEW p \in Pages
               PROVE  code_pages'[p] = Claims(p)'
    OBVIOUS
  <2>1. /\ code_pages[p] \in Nat /\ code_pages'[p] \in Nat /\ Claims(p) \in Nat /\ Claims(p)' \in Nat
        /\ code_pages[p] = Claims(p)
    BY <1>1, ClaimsTyped DEF Basics, TypeOK
  <2>2. Enough(p)
    BY <2>1 DEF Enough
  <2>3. code_pages'[p] + Claims(p) = code_pages[p] + Claims(p)'
    BY <1>1, <2>2 DEF Balanced
  <2> QED
    BY <2>1, <2>3
<1>2. CASE FlushPages(t)
  <2> SUFFICES ASSUME NEW p \in Pages
               PROVE  code_pages'[p] = Claims(p)'
    BY DEF SoloIndex
  <2>1. Crew = {t} /\ Empty
    BY <1>2 DEF Solo, SoloRest, SoloEntries, Flushing, FlushPages, At
  <2>2. ReadyOn(p)' = {}
    BY <1>2, <2>1 DEF FlushPages, ReadyOn, IsReady, Empty, None
  <2>3. Holders(p)' = {}
    <3>1. th'[t].pc = "flushTables" /\ Others(t)
      BY <1>2, FieldMoves DEF FlushPages
    <3>2. \A u \in Threads \ {t} : th'[u].pc = "absent"
      BY <2>1, <3>1 DEF Crew, At, Others
    <3> QED
      BY <3>1, <3>2 DEF Holders, Holding
  <2>4. Cardinality(ReadyOn(p)') = 0 /\ Cardinality(Holders(p)') = 0
    BY <2>2, <2>3, FS_EmptySet
  <2> QED
    BY <1>2, <2>4 DEF FlushPages, Claims
<1>3. CASE FlushIds(t) \/ FlushCache(t)
  BY <1>3, FieldMoves DEF FlushIds, FlushCache, SoloIndex
<1>4. CASE ~(FlushPages(t) \/ FlushIds(t) \/ FlushCache(t))
  <2>1. Exact
    <3>1. th[t].pc \notin {"flushIds", "flushPages"}
      BY <1>4 DEF Step, Run, Invalidate, Call, Lookup, Chain, Bump, Decode, MarkNever, Compile,
         InsertTake, InsertUncount, InsertPublish, InsertCount, InsertPut, GuestStore, Leave, Drain,
         InvalidateTest, InvalidateCollect, DropEntry, DropUncount, DropId, Relink,
         FlushTables, MemWrite, VirtualFree, FlushRange, VirtualProtect, VirtualAlloc,
         NoteWrite, FlushAll, InstallRuntimeHooks, HostCall, At
    <3> QED
      BY <3>1 DEF SoloIndex
  <2>2. Balanced
    <3>1. CASE NoClaims(t)
      BY <3>1, NoClaimsBalanced
    <3>2. CASE Bump(t) \/ MarkNever(t) \/ InsertPut(t)
      <4>1. PICK r : r = th[t].rip
        OBVIOUS
      <4>2. ~IsReady(r)
        BY <3>2, <4>1 DEF Bump, MarkNever, InsertPut, At, SoloRest, SoloEntries, Inserting
      <4> QED
        BY <3>2, <4>1, <4>2, MarkClaims, PutClaims
    <3>3. CASE InsertTake(t) \/ \E r \in Rips : DropEntry(t, r)
      <4>1. PICK r \in Rips : (InsertTake(t) /\ r = th[t].rip) \/ DropEntry(t, r)
        BY <3>3 DEF Basics, ThreadsRight, ThreadOK, Placed, InsertTake, At
      <4> QED
        BY <4>1, TakeClaims
    <3>4. CASE InsertUncount(t) \/ DropUncount(t) \/ InsertCount(t)
      BY <3>4, CountClaims
    <3> QED
      BY <1>4, <3>1, <3>2, <3>3, <3>4, StepKinds
  <2>3. Exact'
    BY <1>1, <2>1, <2>2
  <2> QED
    BY <2>3 DEF SoloIndex
<1> QED
  BY <1>2, <1>3, <1>4

(* One case per action, but for the page index. *)
LEMMA SoloRestStep ==
    ASSUME Basics, Basics', NEW t \in Threads, SoloIndex(t), SoloRest(t), Step(t)
    PROVE  SoloRest(t)'
<1>1. CASE Run(t)
  <2>1. ~InsertUncount(t)
    BY DEF SoloRest, SoloEntries, InsertUncount, At
  <2> QED
    BY <1>1, <2>1, SoloLookup, SoloChain, SoloMark, SoloDecode, SoloCompile, SoloTake, SoloPublish,
       SoloPut, SoloStore, SoloDrain DEF Run
<1>2. CASE Invalidate(t)
  BY <1>2, SoloTest, SoloCollect, SoloDropEntry, SoloDropUncount, SoloDropId, SoloRelink, SoloHooks,
     SoloFlush DEF Invalidate
<1>3. CASE Call(t)
  <2>1. HostStep(t) \/ NoteWrite(t)
    BY <1>3 DEF Call, HostStep
  <2> QED
    BY <2>1, SoloHost, SoloNote
<1> QED
  BY <1>1, <1>2, <1>3 DEF Step

(* A step of the only thread. *)
LEMMA SoloStep ==
    ASSUME Basics, Basics', SoloInv, NEW t \in Threads, Step(t)
    PROVE  SoloInv'
<1> SUFFICES ASSUME NEW u \in Threads, Solo(u)'
             PROVE  SoloIndex(u)' /\ SoloRest(u)'
  BY DEF SoloInv
<1>1. t \in Crew /\ Crew' = Crew
  BY StepMoves
<1>2. u = t /\ Solo(t)
  BY <1>1 DEF Solo
<1>3. SoloIndex(t) /\ SoloRest(t)
  BY <1>2 DEF SoloInv
<1> QED
  BY <1>2, <1>3, SoloIndexStep, SoloRestStep

(* The tables start empty. *)
LEMMA InitSolo == Init => SoloInv
<1> SUFFICES ASSUME Init, NEW t \in Threads, Solo(t)
             PROVE  SoloIndex(t) /\ SoloRest(t)
  BY DEF SoloInv
<1>1. th[t].pc = "loop"
  <2>1. PICK c \in Crews : \E primary \in c :
            th = [u \in Threads |-> [Idle EXCEPT !.pc = IF u = primary THEN "loop"
                                                      ELSE IF u \in c THEN "hooks" ELSE "absent"]]
    BY DEF Init
  <2>2. PICK primary \in c :
            th = [u \in Threads |-> [Idle EXCEPT !.pc = IF u = primary THEN "loop"
                                                      ELSE IF u \in c THEN "hooks" ELSE "absent"]]
    BY <2>1
  <2>3. primary \in Threads
    BY JitCodeAssumption
  <2>4. \A l : [Idle EXCEPT !.pc = l].pc = l
    BY DEF Idle
  <2>5. primary \in Crew /\ th[primary].pc = "loop"
    <3>1. th[primary] = [Idle EXCEPT !.pc = "loop"]
      BY <2>2, <2>3
    <3> QED
      BY <2>3, <2>4, <3>1 DEF Crew, At
  <2> QED
    BY <2>5 DEF Solo
<1>2. \A r \in Rips : ~IsReady(r) /\ IdOf(r) = 0 /\ EntryOf(r) = {0}
  BY DEF Init, None, IsReady, IdOf, EntryOf
<1>3. SoloIndex(t)
  <2> SUFFICES ASSUME NEW p \in Pages
               PROVE  code_pages[p] = Claims(p)
    BY DEF SoloIndex
  <2>1. ReadyOn(p) = {}
    BY <1>2 DEF ReadyOn
  <2>2. Holders(p) = {}
    BY DEF Init, Idle, Holders, Holding
  <2>3. Cardinality(ReadyOn(p)) = 0 /\ Cardinality(Holders(p)) = 0
    BY <2>1, <2>2, FS_EmptySet
  <2> QED
    BY <2>3 DEF Init, Claims
<1>4. SoloIds(t) /\ SoloTables(t)
  BY <1>1, <1>2 DEF Init, NoTable, SoloIds, SoloTables
<1>5. SoloEntries(t) /\ SoloWrites(t) /\ SoloClean(t) /\ SoloCurrent(t)
  BY <1>1, <1>2 DEF Init, SoloEntries, SoloWrites, SoloClean, SoloCurrent, Inserting, Flushing
<1> QED
  BY <1>3, <1>4, <1>5 DEF SoloRest

(* The inductive invariant of a program of one thread: what it is doing says which entries, ids,   *)
(* links and writes are still to be put right.                                                     *)
THEOREM SoloInvariant == Spec => []SoloInv
<1>1. Init => SoloInv
  BY InitSolo
<1>2. ASSUME IInv, IInv', SoloInv, [Next]_vars
      PROVE  SoloInv'
  <2>1. CASE UNCHANGED vars
    <3> SUFFICES ASSUME NEW t \in Threads, Solo(t)'
                 PROVE  SoloIndex(t)' /\ SoloRest(t)'
      BY DEF SoloInv
    <3>1. UNCHANGED <<cache, chain_ids, code_pages, funcs, chain, edge, pending, overflow, th>>
      BY <2>1 DEF vars, tables
    <3>2. SoloIndex(t) /\ SoloRest(t)
      BY <1>2, <3>1 DEF SoloInv, Solo, Crew, At
    <3>3. SoloIndex(t)'
      BY <3>1, <3>2 DEF SoloIndex, Claims, ReadyOn, Holders, IsReady
    <3>4. SoloEntries(t)' /\ SoloIds(t)' /\ SoloTables(t)' /\ SoloWrites(t)' /\ SoloClean(t)'
      BY <3>1, <3>2 DEF SoloRest, SoloEntries, SoloIds, SoloTables, SoloWrites, SoloClean, IsReady,
         Empty, IdOf, EntryOf
    <3>5. SoloCurrent(t)'
      BY <3>1, <3>2 DEF SoloRest, SoloCurrent, Due, IsReady
    <3> QED
      BY <3>3, <3>4, <3>5 DEF SoloRest
  <2>2. CASE Next
    <3>1. PICK t \in Threads : Step(t)
      BY <2>2 DEF Next, Step
    <3> QED
      BY <1>2, <3>1, SoloStep DEF IInv
  <2> QED
    BY <1>2, <2>1, <2>2
<1> QED
  BY <1>1, <1>2, CacheInvariant, PTL DEF Spec

(* With one thread the index counts exactly the Ready blocks of each page, and the ids a later     *)
(* compile may call directly are those of the Ready blocks.                                        *)
THEOREM IndexStaysExact == Spec => []IndexExact
<1>1. ASSUME SoloInv
      PROVE  IndexExact
  <2> SUFFICES ASSUME NEW t \in Threads, Alone(t)
               PROVE  /\ \A p \in Pages : code_pages[p] = Cardinality(ReadyOn(p))
                      /\ \A r \in Rips : chain_ids[r] = IF IsReady(r) /\ r \notin Stubs THEN cache[r].n ELSE 0
    BY DEF IndexExact
  <2>1. SoloIndex(t) /\ SoloIds(t) /\ th[t].pc \in {"loop", "interp", "native"} /\ Crew = {t}
    BY <1>1 DEF SoloInv, SoloRest, Solo, Alone
  <2>2. ASSUME NEW p \in Pages
        PROVE  code_pages[p] = Cardinality(ReadyOn(p))
    <3>1. Holders(p) = {}
      BY <2>1 DEF Holders, Holding, Crew, At
    <3>2. Cardinality(Holders(p)) = 0
      BY <3>1, FS_EmptySet
    <3> QED
      BY <2>1, <3>2, Sizes DEF SoloIndex, Claims
  <2>3. \A r \in Rips : chain_ids[r] = IF IsReady(r) /\ r \notin Stubs THEN cache[r].n ELSE 0
    BY <2>1 DEF SoloIds, IdOf
  <2> QED
    BY <2>2, <2>3
<1> QED
  BY <1>1, SoloInvariant, PTL

(* With one thread no block stays Ready once a host write or a free changed its bytes, however     *)
(* many pages the write covered and whether or not the list of pending pages overflowed.           *)
THEOREM WritesInvalidate == Spec => []ReadyCurrent
<1>1. SoloInv => ReadyCurrent
  BY NotDue DEF SoloInv, Solo, ReadyCurrent, Alone, Clean, Waiting, Dropping
<1> QED
  BY <1>1, SoloInvariant, PTL

(* With one thread the chain table and the edge cache lead to the Ready block of their address or  *)
(* nowhere.                                                                                        *)
THEOREM TablesFollowCache == Spec => []TablesReady
<1>1. ASSUME SoloInv
      PROVE  TablesReady
  <2> SUFFICES ASSUME NEW t \in Threads, Alone(t), NEW r \in Rips
               PROVE  {chain[t][r], edge[t][r]} \subseteq {0} \cup {cache[q].n : q \in {r} \cap {x \in Rips : IsReady(x)}}
    BY DEF TablesReady
  <2>1. edge[t][r] \in EntryOf(r) /\ chain[t][r] \in EntryOf(r)
    BY <1>1 DEF SoloInv, SoloRest, SoloTables, Solo, Alone, Inserting, Dropping, Flushing
  <2> QED
    BY <2>1 DEF EntryOf
<1> QED
  BY <1>1, SoloInvariant, PTL
=============================================================================
