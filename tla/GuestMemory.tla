---------------------------- MODULE GuestMemory -----------------------------
(***************************************************************************)
(* The guest address space of crates/wie-cpu/src/mem: VirtualAlloc,        *)
(* VirtualFree, VirtualProtect and VirtualQuery over a page map, a VAD     *)
(* table and host mmap arenas, the loader's mem_map, the checked accesses  *)
(* of the interpreter, and the translations the JIT keeps (TLB entries and *)
(* span pins), valid while the memory generation stands still.             *)
(*                                                                         *)
(* Addresses are page keys.  Each action is one call, made under the map   *)
(* lock.  A call the code refuses changes nothing and is not a step.       *)
(***************************************************************************)
EXTENDS PageMap, FiniteSetsExt

CONSTANTS
    First, Last,     \* page keys of the modelled guest address space
    Gran,            \* allocation granularity, in pages (64 KiB / 4 KiB)
    HostFrame,       \* host page size, in guest pages (1 on x86, 4 on Apple silicon)
    Protects,        \* the PAGE_* values guests pass
    Layout,          \* the page ranges the loader maps: bootstrap areas and images
    Perms,           \* the rwx masks it maps them with
    Mprotect,        \* WIE_MPROTECT, TRUE by default
    OccupiedMaps     \* whether mem_map is called on pages already allocated

ASSUME GuestMemoryAssumption ==
    /\ First \in Nat /\ Last \in Nat /\ 0 < First /\ First <= Last
    /\ Gran \in Nat \ {0} /\ HostFrame \in Nat \ {0}
    /\ Protects \subseteq SupportedProtects /\ Perms \subseteq SUBSET Rights
    /\ Layout \subseteq {s \in (First..Last) \X (First..(Last + 1)) : s[1] < s[2]}
    /\ Mprotect \in BOOLEAN /\ OccupiedMaps \in BOOLEAN

VARIABLES
    pages,      \* the page map
    vad,        \* VAD nodes [base, end]
    arenas,     \* host mappings [base, end]
    hostw,      \* hostw[p]: the host page behind p may be written
    data,       \* data[p]: 0 for a page of zeros, 1 for one the guest wrote
    pinned,     \* translations whose generation is the current one
    fault       \* the emulator itself was killed by SIGSEGV

vars == <<pages, vad, arenas, hostw, data, pinned, fault>>

Pages == First..Last
Spans == {s \in Pages \X (First..(Last + 1)) : s[1] < s[2]}
Span(lo, hi) == {p \in Pages : lo <= p /\ p < hi}

AlignDown(x) == x - (x % Gran)
AlignUp(x) == AlignDown(x + Gran - 1)

Extent(lo, hi) == [base |-> lo, end |-> hi]
Overlap(a, lo, hi) == a.base < hi /\ a.end > lo
NodeAt(p) == {n \in vad : n.base <= p /\ p < n.end}
ArenaAt(as, p) == {a \in as : a.base <= p /\ p < a.end}

-----------------------------------------------------------------------------
(* map_range: an arena of exactly this range is kept; otherwise every maximal run of unmapped *)
(* pages becomes a new arena.  A page no arena backs holds zeros and is host writable: what a *)
(* new anonymous mapping starts with.                                                         *)
MapRange(lo, hi) ==
    LET bare == {p \in Span(lo, hi) : ArenaAt(arenas, p) = {}}
        Run(s) == Span(s[1], s[2]) \subseteq bare /\ s[1] - 1 \notin bare /\ s[2] \notin bare
    IN  IF Extent(lo, hi) \in arenas
        THEN arenas
        ELSE arenas \cup {Extent(s[1], s[2]) : s \in {t \in Spans : Run(t)}}

(* Mutant: the arena outlives its allocation. *)
UnmapExact_Kept(lo, hi) == UNCHANGED <<arenas, data, hostw>>

(* unmap_exact: munmap only the arena that is exactly the range; its bytes are gone. *)
UnmapExact(lo, hi) ==
    LET gone == IF Extent(lo, hi) \in arenas THEN Span(lo, hi) ELSE {}
    IN  /\ arenas' = arenas \ {Extent(lo, hi)}
        /\ data' = [p \in Pages |-> IF p \in gone THEN 0 ELSE data[p]]
        /\ hostw' = [p \in Pages |-> hostw[p] \/ p \in gone]

(* host_prot_for_frame: writable unless every page is committed, some page is readable or *)
(* executable, and none is writable.                                                      *)
HostWritable(pm, f) ==
    LET frame == f..(f + HostFrame - 1)
    IN  \/ \E p \in frame : ~Committed(pm, p)
        \/ \E p \in frame : HasRight(pm, p, "w")
        \/ \A p \in frame : ~HasRight(pm, p, "r") /\ ~HasRight(pm, p, "x")

(* sync_host_protect: one mprotect per host frame met on lo..hi-1, frames counted from the base *)
(* of their arena; a frame that sticks out of its arena is left alone.                          *)
SyncHostProtect(pm, as, lo, hi) ==
    LET Walk[va \in lo..(hi + HostFrame)] ==
            IF va >= hi THEN {}
            ELSE IF ArenaAt(as, va) = {} THEN Walk[va + 1]
            ELSE LET a == CHOOSE a \in ArenaAt(as, va) : TRUE
                     f == a.base + ((va - a.base) \div HostFrame) * HostFrame
                 IN  (IF f + HostFrame <= a.end THEN {f} ELSE {}) \cup Walk[f + HostFrame]
        met == Walk[lo]
        Hit(p) == {f \in met : f <= p /\ p < f + HostFrame}
    IN  IF ~Mprotect
        THEN hostw
        ELSE [p \in Pages |-> IF Hit(p) = {} THEN hostw[p] ELSE \E f \in Hit(p) : HostWritable(pm, f)]

(* bump_generation: every translation now carries an old generation and misses. *)
BumpGeneration == pinned' = {}

-----------------------------------------------------------------------------
Init ==
    /\ pages = EmptyMap
    /\ vad = {} /\ arenas = {}
    /\ hostw = [p \in Pages |-> TRUE]
    /\ data = [p \in Pages |-> 0]
    /\ pinned = {}
    /\ fault = FALSE

(* region_is_free and ensure_pages_free: no page in the map and no allocation in the way. *)
RegionIsFree(lo, hi) ==
    /\ \A p \in Span(lo, hi) : ~Found(pages, p)
    /\ ~\E n \in vad : Overlap(n, lo, hi)

(* map_with_type, called through mem_map and mem_map_image: commits the range whatever it   *)
(* holds, and records an allocation only where it meets none.                               *)
Map(lo, hi, perms) ==
    LET protect == ProtectFromRwx(perms)
    IN  /\ ~fault
        /\ OccupiedMaps \/ RegionIsFree(lo, hi)
        /\ pages' = SetRange(pages, lo, hi, "committed", protect)
        /\ arenas' = MapRange(lo, hi)
        /\ vad' = IF \E n \in vad : n.base = lo \/ Overlap(n, lo, hi)
                  THEN vad
                  ELSE vad \cup {Extent(lo, hi)}
        /\ BumpGeneration
        /\ hostw' = SyncHostProtect(pages', arenas', lo, hi)
        /\ UNCHANGED <<data, fault>>

(* find_free_region: the lowest free hole at a granularity boundary.  The code skips past a *)
(* blocking allocation, which no hole below its end could have satisfied.                   *)
FindFreeRegion(size) ==
    {b \in Pages :
        LET Fits(c) == c % Gran = 0 /\ c + size <= Last + 1 /\ RegionIsFree(c, c + size)
        IN  Fits(b) /\ \A c \in Pages : Fits(c) => b <= c}

(* va_reserve_only and va_reserve_and_commit on the aligned span lo..hi-1; First and Last bound the model. *)
Reserve(lo, hi, commit, protect) ==
    /\ ~fault
    /\ First <= lo /\ hi <= Last + 1
    /\ RegionIsFree(lo, hi)
    /\ arenas' = MapRange(lo, hi)
    /\ pages' = IF commit THEN SetRange(pages, lo, hi, "committed", protect)
                          ELSE SetRange(pages, lo, hi, "reserved", PAGE_NOACCESS)
    /\ vad' = vad \cup {Extent(lo, hi)}
    /\ BumpGeneration
    /\ UNCHANGED <<hostw, data, fault>>

(* align_reserve_request: a given address is rounded out to the granularity at both ends, a null *)
(* one asks for the lowest hole of the rounded size.                                             *)
ReserveAt(lo, hi, commit, protect) ==
    Reserve(AlignDown(lo), AlignUp(hi), commit, protect)

ReserveAnywhere(size, commit, protect) ==
    \E b \in FindFreeRegion(AlignUp(size)) : Reserve(b, b + AlignUp(size), commit, protect)

(* The range checks shared by va_commit_only, va_decommit and virtual_protect: one allocation *)
(* holds the whole range, and no page of it is free.                                          *)
InOneNode(lo, hi) ==
    /\ \E n \in NodeAt(lo) : n.base <= lo /\ hi <= n.end
    /\ \A p \in Span(lo, hi) : Found(pages, p)

(* va_commit_only: host storage exists since the reserve; host rights are not revisited. *)
CommitOnly(lo, hi, protect) ==
    /\ ~fault
    /\ InOneNode(lo, hi)
    /\ arenas' = IF ArenaAt(arenas, lo) = {} THEN MapRange(lo, hi) ELSE arenas
    /\ pages' = SetRange(pages, lo, hi, "committed", protect)
    /\ BumpGeneration
    /\ UNCHANGED <<vad, hostw, data, fault>>

(* Mutant: decommitted pages keep their bytes. *)
Decommit_KeepsBytes(lo, hi) ==
    /\ ~fault
    /\ InOneNode(lo, hi)
    /\ pages' = SetRange(pages, lo, hi, "reserved", PAGE_NOACCESS)
    /\ BumpGeneration
    /\ UNCHANGED <<vad, arenas, hostw, data, fault>>

(* va_decommit: discard_range zeroes the host bytes, then the pages are reserved again. *)
Decommit(lo, hi) ==
    LET backed == {p \in Span(lo, hi) : ArenaAt(arenas, p) # {}}
    IN  /\ ~fault
        /\ InOneNode(lo, hi)
        /\ IF \A p \in backed : hostw[p]
           THEN /\ data' = [p \in Pages |-> IF p \in backed THEN 0 ELSE data[p]]
                /\ pages' = SetRange(pages, lo, hi, "reserved", PAGE_NOACCESS)
                /\ BumpGeneration
                /\ UNCHANGED <<vad, arenas, hostw, fault>>
           ELSE /\ fault' = TRUE
                /\ UNCHANGED <<pages, vad, arenas, hostw, data, pinned>>

(* va_release: the address must be an allocation base. *)
Release(n) ==
    /\ ~fault
    /\ n \in vad
    /\ BumpGeneration
    /\ pages' = SetRange(pages, n.base, n.end, "free", PAGE_NOACCESS)
    /\ vad' = vad \ {n}
    /\ UnmapExact(n.base, n.end)
    /\ UNCHANGED fault

(* Mutant: the generation is not bumped when rights are taken away. *)
VirtualProtect_NoBump(lo, hi, protect) ==
    /\ ~fault
    /\ InOneNode(lo, hi)
    /\ \A p \in Span(lo, hi) : Committed(pages, p)
    /\ pages' = SetRange(pages, lo, hi, "committed", protect)
    /\ hostw' = SyncHostProtect(pages', arenas, lo, hi)
    /\ UNCHANGED <<vad, arenas, data, pinned, fault>>

(* virtual_protect: every page committed, one allocation; host rights follow. *)
VirtualProtect(lo, hi, protect) ==
    /\ ~fault
    /\ InOneNode(lo, hi)
    /\ \A p \in Span(lo, hi) : Committed(pages, p)
    /\ pages' = SetRange(pages, lo, hi, "committed", protect)
    /\ BumpGeneration
    /\ hostw' = SyncHostProtect(pages', arenas, lo, hi)
    /\ UNCHANGED <<vad, arenas, data, fault>>

(* GuestMemory::read and fetch_into: the check may cache a run; no byte changes. *)
Read(lo, hi, kind) ==
    /\ ~fault
    /\ pages' = Checked(pages, lo, hi, kind)
    /\ UNCHANGED <<vad, arenas, hostw, data, pinned, fault>>

(* Storing through the host mapping: SIGSEGV when a host page is read-only. *)
HostStore(S) ==
    IF \A p \in S : hostw[p]
    THEN data' = [p \in Pages |-> IF p \in S THEN 1 ELSE data[p]] /\ UNCHANGED fault
    ELSE fault' = TRUE /\ UNCHANGED data

(* GuestMemory::write: all or nothing, each page resolved through its arena. *)
Write(lo, hi) ==
    /\ ~fault
    /\ pages' = Checked(pages, lo, hi, "w")
    /\ IF Allowed(pages, lo, hi, "w") /\ \A p \in Span(lo, hi) : ArenaAt(arenas, p) # {}
       THEN HostStore(Span(lo, hi))
       ELSE UNCHANGED <<data, fault>>
    /\ UNCHANGED <<vad, arenas, hostw, pinned>>

-----------------------------------------------------------------------------
(* One translation at a time stands for the TLB and the pin slots, which never consult each other. *)
(* span_pin and page_tlb_entry: translate a span inside one arena, all of it committed, with the *)
(* rights every page grants; write never onto executable pages.                                  *)
Translation(lo, hi, a) ==
    [lo |-> lo, hi |-> hi, arena |-> a,
     r |-> \A p \in Span(lo, hi) : HasRight(pages, p, "r"),
     w |-> \A p \in Span(lo, hi) : HasRight(pages, p, "w") /\ ~HasRight(pages, p, "x")]

Pin(lo, hi) ==
    /\ ~fault
    /\ \A p \in Span(lo, hi) : Committed(pages, p)
    /\ \E a \in ArenaAt(arenas, lo) :
         /\ hi <= a.end
         /\ Translation(lo, hi, a).r \/ Translation(lo, hi, a).w
         /\ pinned' = {Translation(lo, hi, a)}
    /\ UNCHANGED <<pages, vad, arenas, hostw, data, fault>>

(* A compiled store through a translation that carries the current generation. *)
PinnedStore(t, p) ==
    /\ ~fault
    /\ t \in pinned /\ t.w
    /\ p \in Span(t.lo, t.hi)
    /\ HostStore({p})
    /\ UNCHANGED <<pages, vad, arenas, hostw, pinned>>

Allocate ==
    \E commit \in BOOLEAN, q \in Protects :
        \/ \E s \in Spans : ReserveAt(s[1], s[2], commit, q)
        \/ \E size \in 1..(Last + 1 - First) : ReserveAnywhere(size, commit, q)

Next ==
    \/ \E s \in Layout, m \in Perms : Map(s[1], s[2], m)
    \/ Allocate
    \/ \E s \in Spans, q \in Protects : CommitOnly(s[1], s[2], q)
    \/ \E s \in Spans : Decommit(s[1], s[2])
    \/ \E n \in vad : Release(n)
    \/ \E s \in Spans, q \in Protects : VirtualProtect(s[1], s[2], q)
    \/ \E s \in Spans, kind \in {"r", "x"} : Read(s[1], s[2], kind)
    \/ \E s \in Spans : Write(s[1], s[2])
    \/ \E s \in Spans : Pin(s[1], s[2])
    \/ \E t \in pinned, p \in Pages : PinnedStore(t, p)

Spec == Init /\ [][Next]_vars

-----------------------------------------------------------------------------
(* Mutant: the run is reported as the page map stores it, across allocations. *)
QueryAllocated_Unclipped(p, run, n) ==
    [base |-> run.start, end |-> run.end, alloc |-> n.base, state |-> run.state,
     protect |-> IF run.state = "committed" THEN run.protect ELSE {}]

(* Runs that are reported as one: of reserved pages the protection does not matter. *)
LikeRun(run, r) == r.state = run.state /\ (run.state = "committed" => r.protect = run.protect)

Clip(n, x) == Max({n.base, Min({n.end, x})})

(* The two scans of virtual_query from a page of allocation n: run by run over like runs. *)
ScanLeft(p, run, n) ==
    LET Left[s \in n.base..p] ==
            IF s > n.base /\ \E r \in Lookup(pages, s - 1) : LikeRun(run, r)
            THEN Left[Clip(n, (CHOOSE r \in Lookup(pages, s - 1) : TRUE).start)] ELSE s
    IN  Left[Clip(n, run.start)]

ScanRight(p, run, n) ==
    LET Right[e \in p..n.end] ==
            IF e < n.end /\ \E r \in Lookup(pages, e) : LikeRun(run, r)
            THEN Right[Clip(n, (CHOOSE r \in Lookup(pages, e) : TRUE).end)] ELSE e
    IN  Right[Clip(n, run.end)]

(* virtual_query for a page of an allocation: the run it lies in, clipped to the allocation and  *)
(* extended over like runs on both sides; for any other page, the free run up to the next        *)
(* allocation or mapped page, one granule when there is none.                                    *)
QueryAllocated(p, run, n) ==
    [base |-> ScanLeft(p, run, n), end |-> ScanRight(p, run, n),
     alloc |-> n.base, state |-> run.state,
     protect |-> IF run.state = "committed" THEN run.protect ELSE {}]

QueryFree(p) ==
    LET above == {n.base : n \in {m \in vad : m.base > p}}
                   \cup {r.start : r \in {q \in pages.runs : q.start > p}}
    IN  [base |-> p, end |-> IF above = {} THEN p + Gran ELSE Min(above),
         alloc |-> 0, state |-> "free", protect |-> {}]

VirtualQuery(p) ==
    IF Found(pages, p) /\ NodeAt(p) # {}
    THEN QueryAllocated(p, CHOOSE r \in Lookup(pages, p) : TRUE, CHOOSE n \in NodeAt(p) : TRUE)
    ELSE QueryFree(p)

-----------------------------------------------------------------------------
Extents == [base : Pages, end : First..(Last + 1)]

(* The run cached by check_access is a run of the map as it stands, so no check is ever answered *)
(* from a protection that has since changed.                                                     *)
CacheCoherent == pages.cache \subseteq pages.runs

(* Every allocation has one host arena of its own extent and every arena an allocation, so a     *)
(* release returns all of the storage and a later allocation there starts from zeros; and a page *)
(* is in the map exactly when an allocation owns it.                                             *)
StorageMatches ==
    /\ arenas = vad
    /\ \A m, n \in vad : m = n \/ m.end <= n.base \/ n.end <= m.base
    /\ \A p \in Pages : Found(pages, p) <=> NodeAt(p) # {}

(* A translation that still carries the current generation grants no more than the page map does *)
(* now, on pages that are committed and backed by the arena it points into.                      *)
PinsSound ==
    \A t \in pinned :
        /\ t.arena \in arenas /\ t.arena.base <= t.lo /\ t.hi <= t.arena.end
        /\ \A p \in Span(t.lo, t.hi) :
             /\ t.r => HasRight(pages, p, "r")
             /\ t.w => HasRight(pages, p, "w") /\ ~HasRight(pages, p, "x")

(* VirtualQuery reports for every page the largest stretch around it, inside its allocation, of   *)
(* one state and one protection; for a free page a stretch of free pages that ends where the      *)
(* first page above that is not free begins.                                                      *)
PageIs(p) == {<<r.state, r.protect>> : r \in Lookup(pages, p)}

QueryExact ==
    \A p \in Pages :
        LET q == VirtualQuery(p)
            Same(x) == PageIs(x) = PageIs(p) /\ NodeAt(x) = NodeAt(p)
            alike == {x \in Pages : \A y \in (x..p) \cup (p..x) : Same(y)}
        IN  IF NodeAt(p) # {}
            THEN /\ Span(q.base, q.end) = alike
                 /\ \E n \in NodeAt(p) : q.alloc = n.base
                 /\ PageIs(p) = {<<q.state, q.protect>>}
            ELSE /\ q.state = "free"
                 /\ \A x \in Span(q.base, q.end) : NodeAt(x) = {} /\ ~Found(pages, x)
                 /\ (\E x \in Pages : x > p /\ NodeAt(x) # {}) => NodeAt(q.end) # {}

(* The guest's view of page p. *)
View(p) ==
    IF Found(pages, p)
    THEN LET r == CHOOSE r \in Lookup(pages, p) : TRUE
         IN  [state |-> r.state, owner |-> Max({0} \cup {n.base : n \in NodeAt(p)}),
              protect |-> r.protect, data |-> data[p]]
    ELSE [state |-> "free", owner |-> 0, protect |-> {}, data |-> 0]

Promised == INSTANCE AddressSpace WITH
    Protects <- Protects \cup {ProtectFromRwx(m) : m \in Perms}, space <- [p \in Pages |-> View(p)]

(* The tables, caches and arenas implement the page-by-page address space: every call changes    *)
(* the pages it names and no others, fresh memory reads as zero, and no store, checked or        *)
(* translated, lands on a page the guest may not write.                                          *)
ImplementsAddressSpace == Promised!Spec

(* "SPC remains the correctness plane": no request that the software checks admit makes the      *)
(* emulator itself fault on a host page it left read-only.                                       *)
NoHostFault == ~fault

(* "Preferred base unavailable - allocate from an alternative region": mem_map leaves the pages  *)
(* of existing allocations as they are.                                                          *)
MapTakesFreePages ==
    [][\A s \in Layout, m \in Perms :
          Map(s[1], s[2], m) => \A p \in Span(s[1], s[2]) : ~Found(pages, p)]_vars
=============================================================================
