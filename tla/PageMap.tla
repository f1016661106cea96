------------------------------ MODULE PageMap -------------------------------
(***************************************************************************)
(* The sparse run-length page map of crates/wie-cpu/src/mem/pagemap.rs and *)
(* the protections of protect.rs: pure operators over a page map           *)
(*   [runs |-> set of runs [start, end, state, protect],                   *)
(*    cache |-> the run cached by the last check, a set of at most one].   *)
(* A page no run covers is free.                                           *)
(***************************************************************************)
EXTENDS Integers, FiniteSets

Rights == {"r", "w", "x"}
PAGE_NOACCESS == {}

(* page_protect_from_rwx: Windows has no write-only page. *)
ProtectFromRwx(perms) == IF "w" \in perms THEN perms \cup {"r"} ELSE perms

SupportedProtects == {{}, {"r"}, {"r", "w"}, {"x"}, {"r", "x"}, Rights}

Covers(r, p) == r.start <= p /\ p < r.end

EmptyMap == [runs |-> {}, cache |-> {}]

(* BTreeMap::range(..=p).next_back(): the run with the greatest start not above p. *)
Floor(runs, p) ==
    {r \in runs : r.start <= p /\ \A q \in runs : q.start <= p => q.start <= r.start}

(* lookup: the cached run when it covers p, else the floor run when it reaches p. *)
Lookup(pm, p) ==
    IF \E c \in pm.cache : Covers(c, p)
    THEN pm.cache
    ELSE {r \in Floor(pm.runs, p) : p < r.end}

Found(pm, p) == Lookup(pm, p) # {}
Committed(pm, p) == \E r \in Lookup(pm, p) : r.state = "committed"
HasRight(pm, p, kind) == \E r \in Lookup(pm, p) : r.state = "committed" /\ kind \in r.protect

(* Mutant: the cached run survives a change of the map. *)
BumpCache_Kept(pm) == pm

BumpCache(pm) == [pm EXCEPT !.cache = {}]

(* split_at: a run strictly straddling p becomes two runs meeting at p. *)
SplitAt(pm, p) ==
    LET cut == {r \in Lookup(pm, p) : r.start # p}
    IN  [pm EXCEPT !.runs =
            {q \in @ : \A r \in cut : q.start # r.start}
              \cup {[r EXCEPT !.end = p] : r \in cut}
              \cup {[r EXCEPT !.start = p] : r \in cut}]

(* Free pages are not stored. *)
Stored(state) == state # "free"

(* set_page_range on the pages lo..hi-1: drop the cache, cut at both ends,  *)
(* remove what lies inside, and unless the pages become free insert one run *)
(* merged with a like neighbour on either side.                             *)
SetRange(pm, lo, hi, state, protect) ==
    IF lo >= hi
    THEN pm
    ELSE LET cut   == SplitAt(SplitAt(BumpCache(pm), lo), hi)
             kept  == {r \in cut.runs : ~(lo <= r.start /\ r.start < hi)}
             Like(r) == r.state = state /\ r.protect = protect
             left  == {r \in Floor(kept, lo - 1) : r.end = lo /\ Like(r)}
             right == {r \in kept : r.start = hi /\ Like(r)}
             new   == [start |-> IF left = {} THEN lo ELSE (CHOOSE r \in left : TRUE).start,
                       end |-> IF right = {} THEN hi ELSE (CHOOSE r \in right : TRUE).end,
                       state |-> state, protect |-> protect]
         IN  [cut EXCEPT !.runs =
                IF ~Stored(state) THEN kept ELSE (kept \ (left \cup right)) \cup {new}]

(* check_access on lo..hi-1: all or nothing; the walk caches every run that passes, so the *)
(* last passing run stays cached even when a later page is refused.                        *)
Allowed(pm, lo, hi, kind) == \A p \in lo..(hi - 1) : HasRight(pm, p, kind)

Checked(pm, lo, hi, kind) ==
    LET walked == {p \in lo..(hi - 1) : Allowed(pm, lo, p + 1, kind)}
        passed == UNION {Lookup(pm, p) : p \in walked}
    IN  IF walked = {} THEN pm ELSE [pm EXCEPT !.cache = {r \in passed : \A p \in walked : p < r.end}]

-----------------------------------------------------------------------------
(* What the runs of a well-formed map say of a page, whatever the order of look-ups. *)
AnyRun == [start : Int, end : Int, state : {"reserved", "committed"}, protect : SUBSET Rights]

Apart(runs) ==
    \A r \in runs :
        /\ r.start < r.end
        /\ \A q \in runs : q = r \/ q.end <= r.start \/ r.end <= q.start

WellFormed(pm) ==
    /\ pm \in [runs : SUBSET AnyRun, cache : SUBSET AnyRun]
    /\ Apart(pm.runs)
    /\ pm.cache \subseteq pm.runs
    /\ \A b, c \in pm.cache : b = c

Says(runs, p, state, protect) ==
    \E r \in runs : Covers(r, p) /\ r.state = state /\ r.protect = protect

SetsExactly(old, new, lo, hi, state, protect) ==
    \A x \in Int : \A s, q :
        Says(new, x, s, q) <=>
            \/ lo <= x /\ x < hi /\ state # "free" /\ s = state /\ q = protect
            \/ ~(lo <= x /\ x < hi) /\ Says(old, x, s, q)
=============================================================================
