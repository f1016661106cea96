-------------------------- MODULE GuestMemoryProofs --------------------------
(***************************************************************************)
(* For every address space, granularity, host page size and loader layout: *)
(* the run-length page map is a function from pages to states and          *)
(* protections, it stays well formed and its cache current, translations   *)
(* that carry the current generation grant only what the page map grants,  *)
(* every allocation has its own arena, the whole implements the            *)
(* page-by-page address space of AddressSpace, and VirtualQuery is exact.  *)
(***************************************************************************)
EXTENDS GuestMemory, WellFoundedInduction, TLAPS

(* lookup, through the cache or the ordered map, returns exactly the runs that cover the page. *)
LEMMA LookupIsCover ==
  ASSUME NEW pm, WellFormed(pm), NEW p \in Int
  PROVE  Lookup(pm, p) = {r \in pm.runs : Covers(r, p)}
<1> USE DEF WellFormed, AnyRun
<1>1. \A r, q \in pm.runs : Covers(r, p) /\ Covers(q, p) => r = q
  BY DEF Apart, Covers
<1>2. CASE \E c \in pm.cache : Covers(c, p)
  <2>1. PICK c \in pm.cache : Covers(c, p)
    BY <1>2
  <2>2. pm.cache = {c} /\ c \in pm.runs
    BY <2>1
  <2> QED
    BY <1>1, <1>2, <2>1, <2>2 DEF Lookup
<1>3. CASE ~\E c \in pm.cache : Covers(c, p)
  <2>1. ASSUME NEW r \in pm.runs, Covers(r, p)
        PROVE  r \in Floor(pm.runs, p)
    <3>1. ASSUME NEW q \in pm.runs, q.start <= p
          PROVE  q.start <= r.start
      BY <2>1, <3>1 DEF Apart, Covers
    <3> QED
      BY <2>1, <3>1 DEF Floor, Covers
  <2>2. \A r \in Floor(pm.runs, p) : r \in pm.runs /\ r.start <= p
    BY DEF Floor
  <2>3. Lookup(pm, p) = {r \in Floor(pm.runs, p) : p < r.end}
    BY <1>3 DEF Lookup
  <2> QED
    BY <2>1, <2>2, <2>3 DEF Covers
<1> QED
  BY <1>2, <1>3

(* A page is covered by one run at most. *)
LEMMA CoverIsUnique ==
  ASSUME NEW pm, WellFormed(pm), NEW p \in Int,
         NEW r \in pm.runs, NEW q \in pm.runs, Covers(r, p), Covers(q, p)
  PROVE  r = q
BY DEF WellFormed, AnyRun, Apart, Covers

(* split_at keeps the map well formed, makes p a boundary, and says the same of every page. *)
LEMMA SplitAtSafe ==
  ASSUME NEW pm, WellFormed(pm), pm.cache = {}, NEW p \in Int
  PROVE  /\ WellFormed(SplitAt(pm, p))
         /\ SplitAt(pm, p).cache = {}
         /\ \A r \in SplitAt(pm, p).runs : p <= r.start \/ r.end <= p
         /\ \A x \in Int : \A s, q : Says(SplitAt(pm, p).runs, x, s, q) <=> Says(pm.runs, x, s, q)
         /\ \A b \in Int : (\A r \in pm.runs : b <= r.start \/ r.end <= b)
                => \A r \in SplitAt(pm, p).runs : b <= r.start \/ r.end <= b
<1> DEFINE cut == {r \in Lookup(pm, p) : r.start # p}
           new == SplitAt(pm, p)
<1>1. cut = {r \in pm.runs : r.start < p /\ p < r.end}
  BY LookupIsCover DEF Covers, WellFormed, AnyRun
<1>2. CASE cut = {}
  <2>1. /\ {q \in pm.runs : \A r \in cut : q.start # r.start} = pm.runs
        /\ {[r EXCEPT !.end = p] : r \in cut} = {}
        /\ {[r EXCEPT !.start = p] : r \in cut} = {}
    BY <1>2
  <2>2. new = pm
    BY <2>1 DEF SplitAt, WellFormed
  <2>3. \A r \in pm.runs : p <= r.start \/ r.end <= p
    BY <1>1, <1>2 DEF WellFormed, AnyRun
  <2> QED
    BY <2>2, <2>3
<1>3. CASE cut # {}
  <2>1. PICK c \in pm.runs : c.start < p /\ p < c.end
    BY <1>1, <1>3
  <2> DEFINE lt == [c EXCEPT !.end = p]
             rt == [c EXCEPT !.start = p]
  <2>2. cut = {c}
    <3>1. \A r \in cut : r = c
      BY <1>1, <2>1, CoverIsUnique DEF Covers, WellFormed, AnyRun
    <3> QED
      BY <1>1, <2>1, <3>1
  <2>3. c \in AnyRun
    BY <2>1 DEF WellFormed
  <2>4. /\ lt \in AnyRun /\ lt.start = c.start /\ lt.end = p /\ lt.state = c.state /\ lt.protect = c.protect
        /\ rt \in AnyRun /\ rt.start = p /\ rt.end = c.end /\ rt.state = c.state /\ rt.protect = c.protect
    BY <2>3 DEF AnyRun
  <2>5. {q \in pm.runs : \A r \in cut : q.start # r.start} = pm.runs \ {c}
    <3>1. \A q \in pm.runs : q.start = c.start => q = c
      BY <2>1 DEF WellFormed, Apart, AnyRun
    <3> QED
      BY <2>2, <3>1
  <2>6. {[r EXCEPT !.end = p] : r \in cut} = {lt} /\ {[r EXCEPT !.start = p] : r \in cut} = {rt}
    BY <2>2
  <2> HIDE DEF lt, rt, cut
  <2>7. new = [pm EXCEPT !.runs = (pm.runs \ {c}) \cup {lt} \cup {rt}]
    BY <2>5, <2>6 DEF SplitAt, cut
  <2>8. new.runs = (pm.runs \ {c}) \cup {lt, rt} /\ new.cache = {}
        /\ new \in [runs : SUBSET AnyRun, cache : SUBSET AnyRun]
    BY <2>4, <2>7 DEF WellFormed
  <2> HIDE DEF new
  <2>9. Apart(new.runs)
    <3>1. \A r \in pm.runs \ {c} : r.start < r.end /\ (r.end <= c.start \/ c.end <= r.start)
      BY <2>1 DEF WellFormed, Apart
    <3>2. \A r \in pm.runs : r.start \in Int /\ r.end \in Int
      BY DEF WellFormed, AnyRun
    <3>3. \A r \in pm.runs \ {c} : (r.end <= lt.start \/ lt.end <= r.start) /\ (r.end <= rt.start \/ rt.end <= r.start)
      BY <2>1, <2>4, <3>1, <3>2
    <3>4. lt.start < lt.end /\ rt.start < rt.end /\ lt.end <= rt.start
      BY <2>1, <2>3, <2>4 DEF AnyRun
    <3>5. ASSUME NEW r \in new.runs, NEW q \in new.runs
          PROVE  r.start < r.end /\ (q = r \/ q.end <= r.start \/ r.end <= q.start)
      <4>1. CASE r \in pm.runs \ {c} /\ q \in pm.runs \ {c}
        BY <4>1, <3>1 DEF WellFormed, Apart
      <4>2. CASE r \in {lt, rt} /\ q \in pm.runs \ {c}
        BY <4>2, <3>3, <3>4
      <4>3. CASE r \in pm.runs \ {c} /\ q \in {lt, rt}
        BY <4>3, <3>1, <3>3
      <4>4. CASE r \in {lt, rt} /\ q \in {lt, rt}
        BY <4>4, <3>4
      <4> QED
        BY <4>1, <4>2, <4>3, <4>4, <2>8
    <3> QED
      BY <3>5 DEF Apart
  <2>10. \A r \in new.runs : p <= r.start \/ r.end <= p
    <3>1. ASSUME NEW r \in pm.runs \ {c}
          PROVE  p <= r.start \/ r.end <= p
      BY <2>1 DEF WellFormed, Apart, AnyRun
    <3> QED
      BY <2>4, <2>8, <3>1
  <2>11. ASSUME NEW x \in Int, NEW s, NEW q
         PROVE  Says(new.runs, x, s, q) <=> Says(pm.runs, x, s, q)
    <3>1. Covers(c, x) <=> Covers(lt, x) \/ Covers(rt, x)
      BY <2>1, <2>3, <2>4 DEF Covers, AnyRun
    <3> QED
      BY <2>4, <2>8, <3>1 DEF Says
  <2>12. ASSUME NEW b \in Int, \A r \in pm.runs : b <= r.start \/ r.end <= b
         PROVE  \A r \in new.runs : b <= r.start \/ r.end <= b
    BY <2>1, <2>3, <2>4, <2>8, <2>12 DEF AnyRun
  <2>13. WellFormed(new)
    BY <2>8, <2>9 DEF WellFormed
  <2> QED
    BY <2>8, <2>10, <2>11, <2>12, <2>13 DEF new
<1> QED
  BY <1>2, <1>3

(* set_page_range, for every map and range: the pages lo..hi-1 get the new state and protection *)
(* (or become free), every other page keeps what it had, and the cache is dropped.              *)
LEMMA SetRangeSafe ==
  ASSUME NEW pm, WellFormed(pm), NEW lo \in Int, NEW hi \in Int, lo < hi,
         NEW state \in {"free", "reserved", "committed"}, NEW protect \in SUBSET Rights
  PROVE  /\ WellFormed(SetRange(pm, lo, hi, state, protect))
         /\ SetRange(pm, lo, hi, state, protect).cache = {}
         /\ SetsExactly(pm.runs, SetRange(pm, lo, hi, state, protect).runs, lo, hi, state, protect)
<1> DEFINE bare == BumpCache(pm)
           cut1 == SplitAt(bare, lo)
           cut  == SplitAt(cut1, hi)
           kept == {r \in cut.runs : ~(lo <= r.start /\ r.start < hi)}
           Like(r) == r.state = state /\ r.protect = protect
           left == {r \in Floor(kept, lo - 1) : r.end = lo /\ Like(r)}
           right == {r \in kept : r.start = hi /\ Like(r)}
           from == IF left = {} THEN lo ELSE (CHOOSE r \in left : TRUE).start
           to   == IF right = {} THEN hi ELSE (CHOOSE r \in right : TRUE).end
           run  == [start |-> from, end |-> to, state |-> state, protect |-> protect]
           runs == IF ~Stored(state) THEN kept ELSE (kept \ (left \cup right)) \cup {run}
           new  == SetRange(pm, lo, hi, state, protect)
<1>1. WellFormed(bare) /\ bare.cache = {} /\ bare.runs = pm.runs
  BY DEF BumpCache, WellFormed
<1> HIDE DEF bare
<1>2. WellFormed(cut1) /\ cut1.cache = {} /\ (\A r \in cut1.runs : lo <= r.start \/ r.end <= lo)
      /\ \A x \in Int : \A s, q : Says(cut1.runs, x, s, q) <=> Says(pm.runs, x, s, q)
  BY <1>1, SplitAtSafe
<1> HIDE DEF cut1
<1>3. /\ WellFormed(cut) /\ cut.cache = {}
      /\ \A r \in cut.runs : hi <= r.start \/ r.end <= hi
      /\ \A r \in cut.runs : lo <= r.start \/ r.end <= lo
      /\ \A x \in Int : \A s, q : Says(cut.runs, x, s, q) <=> Says(pm.runs, x, s, q)
  BY <1>2, SplitAtSafe
<1>4. new = [cut EXCEPT !.runs = runs]
  BY DEF SetRange, cut1, bare
<1> HIDE DEF cut, new
<1>5. \A r \in cut.runs : r \in AnyRun /\ r.start \in Int /\ r.end \in Int /\ r.start < r.end
  BY <1>3 DEF WellFormed, Apart, AnyRun
<1>6. /\ \A r \in kept : r \in cut.runs /\ (r.end <= lo \/ hi <= r.start)
      /\ \A r \in cut.runs : r \notin kept => lo <= r.start /\ r.end <= hi
  BY <1>3, <1>5
<1>7. \A r, q \in kept : q = r \/ q.end <= r.start \/ r.end <= q.start
  BY <1>3, <1>6 DEF WellFormed, Apart
<1> HIDE DEF kept
<1>8. ASSUME NEW x \in Int, NEW s, NEW q
      PROVE  /\ ~(lo <= x /\ x < hi) => (Says(kept, x, s, q) <=> Says(pm.runs, x, s, q))
             /\ lo <= x /\ x < hi => ~Says(kept, x, s, q)
  <2>1. ASSUME ~(lo <= x /\ x < hi), NEW r \in cut.runs, Covers(r, x)
        PROVE  r \in kept
    BY <2>1, <1>5, <1>6 DEF Covers
  <2>2. ASSUME lo <= x, x < hi, NEW r \in kept
        PROVE  ~Covers(r, x)
    BY <2>2, <1>5, <1>6 DEF Covers
  <2> QED
    BY <1>3, <1>6, <2>1, <2>2 DEF Says
<1>9. CASE state = "free"
  <2>1. new.runs = kept /\ new.cache = {} /\ new \in [runs : SUBSET AnyRun, cache : SUBSET AnyRun]
    BY <1>3, <1>4, <1>5, <1>6, <1>9 DEF WellFormed, Stored
  <2>2. WellFormed(new)
    BY <2>1, <1>5, <1>6, <1>7 DEF WellFormed, Apart
  <2> QED
    BY <2>1, <2>2, <1>8, <1>9 DEF new, SetsExactly
<1>10. CASE state # "free"
  <2>1. left \subseteq kept /\ right \subseteq kept
    BY DEF Floor
  <2>2. (\A r \in left : r.end = lo /\ Like(r)) /\ (\A r \in right : r.start = hi /\ Like(r))
    OBVIOUS
  <2>3. from \in Int /\ from <= lo /\ (left = {} => from = lo)
        /\ (left # {} => \E l \in left : from = l.start /\ left = {l})
    <3>1. CASE left = {}
      BY <3>1
    <3>2. CASE left # {}
      <4>1. PICK l \in left : l = CHOOSE r \in left : TRUE
        BY <3>2
      <4>2. from = l.start
        BY <3>2, <4>1
      <4>3. \A r \in left : r = l
        BY <1>5, <1>6, <1>7, <2>1, <2>2
      <4>4. l.start \in Int /\ l.start < lo
        BY <1>5, <1>6, <2>1, <2>2
      <4>5. left = {l}
        BY <4>3
      <4> HIDE DEF left, from
      <4> QED
        BY <3>2, <4>2, <4>4, <4>5
    <3> QED
      BY <3>1, <3>2
  <2>4. to \in Int /\ hi <= to /\ (right = {} => to = hi)
        /\ (right # {} => \E l \in right : to = l.end /\ right = {l})
    <3>1. CASE right = {}
      BY <3>1
    <3>2. CASE right # {}
      <4>1. PICK l \in right : l = CHOOSE r \in right : TRUE
        BY <3>2
      <4>2. to = l.end
        BY <3>2, <4>1
      <4>3. \A r \in right : r = l
        BY <1>5, <1>6, <1>7, <2>1, <2>2
      <4>4. l.end \in Int /\ hi < l.end
        BY <1>5, <1>6, <2>1, <2>2
      <4>5. right = {l}
        BY <4>3
      <4> HIDE DEF right, to
      <4> QED
        BY <3>2, <4>2, <4>4, <4>5
    <3> QED
      BY <3>1, <3>2
  <2> HIDE DEF left, right, from, to
  <2>5. /\ run \in AnyRun /\ run.start = from /\ run.end = to
        /\ run.state = state /\ run.protect = protect
    BY <1>10, <2>3, <2>4 DEF AnyRun
  <2> DEFINE rest == kept \ (left \cup right)
  <2>6. ASSUME NEW r \in rest
        PROVE  r.end <= from \/ to <= r.start
    <3>1. r.start \in Int /\ r.end \in Int /\ r.start < r.end /\ (r.end <= lo \/ hi <= r.start)
      BY <2>6, <1>5, <1>6
    <3>2. CASE r.end <= lo
      <4>1. CASE left = {}
        BY <3>2, <4>1, <2>3
      <4>2. CASE left # {}
        <5>1. PICK l \in left : from = l.start
          BY <4>2, <2>3
        <5>2. l \in kept /\ r \in kept /\ r # l
          BY <5>1, <2>1, <2>6
        <5>3. l.end = lo /\ l.start \in Int
          BY <5>1, <5>2, <2>2, <1>5, <1>6
        <5>4. r.end <= l.start \/ l.end <= r.start
          BY <5>2, <1>7
        <5> QED
          BY <3>1, <3>2, <5>1, <5>3, <5>4
      <4> QED
        BY <4>1, <4>2
    <3>3. CASE hi <= r.start
      <4>1. CASE right = {}
        BY <3>3, <4>1, <2>4
      <4>2. CASE right # {}
        <5>1. PICK l \in right : to = l.end
          BY <4>2, <2>4
        <5>2. l \in kept /\ r \in kept /\ r # l
          BY <5>1, <2>1, <2>6
        <5>3. l.start = hi /\ l.end \in Int
          BY <5>1, <5>2, <2>2, <1>5, <1>6
        <5>4. r.end <= l.start \/ l.end <= r.start
          BY <5>2, <1>7
        <5> QED
          BY <3>1, <3>3, <5>1, <5>3, <5>4
      <4> QED
        BY <4>1, <4>2
    <3> QED
      BY <3>1, <3>2, <3>3
  <2> HIDE DEF run
  <2>7. new.runs = rest \cup {run} /\ new.cache = {} /\ new \in [runs : SUBSET AnyRun, cache : SUBSET AnyRun]
    BY <1>3, <1>4, <1>5, <1>6, <1>10, <2>5 DEF WellFormed, Stored
  <2>8. Apart(new.runs)
    <3>1. run.start < run.end
      BY <2>3, <2>4, <2>5
    <3>2. ASSUME NEW r \in rest, NEW q \in rest
          PROVE  r.start < r.end /\ (q = r \/ q.end <= r.start \/ r.end <= q.start)
      BY <1>5, <1>6, <1>7
    <3> HIDE DEF rest
    <3> QED
      BY <3>1, <3>2, <2>5, <2>6, <2>7 DEF Apart
  <2>9. WellFormed(new)
    BY <2>7, <2>8 DEF WellFormed
  <2>10. ASSUME NEW x \in Int, NEW s, NEW q
         PROVE  Says(new.runs, x, s, q) <=>
                  IF lo <= x /\ x < hi THEN s = state /\ q = protect ELSE Says(pm.runs, x, s, q)
    <3>1. CASE lo <= x /\ x < hi
      <4>1. Covers(run, x)
        BY <3>1, <2>3, <2>4, <2>5 DEF Covers
      <4>2. \A r \in rest : ~Covers(r, x)
        BY <3>1, <1>5, <1>6 DEF Covers
      <4> HIDE DEF rest
      <4> QED
        BY <3>1, <4>1, <4>2, <2>5, <2>7 DEF Says
    <3>2. CASE ~(lo <= x /\ x < hi)
      <4>1. Covers(run, x) => \E l \in left \cup right : Covers(l, x)
        <5>1. ASSUME Covers(run, x), x < lo
              PROVE  \E l \in left : Covers(l, x)
          BY <5>1, <2>2, <2>3, <2>5 DEF Covers
        <5>2. ASSUME Covers(run, x), hi <= x
              PROVE  \E l \in right : Covers(l, x)
          BY <5>2, <2>2, <2>4, <2>5 DEF Covers
        <5> QED
          BY <3>2, <5>1, <5>2
      <4>2. \A l \in left \cup right : Covers(l, x) => Covers(run, x)
        <5>1. ASSUME NEW l \in left, Covers(l, x)
              PROVE  Covers(run, x)
          <6>1. from = l.start
            BY <5>1, <2>3
          <6> QED
            BY <5>1, <6>1, <2>2, <2>3, <2>4, <2>5, <1>5, <1>6, <2>1 DEF Covers
        <5>2. ASSUME NEW l \in right, Covers(l, x)
              PROVE  Covers(run, x)
          <6>1. to = l.end
            BY <5>2, <2>4
          <6> QED
            BY <5>2, <6>1, <2>2, <2>3, <2>4, <2>5, <1>5, <1>6, <2>1 DEF Covers
        <5> QED
          BY <5>1, <5>2
      <4>3. Says(kept, x, s, q) <=> Says(pm.runs, x, s, q)
        BY <3>2, <1>8
      <4>4. Says(new.runs, x, s, q) <=> Says(kept, x, s, q)
        BY <4>1, <4>2, <2>1, <2>2, <2>5, <2>7 DEF Says
      <4> QED
        BY <3>2, <4>3, <4>4
    <3> QED
      BY <3>1, <3>2
  <2> QED
    BY <2>7, <2>9, <2>10, <1>10 DEF new, SetsExactly
<1> QED
  BY <1>9, <1>10

-----------------------------------------------------------------------------
(* Every span is a non-empty stretch of the address space. *)
LEMMA SpanFacts ==
  /\ \A s \in Spans : s[1] \in Int /\ s[2] \in Int /\ First <= s[1] /\ s[1] < s[2] /\ s[2] <= Last + 1
  /\ Layout \subseteq Spans
BY GuestMemoryAssumption DEF Spans, Pages

(* The protections guests and the loader pass are sets of rights. *)
LEMMA ProtectFacts ==
  /\ Protects \subseteq SUBSET Rights
  /\ PAGE_NOACCESS \in SUBSET Rights
  /\ \A m \in Perms : ProtectFromRwx(m) \in SUBSET Rights
<1>1. SupportedProtects \subseteq SUBSET Rights
  BY DEF SupportedProtects, Rights
<1> QED
  BY <1>1, GuestMemoryAssumption DEF PAGE_NOACCESS, ProtectFromRwx, Rights

(* A permission check changes at most the cache, and caches a run of the map. *)
LEMMA CheckedSafe ==
  ASSUME NEW pm, WellFormed(pm), NEW lo \in Int, NEW hi \in Int, NEW kind
  PROVE  WellFormed(Checked(pm, lo, hi, kind)) /\ Checked(pm, lo, hi, kind).runs = pm.runs
<1> DEFINE walked == {p \in lo..(hi - 1) : Allowed(pm, lo, p + 1, kind)}
           passed == UNION {Lookup(pm, p) : p \in walked}
           cache  == {r \in passed : \A p \in walked : p < r.end}
<1>1. CASE walked = {}
  BY <1>1 DEF Checked
<1>2. CASE walked # {}
  <2>1. Checked(pm, lo, hi, kind) = [pm EXCEPT !.cache = cache]
    BY <1>2 DEF Checked
  <2>2. \A p \in walked : p \in Int
    OBVIOUS
  <2> HIDE DEF walked
  <2>3. \A r \in passed : r \in pm.runs /\ \E p \in walked : Covers(r, p)
    BY <2>2, LookupIsCover
  <2>4. ASSUME NEW r \in cache, NEW q \in cache
        PROVE  r = q
    <3>1. PICK x \in walked : Covers(r, x)
      BY <2>3
    <3>2. PICK y \in walked : Covers(q, y)
      BY <2>3
    <3>3. r \in pm.runs /\ q \in pm.runs /\ x < q.end /\ y < r.end
      BY <2>3
    <3>4. r.start \in Int /\ r.end \in Int /\ q.start \in Int /\ q.end \in Int /\ x \in Int /\ y \in Int
      BY <3>3, <2>2 DEF WellFormed, AnyRun
    <3>5. Covers(r, y) \/ Covers(q, x)
      BY <3>1, <3>2, <3>3, <3>4 DEF Covers
    <3> QED
      BY <3>1, <3>2, <3>3, <3>4, <3>5, CoverIsUnique
  <2>5. cache \subseteq pm.runs
    BY <2>3
  <2> HIDE DEF cache
  <2> QED
    BY <2>1, <2>4, <2>5 DEF WellFormed
<1> QED
  BY <1>1, <1>2

(* What a page may be used for depends on the runs only, never on what is cached. *)
LEMMA CacheIsInvisible ==
  ASSUME NEW a, NEW b, WellFormed(a), WellFormed(b), a.runs = b.runs, NEW p \in Int, NEW kind
  PROVE  HasRight(a, p, kind) <=> HasRight(b, p, kind)
BY LookupIsCover DEF HasRight

-----------------------------------------------------------------------------
(* The inductive core: a well-formed page map, and allocations that are stretches of pages. *)
Core ==
    /\ WellFormed(pages)
    /\ vad \subseteq {e \in Extents : e.base < e.end}

(* Rounding to the granularity goes down, and up, and never the other way. *)
LEMMA AlignFacts ==
  ASSUME NEW x \in Int
  PROVE  AlignDown(x) \in Int /\ AlignDown(x) <= x /\ AlignUp(x) \in Int /\ x <= AlignUp(x)
<1>1. Gran \in Int /\ Gran > 0
  BY GuestMemoryAssumption
<1>2. ASSUME NEW y \in Int
      PROVE  y % Gran \in 0..(Gran - 1)
  BY <1>1
<1> QED
  BY <1>1, <1>2 DEF AlignDown, AlignUp

(* An aligned reservation is a non-empty stretch, whichever way its place was chosen. *)
LEMMA AllocateReserves ==
  ASSUME Allocate
  PROVE  \E lo, hi \in Int, commit \in BOOLEAN, q \in Protects :
            lo < hi /\ Reserve(lo, hi, commit, q)
<1>1. ASSUME NEW commit \in BOOLEAN, NEW q \in Protects, NEW s \in Spans,
             ReserveAt(s[1], s[2], commit, q)
      PROVE  \E lo, hi \in Int : lo < hi /\ Reserve(lo, hi, commit, q)
  <2>1. AlignDown(s[1]) \in Int /\ AlignUp(s[2]) \in Int /\ AlignDown(s[1]) < AlignUp(s[2])
    BY SpanFacts, AlignFacts
  <2> QED
    BY <1>1, <2>1 DEF ReserveAt
<1>2. ASSUME NEW commit \in BOOLEAN, NEW q \in Protects, NEW size \in 1..(Last + 1 - First),
             ReserveAnywhere(size, commit, q)
      PROVE  \E lo, hi \in Int : lo < hi /\ Reserve(lo, hi, commit, q)
  <2>1. AlignUp(size) \in Int /\ 0 < AlignUp(size)
    BY AlignFacts, GuestMemoryAssumption
  <2>2. PICK b \in FindFreeRegion(AlignUp(size)) : Reserve(b, b + AlignUp(size), commit, q)
    BY <1>2 DEF ReserveAnywhere
  <2>3. b \in Int /\ b + AlignUp(size) \in Int /\ b < b + AlignUp(size)
    BY <2>1, GuestMemoryAssumption DEF FindFreeRegion, Pages
  <2> QED
    BY <2>2, <2>3
<1> QED
  BY <1>1, <1>2 DEF Allocate

(* Every call keeps the page map well formed and the allocations inside the space. *)
LEMMA CoreStep ==
  ASSUME Core, [Next]_vars
  PROVE  Core'
<1> USE SpanFacts, ProtectFacts DEF Core
<1>1. ASSUME NEW s \in Layout, NEW m \in Perms, Map(s[1], s[2], m)
      PROVE  Core'
  <2>1. WellFormed(pages')
    BY <1>1, SetRangeSafe DEF Map
  <2>2. Extent(s[1], s[2]) \in {e \in Extents : e.base < e.end}
    BY GuestMemoryAssumption DEF Extent, Extents, Pages
  <2> QED
    BY <1>1, <2>1, <2>2 DEF Map
<1>2. ASSUME Allocate
      PROVE  Core'
  <2>1. PICK lo \in Int, hi \in Int, commit \in BOOLEAN, q \in Protects :
           lo < hi /\ Reserve(lo, hi, commit, q)
    BY <1>2, AllocateReserves
  <2>2. WellFormed(pages')
    BY <2>1, SetRangeSafe DEF Reserve
  <2>3. Extent(lo, hi) \in {e \in Extents : e.base < e.end}
    BY <2>1, GuestMemoryAssumption DEF Reserve, Extent, Extents, Pages
  <2> QED
    BY <2>1, <2>2, <2>3 DEF Reserve
<1>3. ASSUME NEW s \in Spans, NEW q \in Protects, CommitOnly(s[1], s[2], q)
      PROVE  Core'
  BY <1>3, SetRangeSafe DEF CommitOnly
<1>4. ASSUME NEW s \in Spans, Decommit(s[1], s[2])
      PROVE  Core'
  BY <1>4, SetRangeSafe DEF Decommit
<1>5. ASSUME NEW n \in vad, Release(n)
      PROVE  Core'
  <2>1. n.base \in Int /\ n.end \in Int /\ n.base < n.end
    BY GuestMemoryAssumption DEF Extents, Pages
  <2>2. WellFormed(pages')
    BY <1>5, <2>1, SetRangeSafe DEF Release
  <2> QED
    BY <1>5, <2>2 DEF Release
<1>6. ASSUME NEW s \in Spans, NEW q \in Protects, VirtualProtect(s[1], s[2], q)
      PROVE  Core'
  BY <1>6, SetRangeSafe DEF VirtualProtect
<1>7. ASSUME NEW s \in Spans, NEW kind \in {"r", "x"}, Read(s[1], s[2], kind)
      PROVE  Core'
  BY <1>7, CheckedSafe DEF Read
<1>8. ASSUME NEW s \in Spans, Write(s[1], s[2])
      PROVE  Core'
  BY <1>8, CheckedSafe DEF Write
<1>9. ASSUME NEW s \in Spans, Pin(s[1], s[2])
      PROVE  Core'
  BY <1>9 DEF Pin
<1>10. ASSUME NEW t \in pinned, NEW p \in Pages, PinnedStore(t, p)
       PROVE  Core'
  BY <1>10 DEF PinnedStore
<1>11. ASSUME UNCHANGED vars
       PROVE  Core'
  BY <1>11 DEF vars
<1> QED
  BY <1>1, <1>2, <1>3, <1>4, <1>5, <1>6, <1>7, <1>8, <1>9, <1>10, <1>11 DEF Next

(* An empty space is well formed. *)
LEMMA CoreInit ==
  ASSUME Init
  PROVE  Core
BY DEF Init, Core, EmptyMap, WellFormed, Apart

(* The page map is well formed and its cached run current in every reachable state, whatever the *)
(* order of commits, protections, releases, loader maps and checks.                              *)
THEOREM MapSound == Spec => [](Core /\ CacheCoherent)
<1>1. Init => Core
  BY CoreInit
<1>2. Core /\ [Next]_vars => Core'
  BY CoreStep
<1>3. Core => CacheCoherent
  BY DEF Core, WellFormed, CacheCoherent
<1> QED
  BY <1>1, <1>2, <1>3, PTL DEF Spec

-----------------------------------------------------------------------------
(* Steps that leave the generation alone leave runs and arenas alone. *)
LEMMA GenerationTells ==
  ASSUME Core, [Next]_vars
  PROVE  \/ pinned' = {}
         \/ arenas' = arenas /\ pages'.runs = pages.runs
<1> USE SpanFacts DEF Core
<1>1. ASSUME NEW s \in Layout, NEW m \in Perms, Map(s[1], s[2], m)
      PROVE  pinned' = {}
  BY <1>1 DEF Map, BumpGeneration
<1>2. ASSUME Allocate
      PROVE  pinned' = {}
  BY <1>2, AllocateReserves DEF Reserve, BumpGeneration
<1>3. ASSUME NEW s \in Spans, NEW q \in Protects, CommitOnly(s[1], s[2], q)
      PROVE  pinned' = {}
  BY <1>3 DEF CommitOnly, BumpGeneration
<1>4. ASSUME NEW s \in Spans, Decommit(s[1], s[2])
      PROVE  pinned' = {} \/ (arenas' = arenas /\ pages' = pages)
  BY <1>4 DEF Decommit, BumpGeneration
<1>5. ASSUME NEW n \in vad, Release(n)
      PROVE  pinned' = {}
  BY <1>5 DEF Release, BumpGeneration
<1>6. ASSUME NEW s \in Spans, NEW q \in Protects, VirtualProtect(s[1], s[2], q)
      PROVE  pinned' = {}
  BY <1>6 DEF VirtualProtect, BumpGeneration
<1>7. ASSUME NEW s \in Spans, NEW kind \in {"r", "x"}, Read(s[1], s[2], kind)
      PROVE  arenas' = arenas /\ pages'.runs = pages.runs
  BY <1>7, CheckedSafe DEF Read
<1>8. ASSUME NEW s \in Spans, Write(s[1], s[2])
      PROVE  arenas' = arenas /\ pages'.runs = pages.runs
  BY <1>8, CheckedSafe DEF Write
<1>9. ASSUME NEW s \in Spans, Pin(s[1], s[2])
      PROVE  arenas' = arenas /\ pages' = pages
  BY <1>9 DEF Pin
<1>10. ASSUME NEW t \in pinned, NEW p \in Pages, PinnedStore(t, p)
       PROVE  arenas' = arenas /\ pages' = pages
  BY <1>10 DEF PinnedStore
<1>11. ASSUME UNCHANGED vars
       PROVE  arenas' = arenas /\ pages' = pages
  BY <1>11 DEF vars
<1> QED
  BY <1>1, <1>2, <1>3, <1>4, <1>5, <1>6, <1>7, <1>8, <1>9, <1>10, <1>11 DEF Next

(* Only Pin makes a translation. *)
LEMMA OnlyPinPins ==
  ASSUME [Next]_vars
  PROVE  pinned' = {} \/ pinned' = pinned \/ \E s \in Spans : Pin(s[1], s[2])
<1>1. ASSUME NEW s \in Layout, NEW m \in Perms, Map(s[1], s[2], m)
      PROVE  pinned' = {}
  BY <1>1 DEF Map, BumpGeneration
<1>2. ASSUME Allocate
      PROVE  pinned' = {}
  BY <1>2, AllocateReserves DEF Reserve, BumpGeneration
<1> QED
  BY <1>1, <1>2
     DEF Next, CommitOnly, Decommit, Release, VirtualProtect, Read, Write, PinnedStore, BumpGeneration, vars

(* A translation that is still current grants what the page map grants after the step too. *)
LEMMA PinsStep ==
  ASSUME Core, PinsSound, [Next]_vars
  PROVE  PinsSound'
<1> SUFFICES ASSUME NEW t \in pinned'
             PROVE  /\ t.arena \in arenas' /\ t.arena.base <= t.lo /\ t.hi <= t.arena.end
                    /\ \A p \in Span(t.lo, t.hi) :
                         /\ t.r => HasRight(pages', p, "r")
                         /\ t.w => HasRight(pages', p, "w") /\ ~HasRight(pages', p, "x")
  BY DEF PinsSound
<1>1. WellFormed(pages) /\ WellFormed(pages')
  BY CoreStep DEF Core
<1>2. arenas' = arenas /\ pages'.runs = pages.runs
  BY GenerationTells
<1>3. \A p \in Pages, kind \in {"r", "w", "x"} : HasRight(pages', p, kind) <=> HasRight(pages, p, kind)
  BY <1>1, <1>2, CacheIsInvisible, GuestMemoryAssumption DEF Pages
<1>4. \A lo, hi : Span(lo, hi) \subseteq Pages
  BY DEF Span
<1>5. CASE pinned' = pinned
  BY <1>2, <1>3, <1>4, <1>5 DEF PinsSound
<1>6. ASSUME NEW s \in Spans, Pin(s[1], s[2])
      PROVE  /\ t.arena \in arenas' /\ t.arena.base <= t.lo /\ t.hi <= t.arena.end
             /\ \A p \in Span(t.lo, t.hi) :
                  /\ t.r => HasRight(pages', p, "r")
                  /\ t.w => HasRight(pages', p, "w") /\ ~HasRight(pages', p, "x")
  <2>1. PICK a \in ArenaAt(arenas, s[1]) : s[2] <= a.end /\ t = Translation(s[1], s[2], a)
    BY <1>6 DEF Pin
  <2>2. /\ t.lo = s[1] /\ t.hi = s[2] /\ t.arena = a
        /\ t.r = \A p \in Span(s[1], s[2]) : HasRight(pages, p, "r")
        /\ t.w = \A p \in Span(s[1], s[2]) : HasRight(pages, p, "w") /\ ~HasRight(pages, p, "x")
    BY <2>1 DEF Translation
  <2>3. a \in arenas /\ a.base <= s[1]
    BY <2>1 DEF ArenaAt
  <2>4. \A p \in Span(t.lo, t.hi) :
           /\ t.r => HasRight(pages, p, "r")
           /\ t.w => HasRight(pages, p, "w") /\ ~HasRight(pages, p, "x")
    BY <2>2
  <2> QED
    BY <2>1, <2>2, <2>3, <2>4, <1>2, <1>3, <1>4
<1> QED
  BY <1>5, <1>6, OnlyPinPins

(* A translation that still carries the current generation never grants more than the page map *)
(* does: every change of rights or of the arenas bumps the generation in the same call.        *)
THEOREM TranslationsSound == Spec => []PinsSound
<1>1. Init => PinsSound
  BY DEF Init, PinsSound
<1>2. Core /\ PinsSound /\ [Next]_vars => PinsSound'
  BY PinsStep
<1> QED
  BY CoreInit, CoreStep, <1>1, <1>2, PTL DEF Spec

-----------------------------------------------------------------------------
(* A page is found exactly when a run covers it. *)
LEMMA FoundIsCovered ==
  ASSUME NEW pm, WellFormed(pm), NEW p \in Int
  PROVE  Found(pm, p) <=> \E s, q : Says(pm.runs, p, s, q)
BY LookupIsCover DEF Found, Says

(* set_page_range makes the pages it names found, or free, and leaves the others. *)
LEMMA FoundAfterSetRange ==
  ASSUME NEW pm, WellFormed(pm), NEW lo \in Int, NEW hi \in Int, lo < hi,
         NEW state \in {"free", "reserved", "committed"}, NEW protect \in SUBSET Rights,
         NEW p \in Int
  PROVE  Found(SetRange(pm, lo, hi, state, protect), p) <=>
           IF lo <= p /\ p < hi THEN state # "free" ELSE Found(pm, p)
<1> DEFINE new == SetRange(pm, lo, hi, state, protect)
<1>1. WellFormed(new) /\ SetsExactly(pm.runs, new.runs, lo, hi, state, protect)
  BY SetRangeSafe
<1> HIDE DEF new
<1>2. Found(new, p) <=> \E s, q : Says(new.runs, p, s, q)
  BY <1>1, FoundIsCovered
<1>3. Found(pm, p) <=> \E s, q : Says(pm.runs, p, s, q)
  BY FoundIsCovered
<1>4. CASE lo <= p /\ p < hi
  BY <1>1, <1>2, <1>4 DEF new, SetsExactly
<1>5. CASE ~(lo <= p /\ p < hi)
  BY <1>1, <1>2, <1>3, <1>5 DEF new, SetsExactly
<1> QED
  BY <1>4, <1>5

(* Mapping a stretch that meets no arena makes one new arena of exactly that extent. *)
LEMMA MapRangeFresh ==
  ASSUME Core, arenas = vad, NEW lo \in Int, NEW hi \in Int,
         First <= lo, lo < hi, hi <= Last + 1, ~\E n \in vad : Overlap(n, lo, hi)
  PROVE  MapRange(lo, hi) = vad \cup {Extent(lo, hi)}
<1> DEFINE bare == {p \in Span(lo, hi) : ArenaAt(arenas, p) = {}}
           Run_(s) == Span(s[1], s[2]) \subseteq bare /\ s[1] - 1 \notin bare /\ s[2] \notin bare
           found == {t \in Spans : Run_(t)}
<1>1. First \in Int /\ Last \in Int
  BY GuestMemoryAssumption
<1>2. \A n \in vad : n.base \in Int /\ n.end \in Int /\ n.base < n.end
  BY <1>1 DEF Core, Extents, Pages
<1>3. \A n \in vad : n.end <= lo \/ hi <= n.base
  BY <1>2 DEF Overlap
<1>4. bare = Span(lo, hi)
  BY <1>1, <1>2, <1>3 DEF ArenaAt, Span, Pages
<1>5. \A p \in Int : p \in bare <=> lo <= p /\ p < hi
  BY <1>1, <1>4 DEF Span, Pages
<1> HIDE DEF bare
<1>6. \A s \in found : s[1] = lo /\ s[2] = hi
  <2> SUFFICES ASSUME NEW s \in found
               PROVE  s[1] = lo /\ s[2] = hi
    OBVIOUS
  <2>1. s[1] \in Int /\ s[2] \in Int /\ First <= s[1] /\ s[1] < s[2] /\ s[2] <= Last + 1
    BY SpanFacts
  <2>2. s[1] \in Span(s[1], s[2]) /\ s[2] - 1 \in Span(s[1], s[2])
    BY <1>1, <2>1 DEF Span, Pages
  <2>3. s[1] \in bare /\ s[2] - 1 \in bare /\ s[1] - 1 \notin bare /\ s[2] \notin bare
    BY <2>2
  <2> QED
    BY <1>5, <2>1, <2>3
<1>7. <<lo, hi>> \in found
  <2>1. <<lo, hi>> \in Spans
    BY <1>1 DEF Spans, Pages
  <2>2. Span(lo, hi) \subseteq bare /\ lo - 1 \notin bare /\ hi \notin bare
    BY <1>4, <1>5
  <2> QED
    BY <2>1, <2>2
<1>8. {Extent(s[1], s[2]) : s \in found} = {Extent(lo, hi)}
  <2> HIDE DEF found
  <2> QED
    BY <1>6, <1>7
<1>9. Extent(lo, hi) \notin arenas
  <2>1. Extent(lo, hi).base = lo /\ Extent(lo, hi).end = hi
    BY DEF Extent
  <2> QED
    BY <1>3, <2>1
<1>10. MapRange(lo, hi) = arenas \cup {Extent(s[1], s[2]) : s \in found}
  BY <1>9 DEF MapRange, bare
<1> QED
  BY <1>8, <1>10

(* Taking a free stretch as a new allocation keeps storage and allocations in step. *)
LEMMA StorageTaken ==
  ASSUME Core, StorageMatches, NEW lo \in Int, NEW hi \in Int,
         First <= lo, lo < hi, hi <= Last + 1, RegionIsFree(lo, hi),
         NEW state \in {"reserved", "committed"}, NEW protect \in SUBSET Rights,
         arenas' = MapRange(lo, hi), vad' = vad \cup {Extent(lo, hi)},
         pages' = SetRange(pages, lo, hi, state, protect)
  PROVE  StorageMatches'
<1>1. First \in Int /\ Last \in Int /\ WellFormed(pages)
  BY GuestMemoryAssumption DEF Core
<1>2. arenas' = vad'
  BY MapRangeFresh DEF RegionIsFree, StorageMatches
<1>3. Extent(lo, hi).base = lo /\ Extent(lo, hi).end = hi
  BY DEF Extent
<1>4. \A n \in vad : n.base \in Int /\ n.end \in Int /\ (n.end <= lo \/ hi <= n.base)
  BY <1>1 DEF Core, Extents, Pages, RegionIsFree, Overlap
<1>5. \A m, n \in vad' : m = n \/ m.end <= n.base \/ n.end <= m.base
  BY <1>3, <1>4 DEF StorageMatches
<1>6. ASSUME NEW p \in Pages
      PROVE  Found(pages', p) <=> NodeAt(p)' # {}
  <2>1. p \in Int
    BY <1>1 DEF Pages
  <2>2. Found(pages', p) <=> (lo <= p /\ p < hi) \/ Found(pages, p)
    BY <1>1, <2>1, FoundAfterSetRange
  <2>3. Found(pages, p) <=> NodeAt(p) # {}
    BY DEF StorageMatches
  <2>4. NodeAt(p)' # {} <=> NodeAt(p) # {} \/ (lo <= p /\ p < hi)
    BY <1>3 DEF NodeAt
  <2> QED
    BY <2>2, <2>3, <2>4
<1> QED
  BY <1>2, <1>5, <1>6 DEF StorageMatches

(* Changing pages inside one allocation leaves every page as found as it was. *)
LEMMA StorageKept ==
  ASSUME Core, StorageMatches, NEW s \in Spans, InOneNode(s[1], s[2]),
         NEW state \in {"reserved", "committed"}, NEW protect \in SUBSET Rights,
         arenas' = arenas, vad' = vad, pages' = SetRange(pages, s[1], s[2], state, protect)
  PROVE  StorageMatches'
<1>1. First \in Int /\ Last \in Int /\ WellFormed(pages)
  BY GuestMemoryAssumption DEF Core
<1>2. ASSUME NEW p \in Pages
      PROVE  Found(pages', p) <=> NodeAt(p)' # {}
  <2>1. p \in Int
    BY <1>1 DEF Pages
  <2>2. Found(pages', p) <=> (s[1] <= p /\ p < s[2]) \/ Found(pages, p)
    BY <1>1, <2>1, SpanFacts, FoundAfterSetRange
  <2>3. s[1] <= p /\ p < s[2] => Found(pages, p)
    BY DEF InOneNode, Span
  <2> QED
    BY <2>2, <2>3 DEF StorageMatches, NodeAt
<1> QED
  BY <1>2 DEF StorageMatches

(* A step that touches the page map's cache at most. *)
LEMMA StorageUntouched ==
  ASSUME Core, Core', StorageMatches, arenas' = arenas, vad' = vad, pages'.runs = pages.runs
  PROVE  StorageMatches'
<1>1. ASSUME NEW p \in Pages
      PROVE  Found(pages', p) <=> Found(pages, p)
  BY LookupIsCover, GuestMemoryAssumption DEF Core, Found, Pages
<1> QED
  BY <1>1 DEF StorageMatches, NodeAt

(* Every call keeps allocations, arenas and page map in step. *)
LEMMA StorageStep ==
  ASSUME ~OccupiedMaps, Core, StorageMatches, [Next]_vars
  PROVE  StorageMatches'
<1> USE SpanFacts, ProtectFacts
<1>0. Core'
  BY CoreStep
<1>1. ASSUME NEW s \in Layout, NEW m \in Perms, Map(s[1], s[2], m)
      PROVE  StorageMatches'
  <2>1. RegionIsFree(s[1], s[2])
    BY <1>1 DEF Map
  <2>2. vad' = vad \cup {Extent(s[1], s[2])}
    <3>1. \A n \in vad : n.base # s[1]
      BY <2>1, GuestMemoryAssumption DEF Core, Extents, Pages, RegionIsFree, Overlap
    <3> QED
      BY <1>1, <2>1, <3>1 DEF Map, RegionIsFree
  <2> QED
    BY <1>1, <2>1, <2>2, StorageTaken DEF Map
<1>2. ASSUME Allocate
      PROVE  StorageMatches'
  <2>1. PICK lo \in Int, hi \in Int, commit \in BOOLEAN, q \in Protects :
           lo < hi /\ Reserve(lo, hi, commit, q)
    BY <1>2, AllocateReserves
  <2>2. CASE commit
    BY <2>1, <2>2, StorageTaken DEF Reserve
  <2>3. CASE ~commit
    BY <2>1, <2>3, StorageTaken DEF Reserve
  <2> QED
    BY <2>2, <2>3
<1>3. ASSUME NEW s \in Spans, NEW q \in Protects, CommitOnly(s[1], s[2], q)
      PROVE  StorageMatches'
  <2>1. ArenaAt(arenas, s[1]) # {}
    BY <1>3 DEF CommitOnly, InOneNode, NodeAt, ArenaAt, StorageMatches
  <2> QED
    BY <1>3, <2>1, StorageKept DEF CommitOnly
<1>4. ASSUME NEW s \in Spans, Decommit(s[1], s[2])
      PROVE  StorageMatches'
  <2>1. CASE pages' = pages /\ arenas' = arenas /\ vad' = vad
    BY <1>0, <2>1, StorageUntouched
  <2>2. CASE /\ pages' = SetRange(pages, s[1], s[2], "reserved", PAGE_NOACCESS)
             /\ arenas' = arenas /\ vad' = vad
    BY <1>4, <2>2, StorageKept DEF Decommit
  <2> QED
    BY <1>4, <2>1, <2>2 DEF Decommit
<1>5. ASSUME NEW n \in vad, Release(n)
      PROVE  StorageMatches'
  <2>1. n.base \in Int /\ n.end \in Int /\ n.base < n.end /\ n = Extent(n.base, n.end)
    BY GuestMemoryAssumption DEF Core, Extents, Pages, Extent
  <2>2. arenas' = vad'
    BY <1>5, <2>1 DEF Release, UnmapExact, StorageMatches
  <2>3. \A a, b \in vad' : a = b \/ a.end <= b.base \/ b.end <= a.base
    BY <1>5 DEF Release, StorageMatches
  <2>4. ASSUME NEW p \in Pages
        PROVE  Found(pages', p) <=> NodeAt(p)' # {}
    <3>1. p \in Int
      BY GuestMemoryAssumption DEF Pages
    <3>2. Found(pages', p) <=> ~(n.base <= p /\ p < n.end) /\ Found(pages, p)
      BY <1>5, <2>1, <3>1, FoundAfterSetRange DEF Release, Core
    <3>3. \A m \in vad : m # n /\ m.base <= p /\ p < m.end => ~(n.base <= p /\ p < n.end)
      BY <2>1, <3>1, GuestMemoryAssumption DEF StorageMatches, Core, Extents, Pages
    <3>4. NodeAt(p)' = NodeAt(p) \ {n}
      BY <1>5 DEF Release, NodeAt
    <3>5. Found(pages, p) <=> NodeAt(p) # {}
      BY DEF StorageMatches
    <3> QED
      BY <3>2, <3>3, <3>4, <3>5 DEF NodeAt
  <2> QED
    BY <2>2, <2>3, <2>4 DEF StorageMatches
<1>6. ASSUME NEW s \in Spans, NEW q \in Protects, VirtualProtect(s[1], s[2], q)
      PROVE  StorageMatches'
  BY <1>6, StorageKept DEF VirtualProtect
<1>7. ASSUME NEW s \in Spans, NEW kind \in {"r", "x"}, Read(s[1], s[2], kind)
      PROVE  StorageMatches'
  BY <1>0, <1>7, CheckedSafe, StorageUntouched DEF Read, Core
<1>8. ASSUME NEW s \in Spans, Write(s[1], s[2])
      PROVE  StorageMatches'
  BY <1>0, <1>8, CheckedSafe, StorageUntouched DEF Write, Core
<1>9. ASSUME NEW s \in Spans, Pin(s[1], s[2])
      PROVE  StorageMatches'
  BY <1>0, <1>9, StorageUntouched DEF Pin
<1>10. ASSUME NEW t \in pinned, NEW p \in Pages, PinnedStore(t, p)
       PROVE  StorageMatches'
  BY <1>0, <1>10, StorageUntouched DEF PinnedStore
<1>11. ASSUME UNCHANGED vars
       PROVE  StorageMatches'
  BY <1>0, <1>11, StorageUntouched DEF vars
<1> QED
  BY <1>1, <1>2, <1>3, <1>4, <1>5, <1>6, <1>7, <1>8, <1>9, <1>10, <1>11 DEF Next

(* As long as the loader maps free ranges, allocations are disjoint, each has exactly its own     *)
(* arena, and the page map covers exactly the allocated pages: a release leaves no storage behind. *)
THEOREM StorageInStep == ASSUME ~OccupiedMaps PROVE Spec => []StorageMatches
<1>1. Init => StorageMatches
  BY DEF Init, StorageMatches, NodeAt, Found, Lookup, Floor, EmptyMap
<1>2. Core /\ StorageMatches /\ [Next]_vars => StorageMatches'
  BY StorageStep
<1> QED
  BY CoreInit, CoreStep, <1>1, <1>2, PTL DEF Spec

-----------------------------------------------------------------------------
(* The allocation that owns page p, by its base, and what the guest sees of p, of any tables. *)
OwnerOf(V, p) == Max({0} \cup {n.base : n \in {m \in V : m.base <= p /\ p < m.end}})

Seen(pm, V, d, p) ==
    IF Found(pm, p)
    THEN LET r == CHOOSE r \in Lookup(pm, p) : TRUE
         IN  [state |-> r.state, owner |-> OwnerOf(V, p), protect |-> r.protect, data |-> d[p]]
    ELSE [state |-> "free", owner |-> 0, protect |-> {}, data |-> 0]

(* The refinement mapping, before and after a step. *)
LEMMA ViewIsSeen ==
  ASSUME NEW p
  PROVE  View(p) = Seen(pages, vad, data, p) /\ View(p)' = Seen(pages', vad', data', p)
BY DEF View, Seen, OwnerOf, NodeAt

(* What the runs say of a page is what the guest sees of it, cached or not. *)
LEMMA SeenOf ==
  ASSUME NEW pm, WellFormed(pm), NEW V, NEW d, NEW p \in Int
  PROVE  /\ \A s, q : Says(pm.runs, p, s, q) =>
              Seen(pm, V, d, p) = [state |-> s, owner |-> OwnerOf(V, p), protect |-> q, data |-> d[p]]
         /\ ~Found(pm, p) =>
              Seen(pm, V, d, p) = [state |-> "free", owner |-> 0, protect |-> {}, data |-> 0]
         /\ Found(pm, p) <=> \E s, q : Says(pm.runs, p, s, q)
<1>1. ASSUME NEW s, NEW q, Says(pm.runs, p, s, q)
      PROVE  Seen(pm, V, d, p) = [state |-> s, owner |-> OwnerOf(V, p), protect |-> q, data |-> d[p]]
  <2>1. PICK r \in pm.runs : Covers(r, p) /\ r.state = s /\ r.protect = q
    BY <1>1 DEF Says
  <2>2. Lookup(pm, p) = {r}
    BY <2>1, LookupIsCover, CoverIsUnique
  <2>3. (CHOOSE x \in Lookup(pm, p) : TRUE) = r
    BY <2>2
  <2> QED
    BY <2>1, <2>2, <2>3 DEF Seen, Found
<1>2. ~Found(pm, p) =>
        Seen(pm, V, d, p) = [state |-> "free", owner |-> 0, protect |-> {}, data |-> 0]
  BY DEF Seen
<1> QED
  BY <1>1, <1>2, FoundIsCovered

(* The same, for one page. *)
LEMMA SaysSeen ==
  ASSUME NEW pm, WellFormed(pm), NEW V, NEW d, NEW p \in Int, NEW s, NEW q, Says(pm.runs, p, s, q)
  PROVE  Seen(pm, V, d, p) = [state |-> s, owner |-> OwnerOf(V, p), protect |-> q, data |-> d[p]]
BY SeenOf

(* The owner of a page in the map is that of the tracked allocation around it. *)
LEMMA FoundOwner ==
  ASSUME NEW pm, WellFormed(pm), NEW V, NEW d, NEW p \in Int, Found(pm, p)
  PROVE  Seen(pm, V, d, p).owner = OwnerOf(V, p)
<1>1. PICK s, q : Says(pm.runs, p, s, q)
  BY SeenOf
<1>2. Seen(pm, V, d, p) = [state |-> s, owner |-> OwnerOf(V, p), protect |-> q, data |-> d[p]]
  BY <1>1, SaysSeen
<1> QED
  BY <1>2

(* A page that is not in the map is seen as free. *)
LEMMA UnfoundSeen ==
  ASSUME NEW pm, WellFormed(pm), NEW V, NEW d, NEW p \in Int, ~Found(pm, p)
  PROVE  Seen(pm, V, d, p) = [state |-> "free", owner |-> 0, protect |-> {}, data |-> 0]
BY SeenOf

(* Only committed and reserved pages are found. *)
LEMMA SaidStates ==
  ASSUME NEW pm, WellFormed(pm), NEW p, NEW s, NEW q, Says(pm.runs, p, s, q)
  PROVE  s # "free"
BY DEF WellFormed, AnyRun, Says

(* Allocations that do not overlap: the one that holds a page owns it. *)
LEMMA OwnerIsBase ==
  ASSUME NEW V, V \subseteq {e \in Extents : e.base < e.end},
         \A m, n \in V : m = n \/ m.end <= n.base \/ n.end <= m.base,
         NEW n \in V, NEW p \in Int, n.base <= p, p < n.end
  PROVE  OwnerOf(V, p) = n.base /\ n.base \in Pages /\ n.base # 0
<1>1. n.base \in Pages /\ n.base \in Int /\ n.base > 0
  BY GuestMemoryAssumption DEF Extents, Pages
<1>2. {m \in V : m.base <= p /\ p < m.end} = {n}
  BY GuestMemoryAssumption DEF Extents, Pages
<1>3. {0} \cup {m.base : m \in {m \in V : m.base <= p /\ p < m.end}} = {0, n.base}
  BY <1>2
<1>4. Max({0, n.base}) = n.base
  BY <1>1 DEF Max
<1> QED
  BY <1>1, <1>3, <1>4 DEF OwnerOf

(* The pages of a request are an interval of the address space. *)
LEMMA SpanIsInterval ==
  ASSUME NEW lo \in Int, NEW hi \in Int, First <= lo, lo < hi, hi <= Last + 1
  PROVE  /\ Span(lo, hi) = lo..(hi - 1) /\ Span(lo, hi) \in Promised!Intervals
         /\ Span(lo, hi) \subseteq Pages /\ lo \in Span(lo, hi) /\ lo \in Pages
<1>1. Span(lo, hi) = lo..(hi - 1)
  BY GuestMemoryAssumption DEF Span, Pages
<1>2. lo \in First..Last /\ hi - 1 \in First..Last
  BY GuestMemoryAssumption
<1>3. lo..(hi - 1) # {}
  OBVIOUS
<1> QED
  BY <1>1, <1>2, <1>3 DEF Promised!Intervals, Promised!Pages, Pages, Span

(* The guest's view of a page after set_page_range. *)
LEMMA SeenAfterSetRange ==
  ASSUME NEW pm, WellFormed(pm), NEW lo \in Int, NEW hi \in Int, lo < hi,
         NEW state \in {"free", "reserved", "committed"}, NEW protect \in SUBSET Rights,
         NEW V, NEW d, NEW p \in Int
  PROVE  LET new == SetRange(pm, lo, hi, state, protect)
         IN  /\ lo <= p /\ p < hi /\ state # "free" =>
                  Seen(new, V, d, p) = [state |-> state, owner |-> OwnerOf(V, p),
                                        protect |-> protect, data |-> d[p]]
             /\ lo <= p /\ p < hi /\ state = "free" =>
                  Seen(new, V, d, p) = [state |-> "free", owner |-> 0, protect |-> {}, data |-> 0]
             /\ ~(lo <= p /\ p < hi) =>
                  \A W, c : OwnerOf(W, p) = OwnerOf(V, p) /\ c[p] = d[p] => Seen(new, V, d, p) = Seen(pm, W, c, p)
<1> DEFINE new == SetRange(pm, lo, hi, state, protect)
<1>1. WellFormed(new) /\ SetsExactly(pm.runs, new.runs, lo, hi, state, protect)
  BY SetRangeSafe
<1> HIDE DEF new
<1>2. CASE lo <= p /\ p < hi /\ state # "free"
  <2>1. Says(new.runs, p, state, protect)
    BY <1>1, <1>2 DEF SetsExactly
  <2> QED
    BY <1>1, <1>2, <2>1, SeenOf DEF new
<1>3. CASE lo <= p /\ p < hi /\ state = "free"
  <2>1. ~\E s, q : Says(new.runs, p, s, q)
    BY <1>1, <1>3 DEF SetsExactly
  <2>2. ~Found(new, p)
    BY <1>1, <2>1, SeenOf
  <2> QED
    BY <1>1, <1>3, <2>2, SeenOf DEF new
<1>4. CASE ~(lo <= p /\ p < hi)
  <2>1. \A s, q : Says(new.runs, p, s, q) <=> Says(pm.runs, p, s, q)
    BY <1>1, <1>4 DEF SetsExactly
  <2>2. SUFFICES ASSUME NEW W, NEW c, OwnerOf(W, p) = OwnerOf(V, p), c[p] = d[p]
                 PROVE  Seen(new, V, d, p) = Seen(pm, W, c, p)
    BY <1>4 DEF new
  <2>3. CASE Found(pm, p)
    <3>1. PICK s, q : Says(pm.runs, p, s, q)
      BY <2>3, SeenOf
    <3>2. Seen(pm, W, c, p) = [state |-> s, owner |-> OwnerOf(W, p), protect |-> q, data |-> c[p]]
      BY <3>1, SaysSeen
    <3>3. Seen(new, V, d, p) = [state |-> s, owner |-> OwnerOf(V, p), protect |-> q, data |-> d[p]]
      <4>1. Says(new.runs, p, s, q)
        BY <2>1, <3>1
      <4> QED
        BY <1>1, <4>1, SaysSeen
    <3> QED
      BY <2>2, <3>2, <3>3
  <2>4. CASE ~Found(pm, p)
    <3>1. ~Found(new, p)
      BY <1>1, <2>1, <2>4, SeenOf
    <3> QED
      BY <1>1, <2>4, <3>1, SeenOf
  <2> QED
    BY <2>3, <2>4
<1> QED
  BY <1>2, <1>3, <1>4

(* Pages that are not in the map hold zeros, so that a fresh allocation reads as zero. *)
FreeIsZero == \A p \in Pages : ~Found(pages, p) => data[p] = 0

(* A page is found exactly when its state is not free. *)
LEMMA FoundIsNotFree ==
  ASSUME Core, NEW p \in Pages
  PROVE  Found(pages, p) <=> View(p).state # "free"
<1>1. p \in Int /\ WellFormed(pages)
  BY GuestMemoryAssumption DEF Pages, Core
<1>2. CASE Found(pages, p)
  <2>1. PICK s, q : Says(pages.runs, p, s, q)
    BY <1>1, <1>2, SeenOf
  <2> QED
    BY <1>1, <1>2, <2>1, SeenOf, SaidStates, ViewIsSeen
<1>3. CASE ~Found(pages, p)
  BY <1>1, <1>3, SeenOf, ViewIsSeen
<1> QED
  BY <1>2, <1>3

(* A page with the right is committed and its protection grants it. *)
LEMMA RightIsSeen ==
  ASSUME Core, NEW p \in Pages, NEW kind, HasRight(pages, p, kind)
  PROVE  View(p).state = "committed" /\ kind \in View(p).protect /\ Found(pages, p)
<1>1. p \in Int /\ WellFormed(pages)
  BY GuestMemoryAssumption DEF Pages, Core
<1>2. PICK r \in Lookup(pages, p) : r.state = "committed" /\ kind \in r.protect
  BY DEF HasRight
<1>3. Says(pages.runs, p, r.state, r.protect)
  BY <1>1, <1>2, LookupIsCover DEF Says
<1> DEFINE s == r.state
           q == r.protect
<1>4. Says(pages.runs, p, s, q) /\ s = "committed" /\ kind \in q
  BY <1>2, <1>3
<1> HIDE DEF s, q
<1>5. Seen(pages, vad, data, p) = [state |-> s, owner |-> OwnerOf(vad, p), protect |-> q, data |-> data[p]]
  BY <1>1, <1>4, SaysSeen
<1> QED
  BY <1>1, <1>4, <1>5, FoundIsCovered, ViewIsSeen

(* The pages of a request inside one allocation have one owner. *)
LEMMA OneNodeOneOwner ==
  ASSUME Core, StorageMatches, NEW s \in Spans, InOneNode(s[1], s[2])
  PROVE  Promised!OneOwner(Span(s[1], s[2]))
<1>1. PICK n \in vad : n.base <= s[1] /\ s[2] <= n.end
  BY DEF InOneNode, NodeAt
<1>2. Span(s[1], s[2]) \subseteq Pages
  BY DEF Span
<1>3. ASSUME NEW p \in Span(s[1], s[2])
      PROVE  View(p).state # "free" /\ View(p).owner = n.base
  <2>1. p \in Pages /\ p \in Int /\ WellFormed(pages) /\ Found(pages, p)
    BY <1>3, GuestMemoryAssumption DEF Pages, Core, Span, InOneNode
  <2>2. n.base <= p /\ p < n.end
    BY <1>1, <1>3, <2>1, SpanFacts, GuestMemoryAssumption DEF Span, Core, Extents, Pages
  <2>3. OwnerOf(vad, p) = n.base
    BY <2>1, <2>2, OwnerIsBase DEF Core, StorageMatches
  <2>4. PICK st, q : Says(pages.runs, p, st, q)
    BY <2>1, SeenOf
  <2>5. View(p).owner = OwnerOf(vad, p)
    BY <2>1, <2>4, SeenOf, ViewIsSeen
  <2> QED
    BY <2>1, <2>3, <2>5, FoundIsNotFree
<1> QED
  BY <1>2, <1>3 DEF Promised!OneOwner

(* va_commit_only and virtual_protect: the pages named are committed with the new protection. *)
LEMMA CommitStep ==
  ASSUME Core, StorageMatches, NEW s \in Spans, InOneNode(s[1], s[2]),
         NEW q \in SUBSET Rights, vad' = vad, data' = data,
         pages' = SetRange(pages, s[1], s[2], "committed", q)
  PROVE  Promised!Commit(Span(s[1], s[2]), q)
<1>1. WellFormed(pages) /\ s[1] \in Int /\ s[2] \in Int /\ s[1] < s[2]
  BY SpanFacts DEF Core
<1>2. ASSUME NEW p \in Pages, p \notin Span(s[1], s[2])
      PROVE  View(p)' = View(p)
  <2>1. p \in Int /\ ~(s[1] <= p /\ p < s[2])
    BY <1>2, GuestMemoryAssumption DEF Pages, Span
  <2> QED
    BY <1>1, <2>1, SeenAfterSetRange, ViewIsSeen
<1>3. ASSUME NEW p \in Span(s[1], s[2])
      PROVE  View(p)' = [state |-> "committed", owner |-> View(p).owner,
                         protect |-> q, data |-> View(p).data]
  <2>1. p \in Pages /\ p \in Int /\ s[1] <= p /\ p < s[2] /\ Found(pages, p)
    BY <1>3, GuestMemoryAssumption DEF Pages, Span, InOneNode
  <2>2. View(p)' = [state |-> "committed", owner |-> OwnerOf(vad, p), protect |-> q, data |-> data[p]]
    BY <1>1, <2>1, SeenAfterSetRange, ViewIsSeen
  <2>3. PICK st, r : Says(pages.runs, p, st, r)
    BY <1>1, <2>1, SeenOf
  <2>4. View(p).owner = OwnerOf(vad, p) /\ View(p).data = data[p]
    BY <1>1, <2>1, <2>3, SeenOf, ViewIsSeen
  <2> QED
    BY <2>2, <2>4
<1>4. \A p \in Span(s[1], s[2]) : p \in Pages
  BY DEF Span
<1>5. Promised!OneOwner(Span(s[1], s[2]))
  BY OneNodeOneOwner
<1> QED
  BY <1>2, <1>3, <1>4, <1>5 DEF Promised!Commit, Promised!Put, Promised!Page, Promised!Pages, Pages

(* va_decommit: the pages named are reserved again and hold zeros. *)
LEMMA DecommitStep ==
  ASSUME Core, StorageMatches, NEW s \in Spans, InOneNode(s[1], s[2]), vad' = vad,
         \A p \in Pages : data'[p] = IF p \in Span(s[1], s[2]) THEN 0 ELSE data[p],
         pages' = SetRange(pages, s[1], s[2], "reserved", PAGE_NOACCESS)
  PROVE  Promised!Decommit(Span(s[1], s[2]))
<1>1. WellFormed(pages) /\ s[1] \in Int /\ s[2] \in Int /\ s[1] < s[2]
  BY SpanFacts DEF Core
<1>2. ASSUME NEW p \in Pages, p \notin Span(s[1], s[2])
      PROVE  View(p)' = View(p)
  <2>1. p \in Int /\ ~(s[1] <= p /\ p < s[2]) /\ data'[p] = data[p]
    BY <1>2, GuestMemoryAssumption DEF Pages, Span
  <2> QED
    BY <1>1, <2>1, SeenAfterSetRange, ViewIsSeen, ProtectFacts
<1>3. ASSUME NEW p \in Span(s[1], s[2])
      PROVE  View(p)' = [state |-> "reserved", owner |-> View(p).owner, protect |-> {}, data |-> 0]
  <2>1. p \in Pages /\ p \in Int /\ s[1] <= p /\ p < s[2] /\ Found(pages, p) /\ data'[p] = 0
    BY <1>3, GuestMemoryAssumption DEF Pages, Span, InOneNode
  <2>2. View(p)' = [state |-> "reserved", owner |-> OwnerOf(vad, p), protect |-> {}, data |-> 0]
    BY <1>1, <2>1, SeenAfterSetRange, ViewIsSeen, ProtectFacts DEF PAGE_NOACCESS
  <2>3. PICK st, r : Says(pages.runs, p, st, r)
    BY <1>1, <2>1, SeenOf
  <2>4. View(p).owner = OwnerOf(vad, p)
    BY <1>1, <2>1, <2>3, SeenOf, ViewIsSeen
  <2> QED
    BY <2>2, <2>4
<1>4. \A p \in Span(s[1], s[2]) : p \in Pages
  BY DEF Span
<1>5. Promised!OneOwner(Span(s[1], s[2]))
  BY OneNodeOneOwner
<1> QED
  BY <1>2, <1>3, <1>4, <1>5 DEF Promised!Decommit, Promised!Put, Promised!Page, Promised!Pages, Pages

(* mem_map, va_reserve_only and va_reserve_and_commit on free pages are a fresh allocation. *)
LEMMA AllocateStep ==
  ASSUME Core, StorageMatches, FreeIsZero, Core', StorageMatches',
         NEW lo \in Int, NEW hi \in Int, First <= lo, lo < hi, hi <= Last + 1,
         RegionIsFree(lo, hi), NEW state \in {"reserved", "committed"}, NEW q \in SUBSET Rights,
         vad' = vad \cup {Extent(lo, hi)}, data' = data,
         pages' = SetRange(pages, lo, hi, state, q)
  PROVE  Promised!Allocate(Span(lo, hi), state, q)
<1>1. WellFormed(pages)
  BY DEF Core
<1>2. ASSUME NEW p \in Pages, p \notin Span(lo, hi)
      PROVE  View(p)' = View(p)
  <2>1. p \in Int /\ ~(lo <= p /\ p < hi)
    BY <1>2, GuestMemoryAssumption DEF Pages, Span
  <2>2. {m \in vad' : m.base <= p /\ p < m.end} = {m \in vad : m.base <= p /\ p < m.end}
    BY <2>1 DEF Extent
  <2>3. OwnerOf(vad, p) = OwnerOf(vad', p)
    BY <2>2 DEF OwnerOf
  <2> QED
    <3>1. Seen(pages', vad', data', p) = Seen(pages, vad, data, p)
      BY <1>1, <2>1, <2>3, SeenAfterSetRange
    <3> QED
      BY <3>1, ViewIsSeen
<1>3. ASSUME NEW p \in Span(lo, hi)
      PROVE  /\ View(p) = [state |-> "free", owner |-> 0, protect |-> {}, data |-> 0]
             /\ View(p)' = [state |-> state, owner |-> lo, protect |-> q, data |-> 0]
  <2>1. p \in Pages /\ p \in Int /\ lo <= p /\ p < hi /\ ~Found(pages, p)
    BY <1>3, GuestMemoryAssumption DEF Pages, Span, RegionIsFree
  <2>2. View(p) = [state |-> "free", owner |-> 0, protect |-> {}, data |-> 0]
    BY <1>1, <2>1, SeenOf, ViewIsSeen
  <2>3. data'[p] = 0
    BY <2>1 DEF FreeIsZero
  <2>4. OwnerOf(vad', p) = lo
    <3>1. Extent(lo, hi) \in vad' /\ Extent(lo, hi).base = lo /\ Extent(lo, hi).end = hi
      BY DEF Extent
    <3> QED
      BY <2>1, <3>1, OwnerIsBase DEF Core, StorageMatches
  <2>5. View(p)' = [state |-> state, owner |-> OwnerOf(vad', p), protect |-> q, data |-> data'[p]]
    <3>1. state # "free" /\ state \in {"free", "reserved", "committed"}
      OBVIOUS
    <3>2. Seen(pages', vad', data', p) =
            [state |-> state, owner |-> OwnerOf(vad', p), protect |-> q, data |-> data'[p]]
      <4>1. SetsExactly(pages.runs, pages'.runs, lo, hi, state, q) /\ WellFormed(pages')
        <5>1. lo \in Int /\ hi \in Int /\ lo < hi /\ q \in SUBSET Rights
          BY <1>1
        <5> QED
          BY <1>1, <3>1, <5>1, SetRangeSafe, SMTT(60)
      <4>2. Says(pages'.runs, p, state, q)
        BY <2>1, <3>1, <4>1 DEF SetsExactly
      <4> QED
        BY <2>1, <4>1, <4>2, SaysSeen
    <3> QED
      BY <3>2, ViewIsSeen
  <2> QED
    BY <2>2, <2>3, <2>4, <2>5
<1>4. \A p \in Span(lo, hi) : p \in Pages
  BY DEF Span
<1>5. Promised!Min(Span(lo, hi)) = lo
  <2>1. lo \in Span(lo, hi) /\ \A p \in Span(lo, hi) : p \in Int /\ lo <= p
    BY SpanIsInterval
  <2> QED
    BY <2>1 DEF Promised!Min
<1> QED
  BY <1>2, <1>3, <1>4, <1>5
     DEF Promised!Allocate, Promised!Put, Promised!Page, Promised!Free, Promised!Pages, Pages

(* va_release gives back exactly the pages its allocation owns. *)
LEMMA ReleaseStep ==
  ASSUME Core, StorageMatches, NEW n \in vad, Release(n)
  PROVE  Promised!Release(n.base) /\ n.base \in Pages
<1>1. /\ WellFormed(pages) /\ n.base \in Int /\ n.end \in Int /\ n.base < n.end
      /\ First <= n.base /\ n.base # 0 /\ n.end <= Last + 1 /\ n = Extent(n.base, n.end)
  BY GuestMemoryAssumption DEF Core, Extents, Pages, Extent
<1>2. /\ pages' = SetRange(pages, n.base, n.end, "free", PAGE_NOACCESS) /\ vad' = vad \ {n}
      /\ \A p \in Pages : data'[p] = IF p \in Span(n.base, n.end) THEN 0 ELSE data[p]
  BY <1>1 DEF Release, UnmapExact, StorageMatches
<1>3. ASSUME NEW p \in Pages
      PROVE  View(p).owner = n.base <=> p \in Span(n.base, n.end)
  <2>1. p \in Int
    BY GuestMemoryAssumption DEF Pages
  <2>2. CASE ~Found(pages, p)
    <3>1. View(p).owner = 0
      <4>1. Seen(pages, vad, data, p) = [state |-> "free", owner |-> 0, protect |-> {}, data |-> 0]
        BY <1>1, <2>1, <2>2, UnfoundSeen
      <4>2. View(p) = Seen(pages, vad, data, p)
        BY ViewIsSeen
      <4> QED
        BY <4>1, <4>2
    <3>2. p \notin Span(n.base, n.end)
      BY <2>2 DEF StorageMatches, NodeAt, Span
    <3> QED
      BY <1>1, <3>1, <3>2
  <2>3. CASE Found(pages, p)
    <3>1. PICK m \in vad : m.base <= p /\ p < m.end
      BY <2>3 DEF StorageMatches, NodeAt
    <3>3. View(p).owner = OwnerOf(vad, p)
      <4>1. Seen(pages, vad, data, p).owner = OwnerOf(vad, p)
        BY <1>1, <2>1, <2>3, FoundOwner
      <4>2. View(p) = Seen(pages, vad, data, p)
        BY ViewIsSeen
      <4> QED
        BY <4>1, <4>2
    <3>4. OwnerOf(vad, p) = m.base
      BY <2>1, <3>1, OwnerIsBase DEF Core, StorageMatches
    <3>5. m.base = n.base => m = n
      BY <1>1, GuestMemoryAssumption DEF StorageMatches, Core, Extents, Pages
    <3>6. n.base <= p /\ p < n.end => m = n
      BY <1>1, <2>1, <3>1, GuestMemoryAssumption DEF StorageMatches, Core, Extents, Pages
    <3> QED
      BY <3>1, <3>3, <3>4, <3>5, <3>6 DEF Span
  <2> QED
    BY <2>2, <2>3
<1>4. ASSUME NEW p \in Pages, p \notin Span(n.base, n.end)
      PROVE  View(p)' = View(p)
  <2>1. p \in Int /\ ~(n.base <= p /\ p < n.end) /\ data'[p] = data[p]
    BY <1>2, <1>4, GuestMemoryAssumption DEF Pages, Span
  <2>2. {m \in vad' : m.base <= p /\ p < m.end} = {m \in vad : m.base <= p /\ p < m.end}
    BY <1>2, <2>1
  <2>3. OwnerOf(vad, p) = OwnerOf(vad', p)
    BY <2>2 DEF OwnerOf
  <2> QED
    <3>1. Seen(pages', vad', data', p) = Seen(pages, vad, data, p)
      BY <1>1, <1>2, <2>1, <2>3, SeenAfterSetRange, ProtectFacts
    <3> QED
      BY <3>1, ViewIsSeen
<1>5. ASSUME NEW p \in Pages, p \in Span(n.base, n.end)
      PROVE  View(p)' = [state |-> "free", owner |-> 0, protect |-> {}, data |-> 0]
  <2>1. p \in Int /\ n.base <= p /\ p < n.end
    BY <1>5, GuestMemoryAssumption DEF Pages, Span
  <2> QED
    BY <1>1, <1>2, <2>1, SeenAfterSetRange, ViewIsSeen, ProtectFacts
<1>6. n.base \in Pages /\ n.base \in Span(n.base, n.end)
  BY <1>1, SpanIsInterval
<1> DEFINE space == [x \in Pages |-> View(x)]
<1>7. {p \in Pages : space[p].owner = n.base} = Span(n.base, n.end)
  BY <1>3 DEF Span
<1>8. \E p \in Pages : space[p].owner = n.base
  BY <1>3, <1>6
<1> QED
  BY <1>4, <1>5, <1>6, <1>7, <1>8
     DEF Promised!Release, Promised!Put, Promised!Free, Promised!Pages, Pages

(* A store that lands changes the bytes of writable pages, and nothing else. *)
LEMMA StoreStep ==
  ASSUME Core, Core', NEW S \in SUBSET Pages, vad' = vad, pages'.runs = pages.runs,
         \A p \in S : HasRight(pages, p, "w"),
         \A p \in Pages : data'[p] = IF p \in S THEN 1 ELSE data[p]
  PROVE  Promised!Write(S)
<1>1. WellFormed(pages) /\ WellFormed(pages')
  BY DEF Core
<1>2. ASSUME NEW p \in Pages
      PROVE  /\ p \notin S => View(p)' = View(p)
             /\ p \in S => View(p)' = [View(p) EXCEPT !.data = 1]
  <2>1. p \in Int
    BY GuestMemoryAssumption DEF Pages
  <2>2. CASE Found(pages, p)
    <3>1. PICK st, q : Says(pages.runs, p, st, q)
      BY <1>1, <2>1, <2>2, SeenOf
    <3>2. View(p) = [state |-> st, owner |-> OwnerOf(vad, p), protect |-> q, data |-> data[p]]
      BY <1>1, <2>1, <3>1, SaysSeen, ViewIsSeen
    <3>3. View(p)' = [state |-> st, owner |-> OwnerOf(vad, p), protect |-> q, data |-> data'[p]]
      <4>1. Says(pages'.runs, p, st, q)
        BY <3>1
      <4>2. Seen(pages', vad', data', p) = [state |-> st, owner |-> OwnerOf(vad', p), protect |-> q, data |-> data'[p]]
        BY <1>1, <2>1, <4>1, SaysSeen, SMTT(60)
      <4>3. View(p)' = Seen(pages', vad', data', p)
        BY ViewIsSeen
      <4> QED
        BY <4>2, <4>3
    <3> QED
      BY <3>2, <3>3
  <2>3. CASE ~Found(pages, p)
    <3>1. ~Found(pages', p)
      BY <1>1, <2>1, <2>3, FoundIsCovered
    <3>2. p \notin S
      BY <2>3, RightIsSeen
    <3> QED
      BY <1>1, <2>1, <2>3, <3>1, <3>2, UnfoundSeen, ViewIsSeen
  <2> QED
    BY <2>2, <2>3
<1>3. \A p \in S : View(p).state = "committed" /\ "w" \in View(p).protect
  BY RightIsSeen
<1> QED
  BY <1>2, <1>3 DEF Promised!Write, Promised!Put, Promised!Pages, Pages

(* A step that touches the page map's cache and the host's tables at most is not seen. *)
LEMMA UnseenStep ==
  ASSUME Core, Core', vad' = vad, pages'.runs = pages.runs, data' = data
  PROVE  UNCHANGED [p \in Pages |-> View(p)]
<1>1. ASSUME NEW p \in Pages
      PROVE  View(p)' = View(p)
  <2>1. p \in Int /\ WellFormed(pages) /\ WellFormed(pages')
    BY GuestMemoryAssumption DEF Pages, Core
  <2>2. CASE Found(pages, p)
    <3>1. PICK st, q : Says(pages.runs, p, st, q)
      BY <2>1, <2>2, SeenOf
    <3>2. View(p) = [state |-> st, owner |-> OwnerOf(vad, p), protect |-> q, data |-> data[p]]
      BY <2>1, <3>1, SaysSeen, ViewIsSeen
    <3>3. View(p)' = [state |-> st, owner |-> OwnerOf(vad, p), protect |-> q, data |-> data[p]]
      <4>1. Says(pages'.runs, p, st, q)
        BY <3>1
      <4> QED
        BY <2>1, <4>1, SaysSeen, ViewIsSeen
    <3> QED
      BY <3>2, <3>3
  <2>3. CASE ~Found(pages, p)
    <3>1. ~Found(pages', p)
      BY <2>1, <2>3, FoundIsCovered
    <3> QED
      BY <2>1, <2>3, <3>1, UnfoundSeen, ViewIsSeen
  <2> QED
    BY <2>2, <2>3
<1> QED
  BY <1>1

(* A step that loses no page and changes no byte. *)
LEMMA FreeIsZeroKept ==
  ASSUME FreeIsZero, \A p \in Pages : Found(pages, p) => Found(pages', p), data' = data
  PROVE  FreeIsZero'
BY DEF FreeIsZero

(* Reserving or committing a range loses no page. *)
LEMMA FoundMore ==
  ASSUME Core, NEW lo \in Int, NEW hi \in Int, lo < hi, NEW state \in {"reserved", "committed"},
         NEW q \in SUBSET Rights, NEW p \in Pages, Found(pages, p)
  PROVE  Found(SetRange(pages, lo, hi, state, q), p)
<1>1. p \in Int /\ WellFormed(pages) /\ state # "free"
  BY GuestMemoryAssumption DEF Pages, Core
<1> QED
  BY <1>1, FoundAfterSetRange

(* A store lands on found pages only. *)
LEMMA FreeIsZeroStored ==
  ASSUME Core, Core', FreeIsZero, pages'.runs = pages.runs, NEW S,
         \A p \in S : p \in Pages /\ HasRight(pages, p, "w"),
         data' = [p \in Pages |-> IF p \in S THEN 1 ELSE data[p]]
  PROVE  FreeIsZero'
<1>1. ASSUME NEW p \in Pages, ~Found(pages', p)
      PROVE  data'[p] = 0
  <2>1. p \in Int /\ WellFormed(pages) /\ WellFormed(pages')
    BY GuestMemoryAssumption DEF Pages, Core
  <2>2. ~Found(pages, p)
    BY <1>1, <2>1, FoundIsCovered
  <2> QED
    BY <2>2, RightIsSeen DEF FreeIsZero
<1> QED
  BY <1>1 DEF FreeIsZero

(* A check leaves every page as found as it was. *)
LEMMA FoundSame ==
  ASSUME Core, Core', pages'.runs = pages.runs, NEW p \in Pages
  PROVE  Found(pages, p) <=> Found(pages', p)
<1>1. p \in Int /\ WellFormed(pages) /\ WellFormed(pages')
  BY GuestMemoryAssumption DEF Pages, Core
<1> QED
  BY <1>1, FoundIsCovered

(* The pages a checked write names, it may write. *)
LEMMA AllowedWrites ==
  ASSUME NEW s \in Spans, Allowed(pages, s[1], s[2], "w")
  PROVE  \A p \in Span(s[1], s[2]) : p \in Pages /\ HasRight(pages, p, "w")
<1>1. Span(s[1], s[2]) = s[1]..(s[2] - 1) /\ Span(s[1], s[2]) \subseteq Pages
  BY SpanFacts, SpanIsInterval
<1> QED
  BY <1>1 DEF Allowed

(* No call leaves bytes behind on a page it frees, and none stores to a free page. *)
LEMMA FreeIsZeroStep ==
  ASSUME ~OccupiedMaps, Core, StorageMatches, PinsSound, FreeIsZero, [Next]_vars
  PROVE  FreeIsZero'
<1> USE SpanFacts, ProtectFacts
<1>0. Core'
  BY CoreStep
<1>1. ASSUME NEW s \in Layout, NEW m \in Perms, Map(s[1], s[2], m)
      PROVE  FreeIsZero'
  BY <1>1, FoundMore, FreeIsZeroKept DEF Map
<1>2. ASSUME Allocate
      PROVE  FreeIsZero'
  <2>1. PICK lo \in Int, hi \in Int, commit \in BOOLEAN, q \in Protects :
           lo < hi /\ Reserve(lo, hi, commit, q)
    BY <1>2, AllocateReserves
  <2>2. CASE commit
    BY <2>1, <2>2, FoundMore, FreeIsZeroKept DEF Reserve
  <2>3. CASE ~commit
    BY <2>1, <2>3, FoundMore, FreeIsZeroKept DEF Reserve
  <2> QED
    BY <2>2, <2>3
<1>3. ASSUME NEW s \in Spans, NEW q \in Protects, CommitOnly(s[1], s[2], q)
      PROVE  FreeIsZero'
  BY <1>3, FoundMore, FreeIsZeroKept DEF CommitOnly
<1>4. ASSUME NEW s \in Spans, Decommit(s[1], s[2])
      PROVE  FreeIsZero'
  <2>1. CASE pages' = pages /\ data' = data
    BY <2>1, FreeIsZeroKept
  <2>2. CASE pages' # pages \/ data' # data
    <3>1. pages' = SetRange(pages, s[1], s[2], "reserved", PAGE_NOACCESS)
      BY <1>4, <2>2 DEF Decommit
    <3>2. \A p \in Pages : data'[p] \in {0, data[p]}
      BY <1>4, <2>2 DEF Decommit
    <3> QED
      BY <3>1, <3>2, FoundMore DEF FreeIsZero
  <2> QED
    BY <2>1, <2>2
<1>5. ASSUME NEW n \in vad, Release(n)
      PROVE  FreeIsZero'
  <2>1. n.base \in Int /\ n.end \in Int /\ n.base < n.end /\ n = Extent(n.base, n.end)
    BY GuestMemoryAssumption DEF Core, Extents, Pages, Extent
  <2>2. \A p \in Pages : data'[p] = IF p \in Span(n.base, n.end) THEN 0 ELSE data[p]
    BY <1>5, <2>1 DEF Release, UnmapExact, StorageMatches
  <2>3. ASSUME NEW p \in Pages, ~Found(pages', p)
        PROVE  data'[p] = 0
    <3>1. p \in Int
      BY GuestMemoryAssumption DEF Pages
    <3>2. Found(pages', p) <=> ~(n.base <= p /\ p < n.end) /\ Found(pages, p)
      BY <1>5, <2>1, <3>1, FoundAfterSetRange DEF Release, Core
    <3> QED
      BY <2>2, <2>3, <3>2 DEF Span, FreeIsZero
  <2> QED
    BY <2>3 DEF FreeIsZero
<1>6. ASSUME NEW s \in Spans, NEW q \in Protects, VirtualProtect(s[1], s[2], q)
      PROVE  FreeIsZero'
  BY <1>6, FoundMore, FreeIsZeroKept DEF VirtualProtect
<1>7. ASSUME NEW s \in Spans, NEW kind \in {"r", "x"}, Read(s[1], s[2], kind)
      PROVE  FreeIsZero'
  BY <1>0, <1>7, CheckedSafe, FoundSame, FreeIsZeroKept DEF Read, Core
<1>8. ASSUME NEW s \in Spans, Write(s[1], s[2])
      PROVE  FreeIsZero'
  <2>1. pages'.runs = pages.runs
    BY <1>8, CheckedSafe DEF Write, Core
  <2>2. CASE data' = data
    BY <1>0, <2>1, <2>2, FoundSame, FreeIsZeroKept
  <2>3. CASE data' # data
    <3>1. /\ Allowed(pages, s[1], s[2], "w")
          /\ data' = [p \in Pages |-> IF p \in Span(s[1], s[2]) THEN 1 ELSE data[p]]
      BY <1>8, <2>3 DEF Write, HostStore
    <3>2. \A p \in Span(s[1], s[2]) : p \in Pages /\ HasRight(pages, p, "w")
      BY <3>1, AllowedWrites
    <3> QED
      BY <1>0, <2>1, <3>1, <3>2, FreeIsZeroStored
  <2> QED
    BY <2>2, <2>3
<1>9. ASSUME NEW s \in Spans, Pin(s[1], s[2])
      PROVE  FreeIsZero'
  BY <1>9 DEF Pin, FreeIsZero
<1>10. ASSUME NEW t \in pinned, NEW p \in Pages, PinnedStore(t, p)
       PROVE  FreeIsZero'
  <2>1. pages' = pages /\ HasRight(pages, p, "w")
    BY <1>10 DEF PinnedStore, PinsSound
  <2>2. CASE data' = data
    BY <2>1, <2>2 DEF FreeIsZero
  <2>3. CASE data' # data
    <3> DEFINE S == {p}
    <3>1. data' = [x \in Pages |-> IF x \in S THEN 1 ELSE data[x]]
      BY <1>10, <2>3 DEF PinnedStore, HostStore
    <3>2. \A x \in S : x \in Pages /\ HasRight(pages, x, "w")
      BY <2>1
    <3>3. pages'.runs = pages.runs
      BY <2>1
    <3> HIDE DEF S
    <3> QED
      BY <1>0, <3>1, <3>2, <3>3, FreeIsZeroStored
  <2> QED
    BY <2>2, <2>3
<1>11. ASSUME UNCHANGED vars
       PROVE  FreeIsZero'
  BY <1>11 DEF vars, FreeIsZero
<1> QED
  BY <1>1, <1>2, <1>3, <1>4, <1>5, <1>6, <1>7, <1>8, <1>9, <1>10, <1>11 DEF Next

(* Every step of the tables is one step of the address space, or none. *)
LEMMA SpaceStep ==
  ASSUME ~OccupiedMaps, Core, StorageMatches, PinsSound, FreeIsZero, [Next]_vars
  PROVE  Promised!Next \/ UNCHANGED [p \in Pages |-> View(p)]
<1> DEFINE Q == Protects \cup {ProtectFromRwx(m) : m \in Perms}
           Goal == Promised!Next \/ UNCHANGED [p \in Pages |-> View(p)]
<1> USE SpanFacts, ProtectFacts
<1>0. Core' /\ StorageMatches'
  BY CoreStep, StorageStep
<1>a. \A s \in Spans : Span(s[1], s[2]) \in Promised!Intervals
  BY SpanIsInterval
<1>b. \A S \in Promised!Intervals : \A q \in Q :
        Promised!Allocate(S, "committed", q) \/ Promised!Commit(S, q) => Promised!Next
  BY DEF Promised!Next
<1>c. \A S \in Promised!Intervals :
        Promised!Allocate(S, "reserved", {}) \/ Promised!Decommit(S) \/ Promised!Write(S) => Promised!Next
  BY DEF Promised!Next
<1>d. \A b \in Pages : Promised!Release(b) => Promised!Next
  BY DEF Promised!Next, Promised!Pages, Pages
<1>e. Protects \subseteq Q /\ \A m \in Perms : ProtectFromRwx(m) \in Q
  OBVIOUS
<1> HIDE DEF Q
<1>1. ASSUME NEW s \in Layout, NEW m \in Perms, Map(s[1], s[2], m)
      PROVE  Goal
  <2>1. RegionIsFree(s[1], s[2])
    BY <1>1 DEF Map
  <2>2. vad' = vad \cup {Extent(s[1], s[2])}
    <3>1. \A n \in vad : n.base # s[1]
      BY <2>1, GuestMemoryAssumption DEF Core, Extents, Pages, RegionIsFree, Overlap
    <3> QED
      BY <1>1, <2>1, <3>1 DEF Map, RegionIsFree
  <2>3. Promised!Allocate(Span(s[1], s[2]), "committed", ProtectFromRwx(m))
    BY <1>0, <1>1, <2>1, <2>2, AllocateStep DEF Map
  <2> QED
    BY <1>a, <1>b, <1>e, <2>3
<1>2. ASSUME Allocate
      PROVE  Goal
  <2>1. PICK lo \in Int, hi \in Int, commit \in BOOLEAN, q \in Protects :
           lo < hi /\ Reserve(lo, hi, commit, q)
    BY <1>2, AllocateReserves
  <2>2. First <= lo /\ hi <= Last + 1 /\ RegionIsFree(lo, hi)
    BY <2>1 DEF Reserve
  <2>3. Span(lo, hi) \in Promised!Intervals
    BY <2>1, <2>2, SpanIsInterval
  <2>4. CASE commit
    <3>1. Promised!Allocate(Span(lo, hi), "committed", q)
      BY <1>0, <2>1, <2>2, <2>4, AllocateStep DEF Reserve
    <3> QED
      BY <1>b, <1>e, <2>3, <3>1
  <2>5. CASE ~commit
    <3>1. Promised!Allocate(Span(lo, hi), "reserved", PAGE_NOACCESS)
      BY <1>0, <2>1, <2>2, <2>5, AllocateStep DEF Reserve
    <3> QED
      BY <1>c, <2>3, <3>1 DEF PAGE_NOACCESS
  <2> QED
    BY <2>4, <2>5
<1>3. ASSUME NEW s \in Spans, NEW q \in Protects, CommitOnly(s[1], s[2], q)
      PROVE  Goal
  <2>1. Promised!Commit(Span(s[1], s[2]), q)
    BY <1>3, CommitStep DEF CommitOnly
  <2> QED
    BY <1>a, <1>b, <1>e, <2>1
<1>4. ASSUME NEW s \in Spans, Decommit(s[1], s[2])
      PROVE  Goal
  <2>1. CASE pages' = pages /\ data' = data /\ vad' = vad
    BY <1>0, <2>1, UnseenStep
  <2>2. CASE pages' # pages \/ data' # data \/ vad' # vad
    <3>1. PICK n \in vad : n.base <= s[1] /\ s[2] <= n.end
      BY <1>4 DEF Decommit, InOneNode, NodeAt
    <3>2. n.base \in Int /\ n.end \in Int /\ n \in arenas
      BY GuestMemoryAssumption DEF Core, Extents, Pages, StorageMatches
    <3>3. \A p \in Span(s[1], s[2]) : p \in Int /\ p \in Pages /\ n.base <= p /\ p < n.end
      BY <3>1, <3>2, GuestMemoryAssumption DEF Span, Pages
    <3>4. \A p \in Span(s[1], s[2]) : ArenaAt(arenas, p) # {}
      BY <3>2, <3>3 DEF ArenaAt
    <3>5. {p \in Span(s[1], s[2]) : ArenaAt(arenas, p) # {}} = Span(s[1], s[2])
      BY <3>4
    <3>6. /\ InOneNode(s[1], s[2]) /\ vad' = vad
          /\ pages' = SetRange(pages, s[1], s[2], "reserved", PAGE_NOACCESS)
          /\ \A p \in Pages : data'[p] = IF p \in Span(s[1], s[2]) THEN 0 ELSE data[p]
      BY <1>4, <2>2, <3>5 DEF Decommit
    <3>7. Promised!Decommit(Span(s[1], s[2]))
      BY <3>6, DecommitStep
    <3> QED
      BY <1>a, <1>c, <3>7
  <2> QED
    BY <2>1, <2>2
<1>5. ASSUME NEW n \in vad, Release(n)
      PROVE  Goal
  BY <1>5, <1>d, ReleaseStep
<1>6. ASSUME NEW s \in Spans, NEW q \in Protects, VirtualProtect(s[1], s[2], q)
      PROVE  Goal
  <2>1. Promised!Commit(Span(s[1], s[2]), q)
    BY <1>6, CommitStep DEF VirtualProtect
  <2> QED
    BY <1>a, <1>b, <1>e, <2>1
<1>7. ASSUME NEW s \in Spans, NEW kind \in {"r", "x"}, Read(s[1], s[2], kind)
      PROVE  Goal
  BY <1>0, <1>7, CheckedSafe, UnseenStep DEF Read, Core
<1>8. ASSUME NEW s \in Spans, Write(s[1], s[2])
      PROVE  Goal
  <2>1. pages'.runs = pages.runs /\ vad' = vad
    BY <1>8, CheckedSafe DEF Write, Core
  <2>2. CASE data' = data
    BY <1>0, <2>1, <2>2, UnseenStep
  <2>3. CASE data' # data
    <3>1. /\ Allowed(pages, s[1], s[2], "w")
          /\ \A p \in Pages : data'[p] = IF p \in Span(s[1], s[2]) THEN 1 ELSE data[p]
      BY <1>8, <2>3 DEF Write, HostStore
    <3>2. \A p \in Span(s[1], s[2]) : p \in Pages /\ HasRight(pages, p, "w")
      BY <3>1, AllowedWrites
    <3>3. Promised!Write(Span(s[1], s[2]))
      BY <1>0, <2>1, <3>1, <3>2, StoreStep
    <3> QED
      BY <1>a, <1>c, <3>3
  <2> QED
    BY <2>2, <2>3
<1>9. ASSUME NEW s \in Spans, Pin(s[1], s[2])
      PROVE  Goal
  BY <1>0, <1>9, UnseenStep DEF Pin
<1>10. ASSUME NEW t \in pinned, NEW p \in Pages, PinnedStore(t, p)
       PROVE  Goal
  <2>1. pages' = pages /\ vad' = vad /\ HasRight(pages, p, "w")
    BY <1>10 DEF PinnedStore, PinsSound
  <2>2. CASE data' = data
    BY <1>0, <2>1, <2>2, UnseenStep
  <2>3. CASE data' # data
    <3>1. \A x \in Pages : data'[x] = IF x \in {p} THEN 1 ELSE data[x]
      BY <1>10, <2>3 DEF PinnedStore, HostStore
    <3>2. Promised!Write({p})
      BY <1>0, <2>1, <3>1, StoreStep
    <3>3. {p} \in Promised!Intervals
      <4>1. p \in Int /\ {p} = p..p
        BY GuestMemoryAssumption DEF Pages
      <4> QED
        BY <4>1 DEF Promised!Intervals, Promised!Pages, Pages
    <3> QED
      BY <1>c, <3>2, <3>3
  <2> QED
    BY <2>2, <2>3
<1>11. ASSUME UNCHANGED vars
       PROVE  Goal
  BY <1>0, <1>11, UnseenStep DEF vars
<1> HIDE DEF Goal
<1>12. Goal
  BY <1>1, <1>2, <1>3, <1>4, <1>5, <1>6, <1>7, <1>8, <1>9, <1>10, <1>11 DEF Next
<1> QED
  BY <1>12 DEF Goal

(* The empty tables are the empty address space. *)
LEMMA SpaceInit ==
  ASSUME Init
  PROVE  Promised!Init /\ FreeIsZero
<1>1. ASSUME NEW p \in Pages
      PROVE  View(p) = Promised!Free
  BY DEF Init, View, Promised!Free, Found, Lookup, Floor, EmptyMap
<1>2. FreeIsZero
  BY DEF Init, FreeIsZero
<1> QED
  BY <1>1, <1>2 DEF Promised!Init, Promised!Pages, Pages

(* While the loader maps free ranges only, the run-length page map, the VAD table, the arenas, the *)
(* caches and the translations of mem/ implement the page-by-page address space.                   *)
THEOREM SpaceKeepsItsPromise == ASSUME ~OccupiedMaps PROVE Spec => ImplementsAddressSpace
<1>1. Init => Core /\ StorageMatches /\ PinsSound /\ FreeIsZero /\ Promised!Init
  <2>1. Init => StorageMatches
    BY DEF Init, StorageMatches, NodeAt, Found, Lookup, Floor, EmptyMap
  <2>2. Init => PinsSound
    BY DEF Init, PinsSound
  <2> QED
    BY <2>1, <2>2, CoreInit, SpaceInit
<1>2. Core /\ StorageMatches /\ PinsSound /\ FreeIsZero /\ [Next]_vars
        => (Core /\ StorageMatches /\ PinsSound /\ FreeIsZero)'
  BY CoreStep, StorageStep, PinsStep, FreeIsZeroStep
<1>3. Core /\ StorageMatches /\ PinsSound /\ FreeIsZero /\ [Next]_vars
        => [Promised!Next]_([p \in Pages |-> View(p)])
  BY SpaceStep
<1> QED
  BY <1>1, <1>2, <1>3, PTL DEF Spec, ImplementsAddressSpace, Promised!Spec

-----------------------------------------------------------------------------
(* A non-empty set of numbers has a least element: the way to reason about a scan. *)
LEMMA LeastExists ==
  ASSUME NEW S \in SUBSET Nat, S # {}
  PROVE  \E x \in S : \A y \in S : x <= y
<1>1. OpToRel(<, Nat) = {ss \in Nat \X Nat : ss[1] < ss[2]}
  BY Zenon DEF OpToRel
<1>2. IsWellFoundedOn({ss \in Nat \X Nat : ss[1] < ss[2]}, Nat)
  BY <1>1, NatLessThanWellFounded, Zenon
<1>3. PICK x \in S : \A y \in S : ~(<<y, x>> \in {ss \in Nat \X Nat : ss[1] < ss[2]})
  BY <1>2, WFMin
<1>4. ASSUME NEW y \in S
      PROVE  x <= y
  <2>1. x \in Nat /\ y \in Nat /\ <<y, x>> \in Nat \X Nat
    OBVIOUS
  <2>2. ~(<<y, x>>[1] < <<y, x>>[2])
    BY <1>3, <2>1, Zenon
  <2> QED
    BY <2>1, <2>2
<1> QED
  BY <1>4

(* The same of integers above a bound. *)
LEMMA LeastAbove ==
  ASSUME NEW lo \in Int, NEW S \in SUBSET Int, S # {}, \A x \in S : lo <= x
  PROVE  \E x \in S : \A y \in S : x <= y
<1> DEFINE T == {k \in Nat : lo + k \in S}
<1>1. T \in SUBSET Nat /\ T # {}
  <2>1. PICK x \in S : TRUE
    OBVIOUS
  <2>2. x - lo \in Nat /\ lo + (x - lo) = x
    BY <2>1
  <2> QED
    BY <2>1, <2>2
<1> HIDE DEF T
<1>2. PICK k \in T : \A j \in T : k <= j
  BY <1>1, LeastExists
<1>3. lo + k \in S /\ k \in Nat
  BY <1>2 DEF T
<1>4. ASSUME NEW y \in S
      PROVE  lo + k <= y
  <2>1. y - lo \in Nat /\ lo + (y - lo) = y
    OBVIOUS
  <2>2. y - lo \in T
    BY <2>1 DEF T
  <2> QED
    BY <1>2, <1>3, <2>1, <2>2
<1> QED
  BY <1>3, <1>4

(* And a greatest below a bound. *)
LEMMA GreatestBelow ==
  ASSUME NEW hi \in Int, NEW S \in SUBSET Int, S # {}, \A x \in S : x <= hi
  PROVE  \E x \in S : \A y \in S : y <= x
<1> DEFINE T == {k \in Nat : hi - k \in S}
<1>1. T \in SUBSET Nat /\ T # {}
  <2>1. PICK x \in S : TRUE
    OBVIOUS
  <2>2. hi - x \in Nat /\ hi - (hi - x) = x
    BY <2>1
  <2> QED
    BY <2>1, <2>2
<1> HIDE DEF T
<1>2. PICK k \in T : \A j \in T : k <= j
  BY <1>1, LeastExists
<1>3. hi - k \in S /\ k \in Nat
  BY <1>2 DEF T
<1>4. ASSUME NEW y \in S
      PROVE  y <= hi - k
  <2>1. hi - y \in Nat /\ hi - (hi - y) = y
    OBVIOUS
  <2>2. hi - y \in T
    BY <2>1 DEF T
  <2> QED
    BY <1>2, <1>3, <2>1, <2>2
<1> QED
  BY <1>3, <1>4

(* Where a scan over the pages of G that started at s ends, to the left and to the right. *)
LeftEnd(lo, G, s, x) == x \in lo..s /\ (\A y \in x..(s - 1) : y \in G) /\ (x = lo \/ x - 1 \notin G)
RightEnd(hi, G, e, x) == x \in e..hi /\ (\A y \in e..(x - 1) : y \in G) /\ (x = hi \/ x \notin G)

(* There is such a place. *)
LEMMA LeftEndExists ==
  ASSUME NEW lo \in Int, NEW s \in Int, lo <= s, NEW G
  PROVE  \E x : LeftEnd(lo, G, s, x)
<1> DEFINE S == {x \in lo..s : \A y \in x..(s - 1) : y \in G}
<1>1. S \in SUBSET Int /\ S # {} /\ \A x \in S : lo <= x
  <2>1. s \in S
    OBVIOUS
  <2> QED
    BY <2>1
<1>2. PICK x \in S : \A y \in S : x <= y
  BY <1>1, LeastAbove
<1>3. x \in lo..s /\ \A y \in x..(s - 1) : y \in G
  BY <1>2
<1>4. x # lo => x - 1 \notin G
  <2> SUFFICES ASSUME x # lo, x - 1 \in G
               PROVE  FALSE
    OBVIOUS
  <2>1. x - 1 \in lo..s /\ \A y \in (x - 1)..(s - 1) : y = x - 1 \/ y \in x..(s - 1)
    BY <1>3
  <2>2. x - 1 \in S
    BY <1>3, <2>1
  <2> QED
    BY <1>2, <1>3, <2>2
<1> QED
  BY <1>3, <1>4 DEF LeftEnd

(* The place is unique. *)
LEMMA LeftEndUnique ==
  ASSUME NEW lo \in Int, NEW s \in Int, NEW G, NEW x, NEW y, LeftEnd(lo, G, s, x), LeftEnd(lo, G, s, y)
  PROVE  x = y
<1>1. ASSUME NEW a, NEW b, LeftEnd(lo, G, s, a), LeftEnd(lo, G, s, b), a < b
      PROVE  FALSE
  <2>1. a \in Int /\ b \in Int /\ b - 1 \in a..(s - 1) /\ b # lo
    BY <1>1 DEF LeftEnd
  <2> QED
    BY <1>1, <2>1 DEF LeftEnd
<1>2. x \in Int /\ y \in Int
  BY DEF LeftEnd
<1> QED
  BY <1>1, <1>2

(* The same to the right. *)
LEMMA RightEndExists ==
  ASSUME NEW hi \in Int, NEW e \in Int, e <= hi, NEW G
  PROVE  \E x : RightEnd(hi, G, e, x)
<1> DEFINE S == {x \in e..hi : \A y \in e..(x - 1) : y \in G}
<1>1. S \in SUBSET Int /\ S # {} /\ \A x \in S : x <= hi
  <2>1. e \in S
    OBVIOUS
  <2> QED
    BY <2>1
<1>2. PICK x \in S : \A y \in S : y <= x
  BY <1>1, GreatestBelow
<1>3. x \in e..hi /\ \A y \in e..(x - 1) : y \in G
  BY <1>2
<1>4. x # hi => x \notin G
  <2> SUFFICES ASSUME x # hi, x \in G
               PROVE  FALSE
    OBVIOUS
  <2>1. x + 1 \in e..hi /\ \A y \in e..((x + 1) - 1) : y = x \/ y \in e..(x - 1)
    BY <1>3
  <2>2. x + 1 \in S
    BY <1>3, <2>1
  <2> QED
    BY <1>2, <1>3, <2>2
<1> QED
  BY <1>3, <1>4 DEF RightEnd

(* The place is unique. *)
LEMMA RightEndUnique ==
  ASSUME NEW hi \in Int, NEW e \in Int, NEW G, NEW x, NEW y, RightEnd(hi, G, e, x), RightEnd(hi, G, e, y)
  PROVE  x = y
<1>1. ASSUME NEW a, NEW b, RightEnd(hi, G, e, a), RightEnd(hi, G, e, b), a < b
      PROVE  FALSE
  <2>1. a \in Int /\ b \in Int /\ a \in e..(b - 1) /\ a # hi
    BY <1>1 DEF RightEnd
  <2> QED
    BY <1>1, <2>1 DEF RightEnd
<1>2. x \in Int /\ y \in Int
  BY DEF RightEnd
<1> QED
  BY <1>1, <1>2

(* A scan that jumps from s to g[s], over pages of G only. *)
Jumps(lo, hi, G, g) ==
    \A s \in lo..hi : s > lo /\ s - 1 \in G =>
        g[s] \in lo..(s - 1) /\ \A y \in g[s]..(s - 1) : y \in G

(* The stretch that ends at g[s] is the one that ends at s. *)
LEMMA LeftJump ==
  ASSUME NEW lo \in Int, NEW hi \in Int, NEW G, NEW g, Jumps(lo, hi, G, g),
         NEW s \in lo..hi, s > lo, s - 1 \in G, NEW x, LeftEnd(lo, G, g[s], x)
  PROVE  LeftEnd(lo, G, s, x)
<1>1. g[s] \in lo..(s - 1) /\ \A y \in g[s]..(s - 1) : y \in G
  BY DEF Jumps
<1>2. x \in lo..g[s] /\ \A y \in x..(g[s] - 1) : y \in G
  BY DEF LeftEnd
<1>3. \A y \in x..(s - 1) : y \in x..(g[s] - 1) \/ y \in g[s]..(s - 1)
  BY <1>1, <1>2
<1> QED
  BY <1>1, <1>2, <1>3 DEF LeftEnd

(* A scan that cannot go on has reached the end. *)
LEMMA LeftStop ==
  ASSUME NEW lo \in Int, NEW hi \in Int, NEW G, NEW s \in lo..hi, ~(s > lo /\ s - 1 \in G)
  PROVE  LeftEnd(lo, G, s, s)
BY DEF LeftEnd

(* The recursive equation of the scan has a solution. *)
LEMMA LeftScanExists ==
  ASSUME NEW lo \in Int, NEW hi \in Int, NEW G, NEW g, Jumps(lo, hi, G, g)
  PROVE  \E f : f = [s \in lo..hi |-> IF s > lo /\ s - 1 \in G THEN f[g[s]] ELSE s]
<1> DEFINE f == [s \in lo..hi |-> CHOOSE x : LeftEnd(lo, G, s, x)]
<1>1. ASSUME NEW s \in lo..hi
      PROVE  LeftEnd(lo, G, s, f[s])
  <2>1. \E x : LeftEnd(lo, G, s, x)
    BY LeftEndExists
  <2> QED
    BY <2>1
<1>2. f = [s \in lo..hi |-> f[s]]
  OBVIOUS
<1> HIDE DEF f
<1>3. ASSUME NEW s \in lo..hi
      PROVE  f[s] = IF s > lo /\ s - 1 \in G THEN f[g[s]] ELSE s
  <2>1. CASE s > lo /\ s - 1 \in G
    <3>1. g[s] \in lo..hi
      BY <2>1 DEF Jumps
    <3>2. LeftEnd(lo, G, s, f[g[s]])
      BY <1>1, <2>1, <3>1, LeftJump
    <3> QED
      BY <1>1, <2>1, <3>2, LeftEndUnique
  <2>2. CASE ~(s > lo /\ s - 1 \in G)
    <3>1. LeftEnd(lo, G, s, s) /\ LeftEnd(lo, G, s, f[s])
      BY <1>1, <2>2, LeftStop
    <3>2. f[s] = s
      BY <3>1, LeftEndUnique
    <3> QED
      BY <2>2, <3>2
  <2> QED
    BY <2>1, <2>2
<1>4. f = [s \in lo..hi |-> IF s > lo /\ s - 1 \in G THEN f[g[s]] ELSE s]
  BY <1>2, <1>3
<1> QED
  BY <1>4

(* Every solution gives the end of the stretch, by the least page at which it would not. *)
LEMMA LeftScanEnds ==
  ASSUME NEW lo \in Int, NEW hi \in Int, NEW G, NEW g, Jumps(lo, hi, G, g),
         NEW f, f = [s \in lo..hi |-> IF s > lo /\ s - 1 \in G THEN f[g[s]] ELSE s]
  PROVE  \A s \in lo..hi : LeftEnd(lo, G, s, f[s])
<1> DEFINE Bad == {s \in lo..hi : ~LeftEnd(lo, G, s, f[s])}
<1> SUFFICES ASSUME Bad # {}
             PROVE  FALSE
  OBVIOUS
<1>1. Bad \in SUBSET Int /\ \A x \in Bad : lo <= x
  OBVIOUS
<1>2. PICK s \in Bad : \A y \in Bad : s <= y
  BY <1>1, LeastAbove
<1>3. s \in lo..hi /\ ~LeftEnd(lo, G, s, f[s])
  BY <1>2
<1>4. f[s] = IF s > lo /\ s - 1 \in G THEN f[g[s]] ELSE s
  BY <1>3
<1>5. CASE s > lo /\ s - 1 \in G
  <2>1. g[s] \in lo..(s - 1)
    BY <1>3, <1>5 DEF Jumps
  <2>2. g[s] \in lo..hi /\ g[s] \notin Bad
    BY <1>2, <1>3, <2>1
  <2>3. LeftEnd(lo, G, g[s], f[g[s]])
    BY <2>2
  <2> QED
    BY <1>3, <1>4, <1>5, <2>3, LeftJump
<1>6. CASE ~(s > lo /\ s - 1 \in G)
  BY <1>3, <1>4, <1>6, LeftStop
<1> QED
  BY <1>5, <1>6

(* The same to the right. *)
Leaps(lo, hi, G, g) ==
    \A e \in lo..hi : e < hi /\ e \in G =>
        g[e] \in (e + 1)..hi /\ \A y \in e..(g[e] - 1) : y \in G

(* The stretch that starts at g[e] is the one that starts at e. *)
LEMMA RightJump ==
  ASSUME NEW lo \in Int, NEW hi \in Int, NEW G, NEW g, Leaps(lo, hi, G, g),
         NEW e \in lo..hi, e < hi, e \in G, NEW x, RightEnd(hi, G, g[e], x)
  PROVE  RightEnd(hi, G, e, x)
<1>1. g[e] \in (e + 1)..hi /\ \A y \in e..(g[e] - 1) : y \in G
  BY DEF Leaps
<1>2. x \in g[e]..hi /\ \A y \in g[e]..(x - 1) : y \in G
  BY DEF RightEnd
<1>3. \A y \in e..(x - 1) : y \in e..(g[e] - 1) \/ y \in g[e]..(x - 1)
  BY <1>1, <1>2
<1> QED
  BY <1>1, <1>2, <1>3 DEF RightEnd

(* A scan that cannot go on has reached the end. *)
LEMMA RightStop ==
  ASSUME NEW lo \in Int, NEW hi \in Int, NEW G, NEW e \in lo..hi, ~(e < hi /\ e \in G)
  PROVE  RightEnd(hi, G, e, e)
BY DEF RightEnd

(* The recursive equation of the scan has a solution. *)
LEMMA RightScanExists ==
  ASSUME NEW lo \in Int, NEW hi \in Int, NEW G, NEW g, Leaps(lo, hi, G, g)
  PROVE  \E f : f = [e \in lo..hi |-> IF e < hi /\ e \in G THEN f[g[e]] ELSE e]
<1> DEFINE f == [e \in lo..hi |-> CHOOSE x : RightEnd(hi, G, e, x)]
<1>1. ASSUME NEW e \in lo..hi
      PROVE  RightEnd(hi, G, e, f[e])
  <2>1. \E x : RightEnd(hi, G, e, x)
    BY RightEndExists
  <2> QED
    BY <2>1
<1>2. f = [e \in lo..hi |-> f[e]]
  OBVIOUS
<1> HIDE DEF f
<1>3. ASSUME NEW e \in lo..hi
      PROVE  f[e] = IF e < hi /\ e \in G THEN f[g[e]] ELSE e
  <2>1. CASE e < hi /\ e \in G
    <3>1. g[e] \in lo..hi
      BY <2>1 DEF Leaps
    <3>2. RightEnd(hi, G, e, f[g[e]])
      BY <1>1, <2>1, <3>1, RightJump
    <3> QED
      BY <1>1, <2>1, <3>2, RightEndUnique
  <2>2. CASE ~(e < hi /\ e \in G)
    <3>1. RightEnd(hi, G, e, e) /\ RightEnd(hi, G, e, f[e])
      BY <1>1, <2>2, RightStop
    <3>2. f[e] = e
      BY <3>1, RightEndUnique
    <3> QED
      BY <2>2, <3>2
  <2> QED
    BY <2>1, <2>2
<1>4. f = [e \in lo..hi |-> IF e < hi /\ e \in G THEN f[g[e]] ELSE e]
  BY <1>2, <1>3
<1> QED
  BY <1>4

(* Every solution gives the end of the stretch, by the greatest page at which it would not. *)
LEMMA RightScanEnds ==
  ASSUME NEW lo \in Int, NEW hi \in Int, NEW G, NEW g, Leaps(lo, hi, G, g),
         NEW f, f = [e \in lo..hi |-> IF e < hi /\ e \in G THEN f[g[e]] ELSE e]
  PROVE  \A e \in lo..hi : RightEnd(hi, G, e, f[e])
<1> DEFINE Bad == {e \in lo..hi : ~RightEnd(hi, G, e, f[e])}
<1> SUFFICES ASSUME Bad # {}
             PROVE  FALSE
  OBVIOUS
<1>1. Bad \in SUBSET Int /\ \A x \in Bad : x <= hi
  OBVIOUS
<1>2. PICK e \in Bad : \A y \in Bad : y <= e
  BY <1>1, GreatestBelow
<1>3. e \in lo..hi /\ ~RightEnd(hi, G, e, f[e])
  BY <1>2
<1>4. f[e] = IF e < hi /\ e \in G THEN f[g[e]] ELSE e
  BY <1>3
<1>5. CASE e < hi /\ e \in G
  <2>1. g[e] \in (e + 1)..hi
    BY <1>3, <1>5 DEF Leaps
  <2>2. g[e] \in lo..hi /\ g[e] \notin Bad
    BY <1>2, <1>3, <2>1
  <2>3. RightEnd(hi, G, g[e], f[g[e]])
    BY <2>2
  <2> QED
    BY <1>3, <1>4, <1>5, <2>3, RightJump
<1>6. CASE ~(e < hi /\ e \in G)
  BY <1>3, <1>4, <1>6, RightStop
<1> QED
  BY <1>5, <1>6

-----------------------------------------------------------------------------
(* The pages of allocation n that are like the run, and what the map says of them. *)
LikePages(run, n) == {y \in n.base..(n.end - 1) : \E r \in Lookup(pages, y) : LikeRun(run, r)}

RunAt(p) == CHOOSE r \in Lookup(pages, p) : TRUE

(* A page of the map lies in one run, which covers it. *)
LEMMA RunAtFacts ==
  ASSUME WellFormed(pages), NEW p \in Int, Found(pages, p)
  PROVE  /\ RunAt(p) \in pages.runs /\ RunAt(p) \in AnyRun /\ Covers(RunAt(p), p)
         /\ Lookup(pages, p) = {RunAt(p)}
         /\ \A y \in Int : Covers(RunAt(p), y) => Lookup(pages, y) = {RunAt(p)}
<1>1. PICK r : r \in Lookup(pages, p)
  BY DEF Found
<1>2. r \in pages.runs /\ Covers(r, p)
  BY <1>1, LookupIsCover
<1>3. ASSUME NEW y \in Int, Covers(r, y)
      PROVE  Lookup(pages, y) = {r}
  BY <1>2, <1>3, LookupIsCover, CoverIsUnique
<1>4. RunAt(p) = r
  BY <1>2, <1>3 DEF RunAt
<1>5. r \in AnyRun
  BY <1>2 DEF WellFormed
<1> QED
  BY <1>2, <1>3, <1>4, <1>5

(* Clipping to an allocation. *)
LEMMA ClipFacts ==
  ASSUME NEW n, n.base \in Int, n.end \in Int, n.base <= n.end, NEW x \in Int
  PROVE  Clip(n, x) = IF x < n.base THEN n.base ELSE IF x > n.end THEN n.end ELSE x
<1>1. \A a, b \in Int : Min({a, b}) = IF a <= b THEN a ELSE b
  BY DEF Min
<1>2. \A a, b \in Int : Max({a, b}) = IF a <= b THEN b ELSE a
  BY DEF Max
<1> QED
  BY <1>1, <1>2 DEF Clip

(* The left scan of virtual_query returns where the stretch of like pages around p begins. *)
LEMMA ScanLeftEnds ==
  ASSUME WellFormed(pages), NEW n, n.base \in Int, n.end \in Int, NEW p \in n.base..(n.end - 1),
         \A y \in n.base..(n.end - 1) : Found(pages, y)
  PROVE  LeftEnd(n.base, LikePages(RunAt(p), n), p, ScanLeft(p, RunAt(p), n))
<1> DEFINE lo == n.base
           run == RunAt(p)
           G == LikePages(run, n)
           g == [s \in lo..p |-> Clip(n, RunAt(s - 1).start)]
           Left[s \in n.base..p] ==
             IF s > n.base /\ \E r \in Lookup(pages, s - 1) : LikeRun(RunAt(p), r)
             THEN Left[Clip(n, (CHOOSE r \in Lookup(pages, s - 1) : TRUE).start)] ELSE s
<1>1. ScanLeft(p, run, n) = Left[Clip(n, run.start)]
  BY DEF ScanLeft
<1>2. ASSUME NEW s \in lo..p, s > lo
      PROVE  /\ s - 1 \in lo..(n.end - 1) /\ RunAt(s - 1) \in AnyRun /\ Covers(RunAt(s - 1), s - 1)
             /\ Lookup(pages, s - 1) = {RunAt(s - 1)}
             /\ \A y \in Int : Covers(RunAt(s - 1), y) => Lookup(pages, y) = {RunAt(s - 1)}
  <2>1. s - 1 \in lo..(n.end - 1) /\ s - 1 \in Int
    BY <1>2
  <2> QED
    BY <2>1, RunAtFacts
<1>3. ASSUME NEW s \in lo..p
      PROVE  (s > n.base /\ \E r \in Lookup(pages, s - 1) : LikeRun(RunAt(p), r)) <=> (s > lo /\ s - 1 \in G)
  BY <1>2, <1>3 DEF LikePages
<1>4. Jumps(lo, p, G, g)
  <2> SUFFICES ASSUME NEW s \in lo..p, s > lo, s - 1 \in G
               PROVE  g[s] \in lo..(s - 1) /\ \A y \in g[s]..(s - 1) : y \in G
    BY DEF Jumps
  <2> DEFINE r == RunAt(s - 1)
  <2>1. r.start \in Int /\ r.end \in Int /\ r.start <= s - 1 /\ s - 1 < r.end
    BY <1>2 DEF AnyRun, Covers
  <2>2. LikeRun(run, r)
    BY <1>2 DEF LikePages
  <2>3. g[s] = IF r.start < lo THEN lo ELSE r.start
    BY <2>1, ClipFacts
  <2>4. g[s] \in lo..(s - 1) /\ r.start <= g[s]
    BY <2>1, <2>3
  <2> HIDE DEF g
  <2>5. ASSUME NEW y \in g[s]..(s - 1)
        PROVE  y \in G
    <3>1. y \in Int /\ Covers(r, y) /\ y \in n.base..(n.end - 1)
      BY <2>1, <2>4 DEF Covers
    <3>2. Lookup(pages, y) = {r}
      BY <1>2, <3>1
    <3> QED
      BY <2>2, <3>1, <3>2 DEF LikePages
  <2> QED
    BY <2>4, <2>5
<1>5. \E f : f = [s \in n.base..p |->
             IF s > n.base /\ \E r \in Lookup(pages, s - 1) : LikeRun(RunAt(p), r)
             THEN f[Clip(n, (CHOOSE r \in Lookup(pages, s - 1) : TRUE).start)] ELSE s]
  <2> HIDE DEF G, g, run
  <2>1. PICK f : f = [s \in lo..p |-> IF s > lo /\ s - 1 \in G THEN f[g[s]] ELSE s]
    BY <1>4, LeftScanExists
  <2>2. \A s \in lo..p : g[s] = Clip(n, (CHOOSE r \in Lookup(pages, s - 1) : TRUE).start)
    BY DEF g, RunAt
  <2>3. f = [s \in n.base..p |->
             IF s > n.base /\ \E r \in Lookup(pages, s - 1) : LikeRun(RunAt(p), r)
             THEN f[Clip(n, (CHOOSE r \in Lookup(pages, s - 1) : TRUE).start)] ELSE s]
    BY <1>3, <2>1, <2>2
  <2> QED
    BY <2>3
<1>6. Left = [s \in n.base..p |->
             IF s > n.base /\ \E r \in Lookup(pages, s - 1) : LikeRun(RunAt(p), r)
             THEN Left[Clip(n, (CHOOSE r \in Lookup(pages, s - 1) : TRUE).start)] ELSE s]
  BY <1>5, Zenon
<1> HIDE DEF Left
<1>7. \A s \in lo..p : LeftEnd(lo, G, s, Left[s])
  <2> HIDE DEF G, g, run
  <2>2. \A s \in lo..p : g[s] = Clip(n, (CHOOSE r \in Lookup(pages, s - 1) : TRUE).start)
    BY DEF g, RunAt
  <2>3. Left = [s \in lo..p |-> IF s > lo /\ s - 1 \in G THEN Left[g[s]] ELSE s]
    BY <1>3, <1>6, <2>2
  <2> QED
    BY <1>4, <2>3, LeftScanEnds, SMTT(40)
<1>8. /\ run \in AnyRun /\ Covers(run, p) /\ LikeRun(run, run)
      /\ \A y \in Int : Covers(run, y) => Lookup(pages, y) = {run}
  BY RunAtFacts DEF LikeRun
<1>9. run.start \in Int /\ run.end \in Int /\ run.start <= p /\ p < run.end
  BY <1>8 DEF AnyRun, Covers
<1> DEFINE c == Clip(n, run.start)
<1>10. c = IF run.start < lo THEN lo ELSE run.start
  BY <1>9, ClipFacts
<1>11. c \in lo..p /\ run.start <= c
  BY <1>9, <1>10
<1> HIDE DEF c
<1>12. ASSUME NEW y \in c..(p - 1)
       PROVE  y \in G
  <2>1. y \in Int /\ Covers(run, y) /\ y \in n.base..(n.end - 1)
    BY <1>9, <1>11 DEF Covers
  <2> QED
    BY <1>8, <2>1 DEF LikePages
<1>13. LeftEnd(lo, G, c, Left[c])
  BY <1>7, <1>11
<1> HIDE DEF G, run
<1>14. ASSUME NEW y \in Left[c]..(p - 1), Left[c] \in lo..c
       PROVE  y \in Left[c]..(c - 1) \/ y \in c..(p - 1)
  BY <1>11, <1>14
<1>15. LeftEnd(lo, G, p, Left[c])
  BY <1>11, <1>12, <1>13, <1>14 DEF LeftEnd
<1> QED
  BY <1>1, <1>15 DEF c, G, run

(* The right scan returns where it ends. *)
LEMMA ScanRightEnds ==
  ASSUME WellFormed(pages), NEW n, n.base \in Int, n.end \in Int, NEW p \in n.base..(n.end - 1),
         \A y \in n.base..(n.end - 1) : Found(pages, y)
  PROVE  RightEnd(n.end, LikePages(RunAt(p), n), p, ScanRight(p, RunAt(p), n))
<1> DEFINE hi == n.end
           run == RunAt(p)
           G == LikePages(run, n)
           g == [e \in p..hi |-> Clip(n, RunAt(e).end)]
           Right[e \in p..n.end] ==
             IF e < n.end /\ \E r \in Lookup(pages, e) : LikeRun(RunAt(p), r)
             THEN Right[Clip(n, (CHOOSE r \in Lookup(pages, e) : TRUE).end)] ELSE e
<1>1. ScanRight(p, run, n) = Right[Clip(n, run.end)]
  BY DEF ScanRight
<1>2. ASSUME NEW e \in p..hi, e < hi
      PROVE  /\ e \in n.base..(n.end - 1) /\ RunAt(e) \in AnyRun /\ Covers(RunAt(e), e)
             /\ Lookup(pages, e) = {RunAt(e)}
             /\ \A y \in Int : Covers(RunAt(e), y) => Lookup(pages, y) = {RunAt(e)}
  <2>1. e \in n.base..(n.end - 1) /\ e \in Int
    BY <1>2
  <2> QED
    BY <2>1, RunAtFacts
<1>3. ASSUME NEW e \in p..hi
      PROVE  (e < n.end /\ \E r \in Lookup(pages, e) : LikeRun(RunAt(p), r)) <=> (e < hi /\ e \in G)
  BY <1>2, <1>3 DEF LikePages
<1>4. Leaps(p, hi, G, g)
  <2> SUFFICES ASSUME NEW e \in p..hi, e < hi, e \in G
               PROVE  g[e] \in (e + 1)..hi /\ \A y \in e..(g[e] - 1) : y \in G
    BY DEF Leaps
  <2> DEFINE r == RunAt(e)
  <2>1. r.start \in Int /\ r.end \in Int /\ r.start <= e /\ e < r.end
    BY <1>2 DEF AnyRun, Covers
  <2>2. LikeRun(run, r)
    BY <1>2 DEF LikePages
  <2>3. g[e] = IF r.end > hi THEN hi ELSE r.end
    BY <2>1, ClipFacts
  <2>4. g[e] \in (e + 1)..hi /\ g[e] <= r.end
    BY <2>1, <2>3
  <2> HIDE DEF g
  <2>5. ASSUME NEW y \in e..(g[e] - 1)
        PROVE  y \in G
    <3>1. y \in Int /\ Covers(r, y) /\ y \in n.base..(n.end - 1)
      BY <2>1, <2>4 DEF Covers
    <3>2. Lookup(pages, y) = {r}
      BY <1>2, <3>1
    <3> QED
      BY <2>2, <3>1, <3>2 DEF LikePages
  <2> QED
    BY <2>4, <2>5
<1>5. \E f : f = [e \in p..n.end |->
             IF e < n.end /\ \E r \in Lookup(pages, e) : LikeRun(RunAt(p), r)
             THEN f[Clip(n, (CHOOSE r \in Lookup(pages, e) : TRUE).end)] ELSE e]
  <2> HIDE DEF G, g, run
  <2>1. PICK f : f = [e \in p..hi |-> IF e < hi /\ e \in G THEN f[g[e]] ELSE e]
    BY <1>4, RightScanExists
  <2>2. \A e \in p..hi : g[e] = Clip(n, (CHOOSE r \in Lookup(pages, e) : TRUE).end)
    BY DEF g, RunAt
  <2>3. f = [e \in p..n.end |->
             IF e < n.end /\ \E r \in Lookup(pages, e) : LikeRun(RunAt(p), r)
             THEN f[Clip(n, (CHOOSE r \in Lookup(pages, e) : TRUE).end)] ELSE e]
    BY <1>3, <2>1, <2>2
  <2> QED
    BY <2>3
<1>6. Right = [e \in p..n.end |->
             IF e < n.end /\ \E r \in Lookup(pages, e) : LikeRun(RunAt(p), r)
             THEN Right[Clip(n, (CHOOSE r \in Lookup(pages, e) : TRUE).end)] ELSE e]
  BY <1>5, Zenon
<1> HIDE DEF Right
<1>7. \A e \in p..hi : RightEnd(hi, G, e, Right[e])
  <2> HIDE DEF G, g, run
  <2>2. \A e \in p..hi : g[e] = Clip(n, (CHOOSE r \in Lookup(pages, e) : TRUE).end)
    BY DEF g, RunAt
  <2>3. Right = [e \in p..hi |-> IF e < hi /\ e \in G THEN Right[g[e]] ELSE e]
    BY <1>3, <1>6, <2>2
  <2>4. p \in Int /\ hi \in Int
    OBVIOUS
  <2> HIDE DEF hi
  <2> QED
    BY <1>4, <2>3, <2>4, RightScanEnds
<1>8. /\ run \in AnyRun /\ Covers(run, p) /\ LikeRun(run, run)
      /\ \A y \in Int : Covers(run, y) => Lookup(pages, y) = {run}
  BY RunAtFacts DEF LikeRun
<1>9. run.start \in Int /\ run.end \in Int /\ run.start <= p /\ p < run.end
  BY <1>8 DEF AnyRun, Covers
<1> DEFINE c == Clip(n, run.end)
<1>10. c = IF run.end > hi THEN hi ELSE run.end
  BY <1>9, ClipFacts
<1>11. c \in p..hi /\ c <= run.end
  BY <1>9, <1>10
<1> HIDE DEF c
<1>12. ASSUME NEW y \in p..(c - 1)
       PROVE  y \in G
  <2>1. y \in Int /\ Covers(run, y) /\ y \in n.base..(n.end - 1)
    BY <1>9, <1>11 DEF Covers
  <2> QED
    BY <1>8, <2>1 DEF LikePages
<1>13. RightEnd(hi, G, c, Right[c])
  BY <1>7, <1>11
<1> HIDE DEF G, run
<1>14. ASSUME NEW y \in p..(Right[c] - 1), Right[c] \in c..hi
       PROVE  y \in p..(c - 1) \/ y \in c..(Right[c] - 1)
  BY <1>11, <1>14
<1>15. RightEnd(hi, G, p, Right[c])
  BY <1>11, <1>12, <1>13, <1>14 DEF RightEnd
<1> QED
  BY <1>1, <1>15 DEF c, G, run

-----------------------------------------------------------------------------
(* Reserved pages carry no protection. *)
ReservedBare ==
    \A x \in Int : \A q : Says(pages.runs, x, "reserved", q) => q = PAGE_NOACCESS

(* Setting a stretch keeps it so. *)
LEMMA BareSet ==
  ASSUME Core, ReservedBare, NEW lo \in Int, NEW hi \in Int, lo < hi,
         NEW state \in {"free", "reserved", "committed"}, NEW protect \in SUBSET Rights,
         state = "reserved" => protect = PAGE_NOACCESS,
         pages' = SetRange(pages, lo, hi, state, protect)
  PROVE  ReservedBare'
<1>1. SetsExactly(pages.runs, SetRange(pages, lo, hi, state, protect).runs, lo, hi, state, protect)
  BY SetRangeSafe DEF Core
<1>2. SetsExactly(pages.runs, pages'.runs, lo, hi, state, protect)
  BY <1>1
<1> QED
  BY <1>2 DEF SetsExactly, ReservedBare

(* One case per call. *)
LEMMA BareStep ==
  ASSUME Core, ReservedBare, [Next]_vars
  PROVE  ReservedBare'
<1> USE SpanFacts, ProtectFacts
<1>1. ASSUME NEW s \in Layout, NEW m \in Perms, Map(s[1], s[2], m)
      PROVE  ReservedBare'
  BY <1>1, BareSet DEF Map
<1>2. ASSUME Allocate
      PROVE  ReservedBare'
  <2>1. PICK lo \in Int, hi \in Int, commit \in BOOLEAN, q \in Protects :
           lo < hi /\ Reserve(lo, hi, commit, q)
    BY <1>2, AllocateReserves
  <2> QED
    BY <2>1, BareSet DEF Reserve
<1>3. ASSUME NEW s \in Spans, NEW q \in Protects, CommitOnly(s[1], s[2], q) \/ VirtualProtect(s[1], s[2], q)
      PROVE  ReservedBare'
  BY <1>3, BareSet DEF CommitOnly, VirtualProtect
<1>4. ASSUME pages'.runs = pages.runs
      PROVE  ReservedBare'
  BY <1>4 DEF ReservedBare
<1>5. ASSUME NEW s \in Spans, Decommit(s[1], s[2])
      PROVE  ReservedBare'
  BY <1>4, <1>5, BareSet DEF Decommit
<1>6. ASSUME NEW n \in vad, Release(n)
      PROVE  ReservedBare'
  <2>1. n.base \in Int /\ n.end \in Int /\ n.base < n.end
    BY GuestMemoryAssumption DEF Core, Extents, Pages
  <2> QED
    BY <1>6, <2>1, BareSet DEF Release
<1>7. ASSUME NEW s \in Spans, NEW kind, Read(s[1], s[2], kind) \/ Write(s[1], s[2])
      PROVE  ReservedBare'
  BY <1>4, <1>7, CheckedSafe DEF Read, Write, Core
<1>8. ASSUME UNCHANGED pages
      PROVE  ReservedBare'
  BY <1>4, <1>8
<1> QED
  BY <1>1, <1>2, <1>3, <1>5, <1>6, <1>7, <1>8 DEF Next, Pin, PinnedStore, vars

(* What VirtualQuery reports of a page of an allocation. *)
LEMMA AllocatedExact ==
  ASSUME Core, StorageMatches, ReservedBare, NEW p \in Pages, NEW n \in NodeAt(p)
  PROVE  LET q == VirtualQuery(p)
             Same(x) == PageIs(x) = PageIs(p) /\ NodeAt(x) = NodeAt(p)
         IN  /\ Span(q.base, q.end) = {x \in Pages : \A y \in (x..p) \cup (p..x) : Same(y)}
             /\ q.alloc = n.base
             /\ PageIs(p) = {<<q.state, q.protect>>}
<1> DEFINE run == RunAt(p)
           G == LikePages(run, n)
           q == VirtualQuery(p)
           Same(x) == PageIs(x) = PageIs(p) /\ NodeAt(x) = NodeAt(p)
<1>1. /\ n \in vad /\ n.base \in Int /\ n.end \in Int /\ First <= n.base /\ n.end <= Last + 1
      /\ p \in n.base..(n.end - 1) /\ First \in Int /\ Last \in Int /\ p \in Int
  BY GuestMemoryAssumption DEF Core, Extents, Pages, NodeAt
<1>0. ASSUME NEW z \in n.base..(n.end - 1)
      PROVE  NodeAt(z) = {n}
  <2>1. \A m \in vad : m.base \in Int /\ m.end \in Int /\ (m = n \/ m.end <= n.base \/ n.end <= m.base)
    BY <1>1, GuestMemoryAssumption DEF Core, Extents, Pages, StorageMatches
  <2> QED
    BY <1>0, <1>1, <2>1 DEF NodeAt
<1>2. ASSUME NEW y \in Pages
      PROVE  NodeAt(y) = NodeAt(p) <=> y \in n.base..(n.end - 1)
  <2>2. y \in Int
    BY <1>1 DEF Pages
  <2>4. y \notin n.base..(n.end - 1) => n \notin NodeAt(y)
    BY <1>1, <2>2 DEF NodeAt
  <2> QED
    BY <1>0, <1>1, <2>4
<1>3. \A y \in n.base..(n.end - 1) : y \in Pages /\ y \in Int
  BY <1>1 DEF Pages
<1>4. \A y \in n.base..(n.end - 1) : Found(pages, y)
  <2>1. \A y \in n.base..(n.end - 1) : n \in NodeAt(y)
    BY <1>1 DEF NodeAt
  <2> QED
    BY <1>3, <2>1 DEF StorageMatches
<1>5. ASSUME NEW y \in n.base..(n.end - 1)
      PROVE  /\ PageIs(y) = {<<RunAt(y).state, RunAt(y).protect>>}
             /\ RunAt(y).state \in {"reserved", "committed"}
             /\ RunAt(y).state = "reserved" => RunAt(y).protect = {}
             /\ y \in G <=> LikeRun(run, RunAt(y))
  <2>1. /\ RunAt(y) \in pages.runs /\ RunAt(y) \in AnyRun /\ Covers(RunAt(y), y)
        /\ Lookup(pages, y) = {RunAt(y)}
    BY <1>3, <1>4, RunAtFacts DEF Core
  <2>2. RunAt(y).state = "reserved" => RunAt(y).protect = {}
    BY <1>3, <2>1 DEF ReservedBare, Says, PAGE_NOACCESS
  <2> QED
    BY <2>1, <2>2 DEF PageIs, LikePages, AnyRun
<1>6. ASSUME NEW y \in n.base..(n.end - 1)
      PROVE  y \in G <=> PageIs(y) = PageIs(p)
  <2>1. LikeRun(run, RunAt(y)) <=> RunAt(y).state = run.state /\ RunAt(y).protect = run.protect
    BY <1>1, <1>5 DEF LikeRun
  <2>2. \A u, v : {u} = {v} => u = v
    OBVIOUS
  <2>3. \A a, b, c, d : <<a, b>> = <<c, d>> <=> a = c /\ b = d
    OBVIOUS
  <2>4. PageIs(y) = {<<RunAt(y).state, RunAt(y).protect>>} /\ PageIs(p) = {<<run.state, run.protect>>}
    BY <1>1, <1>5
  <2>5. PageIs(y) = PageIs(p) <=> RunAt(y).state = run.state /\ RunAt(y).protect = run.protect
    <3> DEFINE u == <<RunAt(y).state, RunAt(y).protect>>
               v == <<run.state, run.protect>>
    <3>1. u = v <=> RunAt(y).state = run.state /\ RunAt(y).protect = run.protect
      BY <2>3
    <3>2. PageIs(y) = {u} /\ PageIs(p) = {v}
      BY <2>4
    <3> HIDE DEF u, v
    <3>3. PageIs(y) = PageIs(p) <=> u = v
      BY <2>2, <3>2
    <3> QED
      BY <3>1, <3>3
  <2> QED
    BY <1>5, <2>1, <2>5
<1>7. ASSUME NEW y \in Pages
      PROVE  Same(y) <=> y \in G
  BY <1>2, <1>6 DEF LikePages
<1>8. q = QueryAllocated(p, run, n)
  <2>1. Found(pages, p) /\ NodeAt(p) = {n}
    BY <1>0, <1>1, <1>4
  <2>2. (CHOOSE m \in NodeAt(p) : TRUE) = n
    BY <2>1
  <2> QED
    BY <2>1, <2>2 DEF VirtualQuery, RunAt
<1>9. q.base = ScanLeft(p, run, n) /\ q.end = ScanRight(p, run, n) /\ q.alloc = n.base /\ q.state = run.state
      /\ q.protect = IF run.state = "committed" THEN run.protect ELSE {}
  BY <1>8 DEF QueryAllocated
<1>10. LeftEnd(n.base, G, p, q.base) /\ RightEnd(n.end, G, p, q.end)
  BY <1>1, <1>4, <1>9, ScanLeftEnds, ScanRightEnds DEF Core
<1>11. PageIs(p) = {<<q.state, q.protect>>}
  BY <1>1, <1>5, <1>9
<1> HIDE DEF q, G, run
<1>12. /\ q.base \in n.base..p /\ q.end \in p..n.end
       /\ \A y \in q.base..(p - 1) : y \in G
       /\ \A y \in p..(q.end - 1) : y \in G
       /\ q.base = n.base \/ q.base - 1 \notin G
       /\ q.end = n.end \/ q.end \notin G
  BY <1>10 DEF LeftEnd, RightEnd
<1>13. p \in G
  BY <1>1, <1>6
<1>18. p < q.end
  BY <1>1, <1>12, <1>13
<1>14. \A y \in G : y \in n.base..(n.end - 1)
  BY DEF G, LikePages
<1>15. ASSUME NEW x \in Span(q.base, q.end), NEW y \in (x..p) \cup (p..x)
       PROVE  Same(y)
  <2>1. x \in Int /\ q.base <= x /\ x < q.end
    BY <1>1 DEF Span, Pages
  <2>2. y \in q.base..(p - 1) \/ y \in p..(q.end - 1)
    BY <1>1, <1>12, <1>18, <2>1
  <2> QED
    BY <1>3, <1>7, <1>12, <1>14, <2>2
<1>16. ASSUME NEW x \in Pages, \A y \in (x..p) \cup (p..x) : Same(y)
       PROVE  x \in Span(q.base, q.end)
  <2>1. x \in Int
    BY <1>1 DEF Pages
  <2>2. ASSUME NEW y \in (x..p) \cup (p..x)
        PROVE  y \in G
    <3>1. y \in Pages
      BY <1>1, <2>1 DEF Pages
    <3> QED
      BY <1>7, <1>16, <3>1
  <2>3. q.base <= x
    <3> SUFFICES ASSUME x < q.base
                 PROVE  FALSE
      BY <1>1, <1>12, <2>1
    <3>1. q.base - 1 \in x..p /\ x \in x..p
      BY <1>1, <1>12, <2>1
    <3>2. q.base - 1 \in G /\ x \in G
      BY <2>2, <3>1
    <3> QED
      BY <1>1, <1>12, <1>14, <2>1, <3>2
  <2>4. x < q.end
    <3> SUFFICES ASSUME q.end <= x
                 PROVE  FALSE
      BY <1>1, <1>12, <2>1
    <3>1. q.end \in p..x
      BY <1>1, <1>12, <2>1
    <3>2. q.end \in G
      BY <2>2, <3>1
    <3> QED
      BY <1>1, <1>12, <1>14, <3>2
  <2> QED
    BY <2>3, <2>4 DEF Span
<1>17. Span(q.base, q.end) = {x \in Pages : \A y \in (x..p) \cup (p..x) : Same(y)}
  BY <1>15, <1>16 DEF Span
<1> QED
  BY <1>9, <1>11, <1>17 DEF q

(* What it reports of a page that no allocation owns. *)
LEMMA FreeExact ==
  ASSUME Core, StorageMatches, NEW p \in Pages, NodeAt(p) = {}
  PROVE  LET q == VirtualQuery(p)
         IN  /\ q.state = "free"
             /\ \A x \in Span(q.base, q.end) : NodeAt(x) = {} /\ ~Found(pages, x)
             /\ (\E x \in Pages : x > p /\ NodeAt(x) # {}) => NodeAt(q.end) # {}
<1> DEFINE q == VirtualQuery(p)
           above == {n.base : n \in {m \in vad : m.base > p}} \cup {r.start : r \in {t \in pages.runs : t.start > p}}
<1>1. /\ First \in Nat /\ Last \in Int /\ p \in Int /\ First <= p /\ p <= Last
      /\ \A n \in vad : n.base \in Int /\ n.end \in Int /\ n.base < n.end /\ n.base <= Last
      /\ \A r \in pages.runs : r.start \in Int /\ r.end \in Int /\ r.start < r.end
  BY GuestMemoryAssumption DEF Core, Extents, Pages, WellFormed, AnyRun, Apart
<1>2. q = QueryFree(p)
  BY DEF VirtualQuery
<1>3. q.state = "free" /\ q.base = p /\ q.end = IF above = {} THEN p + Gran ELSE Min(above)
  BY <1>2 DEF QueryFree
<1>4. above \in SUBSET Int /\ \A a \in above : p + 1 <= a
  BY <1>1
<1>5. above # {} => Min(above) \in above /\ \A a \in above : Min(above) <= a
  <2> SUFFICES ASSUME above # {}
               PROVE  Min(above) \in above /\ \A a \in above : Min(above) <= a
    OBVIOUS
  <2>1. p + 1 \in Int
    BY <1>1
  <2> HIDE DEF above
  <2>2. \E x \in above : \A y \in above : x <= y
    BY <1>4, <2>1, LeastAbove
  <2> QED
    BY <2>2 DEF Min
<1>6. ASSUME NEW x \in Pages, x >= p, NodeAt(x) # {}
      PROVE  \E a \in above : a <= x
  <2>1. PICK n \in vad : n.base <= x /\ x < n.end
    BY <1>6 DEF NodeAt
  <2>2. n.base > p
    <3>1. ~(n.base <= p /\ p < n.end)
      BY <2>1 DEF NodeAt
    <3> QED
      BY <1>1, <1>6, <2>1, <3>1 DEF Pages
  <2> QED
    BY <2>1, <2>2
<1>7. ASSUME NEW x \in Span(q.base, q.end)
      PROVE  NodeAt(x) = {}
  <2>1. x \in Pages /\ x \in Int /\ p <= x /\ x < q.end
    <3> HIDE DEF q, above
    <3> QED
      BY <1>1, <1>3 DEF Span, Pages
  <2> SUFFICES ASSUME NodeAt(x) # {}
               PROVE  FALSE
    OBVIOUS
  <2>2. PICK a \in above : a <= x
    BY <1>6, <2>1
  <2> HIDE DEF above, q
  <2>3. q.end = Min(above) /\ Min(above) <= a /\ Min(above) \in Int /\ a \in Int
    BY <1>3, <1>4, <1>5, <2>2
  <2> QED
    BY <2>1, <2>2, <2>3
<1>8. ASSUME NEW x \in Pages, x > p, NodeAt(x) # {}
      PROVE  NodeAt(q.end) # {}
  <2>1. PICK a \in above : a <= x
    BY <1>1, <1>6, <1>8 DEF Pages
  <2>2. /\ q.end = Min(above) /\ Min(above) \in above /\ Min(above) <= a
    BY <1>3, <1>5, <2>1
  <2>3. q.end \in Int /\ p < q.end /\ q.end <= x /\ x \in Int
    <3> HIDE DEF above, q
    <3>1. a \in Int /\ q.end \in Int /\ p + 1 <= q.end /\ q.end <= a
      BY <1>4, <2>1, <2>2
    <3>2. x \in Int
      BY <1>1 DEF Pages
    <3> QED
      BY <1>1, <2>1, <3>1, <3>2
  <2>4. q.end \in Pages
    BY <1>1, <2>3 DEF Pages
  <2>5. CASE \E n \in vad : q.end = n.base
    BY <1>1, <2>5 DEF NodeAt
  <2>6. CASE \E r \in pages.runs : q.end = r.start
    <3>1. PICK r \in pages.runs : q.end = r.start
      BY <2>6
    <3>2. Covers(r, q.end)
      BY <1>1, <3>1 DEF Covers
    <3>3. Found(pages, q.end)
      BY <2>3, <3>1, <3>2, LookupIsCover DEF Found, Core
    <3> QED
      BY <2>4, <3>3 DEF StorageMatches
  <2> QED
    BY <2>2, <2>5, <2>6
<1>9. \A x \in Span(q.base, q.end) : ~Found(pages, x)
  BY <1>7 DEF StorageMatches, Span
<1> QED
  BY <1>3, <1>7, <1>8, <1>9 DEF q

(* VirtualQuery reports, in every reachable state, exactly the largest like stretch around a page, *)
(* and for a free page free pages only, as long as the loader maps free ranges.                    *)
THEOREM QueriesExact == ASSUME ~OccupiedMaps PROVE Spec => []QueryExact
<1>1. Core /\ StorageMatches /\ ReservedBare => QueryExact
  <2> SUFFICES ASSUME Core, StorageMatches, ReservedBare, NEW p \in Pages
               PROVE  LET q == VirtualQuery(p)
                          Same(x) == PageIs(x) = PageIs(p) /\ NodeAt(x) = NodeAt(p)
                          alike == {x \in Pages : \A y \in (x..p) \cup (p..x) : Same(y)}
                      IN  IF NodeAt(p) # {}
                          THEN /\ Span(q.base, q.end) = alike
                               /\ \E n \in NodeAt(p) : q.alloc = n.base
                               /\ PageIs(p) = {<<q.state, q.protect>>}
                          ELSE /\ q.state = "free"
                               /\ \A x \in Span(q.base, q.end) : NodeAt(x) = {} /\ ~Found(pages, x)
                               /\ (\E x \in Pages : x > p /\ NodeAt(x) # {}) => NodeAt(q.end) # {}
    BY DEF QueryExact
  <2>1. CASE NodeAt(p) # {}
    BY <2>1, AllocatedExact, Zenon
  <2>2. CASE NodeAt(p) = {}
    BY <2>2, FreeExact, Zenon
  <2> QED
    BY <2>1, <2>2
<1>2. Init => ReservedBare
  BY DEF Init, EmptyMap, ReservedBare, Says
<1>3. Core /\ ReservedBare /\ [Next]_vars => ReservedBare'
  BY BareStep
<1> QED
  BY CoreInit, CoreStep, StorageInStep, <1>1, <1>2, <1>3, PTL DEF Spec
=============================================================================
