---------------------------- MODULE FilesProofs ----------------------------
(***************************************************************************)
(* Proofs about Files, for every namespace, every host tree, every size of *)
(* table and arena and every number of handles and calls.                  *)
(***************************************************************************)
EXTENDS Files, FiniteSetTheorems, WellFoundedInduction, TLAPS

Bytes == Seq(Nat)
Node == [kind : {"file", "dir", "none"}, bytes : Bytes]

---------------------------------------------------------------------------
(* The invariant *)

\* A host tree: files where they are mounted, directories above everything.
TreeOf(d) ==
  \A k, q \in HostPaths : IsStrictPrefix(q, k) /\ d[k].kind # "none" => d[q].kind = "dir"
DiskOf(d) ==
  /\ d \in [HostPaths -> Node]
  /\ \A p \in Mounted : d[MountFile(p)].kind = "file"
  /\ TreeOf(d)

\* A virtual file is on no mapped drive.
VirtualOf(v) ==
  /\ DOMAIN v \subseteq Paths
  /\ \A p \in DOMAIN v : v[p] \in Bytes /\ Head(p) \notin Volumes

NamesInv == DiskOf(disk) /\ VirtualOf(virtual_files) /\ cwd \in Dirs

\* A handle's record; its host path is the one of its guest path.
RecordOf(f) ==
  /\ f \in [path : Paths, bytes : Bytes, cursor : Nat, host : HostPaths \cup {NoHost},
            streaming : BOOLEAN, data : Nat, slot : 0 .. Slots]
  /\ f.host = host_path_of(f.path)
  /\ f.streaming => f.host # NoHost /\ f.slot = 0
HandlesInv ==
  /\ opened \in Nat
  /\ DOMAIN open_files \subseteq 1 .. opened
  /\ open_files = [h \in DOMAIN open_files |-> open_files[h]]
  /\ \A h \in DOMAIN open_files : RecordOf(open_files[h])
  /\ pos \in [DOMAIN open_files -> Nat]

\* The table and the arena: a record with a slot has it, at the record's
\* address; mirrors start at different addresses of the used part.
TableInv ==
  /\ table \in [1 .. Slots -> [handle : Nat, data : Nat, size : Nat, cursor : Nat]]
  /\ arena \in [1 .. ArenaSize -> Nat] /\ arena_next \in 0 .. ArenaSize
  /\ overrun \in BOOLEAN
  /\ \A h \in DOMAIN open_files : Mirrored(h) =>
       /\ Slot(h).handle = h /\ Slot(h).data = open_files[h].data
       /\ open_files[h].data < arena_next
  /\ \A g, h \in DOMAIN open_files :
       Mirrored(g) /\ Mirrored(h) /\ g # h => open_files[g].data # open_files[h].data

\* A handle that has not drifted: its slot has its size, its mirror ends
\* before the next one starts and has its bytes, and the next read is at pos.
ExactOf(h) ==
  LET f == open_files[h] IN
  /\ ~failed => NextRead(h) = pos[h]
  /\ Mirrored(h) =>
       /\ Slot(h).size = Len(f.bytes)
       /\ f.data + Len(f.bytes) <= arena_next
       /\ \A g \in DOMAIN open_files :
            Mirrored(g) /\ f.data < open_files[g].data => f.data + Len(f.bytes) <= open_files[g].data
       /\ ~overrun => \A i \in 1 .. Len(f.bytes) : arena[f.data + i] = f.bytes[i]
MirrorInv == TableInv /\ \A h \in DOMAIN open_files \ drifted : ExactOf(h)

\* A file that at most one handle is open on.
HandleOn(p, h) ==
  LET f == open_files[h] IN
  /\ content[p].kind = "file"
  /\ f.host # NoHost => disk[f.host].kind = "file"
  /\ (IF f.streaming THEN disk[f.host] ELSE File(f.bytes)) = content[p]
  /\ h \notin dirty /\ f.host # NoHost => disk[f.host] = content[p]
FileOf(p) ==
  /\ \A g, h \in HandlesOn(p) : g = h
  /\ HandlesOn(p) = {} => resolve_guest_file_bytes(p) = content[p]
  /\ \A h \in HandlesOn(p) : HandleOn(p, h)
Plain(p) == ~is_main_module_path(p) /\ ~(p \in Mounted /\ Head(p) \in Volumes)
ContentInv ==
  /\ content \in [Paths -> Node]
  /\ shared \subseteq Paths
  /\ \A p \in shared : HandlesOn(p) # {}
  /\ \A p \in Paths \ shared : Plain(p) => FileOf(p)

\* Console input.
InputInv ==
  /\ stdin \in [bytes : Bytes, live : BOOLEAN]
  /\ input \in [typed : Nat, given : Bytes]
  /\ InputInOrder

---------------------------------------------------------------------------
(* Sequences *)

\* Two sequences with the same elements are one.
LEMMA SameSeq ==
  ASSUME NEW S, NEW s \in Seq(S), NEW t \in Seq(S), Len(s) = Len(t),
         \A i \in 1 .. Len(s) : s[i] = t[i]
  PROVE  s = t
OBVIOUS

\* A function on the first naturals is a sequence.
LEMMA MakeSeq ==
  ASSUME NEW S, NEW n \in Nat, NEW f, f = [i \in 1 .. n |-> f[i]], \A i \in 1 .. n : f[i] \in S
  PROVE  f \in Seq(S) /\ Len(f) = n
<1>1. f \in [1 .. n -> S]
  OBVIOUS
<1>2. f \in Seq(S)
  BY <1>1
<1>3. DOMAIN f = 1 .. n
  BY <1>1
<1> QED
  BY <1>2, <1>3

\* A sequence over a set is one over a larger set.
LEMMA WiderSeq ==
  ASSUME NEW S, NEW T, S \subseteq T, NEW s \in Seq(S)
  PROVE  s \in Seq(T)
<1>1. Len(s) \in Nat /\ s = [i \in 1 .. Len(s) |-> s[i]] /\ \A i \in 1 .. Len(s) : s[i] \in S
  OBVIOUS
<1>2. \A i \in 1 .. Len(s) : s[i] \in T
  BY <1>1
<1> QED
  BY <1>1, <1>2, MakeSeq

\* The first n elements of a sequence, and those after them.
LEMMA Parts ==
  ASSUME NEW S, NEW s \in Seq(S), NEW n \in 0 .. Len(s)
  PROVE  /\ SubSeq(s, 1, n) \in Seq(S) /\ Len(SubSeq(s, 1, n)) = n
         /\ \A i \in 1 .. n : SubSeq(s, 1, n)[i] = s[i]
         /\ SubSeq(s, n + 1, Len(s)) \in Seq(S) /\ Len(SubSeq(s, n + 1, Len(s))) = Len(s) - n
         /\ \A i \in 1 .. Len(s) - n : SubSeq(s, n + 1, Len(s))[i] = s[n + i]
OBVIOUS

\* Concatenation.
LEMMA Joined ==
  ASSUME NEW S, NEW s \in Seq(S), NEW t \in Seq(S)
  PROVE  /\ s \o t \in Seq(S) /\ Len(s \o t) = Len(s) + Len(t)
         /\ \A i \in 1 .. Len(s) : (s \o t)[i] = s[i]
         /\ \A i \in 1 .. Len(t) : (s \o t)[Len(s) + i] = t[i]
OBVIOUS

\* A sequence of one element.
LEMMA OneElement ==
  ASSUME NEW S, NEW x \in S
  PROVE  <<x>> \in Seq(S) /\ Len(<<x>>) = 1 /\ <<x>>[1] = x /\ Head(<<x>>) = x /\ <<x>> # <<>>
OBVIOUS

\* The lesser of two numbers.
LEMMA MinOfTwo ==
  ASSUME NEW m \in Int, NEW n \in Int
  PROVE  Min({m, n}) = (IF m <= n THEN m ELSE n)
<1>1. \E x \in {m, n} : \A y \in {m, n} : x <= y
  OBVIOUS
<1>2. Min({m, n}) \in {m, n} /\ \A y \in {m, n} : Min({m, n}) <= y
  BY <1>1 DEF Min
<1> QED
  BY <1>2

\* The greater of two numbers.
LEMMA MaxOfTwo ==
  ASSUME NEW m \in Int, NEW n \in Int
  PROVE  Max({m, n}) = (IF m <= n THEN n ELSE m)
<1>1. \E x \in {m, n} : \A y \in {m, n} : x >= y
  OBVIOUS
<1>2. Max({m, n}) \in {m, n} /\ \A y \in {m, n} : Max({m, n}) >= y
  BY <1>1 DEF Max
<1> QED
  BY <1>2

---------------------------------------------------------------------------
(* Console input *)

\* Taking the front of what is buffered, after what was given, loses nothing.
LEMMA TakeFront ==
  ASSUME NEW given \in Bytes, NEW s \in Bytes, NEW n \in 0 .. Len(s)
  PROVE  /\ (given \o SubSeq(s, 1, n)) \o SubSeq(s, n + 1, Len(s)) = given \o s
         /\ given \o SubSeq(s, 1, n) \in Bytes /\ SubSeq(s, n + 1, Len(s)) \in Bytes
<1> DEFINE a == SubSeq(s, 1, n)
           b == SubSeq(s, n + 1, Len(s))
<1>1. /\ a \in Bytes /\ Len(a) = n /\ \A i \in 1 .. n : a[i] = s[i]
      /\ b \in Bytes /\ Len(b) = Len(s) - n /\ \A i \in 1 .. Len(s) - n : b[i] = s[n + i]
  BY Parts DEF Bytes
<1> HIDE DEF a, b
<1>2. given \o a \in Bytes /\ Len(given \o a) = Len(given) + n
  BY <1>1, Joined DEF Bytes
<1>3. (given \o a) \o b \in Bytes /\ Len((given \o a) \o b) = Len(given) + Len(s)
  <2>1. (given \o a) \o b \in Bytes /\ Len((given \o a) \o b) = Len(given \o a) + Len(b)
    BY <1>1, <1>2, Joined DEF Bytes
  <2>2. Len(given) \in Nat /\ Len(s) \in Nat
    BY DEF Bytes
  <2> QED
    BY <1>1, <1>2, <2>1, <2>2
<1>4. given \o s \in Bytes /\ Len(given \o s) = Len(given) + Len(s)
  BY Joined DEF Bytes
<1>5. ASSUME NEW i \in 1 .. Len(given) + Len(s)
      PROVE  ((given \o a) \o b)[i] = (given \o s)[i]
  <2>0. Len(given) \in Nat /\ Len(s) \in Nat
    BY DEF Bytes
  <2>1. CASE i <= Len(given)
    BY <1>1, <1>2, <2>0, <2>1, Joined DEF Bytes
  <2>2. CASE i > Len(given) /\ i <= Len(given) + n
    <3>1. PICK j \in 1 .. n : i = Len(given) + j
      BY <2>0, <2>2
    <3>2. (given \o a)[i] = a[j]
      BY <1>1, <3>1, Joined DEF Bytes
    <3>3. ((given \o a) \o b)[i] = (given \o a)[i]
      <4>1. i \in 1 .. Len(given \o a)
        BY <1>2, <2>0, <2>2
      <4> QED
        BY <1>1, <1>2, <4>1, Joined DEF Bytes
    <3>4. (given \o s)[i] = s[j]
      <4>1. j \in 1 .. Len(s)
        BY <2>0
      <4> QED
        BY <3>1, <4>1, Joined DEF Bytes
    <3> QED
      BY <1>1, <3>2, <3>3, <3>4
  <2>3. CASE i > Len(given) + n
    <3> DEFINE j == i - Len(given) - n
    <3>1. j \in 1 .. Len(s) - n /\ i = (Len(given) + n) + j
      BY <2>0, <2>3
    <3> HIDE DEF j
    <3>2. ((given \o a) \o b)[i] = b[j]
      <4>1. j \in 1 .. Len(b) /\ i = Len(given \o a) + j
        BY <1>1, <1>2, <3>1
      <4>2. given \o a \in Seq(Nat) /\ b \in Seq(Nat)
        BY <1>1, <1>2 DEF Bytes
      <4> QED
        BY <4>1, <4>2, Joined, SMTT(40)
    <3>3. n + j \in 1 .. Len(s) /\ i = Len(given) + (n + j)
      BY <2>0, <3>1
    <3>4. (given \o s)[i] = s[n + j]
      BY <3>3, Joined DEF Bytes
    <3> QED
      BY <1>1, <3>1, <3>2, <3>4
  <2>4. i <= Len(given) \/ (i > Len(given) /\ i <= Len(given) + n) \/ i > Len(given) + n
    BY <2>0
  <2> QED
    BY <2>1, <2>2, <2>3, <2>4
<1>6. (given \o a) \o b = given \o s
  <2>1. /\ (given \o a) \o b \in Seq(Nat) /\ given \o s \in Seq(Nat)
        /\ Len((given \o a) \o b) = Len(given \o s)
        /\ \A i \in 1 .. Len((given \o a) \o b) : ((given \o a) \o b)[i] = (given \o s)[i]
    BY <1>3, <1>4, <1>5 DEF Bytes
  <2> QED
    BY <2>1, SameSeq
<1> QED
  BY <1>1, <1>2, <1>6 DEF a, b

\* The bytes of s are numbered from m on.
Numbered(s, m) == \A i \in 1 .. Len(s) : s[i] = m + i

\* A line is numbered on from what was typed before it.
LEMMA NextLine ==
  ASSUME NEW g \in Seq(Nat), NEW s \in Seq(Nat), Numbered(g, 0), Numbered(s, Len(g))
  PROVE  g \o s = [i \in 1 .. Len(g) + Len(s) |-> i]
<1>1. /\ g \o s \in Seq(Nat) /\ Len(g \o s) = Len(g) + Len(s)
      /\ \A i \in 1 .. Len(g) : (g \o s)[i] = g[i]
      /\ \A i \in 1 .. Len(s) : (g \o s)[Len(g) + i] = s[i]
  BY Joined
<1>2. Len(g) \in Nat /\ Len(s) \in Nat
  OBVIOUS
<1>3. ASSUME NEW i \in 1 .. Len(g) + Len(s) PROVE (g \o s)[i] = i
  <2>1. CASE i <= Len(g)
    <3>1. (g \o s)[i] = g[i] /\ g[i] = 0 + i
      BY <1>1, <1>2, <2>1 DEF Numbered
    <3> QED
      BY <3>1
  <2>2. CASE i > Len(g)
    <3> DEFINE j == i - Len(g)
    <3>1. j \in 1 .. Len(s) /\ i = Len(g) + j
      BY <1>2, <2>2
    <3> HIDE DEF j
    <3>2. (g \o s)[Len(g) + j] = s[j] /\ s[j] = Len(g) + j
      BY <1>1, <3>1 DEF Numbered
    <3> QED
      BY <3>1, <3>2
  <2> QED
    BY <1>2, <2>1, <2>2
<1> DEFINE t == g \o s
           n == Len(g) + Len(s)
<1>4. t \in Seq(Nat) /\ DOMAIN t = 1 .. n /\ \A i \in 1 .. n : t[i] = i
  BY <1>1, <1>3
<1> HIDE DEF t, n
<1>5. t = [i \in 1 .. n |-> i]
  BY <1>4
<1> QED
  BY <1>5 DEF t, n

\* The run starts with nothing given.
LEMMA InputInit == Init => InputInv
<1> SUFFICES ASSUME Init PROVE InputInv
  OBVIOUS
<1>1. stdin \in {[bytes |-> <<>>, live |-> TRUE], [bytes |-> <<1, 2>>, live |-> FALSE],
                 [bytes |-> <<>>, live |-> FALSE]}
  BY DEF Init
<1>2. input = [typed |-> Len(stdin.bytes), given |-> <<>>]
  BY DEF Init
<1>3. <<>> \in Bytes /\ <<1, 2>> \in Bytes
  BY DEF Bytes
<1>4. stdin \in [bytes : Bytes, live : BOOLEAN]
  <2>1. CASE stdin = [bytes |-> <<>>, live |-> TRUE]
    BY <1>3, <2>1
  <2>2. CASE stdin = [bytes |-> <<1, 2>>, live |-> FALSE]
    BY <1>3, <2>2
  <2>3. CASE stdin = [bytes |-> <<>>, live |-> FALSE]
    BY <1>3, <2>3
  <2> QED
    BY <1>1, <2>1, <2>2, <2>3
<1>5. input \in [typed : Nat, given : Bytes]
  BY <1>2, <1>3, <1>4 DEF Bytes
<1>6. stdin.bytes = [i \in 1 .. Len(stdin.bytes) |-> i]
  <2>1. CASE stdin.bytes = <<>>
    BY <2>1
  <2>2. CASE stdin.bytes = <<1, 2>>
    BY <2>2
  <2> QED
    BY <1>1, <2>1, <2>2
<1>7. input.given \o stdin.bytes = stdin.bytes
  BY <1>2, <1>4 DEF Bytes
<1> QED
  BY <1>2, <1>4, <1>5, <1>6, <1>7 DEF InputInv, InputInOrder

\* A read of the console.
LEMMA ReadStdinStep ==
  ASSUME InputInv, NEW n \in 1 .. 2, NEW line \in 0 .. 2, read_stdin(n, line)
  PROVE  InputInv'
<1> DEFINE s == IF NeedsLine(n) THEN refill_stdin_from_host(line) ELSE stdin.bytes
           taken == Min({n, Len(s)})
           typed == input.typed + line
<1>1. /\ NeedsLine(n) \/ line = 0
      /\ stdin' = [stdin EXCEPT !.bytes = SubSeq(s, taken + 1, Len(s))]
      /\ input' = [typed |-> typed, given |-> input.given \o SubSeq(s, 1, taken)]
  BY DEF read_stdin
<1>2. /\ stdin \in [bytes : Bytes, live : BOOLEAN] /\ input \in [typed : Nat, given : Bytes]
      /\ input.given \o stdin.bytes = [i \in 1 .. input.typed |-> i]
  BY DEF InputInv, InputInOrder
<1>3. s \in Bytes /\ input.given \o s = [i \in 1 .. typed |-> i]
  <2>1. CASE NeedsLine(n)
    <3>1. stdin.bytes = <<>> /\ s = [i \in 1 .. line |-> input.typed + i]
      BY <2>1 DEF NeedsLine, refill_stdin_from_host
    <3>2. input.given = [i \in 1 .. input.typed |-> i]
      BY <1>2, <3>1 DEF Bytes
    <3>3. Len(input.given) = input.typed /\ Numbered(input.given, 0) /\ input.given \in Seq(Nat)
      <4>1. Len(input.given) = input.typed /\ \A i \in 1 .. input.typed : input.given[i] = 0 + i
        BY <1>2, <3>2
      <4> QED
        BY <1>2, <4>1 DEF Numbered, Bytes
    <3>4. s \in Seq(Nat) /\ Len(s) = line /\ Numbered(s, input.typed)
      <4>1. \A i \in 1 .. line : s[i] = input.typed + i /\ s[i] \in Nat
        BY <1>2, <3>1
      <4>2. s = [i \in 1 .. line |-> s[i]] /\ line \in Nat
        BY <3>1, <4>1
      <4> HIDE DEF s
      <4>3. s \in Seq(Nat) /\ Len(s) = line
        BY <4>1, <4>2, MakeSeq
      <4> QED
        BY <4>1, <4>3 DEF Numbered
    <3> HIDE DEF s
    <3>5. input.given \o s = [i \in 1 .. Len(input.given) + Len(s) |-> i]
      BY <3>3, <3>4, NextLine
    <3> QED
      BY <3>3, <3>4, <3>5 DEF Bytes
  <2>2. CASE ~NeedsLine(n)
    <3>1. s = stdin.bytes /\ line = 0 /\ typed = input.typed
      BY <1>1, <1>2, <2>2
    <3> QED
      BY <1>2, <3>1
  <2> QED
    BY <2>1, <2>2
<1> HIDE DEF s
<1>4. taken \in 0 .. Len(s)
  <2>1. Len(s) \in Nat
    BY <1>3 DEF Bytes
  <2> QED
    BY <2>1, MinOfTwo
<1> HIDE DEF taken
<1>5. /\ (input.given \o SubSeq(s, 1, taken)) \o SubSeq(s, taken + 1, Len(s)) = input.given \o s
      /\ input.given \o SubSeq(s, 1, taken) \in Bytes /\ SubSeq(s, taken + 1, Len(s)) \in Bytes
  BY <1>2, <1>3, <1>4, TakeFront
<1>6. /\ stdin' \in [bytes : Bytes, live : BOOLEAN] /\ stdin'.bytes = SubSeq(s, taken + 1, Len(s))
      /\ input' \in [typed : Nat, given : Bytes] /\ input'.typed = typed
      /\ input'.given = input.given \o SubSeq(s, 1, taken)
  <2> DEFINE rest == SubSeq(s, taken + 1, Len(s))
             got == input.given \o SubSeq(s, 1, taken)
  <2>1. rest \in Bytes /\ got \in Bytes /\ typed \in Nat
    BY <1>2, <1>5
  <2>2. stdin' = [stdin EXCEPT !.bytes = rest] /\ input' = [typed |-> typed, given |-> got]
    BY <1>1
  <2> HIDE DEF rest, got, typed
  <2>3. stdin' \in [bytes : Bytes, live : BOOLEAN] /\ stdin'.bytes = rest
    BY <1>2, <2>1, <2>2
  <2>4. input' \in [typed : Nat, given : Bytes] /\ input'.typed = typed /\ input'.given = got
    BY <2>1, <2>2
  <2> QED
    BY <2>3, <2>4 DEF rest, got
<1> QED
  BY <1>3, <1>5, <1>6 DEF InputInv, InputInOrder

---------------------------------------------------------------------------
(* Paths *)

\* The components of paths.
Name == STRING \cup {"mount"}

\* The guest's paths are paths.
LEMMA PathsTyped ==
  Paths \subseteq Seq(Name) /\ Mounted \subseteq Seq(Name) /\ Drives \subseteq Name /\ "mount" \in Name
<1>1. /\ Paths \subseteq Seq(STRING) /\ Mounted \subseteq Paths /\ Drives \subseteq STRING
      /\ STRING \subseteq Name /\ "mount" \in Name
  BY PathAssumption DEF Name
<1>2. ASSUME NEW p \in Paths PROVE p \in Seq(Name)
  <2>1. p \in Seq(STRING)
    BY <1>1
  <2> QED
    BY <1>1, <2>1, WiderSeq, Zenon
<1> QED
  BY <1>1, <1>2

\* A prefix has the first elements.
LEMMA PrefixFacts ==
  ASSUME NEW a \in Seq(Name), NEW b \in Seq(Name)
  PROVE  IsPrefix(a, b) <=> Len(a) <= Len(b) /\ \A i \in 1 .. Len(a) : a[i] = b[i]
<1>1. Len(a) \in Nat /\ Len(b) \in Nat
  OBVIOUS
<1>2. CASE Len(a) <= Len(b)
  <2>1. Len(a) \in 0 .. Len(a) /\ Len(a) \in 0 .. Len(b)
    BY <1>1, <1>2
  <2>2. /\ SubSeq(a, 1, Len(a)) \in Seq(Name) /\ Len(SubSeq(a, 1, Len(a))) = Len(a)
        /\ \A i \in 1 .. Len(a) : SubSeq(a, 1, Len(a))[i] = a[i]
    BY <2>1, Parts
  <2>3. /\ SubSeq(b, 1, Len(a)) \in Seq(Name) /\ Len(SubSeq(b, 1, Len(a))) = Len(a)
        /\ \A i \in 1 .. Len(a) : SubSeq(b, 1, Len(a))[i] = b[i]
    BY <2>1, Parts
  <2>4. ASSUME \A i \in 1 .. Len(a) : a[i] = b[i]
        PROVE  SubSeq(a, 1, Len(a)) = SubSeq(b, 1, Len(a))
    <3>1. \A i \in 1 .. Len(a) : SubSeq(a, 1, Len(a))[i] = SubSeq(b, 1, Len(a))[i]
      BY <2>2, <2>3, <2>4
    <3> QED
      BY <2>2, <2>3, <3>1, SameSeq
  <2> QED
    BY <1>2, <2>2, <2>3, <2>4 DEF IsPrefix
<1> QED
  BY <1>2 DEF IsPrefix

\* Prefixes of prefixes.
LEMMA PrefixTransitive ==
  ASSUME NEW a \in Seq(Name), NEW b \in Seq(Name), NEW c \in Seq(Name)
  PROVE  /\ IsPrefix(a, a)
         /\ IsPrefix(a, b) /\ IsPrefix(b, c) => IsPrefix(a, c)
         /\ IsPrefix(a, b) /\ IsPrefix(b, a) => a = b
         /\ IsPrefix(a, c) /\ IsPrefix(b, c) /\ Len(a) <= Len(b) => IsPrefix(a, b)
<1>1. Len(a) \in Nat /\ Len(b) \in Nat /\ Len(c) \in Nat
  OBVIOUS
<1>2. IsPrefix(a, a)
  BY <1>1, PrefixFacts
<1>3. ASSUME IsPrefix(a, b), IsPrefix(b, c) PROVE IsPrefix(a, c)
  <2>1. Len(a) <= Len(b) /\ \A i \in 1 .. Len(a) : a[i] = b[i]
    BY <1>3, PrefixFacts
  <2>2. Len(b) <= Len(c) /\ \A i \in 1 .. Len(b) : b[i] = c[i]
    BY <1>3, PrefixFacts
  <2>3. Len(a) <= Len(c) /\ \A i \in 1 .. Len(a) : a[i] = c[i]
    BY <1>1, <2>1, <2>2
  <2> QED
    BY <2>3, PrefixFacts
<1>4. ASSUME IsPrefix(a, b), IsPrefix(b, a) PROVE a = b
  <2>1. Len(a) <= Len(b) /\ \A i \in 1 .. Len(a) : a[i] = b[i]
    BY <1>4, PrefixFacts
  <2>2. Len(b) <= Len(a)
    BY <1>4 DEF IsPrefix
  <2>3. Len(a) = Len(b)
    BY <1>1, <2>1, <2>2
  <2> QED
    BY <2>1, <2>3, SameSeq
<1>5. ASSUME IsPrefix(a, c), IsPrefix(b, c), Len(a) <= Len(b) PROVE IsPrefix(a, b)
  <2>1. Len(a) <= Len(c) /\ \A i \in 1 .. Len(a) : a[i] = c[i]
    BY <1>5, PrefixFacts
  <2>2. Len(b) <= Len(c) /\ \A i \in 1 .. Len(b) : b[i] = c[i]
    BY <1>5, PrefixFacts
  <2>3. \A i \in 1 .. Len(a) : a[i] = b[i]
    BY <1>1, <1>5, <2>1, <2>2
  <2> QED
    BY <1>5, <2>3, PrefixFacts
<1> QED
  BY <1>2, <1>3, <1>4, <1>5

\* The first n components.
LEMMA PrefixOf ==
  ASSUME NEW b \in Seq(Name), NEW n \in 1 .. Len(b)
  PROVE  /\ SubSeq(b, 1, n) \in Seq(Name) /\ Len(SubSeq(b, 1, n)) = n
         /\ SubSeq(b, 1, n)[1] = b[1]
         /\ IsPrefix(SubSeq(b, 1, n), b)
         /\ \A a \in Seq(Name) : IsPrefix(a, b) /\ Len(a) = n => a = SubSeq(b, 1, n)
<1>1. n \in 0 .. Len(b) /\ n \in Nat /\ n >= 1 /\ n <= Len(b) /\ Len(b) \in Nat
  OBVIOUS
<1>2. /\ SubSeq(b, 1, n) \in Seq(Name) /\ Len(SubSeq(b, 1, n)) = n
      /\ \A i \in 1 .. n : SubSeq(b, 1, n)[i] = b[i]
  BY <1>1, Parts
<1>3. IsPrefix(SubSeq(b, 1, n), b)
  BY <1>1, <1>2, PrefixFacts
<1>4. ASSUME NEW a \in Seq(Name), IsPrefix(a, b), Len(a) = n
      PROVE  a = SubSeq(b, 1, n)
  <2>1. \A i \in 1 .. Len(a) : a[i] = b[i]
    BY <1>4, PrefixFacts
  <2>2. \A i \in 1 .. Len(a) : a[i] = SubSeq(b, 1, n)[i]
    BY <1>2, <1>4, <2>1
  <2> QED
    BY <1>2, <1>4, <2>2, SameSeq
<1>5. SubSeq(b, 1, n)[1] = b[1]
  BY <1>1, <1>2
<1> QED
  BY <1>2, <1>3, <1>4, <1>5

\* Directories and files of the guest.
LEMMA DirFacts ==
  ASSUME NEW p \in Dirs
  PROVE  /\ p \in Seq(Name) /\ Len(p) >= 1 /\ p # NoHost /\ Head(p) = p[1]
         /\ \A n \in 1 .. Len(p) : SubSeq(p, 1, n) \in Dirs
         /\ p \in Paths <=> Len(p) > 1
<1>1. CASE p \in Paths
  <2>1. /\ p \in Seq(Name) /\ Len(p) > 1
        /\ \A n \in 1 .. Len(p) : SubSeq(p, 1, n) \in Dirs
    BY <1>1, PathsTyped, PathAssumption
  <2> QED
    BY <1>1, <2>1 DEF NoHost
<1>2. CASE p \in Roots
  <2>1. PICK d \in Drives : p = <<d>>
    BY <1>2 DEF Roots
  <2>2. d \in Name
    BY PathsTyped
  <2>3. p \in Seq(Name) /\ Len(p) = 1 /\ p[1] = d /\ Head(p) = p[1] /\ p # <<>>
    BY <2>1, <2>2, OneElement, Zenon
  <2>4. ASSUME NEW n \in 1 .. Len(p) PROVE SubSeq(p, 1, n) = p
    <3>1. n = 1
      BY <2>3
    <3>2. SubSeq(p, 1, 1) \in Seq(Name) /\ Len(SubSeq(p, 1, 1)) = 1 /\ SubSeq(p, 1, 1)[1] = p[1]
      BY <2>3
    <3>3. \A i \in 1 .. Len(p) : SubSeq(p, 1, 1)[i] = p[i]
      BY <2>3, <3>2
    <3> QED
      BY <2>3, <3>1, <3>2, <3>3, SameSeq
  <2>5. p \notin Paths
    <3>1. \A x \in Paths : Len(x) > 1
      BY PathAssumption
    <3>2. ASSUME p \in Paths PROVE FALSE
      <4>1. Len(p) > 1 /\ Len(p) = 1
        BY <2>3, <3>1, <3>2, Zenon
      <4> QED
        BY <4>1
    <3> QED
      BY <3>2
  <2>6. \A n \in 1 .. Len(p) : SubSeq(p, 1, n) \in Dirs
    BY <1>2, <2>4 DEF Dirs
  <2> QED
    BY <2>3, <2>5, <2>6 DEF NoHost
<1> QED
  BY <1>1, <1>2 DEF Dirs

\* Where a mounted file is on the host.
LEMMA MountFacts ==
  ASSUME NEW p \in Mounted
  PROVE  /\ MountFile(p) \in Seq(Name) /\ Len(MountFile(p)) = Len(p) + 1
         /\ Head(MountFile(p)) = "mount" /\ MountFile(p)[1] = "mount" /\ "mount" \notin Volumes
         /\ MountFile(p) # NoHost
         /\ \A i \in 1 .. Len(p) : MountFile(p)[1 + i] = p[i]
<1>0. p \in Seq(Name) /\ "mount" \in Name
  BY PathsTyped
<1>1. /\ p \in Seq(Name) /\ <<"mount">> \in Seq(Name)
      /\ Len(<<"mount">>) = 1 /\ <<"mount">>[1] = "mount"
  BY <1>0, OneElement, Zenon
<1>2. /\ <<"mount">> \o p \in Seq(Name) /\ Len(<<"mount">> \o p) = Len(<<"mount">>) + Len(p)
      /\ \A i \in 1 .. Len(<<"mount">>) : (<<"mount">> \o p)[i] = <<"mount">>[i]
      /\ \A i \in 1 .. Len(p) : (<<"mount">> \o p)[Len(<<"mount">>) + i] = p[i]
  BY <1>1, Joined
<1> DEFINE m == <<"mount">> \o p
<1>3. /\ m \in Seq(Name) /\ Len(m) = Len(p) + 1 /\ m[1] = "mount"
      /\ \A i \in 1 .. Len(p) : m[1 + i] = p[i]
  BY <1>1, <1>2
<1> HIDE DEF m
<1>4. m # <<>> /\ Head(m) = "mount"
  BY <1>1, <1>3
<1>5. "mount" \notin Volumes
  BY PathAssumption
<1> QED
  BY <1>3, <1>4, <1>5 DEF m, MountFile, NoHost

\* The host paths: those of the volumes, closed under prefixes, and the mounts'.
LEMMA HostFacts ==
  ASSUME NEW k \in HostPaths
  PROVE  /\ k \in Seq(Name) /\ Len(k) >= 1 /\ k # NoHost /\ Head(k) = k[1]
         /\ Head(k) \in Volumes =>
              k \in Dirs /\ \A n \in 1 .. Len(k) : SubSeq(k, 1, n) \in HostPaths
         /\ Head(k) \notin Volumes => \E p \in Mounted : k = MountFile(p)
<1>1. CASE k \in Dirs /\ Head(k) \in Volumes
  <2>1. /\ k \in Seq(Name) /\ Len(k) >= 1 /\ k # NoHost /\ Head(k) = k[1]
        /\ \A n \in 1 .. Len(k) : SubSeq(k, 1, n) \in Dirs
    BY <1>1, DirFacts
  <2>2. ASSUME NEW n \in 1 .. Len(k) PROVE SubSeq(k, 1, n) \in HostPaths
    <3>1. SubSeq(k, 1, n) \in Dirs
      BY <2>1
    <3>2. SubSeq(k, 1, n)[1] = k[1] /\ Head(SubSeq(k, 1, n)) = SubSeq(k, 1, n)[1]
      BY <2>1, <3>1, PrefixOf, DirFacts
    <3> QED
      BY <1>1, <2>1, <3>1, <3>2 DEF HostPaths
  <2> QED
    BY <1>1, <2>1, <2>2
<1>2. CASE \E p \in Mounted : k = MountFile(p)
  <2>1. PICK p \in Mounted : k = MountFile(p)
    BY <1>2
  <2>2. p \in Seq(Name)
    BY PathsTyped
  <2>3. /\ k \in Seq(Name) /\ Len(k) = Len(p) + 1 /\ Head(k) = "mount" /\ k[1] = "mount"
        /\ "mount" \notin Volumes /\ k # NoHost
    BY <2>1, MountFacts
  <2> QED
    BY <2>1, <2>2, <2>3
<1> QED
  BY <1>1, <1>2 DEF HostPaths

\* Where guest paths are on the host.
LEMMA GuestHostFacts ==
  ASSUME NEW p \in Dirs
  PROVE  /\ guest_path_to_host(p) # NoHost <=> Head(p) \in Volumes
         /\ Head(p) \in Volumes => guest_path_to_host(p) = p /\ p \in HostPaths
BY DirFacts DEF guest_path_to_host, HostPaths

\* The host path of a handle tells its file.
LEMMA HostPathOf ==
  ASSUME NEW p \in Paths
  PROVE  /\ host_path_of(p) \in HostPaths \cup {NoHost}
         /\ Head(p) \in Volumes => host_path_of(p) = p
         /\ Head(p) \notin Volumes /\ p \in Mounted => host_path_of(p) = MountFile(p)
         /\ host_path_of(p) = NoHost <=> Head(p) \notin Volumes /\ p \notin Mounted
<1>1. p \in Dirs
  BY DEF Dirs
<1>2. /\ guest_path_to_host(p) # NoHost <=> Head(p) \in Volumes
      /\ Head(p) \in Volumes => guest_path_to_host(p) = p /\ p \in HostPaths
      /\ p # NoHost
  BY <1>1, GuestHostFacts, DirFacts
<1>3. p \in Mounted => MountFile(p) \in HostPaths /\ MountFile(p) # NoHost
  BY MountFacts DEF HostPaths
<1> QED
  BY <1>2, <1>3 DEF host_path_of

\* Different mounts are different host paths.
LEMMA MountsDiffer ==
  ASSUME NEW p \in Mounted, NEW q \in Mounted, MountFile(p) = MountFile(q)
  PROVE  p = q
<1>1. p \in Seq(Name) /\ q \in Seq(Name)
  BY PathsTyped
<1>2. Len(p) + 1 = Len(q) + 1
  BY MountFacts
<1>3. Len(p) = Len(q)
  BY <1>1, <1>2
<1>4. \A i \in 1 .. Len(p) : p[i] = q[i]
  BY <1>3, MountFacts
<1> QED
  BY <1>1, <1>3, <1>4, SameSeq

\* Different files have different host paths.
LEMMA HostPathsDiffer ==
  ASSUME NEW p \in Paths, NEW q \in Paths, host_path_of(p) = host_path_of(q),
         host_path_of(p) # NoHost
  PROVE  p = q
<1>1. p \in Dirs /\ q \in Dirs
  BY DEF Dirs
<1>2. CASE Head(p) \in Volumes /\ Head(q) \in Volumes
  BY <1>2, HostPathOf
<1>3. CASE Head(p) \notin Volumes /\ Head(q) \notin Volumes
  BY <1>3, HostPathOf, MountsDiffer
<1>4. CASE Head(p) \in Volumes /\ Head(q) \notin Volumes
  BY <1>4, HostPathOf, MountFacts
<1>5. CASE Head(p) \notin Volumes /\ Head(q) \in Volumes
  BY <1>5, HostPathOf, MountFacts
<1> QED
  BY <1>2, <1>3, <1>4, <1>5

---------------------------------------------------------------------------
(* The host's tree *)

\* Outside S the same files are there, with the same bytes.
SameFiles(d, e, S) ==
  \A x \in HostPaths \ S : d[x].kind = "file" \/ e[x].kind = "file" => e[x] = d[x]

\* The kinds of nodes.
LEMMA NodesTyped ==
  /\ Dir \in Node /\ None \in Node /\ Dir.kind = "dir" /\ None.kind = "none"
  /\ \A b \in Bytes : File(b) \in Node /\ File(b).kind = "file" /\ File(b).bytes = b
  /\ \A n \in Node : n.kind = "file" => n = File(n.bytes)
BY DEF Node, Dir, None, File, Bytes

\* The ancestors of a path are its prefixes.
LEMMA AncestorFacts ==
  ASSUME DiskOf(disk), NEW p \in Seq(Name)
  PROVE  Ancestors(p) = {q \in HostPaths : IsPrefix(q, p)}
<1>1. DOMAIN disk = HostPaths
  BY DEF DiskOf
<1>2. ASSUME NEW q \in Ancestors(p) PROVE q \in HostPaths /\ IsPrefix(q, p)
  <2>1. q \in HostPaths
    BY <1>1 DEF Ancestors
  <2>2. PICK n \in 1 .. Len(p) : q = SubSeq(p, 1, n)
    BY DEF Ancestors
  <2> QED
    BY <2>1, <2>2, PrefixOf
<1>3. ASSUME NEW q \in HostPaths, IsPrefix(q, p) PROVE q \in Ancestors(p)
  <2>1. q \in Seq(Name) /\ Len(q) >= 1 /\ Len(q) \in Nat /\ Len(p) \in Nat
    BY HostFacts
  <2>2. Len(q) \in 1 .. Len(p)
    BY <1>3, <2>1 DEF IsPrefix
  <2>3. q = SubSeq(p, 1, Len(q))
    BY <1>3, <2>1, <2>2, PrefixOf
  <2> QED
    BY <1>1, <2>2, <2>3 DEF Ancestors
<1> QED
  BY <1>2, <1>3

\* The prefixes of the parent are the strict prefixes.
LEMMA ParentFacts ==
  ASSUME NEW k \in Seq(Name), Len(k) > 1
  PROVE  /\ guest_parent(k) \in Seq(Name) /\ Len(guest_parent(k)) = Len(k) - 1
         /\ guest_parent(k) = SubSeq(k, 1, Len(k) - 1) /\ IsStrictPrefix(guest_parent(k), k)
         /\ \A q \in Seq(Name) : IsPrefix(q, guest_parent(k)) <=> IsStrictPrefix(q, k)
<1> DEFINE u == SubSeq(k, 1, Len(k) - 1)
<1>1. Len(k) \in Nat /\ Len(k) - 1 \in 1 .. Len(k)
  OBVIOUS
<1>2. guest_parent(k) = u
  BY DEF guest_parent, Front
<1>3. u \in Seq(Name) /\ Len(u) = Len(k) - 1 /\ IsPrefix(u, k)
  BY <1>1, PrefixOf
<1> HIDE DEF u
<1>4. u # k
  BY <1>1, <1>3
<1>5. ASSUME NEW q \in Seq(Name) PROVE IsPrefix(q, u) <=> IsStrictPrefix(q, k)
  <2>0. Len(q) \in Nat /\ Len(u) \in Nat
    BY <1>3
  <2>1. ASSUME IsPrefix(q, u) PROVE IsStrictPrefix(q, k)
    <3>1. IsPrefix(q, k)
      BY <1>3, <2>1, PrefixTransitive
    <3>2. Len(q) <= Len(u)
      BY <2>1 DEF IsPrefix
    <3>3. q # k
      BY <1>1, <1>3, <2>0, <3>2
    <3> QED
      BY <3>1, <3>3 DEF IsStrictPrefix
  <2>2. ASSUME IsStrictPrefix(q, k) PROVE IsPrefix(q, u)
    <3>1. IsPrefix(q, k) /\ q # k
      BY <2>2 DEF IsStrictPrefix
    <3>2. Len(q) <= Len(k)
      BY <3>1 DEF IsPrefix
    <3>3. Len(q) # Len(k)
      <4>1. SUFFICES ASSUME Len(q) = Len(k) PROVE FALSE
        OBVIOUS
      <4>2. \A i \in 1 .. Len(q) : q[i] = k[i]
        BY <3>1, PrefixFacts
      <4> QED
        BY <3>1, <4>1, <4>2, SameSeq
    <3>4. Len(q) <= Len(u)
      BY <1>1, <1>3, <2>0, <3>2, <3>3
    <3> QED
      BY <1>3, <3>1, <3>4, PrefixTransitive
  <2> QED
    BY <2>1, <2>2
<1> QED
  BY <1>2, <1>3, <1>4, <1>5 DEF u, IsStrictPrefix

\* create_dir_all makes the directories that are missing and nothing else.
LEMMA WithDirsFacts ==
  ASSUME DiskOf(disk), NEW p \in Seq(Name), CanMkdir(p)
  PROVE  /\ DiskOf(WithDirs(p))
         /\ \A q \in HostPaths : IsPrefix(q, p) => WithDirs(p)[q].kind = "dir"
         /\ \A q \in HostPaths : ~IsPrefix(q, p) => WithDirs(p)[q] = disk[q]
         /\ \A q \in HostPaths : disk[q].kind # "none" => WithDirs(p)[q] = disk[q]
         /\ SameFiles(disk, WithDirs(p), {})
<1> DEFINE d == WithDirs(p)
<1>1. disk \in [HostPaths -> Node] /\ DOMAIN disk = HostPaths
  BY DEF DiskOf
<1>2. \A q \in HostPaths :
        d[q] = IF IsPrefix(q, p) /\ disk[q].kind = "none" THEN Dir ELSE disk[q]
  BY <1>1, AncestorFacts DEF WithDirs
<1>3. d \in [HostPaths -> Node]
  <2>1. d = [q \in HostPaths |-> d[q]]
    BY <1>1 DEF WithDirs
  <2>2. \A q \in HostPaths : d[q] \in Node
    BY <1>1, <1>2, NodesTyped
  <2> HIDE DEF d
  <2> QED
    BY <2>1, <2>2
<1>4. \A q \in HostPaths : disk[q].kind \in {"file", "dir", "none"}
  BY <1>1 DEF Node
<1>5. \A q \in HostPaths : IsPrefix(q, p) => disk[q].kind # "file"
  BY AncestorFacts DEF CanMkdir
<1> HIDE DEF d
<1>6. \A q \in HostPaths : IsPrefix(q, p) => d[q].kind = "dir"
  BY <1>2, <1>4, <1>5, NodesTyped
<1>7. \A q \in HostPaths : disk[q].kind # "none" => d[q] = disk[q]
  BY <1>2
<1>8. \A q \in HostPaths : ~IsPrefix(q, p) => d[q] = disk[q]
  BY <1>2
<1>9. TreeOf(d)
  <2>1. SUFFICES ASSUME NEW k \in HostPaths, NEW q \in HostPaths, IsStrictPrefix(q, k), d[k].kind # "none"
                 PROVE  d[q].kind = "dir"
    BY DEF TreeOf
  <2>2. CASE disk[k].kind # "none"
    <3>1. disk[q].kind = "dir"
      BY <2>1, <2>2 DEF DiskOf, TreeOf
    <3> QED
      BY <1>7, <3>1
  <2>3. CASE disk[k].kind = "none"
    <3>1. IsPrefix(k, p)
      BY <1>2, <2>1, <2>3
    <3>2. IsPrefix(q, k) /\ q \in Seq(Name) /\ k \in Seq(Name)
      BY <2>1, HostFacts DEF IsStrictPrefix
    <3>3. IsPrefix(q, p)
      BY <3>1, <3>2, PrefixTransitive
    <3> QED
      BY <1>6, <3>3
  <2> QED
    BY <2>2, <2>3
<1>10. \A m \in Mounted : d[MountFile(m)].kind = "file"
  <2>1. \A m \in Mounted : MountFile(m) \in HostPaths /\ disk[MountFile(m)].kind = "file"
    BY DEF DiskOf, HostPaths
  <2> QED
    BY <1>7, <2>1
<1>11. SameFiles(disk, d, {})
  BY <1>2, NodesTyped DEF SameFiles
<1> QED
  BY <1>3, <1>6, <1>7, <1>8, <1>9, <1>10, <1>11 DEF DiskOf, d

\* A file is made, or given other bytes, below directories.
LEMMA SetFile ==
  ASSUME NEW d, DiskOf(d), NEW k \in HostPaths, NEW b \in Bytes, d[k].kind # "dir",
         \A q \in HostPaths : IsStrictPrefix(q, k) => d[q].kind = "dir"
  PROVE  /\ DiskOf([d EXCEPT ![k] = File(b)])
         /\ [d EXCEPT ![k] = File(b)][k] = File(b)
         /\ SameFiles(d, [d EXCEPT ![k] = File(b)], {k})
<1> DEFINE e == [d EXCEPT ![k] = File(b)]
<1>1. d \in [HostPaths -> Node]
  BY DEF DiskOf
<1>2. File(b) \in Node /\ File(b).kind = "file"
  BY NodesTyped
<1>3. e \in [HostPaths -> Node] /\ e[k] = File(b) /\ \A x \in HostPaths : x # k => e[x] = d[x]
  BY <1>1, <1>2
<1> HIDE DEF e
<1>4. TreeOf(e)
  <2>1. SUFFICES ASSUME NEW x \in HostPaths, NEW q \in HostPaths, IsStrictPrefix(q, x), e[x].kind # "none"
                 PROVE  e[q].kind = "dir"
    BY DEF TreeOf
  <2>2. x # q
    BY <2>1 DEF IsStrictPrefix
  <2>3. CASE x = k
    BY <1>3, <2>1, <2>2, <2>3
  <2>4. CASE x # k
    <3>1. d[q].kind = "dir"
      BY <1>3, <2>1, <2>4 DEF DiskOf, TreeOf
    <3>2. q # k
      BY <3>1
    <3> QED
      BY <1>3, <3>1, <3>2
  <2> QED
    BY <2>3, <2>4
<1>5. \A m \in Mounted : e[MountFile(m)].kind = "file"
  <2>1. \A m \in Mounted : MountFile(m) \in HostPaths /\ d[MountFile(m)].kind = "file"
    BY DEF DiskOf, HostPaths
  <2> QED
    BY <1>2, <1>3, <2>1
<1>6. SameFiles(d, e, {k})
  BY <1>3 DEF SameFiles
<1> QED
  BY <1>3, <1>4, <1>5, <1>6 DEF DiskOf, e

\* A node without anything below it goes.
LEMMA SetNone ==
  ASSUME NEW d, DiskOf(d), NEW k \in HostPaths, Head(k) \in Volumes,
         \A q \in HostPaths : IsStrictPrefix(k, q) => d[q].kind = "none"
  PROVE  /\ DiskOf([d EXCEPT ![k] = None])
         /\ [d EXCEPT ![k] = None][k] = None
         /\ \A x \in HostPaths : x # k => [d EXCEPT ![k] = None][x] = d[x]
<1> DEFINE e == [d EXCEPT ![k] = None]
<1>1. d \in [HostPaths -> Node]
  BY DEF DiskOf
<1>2. None \in Node /\ None.kind = "none"
  BY NodesTyped
<1>3. e \in [HostPaths -> Node] /\ e[k] = None /\ \A x \in HostPaths : x # k => e[x] = d[x]
  BY <1>1, <1>2
<1> HIDE DEF e
<1>4. TreeOf(e)
  <2>1. SUFFICES ASSUME NEW x \in HostPaths, NEW q \in HostPaths, IsStrictPrefix(q, x), e[x].kind # "none"
                 PROVE  e[q].kind = "dir"
    BY DEF TreeOf
  <2>2. x # k /\ d[x].kind # "none"
    BY <1>2, <1>3, <2>1
  <2>3. d[q].kind = "dir"
    BY <2>1, <2>2 DEF DiskOf, TreeOf
  <2>4. q # k
    BY <2>1, <2>2
  <2> QED
    BY <1>3, <2>3, <2>4
<1>5. \A m \in Mounted : e[MountFile(m)].kind = "file"
  <2>1. \A m \in Mounted : MountFile(m) \in HostPaths /\ d[MountFile(m)].kind = "file"
    BY DEF DiskOf, HostPaths
  <2>2. \A m \in Mounted : MountFile(m) # k
    BY MountFacts
  <2> QED
    BY <1>3, <2>1, <2>2
<1> QED
  BY <1>3, <1>4, <1>5 DEF DiskOf, e

\* Nothing is below a file, below nothing, or below an empty directory.
LEMMA NothingBelow ==
  ASSUME DiskOf(disk), NEW k \in HostPaths, Head(k) \in Volumes,
         disk[k].kind # "dir" \/ Children(k) = {}
  PROVE  \A q \in HostPaths : IsStrictPrefix(k, q) => disk[q].kind = "none"
<1> SUFFICES ASSUME NEW q \in HostPaths, IsStrictPrefix(k, q), disk[q].kind # "none"
             PROVE  FALSE
  OBVIOUS
<1>1. disk[k].kind = "dir"
  BY DEF DiskOf, TreeOf
<1>2. /\ k \in Seq(Name) /\ q \in Seq(Name) /\ Len(k) >= 1 /\ Len(q) >= 1
      /\ Head(k) = k[1] /\ Head(q) = q[1] /\ Len(k) \in Nat /\ Len(q) \in Nat
  BY HostFacts
<1>3. IsPrefix(k, q) /\ k # q
  BY DEF IsStrictPrefix
<1>4. Len(k) <= Len(q) /\ \A i \in 1 .. Len(k) : k[i] = q[i]
  BY <1>2, <1>3, PrefixFacts
<1>5. Len(k) # Len(q)
  BY <1>2, <1>3, <1>4, SameSeq
<1>6. Head(q) \in Volumes
  BY <1>2, <1>4
<1> DEFINE n == Len(k) + 1
           c == SubSeq(q, 1, n)
<1>7. n \in 1 .. Len(q) /\ n = Len(k) + 1
  BY <1>2, <1>4, <1>5
<1> HIDE DEF n
<1>8. c \in HostPaths
  BY <1>6, <1>7, HostFacts
<1>9. c \in Seq(Name) /\ Len(c) = n /\ IsPrefix(c, q)
  BY <1>2, <1>7, PrefixOf
<1> HIDE DEF c
<1>10. IsPrefix(k, c)
  BY <1>2, <1>3, <1>7, <1>9, PrefixTransitive
<1>11. disk[c].kind # "none"
  <2>1. CASE c = q
    BY <2>1
  <2>2. CASE c # q
    <3>1. disk[c].kind = "dir"
      BY <1>8, <1>9, <2>2 DEF DiskOf, TreeOf, IsStrictPrefix
    <3> QED
      BY <3>1
  <2> QED
    BY <2>1, <2>2
<1>12. c \in Children(k)
  BY <1>7, <1>8, <1>9, <1>10, <1>11 DEF Children, DiskOf
<1> QED
  BY <1>1, <1>12

\* Writing a file whole.
LEMMA WrittenFacts ==
  ASSUME DiskOf(disk), NEW k \in HostPaths, NEW b \in Bytes, CanWrite(k), Len(k) > 1
  PROVE  /\ DiskOf(Written(k, b))
         /\ Written(k, b)[k] = File(b)
         /\ SameFiles(disk, Written(k, b), {k})
<1> DEFINE u == guest_parent(k)
           d == WithDirs(u)
<1>1. k \in Seq(Name)
  BY HostFacts
<1>2. /\ u \in Seq(Name) /\ \A q \in Seq(Name) : IsPrefix(q, u) <=> IsStrictPrefix(q, k)
  BY <1>1, ParentFacts
<1>3. CanMkdir(u) /\ disk[k].kind # "dir"
  BY DEF CanWrite
<1>4. /\ DiskOf(d)
      /\ \A q \in HostPaths : IsPrefix(q, u) => d[q].kind = "dir"
      /\ \A q \in HostPaths : ~IsPrefix(q, u) => d[q] = disk[q]
      /\ SameFiles(disk, d, {})
  BY <1>2, <1>3, WithDirsFacts
<1>5. Written(k, b) = [d EXCEPT ![k] = File(b)]
  BY DEF Written
<1> HIDE DEF u, d
<1>6. \A q \in HostPaths : IsStrictPrefix(q, k) => d[q].kind = "dir"
  BY <1>2, <1>4, HostFacts
<1>7. d[k].kind # "dir"
  <2>1. ~IsPrefix(k, u)
    BY <1>1, <1>2 DEF IsStrictPrefix
  <2> QED
    BY <1>3, <1>4, <2>1
<1>8. /\ DiskOf([d EXCEPT ![k] = File(b)])
      /\ [d EXCEPT ![k] = File(b)][k] = File(b)
      /\ SameFiles(d, [d EXCEPT ![k] = File(b)], {k})
  BY <1>4, <1>6, <1>7, SetFile
<1>9. SameFiles(disk, Written(k, b), {k})
  BY <1>4, <1>5, <1>8 DEF SameFiles
<1> QED
  BY <1>5, <1>8, <1>9

\* A file that is there can be written to.
LEMMA FileWritable ==
  ASSUME DiskOf(disk), NEW k \in HostPaths, disk[k].kind = "file", Len(k) > 1
  PROVE  CanWrite(k) /\ CanWriteAt(k)
<1> DEFINE u == guest_parent(k)
<1>1. k \in Seq(Name)
  BY HostFacts
<1>2. /\ u \in Seq(Name) /\ IsStrictPrefix(u, k)
      /\ \A q \in Seq(Name) : IsPrefix(q, u) <=> IsStrictPrefix(q, k)
  BY <1>1, ParentFacts
<1>3. \A q \in HostPaths : IsStrictPrefix(q, k) => disk[q].kind = "dir"
  BY DEF DiskOf, TreeOf
<1>4. \A q \in Ancestors(u) : disk[q].kind # "file"
  BY <1>2, <1>3, AncestorFacts, HostFacts
<1>5. DOMAIN disk = HostPaths
  BY DEF DiskOf
<1> QED
  BY <1>2, <1>3, <1>4, <1>5 DEF CanWrite, CanMkdir, CanWriteAt

\* A write into a host file whose directory is there.
LEMMA WriteAtFacts ==
  ASSUME DiskOf(disk), NEW k \in HostPaths, NEW b \in Bytes, CanWriteAt(k), Len(k) > 1
  PROVE  /\ DiskOf([disk EXCEPT ![k] = File(b)])
         /\ [disk EXCEPT ![k] = File(b)][k] = File(b)
         /\ SameFiles(disk, [disk EXCEPT ![k] = File(b)], {k})
<1>1. k \in Seq(Name) /\ Len(k) \in Nat
  BY HostFacts
<1>2. disk[k].kind # "dir"
  BY DEF CanWriteAt
<1>3. ASSUME NEW q \in HostPaths, IsStrictPrefix(q, k) PROVE disk[q].kind = "dir"
  <2>1. CASE Head(k) \in Volumes
    <3> DEFINE u == guest_parent(k)
    <3>1. /\ u = SubSeq(k, 1, Len(k) - 1) /\ u \in Seq(Name)
          /\ \A x \in Seq(Name) : IsPrefix(x, u) <=> IsStrictPrefix(x, k)
      BY <1>1, ParentFacts
    <3>2. Len(k) - 1 \in 1 .. Len(k)
      BY <1>1
    <3>3. u \in HostPaths
      BY <2>1, <3>1, <3>2, HostFacts
    <3>4. disk[u].kind = "dir"
      BY <3>3 DEF CanWriteAt, DiskOf
    <3> HIDE DEF u
    <3>5. IsPrefix(q, u)
      BY <1>3, <3>1, HostFacts
    <3> QED
      BY <3>3, <3>4, <3>5 DEF DiskOf, TreeOf, IsStrictPrefix
  <2>2. CASE Head(k) \notin Volumes
    <3>1. disk[k].kind = "file"
      BY <2>2, HostFacts DEF DiskOf
    <3> QED
      BY <1>3, <3>1 DEF DiskOf, TreeOf
  <2> QED
    BY <2>1, <2>2
<1> QED
  BY <1>2, <1>3, SetFile

---------------------------------------------------------------------------
(* Renaming *)

\* What s, below from, is called when from is renamed to to.
Onto(from, to, s) == to \o SubSeq(s, Len(from) + 1, Len(s))

\* Its components are those of to, then those of s below from.
LEMMA OntoFacts ==
  ASSUME NEW from \in Seq(Name), NEW to \in Seq(Name), NEW s \in Seq(Name), IsPrefix(from, s)
  PROVE  /\ Onto(from, to, s) \in Seq(Name)
         /\ Len(Onto(from, to, s)) = Len(to) + (Len(s) - Len(from))
         /\ \A i \in 1 .. Len(to) : Onto(from, to, s)[i] = to[i]
         /\ \A i \in 1 .. Len(s) - Len(from) : Onto(from, to, s)[Len(to) + i] = s[Len(from) + i]
         /\ IsPrefix(to, Onto(from, to, s))
<1> DEFINE r == SubSeq(s, Len(from) + 1, Len(s))
           m == to \o r
<1>1. Len(from) \in 0 .. Len(s) /\ Len(from) \in Nat /\ Len(s) \in Nat /\ Len(to) \in Nat
  BY DEF IsPrefix
<1>2. /\ r \in Seq(Name) /\ Len(r) = Len(s) - Len(from)
      /\ \A i \in 1 .. Len(s) - Len(from) : r[i] = s[Len(from) + i]
  BY <1>1, Parts
<1> HIDE DEF r
<1>3. /\ m \in Seq(Name) /\ Len(m) = Len(to) + Len(r)
      /\ \A i \in 1 .. Len(to) : m[i] = to[i]
      /\ \A i \in 1 .. Len(r) : m[Len(to) + i] = r[i]
  <2>1. r \in Seq(Name)
    BY <1>2
  <2> QED
    BY <2>1, Joined
<1> HIDE DEF m
<1>4. \A i \in 1 .. Len(s) - Len(from) : m[Len(to) + i] = s[Len(from) + i]
  BY <1>2, <1>3
<1>5. IsPrefix(to, m)
  <2>1. Len(to) <= Len(m)
    BY <1>1, <1>2, <1>3
  <2> QED
    BY <1>3, <2>1, PrefixFacts
<1>6. Onto(from, to, s) = m
  BY DEF Onto, m, r
<1> QED
  BY <1>2, <1>3, <1>4, <1>5, <1>6

\* Renaming back gives the old name.
LEMMA OntoBack ==
  ASSUME NEW from \in Seq(Name), NEW to \in Seq(Name), NEW s \in Seq(Name), IsPrefix(from, s)
  PROVE  Onto(to, from, Onto(from, to, s)) = s
<1> DEFINE m == Onto(from, to, s)
           o == Onto(to, from, m)
<1>0. Len(from) \in Nat /\ Len(s) \in Nat /\ Len(to) \in Nat /\ Len(from) <= Len(s)
  BY DEF IsPrefix
<1>1. /\ m \in Seq(Name) /\ Len(m) = Len(to) + (Len(s) - Len(from))
      /\ \A i \in 1 .. Len(s) - Len(from) : m[Len(to) + i] = s[Len(from) + i]
      /\ IsPrefix(to, m)
  BY OntoFacts
<1> HIDE DEF m
<1>2. /\ o \in Seq(Name) /\ Len(o) = Len(from) + (Len(m) - Len(to))
      /\ \A i \in 1 .. Len(from) : o[i] = from[i]
      /\ \A i \in 1 .. Len(m) - Len(to) : o[Len(from) + i] = m[Len(to) + i]
  BY <1>1, OntoFacts
<1> HIDE DEF o
<1>3. Len(o) = Len(s) /\ Len(m) - Len(to) = Len(s) - Len(from)
  BY <1>0, <1>1, <1>2
<1>4. \A i \in 1 .. Len(from) : s[i] = from[i]
  BY PrefixFacts
<1>5. ASSUME NEW i \in 1 .. Len(o) PROVE o[i] = s[i]
  <2>1. CASE i <= Len(from)
    BY <1>0, <1>2, <1>4, <2>1
  <2>2. CASE i > Len(from)
    <3> DEFINE j == i - Len(from)
    <3>1. j \in 1 .. Len(s) - Len(from) /\ i = Len(from) + j
      BY <1>0, <1>3, <2>2
    <3> HIDE DEF j
    <3> QED
      BY <1>1, <1>2, <1>3, <3>1
  <2> QED
    BY <1>0, <2>1, <2>2
<1>6. o = s
  BY <1>2, <1>3, <1>5, SameSeq
<1> QED
  BY <1>6 DEF o, m

\* What is below what stays below it.
LEMMA OntoPrefix ==
  ASSUME NEW from \in Seq(Name), NEW to \in Seq(Name), NEW s \in Seq(Name), NEW t \in Seq(Name),
         IsPrefix(from, s), IsStrictPrefix(s, t)
  PROVE  IsStrictPrefix(Onto(from, to, s), Onto(from, to, t))
<1> DEFINE m == Onto(from, to, s)
           n == Onto(from, to, t)
<1>1. IsPrefix(s, t) /\ s # t
  BY DEF IsStrictPrefix
<1>2. IsPrefix(from, t)
  BY <1>1, PrefixTransitive
<1>3. /\ m \in Seq(Name) /\ Len(m) = Len(to) + (Len(s) - Len(from))
      /\ \A i \in 1 .. Len(to) : m[i] = to[i]
      /\ \A i \in 1 .. Len(s) - Len(from) : m[Len(to) + i] = s[Len(from) + i]
  BY OntoFacts, ZenonT(40)
<1>4. /\ n \in Seq(Name) /\ Len(n) = Len(to) + (Len(t) - Len(from))
      /\ \A i \in 1 .. Len(to) : n[i] = to[i]
      /\ \A i \in 1 .. Len(t) - Len(from) : n[Len(to) + i] = t[Len(from) + i]
  BY <1>2, OntoFacts, ZenonT(40)
<1>5. m # n
  BY <1>1, <1>2, OntoBack
<1> HIDE DEF m, n
<1>6. /\ Len(from) \in Nat /\ Len(s) \in Nat /\ Len(to) \in Nat /\ Len(t) \in Nat
      /\ Len(from) <= Len(s) /\ Len(s) <= Len(t)
  BY <1>1 DEF IsPrefix
<1>7. \A i \in 1 .. Len(s) : s[i] = t[i]
  BY <1>1, PrefixFacts
<1>8. ASSUME NEW i \in 1 .. Len(m) PROVE m[i] = n[i]
  <2>1. CASE i <= Len(to)
    BY <1>3, <1>4, <1>6, <2>1
  <2>2. CASE i > Len(to)
    <3> DEFINE j == i - Len(to)
    <3>1. /\ j \in 1 .. Len(s) - Len(from) /\ i = Len(to) + j /\ Len(from) + j \in 1 .. Len(s)
          /\ j \in 1 .. Len(t) - Len(from)
      BY <1>3, <1>6, <2>2
    <3> HIDE DEF j
    <3> QED
      BY <1>3, <1>4, <1>7, <3>1
  <2> QED
    BY <1>3, <1>6, <2>1, <2>2
<1>9. Len(m) <= Len(n)
  BY <1>3, <1>4, <1>6
<1>10. IsPrefix(m, n)
  BY <1>3, <1>4, <1>8, <1>9, PrefixFacts
<1> QED
  BY <1>5, <1>10 DEF IsStrictPrefix, m, n

\* What a rename needs: two places of the volumes, neither inside the other,
\* the new one empty, with room for everything that moves.
Movable(from, to) ==
  /\ from \in HostPaths /\ to \in HostPaths /\ Head(from) \in Volumes /\ Head(to) \in Volumes
  /\ ~IsPrefix(from, to) /\ ~IsPrefix(to, from)
  /\ CanMkdir(guest_parent(to))
  /\ Children(to) = {}
  /\ \A q \in HostPaths : IsPrefix(from, q) /\ disk[q].kind # "none" => Onto(from, to, q) \in HostPaths

\* Nothing is inside both.
LEMMA NotBoth ==
  ASSUME NEW from \in Seq(Name), NEW to \in Seq(Name), ~IsPrefix(from, to), ~IsPrefix(to, from),
         NEW q \in Seq(Name)
  PROVE  ~(IsPrefix(from, q) /\ IsPrefix(to, q))
<1> SUFFICES ASSUME IsPrefix(from, q), IsPrefix(to, q) PROVE FALSE
  OBVIOUS
<1>1. Len(from) \in Nat /\ Len(to) \in Nat
  OBVIOUS
<1>2. CASE Len(from) <= Len(to)
  BY <1>2, PrefixTransitive
<1>3. CASE Len(to) <= Len(from)
  BY <1>3, PrefixTransitive
<1> QED
  BY <1>1, <1>2, <1>3

\* rename, path by path: the new place holds what the old one held, the old
\* one is empty, and the rest is as create_dir_all left it.
LEMMA RenamedFacts ==
  ASSUME DiskOf(disk), NEW from, NEW to, Movable(from, to)
  PROVE  /\ DOMAIN Renamed(from, to) = HostPaths
         /\ \A q \in HostPaths : IsPrefix(to, q) =>
              IF Onto(to, from, q) \in HostPaths THEN Renamed(from, to)[q] = disk[Onto(to, from, q)]
              ELSE Renamed(from, to)[q] = disk[q] /\ disk[q].kind = "none"
         /\ \A q \in HostPaths : IsPrefix(from, q) => Renamed(from, to)[q] = None
         /\ \A q \in HostPaths : ~IsPrefix(from, q) /\ ~IsPrefix(to, q) =>
              Renamed(from, to)[q] = WithDirs(guest_parent(to))[q]
<1> DEFINE u == guest_parent(to)
           dk == WithDirs(u)
           e == Renamed(from, to)
           Source(q, s) == s \in HostPaths /\ IsPrefix(from, s) /\ Onto(from, to, s) = q
<1>1. /\ from \in HostPaths /\ to \in HostPaths /\ Head(from) \in Volumes /\ Head(to) \in Volumes
      /\ ~IsPrefix(from, to) /\ ~IsPrefix(to, from) /\ CanMkdir(u) /\ Children(to) = {}
  BY DEF Movable
<1>2. from \in Seq(Name) /\ to \in Seq(Name) /\ \A q \in HostPaths : q \in Seq(Name)
  BY <1>1, HostFacts
<1>3. u \in Seq(Name) /\ IsPrefix(u, to)
  <2>1. CASE Len(to) > 1
    BY <1>2, <2>1, ParentFacts DEF IsStrictPrefix
  <2>2. CASE ~(Len(to) > 1)
    BY <1>2, <2>2, PrefixTransitive DEF guest_parent
  <2> QED
    BY <2>1, <2>2
<1>4. DOMAIN disk = HostPaths
  BY DEF DiskOf
<1>5. DOMAIN e = HostPaths
  BY <1>4 DEF Renamed
<1>6. \A q \in HostPaths :
        e[q] = IF \E s : Source(q, s) THEN dk[CHOOSE s : Source(q, s)]
               ELSE IF IsPrefix(from, q) THEN None ELSE dk[q]
  <2> DEFINE under == {q \in DOMAIN disk : IsPrefix(from, q)}
             moved(q) == to \o SubSeq(q, Len(from) + 1, Len(q))
  <2>1. \A q \in HostPaths :
          e[q] = IF \E s \in under : moved(s) = q THEN dk[CHOOSE s \in under : moved(s) = q]
                 ELSE IF q \in under THEN None ELSE dk[q]
    BY <1>4 DEF Renamed
  <2>2. \A q, s : s \in under /\ moved(s) = q <=> Source(q, s)
    BY <1>4 DEF Onto
  <2>3. \A q : (\E s \in under : moved(s) = q) <=> \E s : Source(q, s)
    BY <2>2
  <2>4. \A q : (CHOOSE s \in under : moved(s) = q) = CHOOSE s : Source(q, s)
    BY <2>2
  <2> QED
    BY <1>4, <2>1, <2>3, <2>4
<1>7. \A q \in HostPaths : ~IsPrefix(q, u) => dk[q] = disk[q]
  BY <1>1, <1>3, WithDirsFacts
<1> HIDE DEF u, dk, e
<1>8. ASSUME NEW q \in HostPaths, NEW s, Source(q, s)
      PROVE  IsPrefix(to, q) /\ s = Onto(to, from, q) /\ dk[s] = disk[s]
  <2>1. s \in Seq(Name) /\ IsPrefix(from, s) /\ q = Onto(from, to, s) /\ s \in HostPaths
    BY <1>2, <1>8
  <2>2. IsPrefix(to, q)
    BY <1>2, <2>1, OntoFacts
  <2>3. s = Onto(to, from, q)
    BY <1>2, <2>1, OntoBack
  <2>4. ~IsPrefix(s, u)
    <3>1. IsPrefix(s, u) => IsPrefix(from, u)
      BY <1>2, <1>3, <2>1, PrefixTransitive
    <3>2. IsPrefix(from, u) => IsPrefix(from, to)
      BY <1>2, <1>3, PrefixTransitive
    <3> QED
      BY <1>1, <3>1, <3>2
  <2> QED
    BY <1>7, <2>1, <2>2, <2>3, <2>4
<1>9. ASSUME NEW q \in HostPaths, IsPrefix(to, q), Onto(to, from, q) \in HostPaths
      PROVE  Source(q, Onto(to, from, q))
  <2>1. IsPrefix(from, Onto(to, from, q))
    BY <1>2, <1>9, OntoFacts
  <2>2. Onto(from, to, Onto(to, from, q)) = q
    BY <1>2, <1>9, OntoBack
  <2> QED
    BY <1>9, <2>1, <2>2
<1>10. ASSUME NEW q \in HostPaths, IsPrefix(to, q), Onto(to, from, q) \in HostPaths
       PROVE  e[q] = disk[Onto(to, from, q)]
  <2>1. \E s : Source(q, s)
    BY <1>9, <1>10
  <2> DEFINE c == CHOOSE s : Source(q, s)
  <2>2. Source(q, c)
    BY <2>1
  <2>3. e[q] = dk[c]
    BY <1>6, <2>1
  <2> HIDE DEF c
  <2>4. c = Onto(to, from, q) /\ dk[c] = disk[c]
    BY <1>8, <2>2
  <2> QED
    BY <2>3, <2>4
<1>11. ASSUME NEW q \in HostPaths, ~IsPrefix(to, q)
       PROVE  e[q] = IF IsPrefix(from, q) THEN None ELSE dk[q]
  <2>1. ~\E s : Source(q, s)
    BY <1>8, <1>11
  <2> QED
    BY <1>6, <2>1
<1>12. ASSUME NEW q \in HostPaths, IsPrefix(to, q), Onto(to, from, q) \notin HostPaths
       PROVE  e[q] = disk[q] /\ disk[q].kind = "none"
  <2>1. ~\E s : Source(q, s)
    BY <1>8, <1>12
  <2>2. ~IsPrefix(from, q)
    BY <1>1, <1>2, <1>12, NotBoth
  <2>3. e[q] = dk[q]
    BY <1>6, <2>1, <2>2
  <2>4. q # to
    <3>0. IsPrefix(to, to)
      BY <1>2, PrefixTransitive
    <3>1. /\ Onto(to, from, to) \in Seq(Name) /\ Len(Onto(to, from, to)) = Len(from) + (Len(to) - Len(to))
          /\ \A i \in 1 .. Len(from) : Onto(to, from, to)[i] = from[i]
      BY <1>2, <3>0, OntoFacts
    <3>2. Len(from) \in Nat /\ Len(to) \in Nat
      BY <1>2
    <3>3. Len(Onto(to, from, to)) = Len(from)
      BY <3>1, <3>2
    <3>4. Onto(to, from, to) = from
      BY <1>2, <3>1, <3>3, SameSeq
    <3> QED
      BY <1>1, <1>12, <3>4
  <2>5. disk[q].kind = "none"
    BY <1>1, <1>12, <2>4, NothingBelow DEF IsStrictPrefix
  <2>6. ~IsPrefix(q, u)
    <3>1. IsPrefix(q, u) => IsPrefix(q, to)
      BY <1>2, <1>3, PrefixTransitive
    <3>2. IsPrefix(q, to) => q = to
      BY <1>2, <1>12, PrefixTransitive
    <3> QED
      BY <2>4, <3>1, <3>2
  <2> QED
    BY <1>7, <2>3, <2>5, <2>6
<1>13. ASSUME NEW q \in HostPaths, IsPrefix(from, q) PROVE e[q] = None
  <2>1. ~IsPrefix(to, q)
    BY <1>1, <1>2, <1>13, NotBoth
  <2> QED
    BY <1>11, <1>13, <2>1
<1> QED
  BY <1>5, <1>10, <1>11, <1>12, <1>13 DEF e, dk, u

\* A rename leaves a tree, and the files outside of both places alone.
LEMMA RenamedTree ==
  ASSUME DiskOf(disk), NEW from, NEW to, Movable(from, to)
  PROVE  /\ DiskOf(Renamed(from, to))
         /\ SameFiles(disk, Renamed(from, to), {q \in HostPaths : IsPrefix(from, q) \/ IsPrefix(to, q)})
<1> DEFINE u == guest_parent(to)
           dk == WithDirs(u)
           e == Renamed(from, to)
<1>1. /\ DOMAIN e = HostPaths
      /\ \A q \in HostPaths : IsPrefix(to, q) =>
           IF Onto(to, from, q) \in HostPaths THEN e[q] = disk[Onto(to, from, q)]
           ELSE e[q] = disk[q] /\ disk[q].kind = "none"
      /\ \A q \in HostPaths : IsPrefix(from, q) => e[q] = None
      /\ \A q \in HostPaths : ~IsPrefix(from, q) /\ ~IsPrefix(to, q) => e[q] = dk[q]
  BY RenamedFacts
<1>2. /\ from \in HostPaths /\ to \in HostPaths /\ Head(from) \in Volumes /\ Head(to) \in Volumes
      /\ ~IsPrefix(from, to) /\ ~IsPrefix(to, from) /\ CanMkdir(u)
  BY DEF Movable
<1>3. /\ from \in Seq(Name) /\ to \in Seq(Name) /\ from[1] \in Volumes /\ to[1] \in Volumes
      /\ Len(from) >= 1 /\ Len(to) >= 1 /\ Len(from) \in Nat /\ Len(to) \in Nat
      /\ \A q \in HostPaths : q \in Seq(Name)
  BY <1>2, HostFacts
<1>4. u \in Seq(Name) /\ \A q \in HostPaths : IsStrictPrefix(q, to) => IsPrefix(q, u)
  <2>1. CASE Len(to) > 1
    BY <1>3, <2>1, ParentFacts
  <2>2. CASE ~(Len(to) > 1)
    <3>1. u = to
      BY <2>2 DEF guest_parent
    <3> QED
      BY <1>3, <3>1 DEF IsStrictPrefix
  <2> QED
    BY <2>1, <2>2
<1>5. /\ DiskOf(dk) /\ SameFiles(disk, dk, {})
      /\ \A q \in HostPaths : IsPrefix(q, u) => dk[q].kind = "dir"
  BY <1>2, <1>4, WithDirsFacts
<1>6. Renamed(from, to) = [q \in HostPaths |-> e[q]]
  BY DEF Renamed, DiskOf
<1> HIDE DEF u, dk, e
<1>7. disk \in [HostPaths -> Node] /\ dk \in [HostPaths -> Node]
  BY <1>5 DEF DiskOf
<1>8. ASSUME NEW q \in HostPaths PROVE e[q] \in Node
  BY <1>1, <1>7, NodesTyped
<1>9. TreeOf(e)
  <2>1. SUFFICES ASSUME NEW k \in HostPaths, NEW q \in HostPaths, IsStrictPrefix(q, k), e[k].kind # "none"
                 PROVE  e[q].kind = "dir"
    BY DEF TreeOf
  <2>2. IsPrefix(q, k) /\ q # k /\ q \in Seq(Name) /\ k \in Seq(Name)
    BY <1>3, <2>1 DEF IsStrictPrefix
  <2>3. ~IsPrefix(from, k)
    BY <1>1, <2>1, NodesTyped
  <2>4. ~IsPrefix(from, q)
    BY <1>3, <2>2, <2>3, PrefixTransitive
  <2>5. CASE IsPrefix(to, k) /\ IsPrefix(to, q)
    <3> DEFINE s == Onto(to, from, k)
               t == Onto(to, from, q)
    <3>1. s \in HostPaths /\ e[k] = disk[s]
      BY <1>1, <2>1, <2>5
    <3>2. IsStrictPrefix(t, s) /\ t \in Seq(Name) /\ Len(t) = Len(from) + (Len(q) - Len(to))
      BY <1>3, <2>1, <2>2, <2>5, OntoPrefix, OntoFacts
    <3>3. s[1] = from[1] /\ s \in Seq(Name) /\ Head(s) = s[1]
      <4>1. \A i \in 1 .. Len(from) : s[i] = from[i]
        BY <1>3, <2>2, <2>5, OntoFacts
      <4> QED
        BY <1>3, <3>1, <4>1, HostFacts
    <3> HIDE DEF s, t
    <3>4. t \in HostPaths
      <4>1. IsPrefix(t, s) /\ Len(t) <= Len(s)
        BY <3>2 DEF IsStrictPrefix, IsPrefix
      <4>2. Len(t) \in 1 .. Len(s)
        <5>1. Len(to) <= Len(q) /\ Len(q) \in Nat /\ Len(s) \in Nat
          BY <2>2, <2>5, <3>3 DEF IsPrefix
        <5> QED
          BY <1>3, <3>2, <4>1, <5>1
      <4>3. t = SubSeq(s, 1, Len(t))
        BY <3>2, <3>3, <4>1, <4>2, PrefixOf
      <4>4. SubSeq(s, 1, Len(t)) \in HostPaths
        BY <1>3, <3>1, <3>3, <4>2, HostFacts
      <4> QED
        BY <4>3, <4>4
    <3>5. e[q] = disk[t]
      BY <1>1, <2>5, <3>4 DEF t
    <3>6. disk[t].kind = "dir"
      BY <2>1, <3>1, <3>2, <3>4 DEF DiskOf, TreeOf
    <3> QED
      BY <3>5, <3>6
  <2>6. CASE IsPrefix(to, k) /\ ~IsPrefix(to, q)
    <3>1. IsStrictPrefix(q, to)
      <4>1. CASE Len(q) <= Len(to)
        <5>1. IsPrefix(q, to)
          BY <1>3, <2>2, <2>6, <4>1, PrefixTransitive
        <5>2. q # to
          BY <1>3, <2>6, PrefixTransitive
        <5> QED
          BY <5>1, <5>2 DEF IsStrictPrefix
      <4>2. CASE Len(to) <= Len(q)
        BY <1>3, <2>2, <2>6, <4>2, PrefixTransitive
      <4>3. Len(q) \in Nat
        BY <2>2
      <4> QED
        BY <1>3, <4>1, <4>2, <4>3
    <3>2. e[q] = dk[q]
      BY <1>1, <2>4, <2>6
    <3> QED
      BY <1>4, <1>5, <3>1, <3>2
  <2>7. CASE ~IsPrefix(to, k)
    <3>1. ~IsPrefix(to, q)
      BY <1>3, <2>2, <2>7, PrefixTransitive
    <3>2. e[q] = dk[q] /\ e[k] = dk[k]
      BY <1>1, <2>3, <2>4, <2>7, <3>1
    <3> QED
      BY <1>5, <2>1, <3>2 DEF DiskOf, TreeOf
  <2> QED
    BY <2>5, <2>6, <2>7
<1>10. ASSUME NEW m \in Mounted PROVE e[MountFile(m)].kind = "file"
  <2> DEFINE k == MountFile(m)
  <2>1. k \in HostPaths /\ k \in Seq(Name) /\ k[1] = "mount" /\ "mount" \notin Volumes
    BY MountFacts DEF HostPaths
  <2>2. dk[k].kind = "file"
    BY <1>5 DEF DiskOf
  <2> HIDE DEF k
  <2>3. ~IsPrefix(from, k) /\ ~IsPrefix(to, k)
    <3>1. IsPrefix(from, k) => from[1] = k[1]
      BY <1>3, <2>1, PrefixFacts
    <3>2. IsPrefix(to, k) => to[1] = k[1]
      BY <1>3, <2>1, PrefixFacts
    <3> QED
      BY <1>3, <2>1, <3>1, <3>2
  <2>4. e[k] = dk[k]
    BY <1>1, <2>1, <2>3
  <2> QED
    BY <2>2, <2>4 DEF k
<1>11. SameFiles(disk, e, {q \in HostPaths : IsPrefix(from, q) \/ IsPrefix(to, q)})
  BY <1>1, <1>5 DEF SameFiles
<1>12. e \in [HostPaths -> Node]
  BY <1>6, <1>8 DEF e
<1>13. DiskOf(e)
  BY <1>9, <1>10, <1>12 DEF DiskOf
<1> QED
  BY <1>11, <1>13 DEF e

---------------------------------------------------------------------------
(* Bytes and records *)

\* Writing over a sequence.
LEMMA OverlayFacts ==
  ASSUME NEW s \in Bytes, NEW off \in Nat, NEW data \in Bytes
  PROVE  Overlay(s, off, data) \in Bytes
<1> DEFINE n == Max({Len(s), off + Len(data)})
           f == Overlay(s, off, data)
<1>1. Len(s) \in Nat /\ Len(data) \in Nat /\ s \in Seq(Nat) /\ data \in Seq(Nat)
  BY DEF Bytes
<1>2. n \in Nat
  <2>1. Len(s) \in Int /\ off + Len(data) \in Int /\ off + Len(data) \in Nat
    BY <1>1
  <2>2. n = IF Len(s) <= off + Len(data) THEN off + Len(data) ELSE Len(s)
    BY <2>1, MaxOfTwo
  <2> QED
    BY <1>1, <2>1, <2>2
<1>3. f = [i \in 1 .. n |-> f[i]]
  BY DEF Overlay
<1>4. ASSUME NEW i \in 1 .. n PROVE f[i] \in Nat
  <2>1. f[i] = IF i \in off + 1 .. off + Len(data) THEN data[i - off]
               ELSE IF i <= Len(s) THEN s[i] ELSE 0
    BY DEF Overlay
  <2>2. CASE i \in off + 1 .. off + Len(data)
    <3>1. i - off \in 1 .. Len(data)
      BY <1>1, <1>2, <2>2
    <3> QED
      BY <1>1, <2>1, <2>2, <3>1
  <2>3. CASE i \notin off + 1 .. off + Len(data)
    <3>1. i <= Len(s) => s[i] \in Nat
      BY <1>1, <1>2
    <3> QED
      BY <2>1, <2>3, <3>1
  <2> QED
    BY <2>2, <2>3
<1> HIDE DEF f, n
<1> QED
  BY <1>2, <1>3, <1>4, MakeSeq DEF f, Bytes

\* Cutting or extending a sequence.
LEMMA ResizeFacts ==
  ASSUME NEW s \in Bytes, NEW n \in Nat
  PROVE  /\ Resize(s, n) \in Bytes /\ Len(Resize(s, n)) = n
         /\ n = Len(s) => Resize(s, n) = s
<1> DEFINE f == Resize(s, n)
<1>1. Len(s) \in Nat /\ s \in Seq(Nat)
  BY DEF Bytes
<1>2. f = [i \in 1 .. n |-> f[i]]
  BY DEF Resize
<1>3. ASSUME NEW i \in 1 .. n PROVE f[i] \in Nat /\ (i <= Len(s) => f[i] = s[i])
  <2>1. f[i] = IF i <= Len(s) THEN s[i] ELSE 0
    BY DEF Resize
  <2>2. i <= Len(s) => s[i] \in Nat
    BY <1>1
  <2> QED
    BY <2>1, <2>2
<1> HIDE DEF f
<1>4. f \in Seq(Nat) /\ Len(f) = n
  BY <1>2, <1>3, MakeSeq
<1>5. ASSUME n = Len(s) PROVE f = s
  <2>1. \A i \in 1 .. Len(f) : f[i] = s[i]
    BY <1>1, <1>3, <1>4, <1>5
  <2> QED
    BY <1>1, <1>4, <1>5, <2>1, SameSeq
<1> QED
  BY <1>4, <1>5 DEF f, Bytes

\* Records stay records when the cursor or the buffer changes.
LEMMA RecordCursor ==
  ASSUME NEW f, RecordOf(f), NEW c \in Nat
  PROVE  /\ RecordOf([f EXCEPT !.cursor = c]) /\ [f EXCEPT !.cursor = c].cursor = c
         /\ [f EXCEPT !.cursor = c].bytes = f.bytes /\ [f EXCEPT !.cursor = c].slot = f.slot
         /\ [f EXCEPT !.cursor = c].data = f.data /\ [f EXCEPT !.cursor = c].path = f.path
         /\ [f EXCEPT !.cursor = c].host = f.host /\ [f EXCEPT !.cursor = c].streaming = f.streaming
BY DEF RecordOf

\* The same for the buffer.
LEMMA RecordBytes ==
  ASSUME NEW f, RecordOf(f), NEW b \in Bytes
  PROVE  /\ RecordOf([f EXCEPT !.bytes = b]) /\ [f EXCEPT !.bytes = b].cursor = f.cursor
         /\ [f EXCEPT !.bytes = b].bytes = b /\ [f EXCEPT !.bytes = b].slot = f.slot
         /\ [f EXCEPT !.bytes = b].data = f.data /\ [f EXCEPT !.bytes = b].path = f.path
         /\ [f EXCEPT !.bytes = b].host = f.host /\ [f EXCEPT !.bytes = b].streaming = f.streaming
BY DEF RecordOf

\* A buffer becomes a stream.
Spilled(f) == [f EXCEPT !.bytes = <<>>, !.streaming = TRUE, !.data = 0, !.slot = 0]

\* A stream of a host file is a record too.
LEMMA RecordSpilled ==
  ASSUME NEW f, RecordOf(f), f.host # NoHost
  PROVE  /\ RecordOf(Spilled(f)) /\ Spilled(f).cursor = f.cursor /\ Spilled(f).slot = 0
         /\ Spilled(f).streaming = TRUE /\ Spilled(f).path = f.path /\ Spilled(f).host = f.host
<1>1. <<>> \in Bytes /\ 0 \in 0 .. Slots
  BY FilesAssumption DEF Bytes
<1> DEFINE e == <<>>
<1>2. e \in Bytes /\ 0 \in 0 .. Slots
  BY <1>1
<1>3. Spilled(f) = [f EXCEPT !.bytes = e, !.streaming = TRUE, !.data = 0, !.slot = 0]
  BY DEF Spilled
<1> HIDE DEF e
<1> DEFINE H == HostPaths \cup {NoHost}
           g == [f EXCEPT !.bytes = e, !.streaming = TRUE, !.data = 0, !.slot = 0]
<1>4. f \in [path : Paths, bytes : Bytes, cursor : Nat, host : H, streaming : BOOLEAN, data : Nat,
             slot : 0 .. Slots] /\ f.host = host_path_of(f.path)
  BY DEF RecordOf
<1> HIDE DEF H
<1>5. g \in [path : Paths, bytes : Bytes, cursor : Nat, host : H, streaming : BOOLEAN, data : Nat,
             slot : 0 .. Slots]
  BY <1>2, <1>4
<1>6. g.cursor = f.cursor /\ g.slot = 0 /\ g.streaming = TRUE /\ g.path = f.path /\ g.host = f.host
  BY <1>4
<1> HIDE DEF g
<1>7. RecordOf(g)
  BY <1>4, <1>5, <1>6 DEF RecordOf, H
<1> QED
  BY <1>3, <1>6, <1>7 DEF g

\* The fields of a record.
LEMMA RecordFacts ==
  ASSUME NEW f, RecordOf(f)
  PROVE  /\ f.path \in Paths /\ f.bytes \in Bytes /\ Len(f.bytes) \in Nat /\ f.cursor \in Nat
         /\ f.data \in Nat /\ f.slot \in 0 .. Slots /\ f.slot \in Nat /\ f.streaming \in BOOLEAN
         /\ f.host = host_path_of(f.path) /\ f.host \in HostPaths \cup {NoHost}
         /\ f.streaming => f.host # NoHost /\ f.slot = 0
         /\ f.host # NoHost => f.host \in HostPaths /\ Len(f.host) > 1
         /\ f.host = NoHost <=> Head(f.path) \notin Volumes /\ f.path \notin Mounted
<1>1. /\ f.path \in Paths /\ f.bytes \in Bytes /\ f.cursor \in Nat
      /\ f.data \in Nat /\ f.slot \in 0 .. Slots /\ f.streaming \in BOOLEAN
      /\ f.host = host_path_of(f.path)
      /\ f.streaming => f.host # NoHost /\ f.slot = 0
  BY DEF RecordOf
<1>2. Len(f.bytes) \in Nat /\ f.slot \in Nat
  BY <1>1, FilesAssumption DEF Bytes
<1>3. /\ host_path_of(f.path) \in HostPaths \cup {NoHost}
      /\ Head(f.path) \in Volumes => host_path_of(f.path) = f.path
      /\ Head(f.path) \notin Volumes /\ f.path \in Mounted => host_path_of(f.path) = MountFile(f.path)
      /\ host_path_of(f.path) = NoHost <=> Head(f.path) \notin Volumes /\ f.path \notin Mounted
  BY <1>1, HostPathOf
<1>4. f.path \in Seq(Name) /\ Len(f.path) > 1
  BY <1>1, DirFacts DEF Dirs
<1>5. ASSUME f.host # NoHost PROVE f.host \in HostPaths /\ Len(f.host) > 1
  <2>1. CASE Head(f.path) \in Volumes
    BY <1>1, <1>3, <1>4, <1>5, <2>1
  <2>2. CASE Head(f.path) \notin Volumes
    <3>1. f.path \in Mounted /\ f.host = MountFile(f.path)
      BY <1>1, <1>3, <1>5, <2>2
    <3>2. Len(f.host) = Len(f.path) + 1
      BY <3>1, MountFacts
    <3> QED
      BY <1>1, <1>3, <1>4, <1>5, <3>2
  <2> QED
    BY <2>1, <2>2
<1> QED
  BY <1>1, <1>2, <1>3, <1>5

\* FlushFileBuffers, SetEndOfFile and CloseHandle: the buffer replaces the host file.
LEMMA PersistFacts ==
  ASSUME DiskOf(disk), NEW f, RecordOf(f)
  PROVE  /\ DiskOf(persist_open_file_to_host(f))
         /\ SameFiles(disk, persist_open_file_to_host(f), {f.host})
         /\ f.streaming \/ f.host = NoHost => persist_open_file_to_host(f) = disk
         /\ ~f.streaming /\ f.host # NoHost /\ disk[f.host].kind = "file" =>
              persist_open_file_to_host(f)[f.host] = File(f.bytes)
<1>1. f.bytes \in Bytes /\ (f.host # NoHost => f.host \in HostPaths /\ Len(f.host) > 1)
  BY RecordFacts
<1>2. CASE f.streaming \/ f.host = NoHost \/ ~CanWrite(f.host)
  <2>1. persist_open_file_to_host(f) = disk
    BY <1>2 DEF persist_open_file_to_host
  <2>2. SameFiles(disk, disk, {f.host})
    BY DEF SameFiles
  <2>3. f.host # NoHost /\ disk[f.host].kind = "file" => CanWrite(f.host)
    BY <1>1, FileWritable
  <2> QED
    BY <1>2, <2>1, <2>2, <2>3
<1>3. CASE ~f.streaming /\ f.host # NoHost /\ CanWrite(f.host)
  <2>1. persist_open_file_to_host(f) = Written(f.host, f.bytes)
    BY <1>3 DEF persist_open_file_to_host
  <2> QED
    BY <1>1, <1>3, <2>1, WrittenFacts
<1> QED
  BY <1>2, <1>3

\* A virtual file takes a buffer; nothing else changes.
LEMMA VirtualFacts ==
  ASSUME VirtualOf(virtual_files), NEW f, RecordOf(f)
  PROVE  /\ VirtualOf(sync_open_bytes_to_virtual(f))
         /\ f.host # NoHost => sync_open_bytes_to_virtual(f) = virtual_files
         /\ f.host = NoHost /\ ~f.streaming /\ ~is_main_module_path(f.path) =>
              sync_open_bytes_to_virtual(f) = With(virtual_files, f.path, f.bytes)
<1>1. /\ f.path \in Paths /\ f.bytes \in Bytes
      /\ f.host = NoHost <=> Head(f.path) \notin Volumes /\ f.path \notin Mounted
  BY RecordFacts
<1>2. guest_path_to_host(f.path) # NoHost <=> Head(f.path) \in Volumes
  BY <1>1, GuestHostFacts DEF Dirs
<1>3. CASE f.host # NoHost \/ f.streaming \/ is_main_module_path(f.path)
  BY <1>3 DEF sync_open_bytes_to_virtual
<1>4. CASE f.host = NoHost /\ ~f.streaming /\ ~is_main_module_path(f.path)
  <2>1. sync_open_bytes_to_virtual(f) = With(virtual_files, f.path, f.bytes)
    BY <1>1, <1>2, <1>4 DEF sync_open_bytes_to_virtual
  <2>2. VirtualOf(With(virtual_files, f.path, f.bytes))
    BY <1>1, <1>4 DEF VirtualOf, With
  <2> QED
    BY <1>4, <2>1, <2>2
<1> QED
  BY <1>3, <1>4

---------------------------------------------------------------------------
(* The namespace *)

\* What an input names.
LEMMA FullIn ==
  ASSUME NamesInv, NEW in \in Inputs
  PROVE  Full(in) \in Dirs
BY PathAssumption DEF NamesInv, Full

\* What CreateFile would load for a path that is not the main module's.
Loaded(d, v, p) ==
  IF p \in Mounted THEN d[MountFile(p)]
  ELSE IF Head(p) \in Volumes THEN (IF d[p].kind = "file" THEN d[p] ELSE None)
  ELSE IF p \in DOMAIN v THEN File(v[p]) ELSE None

\* It is a node.
LEMMA LoadedTyped ==
  ASSUME NEW d, NEW v, DiskOf(d), VirtualOf(v), NEW p \in Paths
  PROVE  Loaded(d, v, p) \in Node
<1>1. /\ d \in [HostPaths -> Node]
      /\ p \in DOMAIN v => v[p] \in Bytes
  BY DEF DiskOf, VirtualOf
<1>2. Head(p) \in Volumes => p \in HostPaths
  BY GuestHostFacts DEF Dirs
<1>3. p \in Mounted => MountFile(p) \in HostPaths
  BY DEF HostPaths
<1> QED
  BY <1>1, <1>2, <1>3, NodesTyped DEF Loaded

\* resolve_guest_file_bytes loads it.
LEMMA ResolveNow ==
  ASSUME NamesInv, NEW p \in Paths
  PROVE  /\ resolve_guest_file_bytes(p) = IF is_main_module_path(p) THEN File(Executable)
                                          ELSE Loaded(disk, virtual_files, p)
         /\ resolve_guest_file_bytes(p) \in Node
<1>1. DiskOf(disk) /\ VirtualOf(virtual_files)
  BY DEF NamesInv
<1>2. guest_path_to_host(p) # NoHost <=> Head(p) \in Volumes
  BY GuestHostFacts DEF Dirs
<1>3. p \in DOMAIN virtual_files => Head(p) \notin Volumes
  BY <1>1 DEF VirtualOf
<1>4. resolve_guest_file_bytes(p) = IF is_main_module_path(p) THEN File(Executable)
                                   ELSE Loaded(disk, virtual_files, p)
  BY <1>2, <1>3 DEF resolve_guest_file_bytes, Loaded
<1>5. File(Executable) \in Node
  BY FilesAssumption, NodesTyped DEF Bytes
<1> QED
  BY <1>1, <1>4, <1>5, LoadedTyped

\* And in the next state.
LEMMA ResolveNext ==
  ASSUME NamesInv', NEW p \in Paths
  PROVE  /\ resolve_guest_file_bytes(p)' = IF is_main_module_path(p) THEN File(Executable)
                                           ELSE Loaded(disk', virtual_files', p)
         /\ resolve_guest_file_bytes(p)' \in Node
<1>1. DiskOf(disk') /\ VirtualOf(virtual_files')
  BY DEF NamesInv
<1>2. guest_path_to_host(p) # NoHost <=> Head(p) \in Volumes
  BY GuestHostFacts DEF Dirs
<1>3. p \in DOMAIN virtual_files' => Head(p) \notin Volumes
  BY <1>1 DEF VirtualOf
<1>4. resolve_guest_file_bytes(p)' = IF is_main_module_path(p) THEN File(Executable)
                                    ELSE Loaded(disk', virtual_files', p)
  BY <1>2, <1>3 DEF resolve_guest_file_bytes, Loaded
<1>5. File(Executable) \in Node
  BY FilesAssumption, NodesTyped DEF Bytes
<1> QED
  BY <1>1, <1>4, <1>5, LoadedTyped

\* DeleteFile takes the host's file, or the virtual one.
LEMMA DeleteNames ==
  ASSUME NamesInv, NEW in \in Inputs, finish_delete_file(in), Full(in) \in Paths
  PROVE  /\ NamesInv' /\ SameFiles(disk, disk', {Full(in)})
         /\ Head(Full(in)) \in Volumes => disk'[Full(in)].kind # "file"
         /\ Head(Full(in)) \notin Volumes => disk' = disk
         /\ virtual_files' = Without(virtual_files, Full(in))
<1> DEFINE p == Full(in)
<1>1. /\ virtual_files' = Without(virtual_files, p) /\ cwd' = cwd
      /\ disk' = IF guest_path_to_host(p) # NoHost /\ disk[p].kind = "file"
                   THEN [disk EXCEPT ![p] = None] ELSE disk
  BY DEF finish_delete_file
<1>2. /\ guest_path_to_host(p) # NoHost <=> Head(p) \in Volumes
      /\ Head(p) \in Volumes => p \in HostPaths
  BY GuestHostFacts DEF Dirs
<1>3. DiskOf(disk) /\ VirtualOf(virtual_files) /\ cwd \in Dirs
  BY DEF NamesInv
<1> HIDE DEF p
<1>4. VirtualOf(virtual_files')
  BY <1>1, <1>3 DEF VirtualOf, Without
<1>5. CASE Head(p) \in Volumes /\ disk[p].kind = "file"
  <2>1. disk' = [disk EXCEPT ![p] = None]
    BY <1>1, <1>2, <1>5
  <2>2. \A q \in HostPaths : IsStrictPrefix(p, q) => disk[q].kind = "none"
    BY <1>2, <1>3, <1>5, NothingBelow
  <2>3. /\ DiskOf(disk') /\ disk'[p] = None /\ \A x \in HostPaths : x # p => disk'[x] = disk[x]
    BY <1>2, <1>3, <1>5, <2>1, <2>2, SetNone, ZenonT(40)
  <2>4. SameFiles(disk, disk', {p})
    BY <2>3 DEF SameFiles
  <2> QED
    BY <1>1, <1>3, <1>4, <1>5, <2>3, <2>4, NodesTyped DEF NamesInv, p
<1>6. CASE ~(Head(p) \in Volumes /\ disk[p].kind = "file")
  <2>1. disk' = disk
    BY <1>1, <1>2, <1>6
  <2> QED
    BY <1>1, <1>3, <1>4, <1>6, <2>1 DEF NamesInv, SameFiles, p
<1> QED
  BY <1>5, <1>6

\* MoveFile renames, or leaves the directories it made for the new name.
LEMMA MoveNames ==
  ASSUME NamesInv, NEW in \in Inputs, NEW into \in Inputs, finish_move_file(in, into)
  PROVE  /\ NamesInv' /\ virtual_files' = virtual_files
         /\ RenameWorks(Full(in), Full(into)) =>
              Movable(Full(in), Full(into)) /\ disk' = Renamed(Full(in), Full(into))
         /\ ~RenameWorks(Full(in), Full(into)) => SameFiles(disk, disk', {})
<1> DEFINE from == Full(in)
           to == Full(into)
<1>1. /\ guest_path_to_host(from) # NoHost /\ guest_path_to_host(to) # NoHost
      /\ CanMkdir(guest_parent(to))
      /\ virtual_files' = virtual_files /\ cwd' = cwd
  BY DEF finish_move_file
<1>2. from \in Dirs /\ to \in Dirs
  BY FullIn
<1>3. RenameWorks(from, to) =>
        /\ \A q \in DOMAIN disk : IsPrefix(from, q) /\ disk[q].kind # "none"
             => to \o SubSeq(q, Len(from) + 1, Len(q)) \in DOMAIN disk
        /\ disk' = Renamed(from, to)
  BY DEF finish_move_file
<1>4. ~RenameWorks(from, to) => disk' = WithDirs(guest_parent(to))
  BY DEF finish_move_file
<1> HIDE DEF from, to
<1>5. from \in HostPaths /\ to \in HostPaths /\ Head(from) \in Volumes /\ Head(to) \in Volumes
  BY <1>1, <1>2, GuestHostFacts
<1>6. DiskOf(disk) /\ VirtualOf(virtual_files) /\ cwd \in Dirs /\ DOMAIN disk = HostPaths
  BY DEF NamesInv, DiskOf
<1>7. CASE RenameWorks(from, to)
  <2>1. ~IsPrefix(from, to) /\ ~IsPrefix(to, from) /\ Children(to) = {}
    BY <1>7 DEF RenameWorks
  <2>2. Movable(from, to)
    BY <1>1, <1>3, <1>5, <1>6, <1>7, <2>1 DEF Movable, Onto
  <2>3. DiskOf(disk')
    BY <1>3, <1>6, <1>7, <2>2, RenamedTree
  <2> QED
    BY <1>1, <1>3, <1>6, <1>7, <2>2, <2>3 DEF NamesInv, from, to
<1>8. CASE ~RenameWorks(from, to)
  <2>1. to \in Seq(Name)
    BY <1>2, DirFacts
  <2>2. guest_parent(to) \in Seq(Name)
    <3>1. CASE Len(to) > 1
      BY <2>1, <3>1, ParentFacts
    <3>2. CASE ~(Len(to) > 1)
      BY <2>1, <3>2 DEF guest_parent
    <3> QED
      BY <3>1, <3>2
  <2>3. DiskOf(disk') /\ SameFiles(disk, disk', {})
    BY <1>1, <1>4, <1>6, <1>8, <2>2, WithDirsFacts
  <2> QED
    BY <1>1, <1>6, <1>8, <2>3 DEF NamesInv, from, to
<1> QED
  BY <1>7, <1>8

\* A path of Paths is long enough to be written to.
LEMMA PathLong ==
  ASSUME NEW p \in Paths
  PROVE  Len(p) > 1 /\ p \in Dirs /\ p \in Seq(Name)
BY DirFacts DEF Dirs

\* GetTempFileName makes an empty file.
LEMMA TempNames ==
  ASSUME NamesInv, NEW in \in Inputs, finish_create_file_create_only(in), Full(in) \in Paths
  PROVE  /\ NamesInv' /\ SameFiles(disk, disk', {Full(in)})
         /\ Head(Full(in)) \in Volumes =>
              /\ virtual_files' = virtual_files
              /\ IF CanWrite(Full(in)) THEN disk'[Full(in)] = File(<<>>) ELSE disk' = disk
         /\ Head(Full(in)) \notin Volumes =>
              /\ disk' = disk
              /\ virtual_files' = IF Full(in) \in DOMAIN virtual_files THEN virtual_files
                                  ELSE With(virtual_files, Full(in), <<>>)
<1> DEFINE p == Full(in)
<1>1. /\ IF guest_path_to_host(p) # NoHost
           THEN /\ disk' = IF CanWrite(p) THEN Written(p, <<>>) ELSE disk
                /\ virtual_files' = virtual_files
           ELSE /\ virtual_files' = IF p \in DOMAIN virtual_files THEN virtual_files
                                    ELSE With(virtual_files, p, <<>>)
                /\ disk' = disk
      /\ cwd' = cwd
  BY DEF finish_create_file_create_only
<1>2. /\ guest_path_to_host(p) # NoHost <=> Head(p) \in Volumes
      /\ Head(p) \in Volumes => p \in HostPaths
      /\ p \in Paths /\ Len(p) > 1
  BY GuestHostFacts, PathLong
<1>3. DiskOf(disk) /\ VirtualOf(virtual_files) /\ cwd \in Dirs
  BY DEF NamesInv
<1>4. <<>> \in Bytes
  BY DEF Bytes
<1> HIDE DEF p
<1>5. CASE Head(p) \in Volumes
  <2>1. virtual_files' = virtual_files /\ disk' = IF CanWrite(p) THEN Written(p, <<>>) ELSE disk
    BY <1>1, <1>2, <1>5
  <2>2. CASE CanWrite(p)
    <3>1. DiskOf(disk') /\ disk'[p] = File(<<>>) /\ SameFiles(disk, disk', {p})
      BY <1>2, <1>3, <1>4, <1>5, <2>1, <2>2, WrittenFacts
    <3> QED
      BY <1>1, <1>3, <1>5, <2>1, <2>2, <3>1 DEF NamesInv, p
  <2>3. CASE ~CanWrite(p)
    <3>1. disk' = disk /\ SameFiles(disk, disk, {p})
      BY <2>1, <2>3 DEF SameFiles
    <3> QED
      BY <1>1, <1>3, <1>5, <2>1, <2>3, <3>1 DEF NamesInv, p
  <2> QED
    BY <2>2, <2>3
<1>6. CASE Head(p) \notin Volumes
  <2>1. /\ disk' = disk /\ SameFiles(disk, disk, {p})
        /\ virtual_files' = IF p \in DOMAIN virtual_files THEN virtual_files
                            ELSE With(virtual_files, p, <<>>)
    BY <1>1, <1>2, <1>6 DEF SameFiles
  <2>2. VirtualOf(With(virtual_files, p, <<>>))
    BY <1>2, <1>3, <1>4, <1>6 DEF VirtualOf, With
  <2>3. VirtualOf(virtual_files')
    BY <1>3, <2>1, <2>2
  <2> QED
    BY <1>1, <1>3, <1>6, <2>1, <2>3 DEF NamesInv, p
<1> QED
  BY <1>5, <1>6

\* Directories come and go; files stay.
LEMMA DirectoryNames ==
  ASSUME NamesInv, NEW in \in Inputs,
         set_current_directory(in) \/ finish_create_directory(in) \/ finish_remove_directory(in)
  PROVE  NamesInv' /\ SameFiles(disk, disk', {}) /\ virtual_files' = virtual_files
<1> DEFINE p == Full(in)
<1>1. p \in Dirs
  BY FullIn
<1>2. /\ guest_path_to_host(p) # NoHost <=> Head(p) \in Volumes
      /\ Head(p) \in Volumes => p \in HostPaths
      /\ p \in Seq(Name)
  BY <1>1, GuestHostFacts, DirFacts
<1>3. DiskOf(disk) /\ VirtualOf(virtual_files) /\ cwd \in Dirs
  BY DEF NamesInv
<1>4. CASE set_current_directory(in)
  <2>1. cwd' = p /\ disk' = disk /\ virtual_files' = virtual_files
    BY <1>4 DEF set_current_directory
  <2> QED
    BY <1>1, <1>3, <2>1 DEF NamesInv, SameFiles
<1>5. CASE finish_create_directory(in)
  <2>1. /\ CanMkdir(p) /\ disk' = WithDirs(p) /\ cwd' = cwd /\ virtual_files' = virtual_files
    BY <1>5 DEF finish_create_directory
  <2> HIDE DEF p
  <2>2. DiskOf(disk') /\ SameFiles(disk, disk', {})
    BY <1>2, <1>3, <2>1, WithDirsFacts
  <2> QED
    BY <1>3, <2>1, <2>2 DEF NamesInv
<1>6. CASE finish_remove_directory(in)
  <2>1. /\ guest_path_to_host(p) # NoHost /\ disk[p].kind = "dir" /\ Children(p) = {}
        /\ disk' = [disk EXCEPT ![p] = None] /\ cwd' = cwd /\ virtual_files' = virtual_files
    BY <1>6 DEF finish_remove_directory
  <2> HIDE DEF p
  <2>2. p \in HostPaths /\ Head(p) \in Volumes
    BY <1>2, <2>1
  <2>3. \A q \in HostPaths : IsStrictPrefix(p, q) => disk[q].kind = "none"
    BY <1>3, <2>1, <2>2, NothingBelow
  <2>4. DiskOf(disk') /\ disk'[p] = None /\ \A x \in HostPaths : x # p => disk'[x] = disk[x]
    BY <1>3, <2>1, <2>2, <2>3, SetNone, ZenonT(40)
  <2>5. SameFiles(disk, disk', {})
    BY <2>1, <2>4, NodesTyped DEF SameFiles
  <2> QED
    BY <1>3, <2>1, <2>4, <2>5 DEF NamesInv
<1> QED
  BY <1>4, <1>5, <1>6

---------------------------------------------------------------------------
(* Handles *)

\* A non-empty set of naturals has a least element.
LEMMA LeastExists ==
  ASSUME NEW S \in SUBSET Nat, S # {}
  PROVE  \E x \in S : \A y \in S : x <= y
<1>1. OpToRel(<, Nat) = {ss \in Nat \X Nat : ss[1] < ss[2]}
  BY Zenon DEF OpToRel
<1>2. IsWellFoundedOn({ss \in Nat \X Nat : ss[1] < ss[2]}, Nat)
  BY <1>1, NatLessThanWellFounded, Zenon
<1>3. PICK x \in S : \A y \in S : ~(<<y, x>> \in {ss \in Nat \X Nat : ss[1] < ss[2]})
  BY <1>2, WFMin
<1>4. ASSUME NEW y \in S
      PROVE  x <= y
  <2>1. x \in Nat /\ y \in Nat /\ <<y, x>> \in Nat \X Nat
    OBVIOUS
  <2>2. ~(<<y, x>>[1] < <<y, x>>[2])
    BY <1>3, <2>1, Zenon
  <2> QED
    BY <2>1, <2>2
<1> QED
  BY <1>4

\* Min picks it.
LEMMA MinIn ==
  ASSUME NEW S \in SUBSET Nat, S # {}
  PROVE  Min(S) \in S
<1>1. \E x \in S : \A y \in S : x <= y
  BY LeastExists
<1> QED
  BY <1>1 DEF Min

\* Rounding up to a multiple of Align.
LEMMA AlignedFacts ==
  ASSUME NEW n \in Nat
  PROVE  Aligned(n) \in Nat /\ n <= Aligned(n)
<1> DEFINE a == n + Align - 1
           q == a \div Align
           r == a % Align
<1>1. Align \in Nat /\ Align > 0
  BY FilesAssumption
<1>2. a \in Nat
  BY <1>1
<1> HIDE DEF a
<1>3. q \in Int /\ r \in 0 .. Align - 1 /\ a = Align * q + r
  BY <1>1, <1>2
<1>4. Align * q = q * Align /\ q * Align \in Int
  BY <1>1, <1>3
<1> HIDE DEF q, r
<1> DEFINE m == q * Align
<1>5. Aligned(n) = m
  BY DEF Aligned, q, a
<1>6. m \in Int /\ a = m + r
  BY <1>3, <1>4
<1> HIDE DEF m
<1> QED
  BY <1>1, <1>3, <1>5, <1>6 DEF a

\* A new record.
LEMMA RecordNew ==
  ASSUME NEW p \in Paths, NEW b \in Bytes, NEW s \in BOOLEAN, s => host_path_of(p) # NoHost
  PROVE  LET f == Record(p, b, host_path_of(p), s) IN
         /\ RecordOf(f) /\ f.path = p /\ f.bytes = b /\ f.cursor = 0 /\ f.host = host_path_of(p)
         /\ f.streaming = s /\ f.slot = 0 /\ f.data = 0
<1> DEFINE k == host_path_of(p)
           H == HostPaths \cup {NoHost}
           f == [path |-> p, bytes |-> b, cursor |-> 0, host |-> k, streaming |-> s,
                 data |-> 0, slot |-> 0]
<1>1. k \in H
  BY HostPathOf
<1>2. 0 \in 0 .. Slots
  BY FilesAssumption
<1>3. k = host_path_of(p)
  OBVIOUS
<1> HIDE DEF k, H
<1>4. f \in [path : Paths, bytes : Bytes, cursor : Nat, host : H, streaming : BOOLEAN, data : Nat,
             slot : 0 .. Slots]
  BY <1>1, <1>2
<1>5. /\ f.path = p /\ f.bytes = b /\ f.cursor = 0 /\ f.host = k
      /\ f.streaming = s /\ f.slot = 0 /\ f.data = 0
  OBVIOUS
<1>6. f = Record(p, b, host_path_of(p), s)
  BY <1>3 DEF Record
<1> HIDE DEF f
<1>7. RecordOf(f)
  BY <1>3, <1>4, <1>5 DEF RecordOf, H
<1> QED
  BY <1>3, <1>5, <1>6, <1>7

\* A record is given a slot.
LEMMA RecordSlot ==
  ASSUME NEW f, RecordOf(f), ~f.streaming, NEW d \in Nat, NEW i \in 1 .. Slots
  PROVE  LET g == [f EXCEPT !.data = d, !.slot = i] IN
         /\ RecordOf(g) /\ g.path = f.path /\ g.bytes = f.bytes /\ g.cursor = f.cursor
         /\ g.host = f.host /\ g.streaming = f.streaming /\ g.slot = i /\ g.data = d
<1>1. i \in 0 .. Slots
  BY FilesAssumption
<1> QED
  BY <1>1 DEF RecordOf

\* Bytes stored in the arena.
LEMMA StoredFacts ==
  ASSUME arena \in [1 .. ArenaSize -> Nat], NEW a \in Nat, NEW b \in Bytes
  PROVE  /\ Stored(a, b) \in [1 .. ArenaSize -> Nat]
         /\ \A i \in 1 .. ArenaSize : i \notin a + 1 .. a + Len(b) => Stored(a, b)[i] = arena[i]
         /\ a + Len(b) <= ArenaSize => \A i \in 1 .. Len(b) : Stored(a, b)[a + i] = b[i]
<1>1. /\ DOMAIN arena = 1 .. ArenaSize /\ ArenaSize \in Nat
      /\ Len(b) \in Nat /\ \A i \in 1 .. Len(b) : b[i] \in Nat
  BY FilesAssumption DEF Bytes
<1>2. CASE a + Len(b) > ArenaSize
  <2>1. Stored(a, b) = arena
    BY <1>2 DEF Stored
  <2> QED
    BY <1>1, <1>2, <2>1
<1>3. CASE a + Len(b) <= ArenaSize
  <2>1. Stored(a, b) = [i \in 1 .. ArenaSize |-> IF i \in a + 1 .. a + Len(b) THEN b[i - a] ELSE arena[i]]
    BY <1>1, <1>3 DEF Stored
  <2>2. ASSUME NEW i \in 1 .. ArenaSize
        PROVE  /\ Stored(a, b)[i] = IF i \in a + 1 .. a + Len(b) THEN b[i - a] ELSE arena[i]
               /\ Stored(a, b)[i] \in Nat
    <3>1. Stored(a, b)[i] = IF i \in a + 1 .. a + Len(b) THEN b[i - a] ELSE arena[i]
      BY <2>1
    <3>2. i \in a + 1 .. a + Len(b) => i - a \in 1 .. Len(b)
      BY <1>1
    <3> QED
      BY <1>1, <3>1, <3>2
  <2>3. Stored(a, b) \in [1 .. ArenaSize -> Nat]
    BY <2>1, <2>2
  <2>4. ASSUME NEW i \in 1 .. Len(b) PROVE Stored(a, b)[a + i] = b[i]
    <3>1. a + i \in 1 .. ArenaSize /\ a + i \in a + 1 .. a + Len(b) /\ (a + i) - a = i
      BY <1>1, <1>3
    <3> QED
      BY <2>2, <3>1
  <2> QED
    BY <2>2, <2>3, <2>4
<1> QED
  BY <1>1, <1>2, <1>3

\* What register_open_file does with the record f of the handle h: it becomes
\* g, which has a slot and a mirror, or neither.
Registered(h, f, g) ==
  /\ open_files' = With(open_files, h, g)
  /\ RecordOf(g) /\ g.path = f.path /\ g.bytes = f.bytes /\ g.cursor = f.cursor
  /\ g.host = f.host /\ g.streaming = f.streaming
  /\ \/ /\ g.slot = 0 /\ table' = table /\ arena_next' = arena_next
        /\ \/ arena' = arena
           \/ arena' = Stored(arena_next, f.bytes)
     \/ /\ g.slot \in 1 .. Slots /\ table[g.slot].handle = 0 /\ g.data = arena_next
        /\ table' = [table EXCEPT ![g.slot] = [handle |-> h, data |-> arena_next,
                                               size |-> Len(f.bytes), cursor |-> 0]]
        /\ arena_next' = arena_next + Aligned(Len(f.bytes))
        /\ arena_next + Aligned(Len(f.bytes)) <= ArenaSize
        /\ arena' = Stored(arena_next, f.bytes)
        /\ f.bytes # <<>>

\* register_open_file.
LEMMA RegisterFacts ==
  ASSUME TableInv, NEW h, NEW f, RecordOf(f), f.slot = 0, register_open_file(h, f)
  PROVE  \E g : Registered(h, f, g)
<1> DEFINE fits == /\ ~f.streaming /\ f.bytes # <<>>
                   /\ arena_next + Aligned(Len(f.bytes)) <= ArenaSize
           free == {j \in 1 .. Slots : table[j].handle = 0}
           i == Min(free)
           g == [f EXCEPT !.data = arena_next, !.slot = i]
<1>1. /\ arena' = IF fits THEN Stored(arena_next, f.bytes) ELSE arena
      /\ IF fits /\ free # {}
           THEN /\ table' = [table EXCEPT ![i] = [handle |-> h, data |-> arena_next,
                                                  size |-> Len(f.bytes), cursor |-> 0]]
                /\ arena_next' = arena_next + Aligned(Len(f.bytes))
                /\ open_files' = With(open_files, h, g)
           ELSE /\ table' = table /\ arena_next' = arena_next
                /\ open_files' = With(open_files, h, f)
  BY DEF register_open_file
<1>2. CASE fits /\ free # {}
  <2>1. free \in SUBSET Nat
    BY FilesAssumption
  <2>2. i \in free
    BY <1>2, <2>1, MinIn
  <2>3. i \in 1 .. Slots /\ table[i].handle = 0
    BY <2>2
  <2> HIDE DEF i, free
  <2>4. arena_next \in Nat
    BY FilesAssumption DEF TableInv
  <2>5. /\ RecordOf(g) /\ g.path = f.path /\ g.bytes = f.bytes /\ g.cursor = f.cursor
        /\ g.host = f.host /\ g.streaming = f.streaming /\ g.slot = i /\ g.data = arena_next
    BY <1>2, <2>3, <2>4, RecordSlot, ZenonT(40)
  <2> HIDE DEF g
  <2>6. Registered(h, f, g)
    BY <1>1, <1>2, <2>3, <2>5 DEF Registered
  <2> QED
    BY <2>6
<1>3. CASE ~(fits /\ free # {})
  <2>1. /\ open_files' = With(open_files, h, f) /\ table' = table /\ arena_next' = arena_next
        /\ arena' = arena \/ arena' = Stored(arena_next, f.bytes)
    BY <1>1, <1>3
  <2>2. Registered(h, f, f)
    BY <2>1 DEF Registered
  <2> QED
    BY <2>2
<1> QED
  BY <1>2, <1>3

\* A record is replaced by another.
LEMMA HandleReplaced ==
  ASSUME HandlesInv, NEW h \in DOMAIN open_files, NEW g, RecordOf(g),
         open_files' = [open_files EXCEPT ![h] = g], opened' = opened,
         pos' \in [DOMAIN open_files -> Nat]
  PROVE  /\ HandlesInv' /\ DOMAIN open_files' = DOMAIN open_files /\ open_files'[h] = g
         /\ \A x \in DOMAIN open_files : x # h => open_files'[x] = open_files[x]
<1>1. /\ DOMAIN open_files' = DOMAIN open_files /\ open_files'[h] = g
      /\ \A x \in DOMAIN open_files : x # h => open_files'[x] = open_files[x]
      /\ open_files' = [x \in DOMAIN open_files' |-> open_files'[x]]
  OBVIOUS
<1>2. \A x \in DOMAIN open_files' : RecordOf(open_files'[x])
  BY <1>1 DEF HandlesInv
<1> QED
  BY <1>1, <1>2 DEF HandlesInv

\* Nothing is replaced.
LEMMA HandlesSame ==
  ASSUME HandlesInv, open_files' = open_files, opened' = opened, pos' \in [DOMAIN open_files -> Nat]
  PROVE  HandlesInv'
BY DEF HandlesInv

\* A handle is added.
LEMMA HandleAdded ==
  ASSUME HandlesInv, NEW g, RecordOf(g), open_files' = With(open_files, opened + 1, g),
         opened' = opened + 1, pos' = With(pos, opened + 1, 0)
  PROVE  /\ HandlesInv' /\ opened + 1 \notin DOMAIN open_files
         /\ DOMAIN open_files' = DOMAIN open_files \cup {opened + 1}
         /\ open_files'[opened + 1] = g /\ pos'[opened + 1] = 0
         /\ \A x \in DOMAIN open_files : open_files'[x] = open_files[x] /\ pos'[x] = pos[x]
<1> DEFINE h == opened + 1
<1>1. opened \in Nat /\ DOMAIN open_files \subseteq 1 .. opened /\ pos \in [DOMAIN open_files -> Nat]
  BY DEF HandlesInv
<1>2. h \notin DOMAIN open_files
  BY <1>1
<1>3. /\ DOMAIN open_files' = DOMAIN open_files \cup {h} /\ open_files'[h] = g
      /\ \A x \in DOMAIN open_files : open_files'[x] = open_files[x]
      /\ open_files' = [x \in DOMAIN open_files' |-> open_files'[x]]
  BY <1>2 DEF With
<1>4. /\ DOMAIN pos' = DOMAIN open_files \cup {h} /\ pos'[h] = 0
      /\ \A x \in DOMAIN open_files : pos'[x] = pos[x]
      /\ pos' = [x \in DOMAIN pos' |-> pos'[x]]
  BY <1>1, <1>2 DEF With
<1>5. \A x \in DOMAIN open_files' : RecordOf(open_files'[x])
  BY <1>3 DEF HandlesInv
<1>6. pos' \in [DOMAIN open_files' -> Nat]
  BY <1>1, <1>3, <1>4
<1>7. opened' \in Nat /\ DOMAIN open_files' \subseteq 1 .. opened'
  BY <1>1, <1>3
<1> QED
  BY <1>2, <1>3, <1>4, <1>5, <1>6, <1>7 DEF HandlesInv

\* A handle is closed.
LEMMA HandleClosed ==
  ASSUME HandlesInv, NEW h \in DOMAIN open_files, open_files' = Without(open_files, h),
         opened' = opened, pos' = Without(pos, h)
  PROVE  /\ HandlesInv' /\ DOMAIN open_files' = DOMAIN open_files \ {h}
         /\ \A x \in DOMAIN open_files' : open_files'[x] = open_files[x] /\ pos'[x] = pos[x]
<1>1. /\ DOMAIN open_files' = DOMAIN open_files \ {h}
      /\ \A x \in DOMAIN open_files' : open_files'[x] = open_files[x]
      /\ open_files' = [x \in DOMAIN open_files' |-> open_files'[x]]
  BY DEF Without
<1>2. pos \in [DOMAIN open_files -> Nat]
  BY DEF HandlesInv
<1>3. /\ DOMAIN pos' = DOMAIN open_files \ {h} /\ \A x \in DOMAIN open_files' : pos'[x] = pos[x]
      /\ pos' = [x \in DOMAIN pos' |-> pos'[x]]
  BY <1>1, <1>2 DEF Without
<1>4. pos' \in [DOMAIN open_files' -> Nat]
  BY <1>1, <1>2, <1>3
<1>5. \A x \in DOMAIN open_files' : RecordOf(open_files'[x])
  BY <1>1 DEF HandlesInv
<1> QED
  BY <1>1, <1>3, <1>4, <1>5 DEF HandlesInv

---------------------------------------------------------------------------
(* What the handlers do to names and handles *)

\* The virtual files of other paths stay.
VirtualElse(p) ==
  \A q \in Paths : q # p => /\ q \in DOMAIN virtual_files' <=> q \in DOMAIN virtual_files
                            /\ q \in DOMAIN virtual_files => virtual_files'[q] = virtual_files[q]

\* An entry for p leaves the others.
LEMMA VirtualWith ==
  ASSUME NEW p, NEW b, virtual_files' = virtual_files \/ virtual_files' = With(virtual_files, p, b)
                       \/ virtual_files' = Without(virtual_files, p)
  PROVE  VirtualElse(p)
<1>1. CASE virtual_files' = virtual_files
  BY <1>1 DEF VirtualElse
<1>2. CASE virtual_files' = With(virtual_files, p, b)
  BY <1>2 DEF VirtualElse, With
<1>3. CASE virtual_files' = Without(virtual_files, p)
  BY <1>3 DEF VirtualElse, Without
<1> QED
  BY <1>1, <1>2, <1>3

\* What an opened file is: one that existed, cut or not, or a new one.
FoundFile(p, f, t) ==
  /\ resolve_guest_file_bytes(p).kind = "file"
  /\ content' = IF t THEN [content EXCEPT ![p] = File(<<>>)] ELSE content
  /\ dirty' \in {dirty, dirty \cup {opened + 1}}
  /\ virtual_files' = virtual_files
  /\ f.streaming => disk'[f.host] = IF t THEN File(<<>>) ELSE disk[f.host]
  /\ ~f.streaming => /\ disk' = disk
                     /\ f.bytes = IF t THEN <<>> ELSE resolve_guest_file_bytes(p).bytes
                     /\ t => opened + 1 \in dirty'
NewFile(p, f) ==
  /\ content' = [content EXCEPT ![p] = File(<<>>)]
  /\ dirty' = dirty /\ f.bytes = <<>>
  /\ f.host # NoHost => f.streaming /\ disk'[f.host] = File(<<>>)

\* The record a file is opened with.
Opened(p, f) ==
  /\ RecordOf(f) /\ f.path = p /\ f.cursor = 0 /\ f.slot = 0
  /\ \E g : Registered(opened + 1, f, g)
  /\ opened' = opened + 1 /\ pos' = With(pos, opened + 1, 0)
  /\ DiskOf(disk') /\ VirtualOf(virtual_files')
  /\ SameFiles(disk, disk', {f.host}) /\ VirtualElse(p)
  /\ (\E t \in BOOLEAN : FoundFile(p, f, t)) \/ NewFile(p, f)

\* A file is cut to nothing on the host.
LEMMA CutFacts ==
  ASSUME DiskOf(disk), NEW k \in HostPaths, disk[k].kind = "file", NEW b \in Bytes
  PROVE  /\ DiskOf([disk EXCEPT ![k] = File(b)])
         /\ [disk EXCEPT ![k] = File(b)][k] = File(b)
         /\ SameFiles(disk, [disk EXCEPT ![k] = File(b)], {k})
<1>1. \A q \in HostPaths : IsStrictPrefix(q, k) => disk[q].kind = "dir"
  BY DEF DiskOf, TreeOf
<1>2. disk[k].kind # "dir"
  OBVIOUS
<1> QED
  BY <1>1, <1>2, SetFile

\* open_existing_guest_file.
LEMMA ExistingFacts ==
  ASSUME NamesInv, TableInv, NEW p \in Paths, NEW t \in BOOLEAN, open_existing_guest_file(p, t),
         resolve_guest_file_bytes(p).kind = "file"
  PROVE  \E f : Opened(p, f)
<1> DEFINE host == host_path_of(p)
           large == /\ host # NoHost /\ ~is_main_module_path(p)
                    /\ disk[host].kind = "file" /\ Len(disk[host].bytes) > Threshold
           bytes == IF t THEN <<>> ELSE resolve_guest_file_bytes(p).bytes
           streams == \/ large
                      \/ host # NoHost /\ ~is_main_module_path(p) /\ Len(bytes) > Threshold
           b == IF streams THEN <<>> ELSE bytes
           f == Record(p, b, host, streams)
<1>1. /\ disk' = IF large /\ t THEN [disk EXCEPT ![host] = File(<<>>)] ELSE disk
      /\ opened' = opened + 1 /\ register_open_file(opened + 1, f) /\ pos' = With(pos, opened + 1, 0)
      /\ dirty' = IF t /\ ~large THEN dirty \cup {opened + 1} ELSE dirty
      /\ content' = IF t THEN [content EXCEPT ![p] = File(<<>>)] ELSE content
      /\ virtual_files' = virtual_files
  BY DEF open_existing_guest_file, allocate_open_file
<1>2. <<>> \in Bytes /\ bytes \in Bytes
  BY ResolveNow DEF Node, Bytes
<1>3. b \in Bytes /\ streams \in BOOLEAN /\ (streams => host # NoHost) /\ (large => streams)
  BY <1>2
<1>4. host \in HostPaths \cup {NoHost}
  BY HostPathOf
<1>5. DiskOf(disk) /\ VirtualOf(virtual_files)
  BY DEF NamesInv
<1>6. DiskOf(disk') /\ SameFiles(disk, disk', {host}) /\ (large => disk'[host] = IF t THEN File(<<>>) ELSE disk[host])
      /\ (~large => disk' = disk)
  <2>1. CASE large /\ t
    <3>1. host \in HostPaths /\ disk[host].kind = "file" /\ disk' = [disk EXCEPT ![host] = File(<<>>)]
      BY <1>1, <1>4, <2>1
    <3> QED
      BY <1>2, <1>5, <2>1, <3>1, CutFacts
  <2>2. CASE ~(large /\ t)
    <3>1. disk' = disk
      BY <1>1, <2>2
    <3> QED
      BY <1>5, <2>2, <3>1 DEF SameFiles
  <2> QED
    BY <2>1, <2>2
<1>7. ~streams => b = IF t THEN <<>> ELSE resolve_guest_file_bytes(p).bytes
  OBVIOUS
<1>8. streams /\ ~large => ~t
  <2>1. Threshold \in Nat
    BY FilesAssumption
  <2>2. t => bytes = <<>> /\ Len(bytes) = 0
    OBVIOUS
  <2>3. streams /\ ~large => Len(bytes) > Threshold
    OBVIOUS
  <2> HIDE DEF bytes, streams, large
  <2> QED
    BY <2>1, <2>2, <2>3
<1> HIDE DEF b, large, streams
<1>9. /\ RecordOf(f) /\ f.path = p /\ f.bytes = b /\ f.cursor = 0 /\ f.host = host
      /\ f.streaming = streams /\ f.slot = 0
  BY <1>3, RecordNew
<1> HIDE DEF f
<1>10. \E g : Registered(opened + 1, f, g)
  BY <1>1, <1>9, RegisterFacts
<1>11. VirtualElse(p)
  BY <1>1, VirtualWith
<1>12. streams => disk'[host] = IF t THEN File(<<>>) ELSE disk[host]
  BY <1>6, <1>8
<1>13. FoundFile(p, f, t)
  BY <1>1, <1>3, <1>6, <1>7, <1>9, <1>12 DEF FoundFile
<1>14. Opened(p, f)
  BY <1>1, <1>5, <1>6, <1>9, <1>10, <1>11, <1>13 DEF Opened
<1> QED
  BY <1>14

\* create_new_guest_file.
LEMMA CreateFacts ==
  ASSUME NamesInv, TableInv, NEW p \in Paths, create_new_guest_file(p), p \notin Mounted
  PROVE  \E f : Opened(p, f)
<1> DEFINE host == guest_path_to_host(p)
           f == Record(p, <<>>, host, host # NoHost)
<1>1. /\ IF host # NoHost
           THEN CanWrite(host) /\ disk' = Written(host, <<>>) /\ virtual_files' = virtual_files
           ELSE /\ virtual_files' = IF p \in DOMAIN virtual_files THEN virtual_files
                                    ELSE With(virtual_files, p, <<>>)
                /\ disk' = disk
      /\ opened' = opened + 1 /\ register_open_file(opened + 1, f) /\ pos' = With(pos, opened + 1, 0)
      /\ content' = [content EXCEPT ![p] = File(<<>>)]
      /\ dirty' = dirty
  BY DEF create_new_guest_file, allocate_open_file
<1>2. <<>> \in Bytes
  BY DEF Bytes
<1>3. host = host_path_of(p)
  BY DEF host_path_of
<1>4. /\ host # NoHost <=> Head(p) \in Volumes
      /\ host # NoHost => host = p /\ p \in HostPaths
      /\ Len(p) > 1
  BY GuestHostFacts, PathLong
<1>5. DiskOf(disk) /\ VirtualOf(virtual_files)
  BY DEF NamesInv
<1>6. (host # NoHost) \in BOOLEAN
  OBVIOUS
<1> HIDE DEF host
<1>7. /\ RecordOf(f) /\ f.path = p /\ f.bytes = <<>> /\ f.cursor = 0 /\ f.host = host
      /\ f.streaming = (host # NoHost) /\ f.slot = 0
  BY <1>2, <1>3, <1>6, RecordNew, ZenonT(40)
<1> HIDE DEF f
<1>8. \E g : Registered(opened + 1, f, g)
  BY <1>1, <1>7, RegisterFacts
<1>9. CASE host # NoHost
  <2>1. DiskOf(disk') /\ disk'[host] = File(<<>>) /\ SameFiles(disk, disk', {host})
    BY <1>1, <1>2, <1>4, <1>5, <1>9, WrittenFacts
  <2>2. VirtualElse(p) /\ VirtualOf(virtual_files')
    BY <1>1, <1>5, <1>9, VirtualWith
  <2>3. NewFile(p, f)
    BY <1>1, <1>7, <1>9, <2>1 DEF NewFile
  <2>4. Opened(p, f)
    BY <1>1, <1>7, <1>8, <2>1, <2>2, <2>3 DEF Opened
  <2> QED
    BY <2>4
<1>10. CASE host = NoHost
  <2>1. DiskOf(disk') /\ SameFiles(disk, disk', {host})
    BY <1>1, <1>5, <1>10 DEF SameFiles
  <2>2. virtual_files' = virtual_files \/ virtual_files' = With(virtual_files, p, <<>>)
    BY <1>1, <1>10
  <2>3. VirtualElse(p)
    BY <2>2, VirtualWith
  <2>4. VirtualOf(With(virtual_files, p, <<>>))
    BY <1>2, <1>4, <1>5, <1>10 DEF VirtualOf, With
  <2>5. VirtualOf(virtual_files')
    BY <1>5, <2>2, <2>4
  <2>6. NewFile(p, f)
    BY <1>1, <1>7, <1>10 DEF NewFile
  <2>7. Opened(p, f)
    BY <1>1, <1>7, <1>8, <2>1, <2>3, <2>5, <2>6 DEF Opened
  <2> QED
    BY <2>7
<1> QED
  BY <1>9, <1>10

\* CreateFile opens one file.
LEMMA OpenFacts ==
  ASSUME NamesInv, HandlesInv, TableInv, NEW in \in Inputs, NEW disposition,
         open_or_create_guest_path(in, disposition)
  PROVE  /\ Full(in) \in Paths /\ NamesInv' /\ HandlesInv'
         /\ \E f : Opened(Full(in), f)
<1> DEFINE p == Full(in)
           t == disposition \in {CREATE_ALWAYS, TRUNCATE_EXISTING}
<1>1. /\ p \in Paths /\ cwd' = cwd
      /\ \/ /\ resolve_guest_file_bytes(p).kind = "file"
            /\ open_existing_guest_file(p, t)
         \/ /\ ~guest_path_exists(p)
            /\ create_new_guest_file(p)
  BY DEF open_or_create_guest_path
<1>2. t \in BOOLEAN
  OBVIOUS
<1> HIDE DEF p, t
<1>3. \E f : Opened(p, f)
  <2>1. CASE resolve_guest_file_bytes(p).kind = "file" /\ open_existing_guest_file(p, t)
    BY <1>1, <1>2, <2>1, ExistingFacts
  <2>2. CASE ~guest_path_exists(p) /\ create_new_guest_file(p)
    <3>1. p \notin Mounted
      BY <2>2 DEF guest_path_exists
    <3> QED
      BY <1>1, <2>2, <3>1, CreateFacts
  <2> QED
    BY <1>1, <2>1, <2>2
<1>4. PICK f : Opened(p, f)
  BY <1>3
<1>5. PICK g : Registered(opened + 1, f, g)
  BY <1>4 DEF Opened
<1>6. RecordOf(g) /\ open_files' = With(open_files, opened + 1, g)
  BY <1>5 DEF Registered
<1>7. opened' = opened + 1 /\ pos' = With(pos, opened + 1, 0) /\ DiskOf(disk') /\ VirtualOf(virtual_files')
  BY <1>4 DEF Opened
<1>8. HandlesInv'
  BY <1>6, <1>7, HandleAdded
<1>9. NamesInv'
  BY <1>1, <1>7 DEF NamesInv
<1> QED
  BY <1>1, <1>3, <1>8, <1>9 DEF p

---------------------------------------------------------------------------
(* The table and the mirrors *)

SlotRecord == [handle : Nat, data : Nat, size : Nat, cursor : Nat]

\* The parts of TableInv, by name.
LEMMA TableFacts ==
  ASSUME HandlesInv, TableInv
  PROVE  /\ table \in [1 .. Slots -> SlotRecord] /\ arena \in [1 .. ArenaSize -> Nat]
         /\ arena_next \in Nat /\ arena_next <= ArenaSize /\ overrun \in BOOLEAN
         /\ \A h \in DOMAIN open_files :
              /\ RecordOf(open_files[h]) /\ h \in Nat /\ h >= 1 /\ pos[h] \in Nat
              /\ Mirrored(h) => /\ open_files[h].slot \in 1 .. Slots
                                /\ Slot(h) \in SlotRecord /\ ~open_files[h].streaming
         /\ \A g, h \in DOMAIN open_files :
              Mirrored(g) /\ Mirrored(h) /\ g # h => open_files[g].slot # open_files[h].slot
<1>1. /\ table \in [1 .. Slots -> SlotRecord] /\ arena \in [1 .. ArenaSize -> Nat]
      /\ arena_next \in Nat /\ arena_next <= ArenaSize /\ overrun \in BOOLEAN
  <2>1. /\ table \in [1 .. Slots -> SlotRecord] /\ arena \in [1 .. ArenaSize -> Nat]
        /\ arena_next \in 0 .. ArenaSize /\ overrun \in BOOLEAN
    BY Zenon DEF TableInv, SlotRecord
  <2>2. arena_next \in Nat /\ arena_next <= ArenaSize
    BY <2>1, FilesAssumption
  <2> QED
    BY <2>1, <2>2
<1>2. ASSUME NEW h \in DOMAIN open_files
      PROVE  /\ RecordOf(open_files[h]) /\ h \in Nat /\ h >= 1 /\ pos[h] \in Nat
             /\ Mirrored(h) => /\ open_files[h].slot \in 1 .. Slots
                               /\ Slot(h) \in SlotRecord /\ ~open_files[h].streaming
  <2>1. RecordOf(open_files[h]) /\ h \in 1 .. opened /\ opened \in Nat /\ pos[h] \in Nat
    BY DEF HandlesInv
  <2>2. /\ open_files[h].slot \in 0 .. Slots
        /\ open_files[h].streaming => open_files[h].slot = 0
    BY <2>1, RecordFacts
  <2>3. Slots \in Nat
    BY FilesAssumption
  <2>4. Mirrored(h) => open_files[h].slot \in 1 .. Slots
    <3> DEFINE s == open_files[h].slot
    <3>1. s \in 0 .. Slots /\ (Mirrored(h) <=> s # 0)
      BY <2>2 DEF Mirrored
    <3> HIDE DEF s
    <3>2. Mirrored(h) => s \in 1 .. Slots
      BY <2>3, <3>1
    <3> QED
      BY <3>2 DEF s
  <2>5. Mirrored(h) => Slot(h) \in SlotRecord
    BY <1>1, <2>4 DEF Slot
  <2> QED
    BY <2>1, <2>2, <2>4, <2>5 DEF Mirrored
<1>3. ASSUME NEW g \in DOMAIN open_files, NEW h \in DOMAIN open_files, Mirrored(g), Mirrored(h), g # h
      PROVE  open_files[g].slot # open_files[h].slot
  <2>1. Slot(g).handle = g /\ Slot(h).handle = h
    BY <1>3 DEF TableInv
  <2> QED
    BY <1>3, <2>1 DEF Slot
<1> QED
  BY <1>1, <1>2, <1>3

\* A handler that gives no handle a slot keeps the table sound.
LEMMA TableKept ==
  ASSUME HandlesInv, TableInv, HandlesInv',
         DOMAIN open_files' \subseteq DOMAIN open_files,
         table' \in [1 .. Slots -> SlotRecord], arena' \in [1 .. ArenaSize -> Nat],
         arena_next' = arena_next, overrun' \in BOOLEAN,
         \A x \in DOMAIN open_files' : open_files'[x].slot # 0 =>
           /\ open_files'[x].slot = open_files[x].slot /\ open_files'[x].data = open_files[x].data
           /\ table'[open_files[x].slot].handle = table[open_files[x].slot].handle
           /\ table'[open_files[x].slot].data = table[open_files[x].slot].data
  PROVE  TableInv'
<1>1. /\ table' \in [1 .. Slots -> [handle : Nat, data : Nat, size : Nat, cursor : Nat]]
      /\ arena_next' \in 0 .. ArenaSize
  BY DEF SlotRecord, TableInv
<1>2. ASSUME NEW h \in DOMAIN open_files', Mirrored(h)'
      PROVE  /\ Slot(h)'.handle = h /\ Slot(h)'.data = open_files'[h].data
             /\ open_files'[h].data < arena_next'
             /\ Mirrored(h) /\ open_files'[h].data = open_files[h].data
  <2>1. /\ open_files'[h].slot # 0 /\ open_files'[h].slot = open_files[h].slot
        /\ open_files'[h].data = open_files[h].data
        /\ table'[open_files[h].slot].handle = table[open_files[h].slot].handle
        /\ table'[open_files[h].slot].data = table[open_files[h].slot].data
    BY <1>2 DEF Mirrored
  <2>2. Mirrored(h) /\ h \in DOMAIN open_files
    BY <2>1 DEF Mirrored
  <2>3. Slot(h).handle = h /\ Slot(h).data = open_files[h].data /\ open_files[h].data < arena_next
    BY <2>2 DEF TableInv
  <2> QED
    BY <2>1, <2>2, <2>3 DEF Slot
<1>3. ASSUME NEW g \in DOMAIN open_files', NEW h \in DOMAIN open_files', Mirrored(g)', Mirrored(h)', g # h
      PROVE  open_files'[g].data # open_files'[h].data
  <2>1. /\ Mirrored(g) /\ open_files'[g].data = open_files[g].data
        /\ Mirrored(h) /\ open_files'[h].data = open_files[h].data
    BY <1>2, <1>3
  <2> QED
    BY <1>3, <2>1 DEF TableInv
<1> QED
  BY <1>1, <1>2, <1>3 DEF TableInv

\* The mirror of e keeps its bytes.
ArenaKept(e) ==
  ~overrun' => \A i \in 1 .. Len(open_files[e].bytes) :
                 arena'[open_files[e].data + i] = arena[open_files[e].data + i]

\* New mirrors lie behind the old ones.
MirrorsGrow ==
  \A g \in DOMAIN open_files' : open_files'[g].slot # 0 =>
    \/ g \in DOMAIN open_files /\ Mirrored(g) /\ open_files'[g].data = open_files[g].data
    \/ open_files'[g].data = arena_next

\* A handle that a handler is not about stays exact.
LEMMA ExactKept ==
  ASSUME HandlesInv, TableInv, HandlesInv', NEW e \in DOMAIN open_files, ExactOf(e),
         e \in DOMAIN open_files', open_files'[e] = open_files[e], pos'[e] = pos[e],
         failed => failed', overrun => overrun',
         Mirrored(e) => table'[open_files[e].slot] = table[open_files[e].slot],
         arena_next' \in Nat, arena_next <= arena_next', MirrorsGrow, Mirrored(e) => ArenaKept(e)
  PROVE  ExactOf(e)'
<1> DEFINE f == open_files[e]
<1>1. /\ f.data \in Nat /\ Len(f.bytes) \in Nat /\ arena_next \in Nat
  BY TableFacts, RecordFacts
<1>2. Mirrored(e)' <=> Mirrored(e)
  BY DEF Mirrored
<1>3. Mirrored(e) => Slot(e)' = Slot(e)
  BY DEF Slot
<1>4. ~failed' => NextRead(e)' = pos'[e]
  <2>1. ~failed' => NextRead(e) = pos[e]
    BY DEF ExactOf
  <2>2. NextRead(e)' = NextRead(e)
    BY <1>2, <1>3 DEF NextRead
  <2> QED
    BY <2>1, <2>2
<1>5. ASSUME Mirrored(e)
      PROVE  /\ Slot(e)'.size = Len(f.bytes) /\ f.data + Len(f.bytes) <= arena_next'
             /\ \A g \in DOMAIN open_files' : Mirrored(g)' /\ f.data < open_files'[g].data
                  => f.data + Len(f.bytes) <= open_files'[g].data
             /\ ~overrun' => \A i \in 1 .. Len(f.bytes) : arena'[f.data + i] = f.bytes[i]
  <2>1. /\ Slot(e).size = Len(f.bytes) /\ f.data + Len(f.bytes) <= arena_next
        /\ \A g \in DOMAIN open_files : Mirrored(g) /\ f.data < open_files[g].data
             => f.data + Len(f.bytes) <= open_files[g].data
        /\ ~overrun => \A i \in 1 .. Len(f.bytes) : arena[f.data + i] = f.bytes[i]
    BY <1>5 DEF ExactOf
  <2>2. f.data + Len(f.bytes) <= arena_next'
    BY <1>1, <2>1
  <2>3. ASSUME NEW g \in DOMAIN open_files', Mirrored(g)', f.data < open_files'[g].data
        PROVE  f.data + Len(f.bytes) <= open_files'[g].data
    <3>1. \/ g \in DOMAIN open_files /\ Mirrored(g) /\ open_files'[g].data = open_files[g].data
          \/ open_files'[g].data = arena_next
      BY <2>3 DEF MirrorsGrow, Mirrored
    <3> QED
      BY <2>1, <2>3, <3>1
  <2>4. ~overrun' => \A i \in 1 .. Len(f.bytes) : arena'[f.data + i] = f.bytes[i]
    BY <1>5, <2>1 DEF ArenaKept
  <2> QED
    BY <1>3, <1>5, <2>1, <2>2, <2>3, <2>4
<1> QED
  BY <1>2, <1>4, <1>5 DEF ExactOf

\* sync_slot_from_host for a record g of h with the old buffer.
SlotSynced(h, g) ==
  /\ table' \in [1 .. Slots -> SlotRecord] /\ arena' \in [1 .. ArenaSize -> Nat]
  /\ overrun' \in BOOLEAN /\ (overrun => overrun')
  /\ \A i \in 1 .. Slots : /\ table'[i].handle = table[i].handle /\ table'[i].data = table[i].data
                           /\ i # g.slot => table'[i] = table[i]
  /\ g.slot # 0 => /\ table'[g.slot].size = Len(g.bytes) /\ table'[g.slot].cursor = g.cursor
                   /\ g.data + Len(g.bytes) <= ArenaSize =>
                        \A i \in 1 .. Len(g.bytes) : arena'[g.data + i] = g.bytes[i]
  /\ \A e \in DOMAIN open_files : e # h /\ Mirrored(e) /\ ExactOf(e) => ArenaKept(e)

\* A mirror written at data a over n bytes that starts before no other one's
\* end leaves them alone.
LEMMA SyncFacts ==
  ASSUME HandlesInv, TableInv, NEW h \in DOMAIN open_files, NEW g, RecordOf(g),
         g.slot = open_files[h].slot, g.data = open_files[h].data, sync_slot_from_host(g)
  PROVE  SlotSynced(h, g)
<1>1. /\ g.data \in Nat /\ g.bytes \in Bytes /\ Len(g.bytes) \in Nat /\ g.cursor \in Nat
      /\ g.slot \in 0 .. Slots /\ g.slot \in Nat
  BY RecordFacts
<1>2. /\ table \in [1 .. Slots -> SlotRecord] /\ arena \in [1 .. ArenaSize -> Nat]
      /\ overrun \in BOOLEAN /\ arena_next \in Nat /\ arena_next <= ArenaSize
      /\ ArenaSize \in Nat /\ Slots \in Nat
  BY TableFacts, FilesAssumption
<1>3. CASE g.slot = 0
  <2>1. table' = table /\ arena' = arena /\ overrun' = overrun
    BY <1>3 DEF sync_slot_from_host
  <2> QED
    BY <1>2, <1>3, <2>1 DEF SlotSynced, ArenaKept
<1>4. CASE g.slot # 0
  <2>1. /\ table' = [table EXCEPT ![g.slot].size = Len(g.bytes), ![g.slot].cursor = g.cursor]
        /\ arena' = Stored(g.data, g.bytes)
        /\ overrun' = (\/ overrun
                       \/ \E e \in DOMAIN open_files :
                            /\ Mirrored(e)
                            /\ open_files[e].data \in g.data + 1 .. g.data + Len(g.bytes) - 1)
    BY <1>4 DEF sync_slot_from_host
  <2>2. g.slot \in 1 .. Slots
    BY <1>1, <1>2, <1>4
  <2>3. /\ arena' \in [1 .. ArenaSize -> Nat]
        /\ \A i \in 1 .. ArenaSize : i \notin g.data + 1 .. g.data + Len(g.bytes) => arena'[i] = arena[i]
        /\ g.data + Len(g.bytes) <= ArenaSize =>
             \A i \in 1 .. Len(g.bytes) : arena'[g.data + i] = g.bytes[i]
    <3>1. arena \in [1 .. ArenaSize -> Nat]
      BY <1>2
    <3>2. /\ Stored(g.data, g.bytes) \in [1 .. ArenaSize -> Nat]
          /\ \A i \in 1 .. ArenaSize :
               i \notin g.data + 1 .. g.data + Len(g.bytes) => Stored(g.data, g.bytes)[i] = arena[i]
          /\ g.data + Len(g.bytes) <= ArenaSize =>
               \A i \in 1 .. Len(g.bytes) : Stored(g.data, g.bytes)[g.data + i] = g.bytes[i]
      BY <1>1, <3>1, StoredFacts
    <3> QED
      BY <2>1, <3>2
  <2>4. /\ table' \in [1 .. Slots -> SlotRecord]
        /\ \A i \in 1 .. Slots : /\ table'[i].handle = table[i].handle /\ table'[i].data = table[i].data
                                 /\ i # g.slot => table'[i] = table[i]
        /\ table'[g.slot].size = Len(g.bytes) /\ table'[g.slot].cursor = g.cursor
    <3> DEFINE n == Len(g.bytes)
               c == g.cursor
               s == g.slot
    <3>1. n \in Nat /\ c \in Nat /\ s \in 1 .. Slots
      BY <1>1, <2>2
    <3>2. table' = [table EXCEPT ![s].size = n, ![s].cursor = c]
      BY <2>1
    <3> HIDE DEF n, c, s
    <3>3. /\ table' \in [1 .. Slots -> SlotRecord]
          /\ \A i \in 1 .. Slots : /\ table'[i].handle = table[i].handle /\ table'[i].data = table[i].data
                                   /\ i # s => table'[i] = table[i]
          /\ table'[s].size = n /\ table'[s].cursor = c
      BY <1>2, <3>1, <3>2 DEF SlotRecord
    <3> QED
      BY <3>3 DEF n, c, s
  <2>5. ASSUME NEW e \in DOMAIN open_files, e # h, Mirrored(e), ExactOf(e), ~overrun'
        PROVE  \A i \in 1 .. Len(open_files[e].bytes) :
                 arena'[open_files[e].data + i] = arena[open_files[e].data + i]
    <3> DEFINE a == open_files[e].data
               n == Len(open_files[e].bytes)
               b == g.data
               m == Len(g.bytes)
    <3>1. Mirrored(h)
      BY <1>4 DEF Mirrored
    <3>2. a \in Nat /\ n \in Nat /\ b \in Nat /\ m \in Nat
      BY <1>1, TableFacts, RecordFacts
    <3>3. a + n <= arena_next /\ (a < b => a + n <= b)
      BY <2>5, <3>1 DEF ExactOf
    <3>4. a # b
      BY <2>5, <3>1 DEF TableInv
    <3>5. a \notin b + 1 .. b + m - 1
      BY <2>1, <2>5
    <3>6. ASSUME NEW i \in 1 .. n PROVE arena'[a + i] = arena[a + i]
      <4> HIDE DEF a, n, b, m
      <4>1. a + i \in 1 .. ArenaSize /\ a + i \notin b + 1 .. b + m
        BY <1>2, <3>2, <3>3, <3>4, <3>5
      <4> QED
        BY <2>3, <4>1 DEF b, m
    <3> QED
      BY <3>6
  <2>6. overrun' \in BOOLEAN /\ (overrun => overrun')
    BY <2>1
  <2> QED
    BY <2>3, <2>4, <2>5, <2>6 DEF SlotSynced, ArenaKept
<1> QED
  BY <1>3, <1>4

---------------------------------------------------------------------------
(* Reads and seeks *)

\* No handle's file changes.
KeptFiles ==
  /\ DOMAIN open_files' = DOMAIN open_files
  /\ \A x \in DOMAIN open_files :
       /\ open_files'[x].path = open_files[x].path /\ open_files'[x].bytes = open_files[x].bytes
       /\ open_files'[x].host = open_files[x].host
       /\ open_files'[x].streaming = open_files[x].streaming

\* The size of a file.
LEMMA SizeFacts ==
  ASSUME NamesInv, HandlesInv, NEW h \in DOMAIN open_files
  PROVE  /\ size(h) \in Nat
         /\ ~open_files[h].streaming => size(h) = Len(open_files[h].bytes)
<1> DEFINE f == open_files[h]
<1>1. RecordOf(f)
  BY DEF HandlesInv
<1>2. Len(f.bytes) \in Nat /\ (f.streaming => f.host \in HostPaths)
  BY <1>1, RecordFacts
<1>3. size(h) = IF f.streaming THEN Len(disk[f.host].bytes) ELSE Len(f.bytes)
  BY DEF size
<1>4. f.streaming => disk[f.host].bytes \in Seq(Nat)
  BY <1>2 DEF NamesInv, DiskOf, Node, Bytes
<1> HIDE DEF f
<1>5. f.streaming => Len(disk[f.host].bytes) \in Nat
  BY <1>4
<1> QED
  BY <1>2, <1>3, <1>5 DEF f

\* What a read takes.
LEMMA UptoFacts ==
  ASSUME NEW n \in Nat, NEW len \in Nat, NEW at \in Nat
  PROVE  Upto(n, len, at) \in Nat /\ at + Upto(n, len, at) \in Nat
<1>1. CASE at >= len
  BY <1>1 DEF Upto
<1>2. CASE ~(at >= len)
  <2>1. len - at \in Nat /\ n \in Int /\ len - at \in Int
    BY <1>2
  <2>2. Min({n, len - at}) = IF n <= len - at THEN n ELSE len - at
    BY <2>1, MinOfTwo
  <2>3. Upto(n, len, at) = Min({n, len - at})
    BY <1>2 DEF Upto
  <2> QED
    BY <2>1, <2>2, <2>3
<1> QED
  BY <1>1, <1>2

\* The position moves by a read.
LEMMA ReadPos ==
  ASSUME NamesInv, HandlesInv, NEW h \in DOMAIN open_files, NEW n \in Nat, Read(h, n)
  PROVE  /\ pos' \in [DOMAIN open_files -> Nat] /\ pos'[h] = pos[h] + Upto(n, size(h), pos[h])
         /\ \A x \in DOMAIN open_files : x # h => pos'[x] = pos[x]
<1>1. pos \in [DOMAIN open_files -> Nat] /\ size(h) \in Nat
  BY SizeFacts DEF HandlesInv
<1> DEFINE to == pos[h] + Upto(n, size(h), pos[h])
<1>2. to \in Nat
  BY <1>1, UptoFacts
<1>3. pos' = [pos EXCEPT ![h] = to]
  BY DEF Read
<1> HIDE DEF to
<1>4. /\ pos' \in [DOMAIN open_files -> Nat] /\ pos'[h] = to
      /\ \A x \in DOMAIN open_files : x # h => pos'[x] = pos[x]
  BY <1>1, <1>2, <1>3
<1> QED
  BY <1>4 DEF to

\* A slot's cursor is set, and nothing else of the table.
SlotMoved(s, c) ==
  /\ table' \in [1 .. Slots -> SlotRecord]
  /\ \A i \in 1 .. Slots : table'[i].handle = table[i].handle /\ table'[i].data = table[i].data
  /\ \A i \in 1 .. Slots : i # s => table'[i] = table[i]
  /\ table'[s].cursor = c /\ table'[s].size = table[s].size

\* This is what the guest's own calls do.
LEMMA CursorSet ==
  ASSUME table \in [1 .. Slots -> SlotRecord], NEW s \in 1 .. Slots, NEW c \in Nat,
         table' = [table EXCEPT ![s].cursor = c]
  PROVE  SlotMoved(s, c)
BY DEF SlotRecord, SlotMoved

\* Only the cursor of h's slot changes.
LEMMA SlotCursor ==
  ASSUME HandlesInv, MirrorInv, NEW h \in DOMAIN open_files, Mirrored(h), NEW c \in Nat,
         SlotMoved(open_files[h].slot, c),
         open_files' = open_files, arena' = arena, arena_next' = arena_next, overrun' = overrun,
         failed' = failed, drifted' = drifted, HandlesInv',
         \A x \in DOMAIN open_files : x # h => pos'[x] = pos[x],
         h \notin drifted /\ ~failed => c = pos'[h]
  PROVE  MirrorInv'
<1> DEFINE s == open_files[h].slot
<1>1. /\ table \in [1 .. Slots -> SlotRecord] /\ s \in 1 .. Slots
      /\ arena \in [1 .. ArenaSize -> Nat] /\ overrun \in BOOLEAN /\ arena_next \in Nat
  BY TableFacts DEF MirrorInv
<1>2. SlotMoved(s, c)
  OBVIOUS
<1>3. TableInv
  BY DEF MirrorInv
<1> HIDE DEF s
<1>4. /\ table' \in [1 .. Slots -> SlotRecord]
      /\ \A i \in 1 .. Slots : table'[i].handle = table[i].handle /\ table'[i].data = table[i].data
      /\ \A i \in 1 .. Slots : i # s => table'[i] = table[i]
      /\ table'[s].cursor = c /\ table'[s].size = table[s].size
  BY <1>2 DEF SlotMoved
<1>5. TableInv'
  <2>1. \A x \in DOMAIN open_files' : open_files'[x].slot # 0 =>
           /\ open_files'[x].slot = open_files[x].slot /\ open_files'[x].data = open_files[x].data
           /\ table'[open_files[x].slot].handle = table[open_files[x].slot].handle
           /\ table'[open_files[x].slot].data = table[open_files[x].slot].data
    BY <1>3, <1>4, TableFacts DEF Mirrored
  <2> QED
    BY <1>1, <1>3, <1>4, <2>1, TableKept
<1>6. MirrorsGrow
  BY DEF MirrorsGrow, Mirrored
<1>7. ASSUME NEW e \in DOMAIN open_files' \ drifted', e # h PROVE ExactOf(e)'
  <2>1. e \in DOMAIN open_files /\ ExactOf(e)
    BY DEF MirrorInv
  <2>2. Mirrored(e) => open_files[e].slot \in 1 .. Slots /\ open_files[e].slot # s
    BY <1>3, <1>7, <2>1, TableFacts DEF s
  <2>3. Mirrored(e) => table'[open_files[e].slot] = table[open_files[e].slot]
    BY <1>4, <2>2
  <2>4. ArenaKept(e)
    BY DEF ArenaKept
  <2>5. arena_next' \in Nat /\ arena_next <= arena_next' /\ pos'[e] = pos[e] /\ open_files'[e] = open_files[e]
    BY <1>1, <1>7, <2>1
  <2> QED
    BY <1>3, <1>6, <2>1, <2>3, <2>4, <2>5, ExactKept
<1>8. ASSUME h \notin drifted PROVE ExactOf(h)'
  <2>1. ExactOf(h)
    BY <1>8 DEF MirrorInv
  <2>2. Mirrored(h)' /\ Slot(h)'.cursor = c /\ Slot(h)'.size = Slot(h).size
    BY <1>4 DEF Mirrored, Slot, s
  <2>3. ~failed' => NextRead(h)' = pos'[h]
    BY <1>8, <2>2 DEF NextRead
  <2>4. LET f == open_files[h] IN
        /\ Slot(h)'.size = Len(f.bytes)
        /\ f.data + Len(f.bytes) <= arena_next
        /\ \A g \in DOMAIN open_files :
             Mirrored(g) /\ f.data < open_files[g].data => f.data + Len(f.bytes) <= open_files[g].data
        /\ ~overrun => \A i \in 1 .. Len(f.bytes) : arena[f.data + i] = f.bytes[i]
    BY <2>1, <2>2 DEF ExactOf
  <2>5. \A g \in DOMAIN open_files : Mirrored(g)' <=> Mirrored(g)
    BY DEF Mirrored
  <2> QED
    BY <2>3, <2>4, <2>5 DEF ExactOf
<1> QED
  BY <1>5, <1>7, <1>8 DEF MirrorInv

\* The guest's ReadFile.
LEMMA GuestReadStep ==
  ASSUME NamesInv, HandlesInv, MirrorInv, NEW h \in DOMAIN open_files, NEW n \in Nat,
         guest_read_file(h, n)
  PROVE  HandlesInv' /\ MirrorInv' /\ KeptFiles
<1> DEFINE s == Slot(h)
           c == s.cursor + Upto(n, s.size, s.cursor)
<1>1. /\ Mirrored(h) /\ Read(h, n)
      /\ table' = [table EXCEPT ![open_files[h].slot].cursor = @ + Upto(n, Slot(h).size, @)]
      /\ open_files' = open_files /\ opened' = opened /\ arena' = arena /\ arena_next' = arena_next
      /\ overrun' = overrun /\ failed' = failed /\ drifted' = drifted
  BY DEF guest_read_file
<1>2. TableInv
  BY DEF MirrorInv
<1>3. s \in SlotRecord /\ ~open_files[h].streaming /\ table \in [1 .. Slots -> SlotRecord]
      /\ open_files[h].slot \in 1 .. Slots
  BY <1>1, <1>2, TableFacts
<1>4. s.cursor \in Nat /\ s.size \in Nat
  BY <1>3 DEF SlotRecord
<1>5. c \in Nat
  BY <1>4, UptoFacts
<1>6. /\ pos' \in [DOMAIN open_files -> Nat] /\ pos'[h] = pos[h] + Upto(n, size(h), pos[h])
      /\ \A x \in DOMAIN open_files : x # h => pos'[x] = pos[x]
  BY <1>1, ReadPos
<1>7. ASSUME h \notin drifted, ~failed PROVE c = pos'[h]
  <2>1. s.cursor = pos[h] /\ s.size = Len(open_files[h].bytes)
    BY <1>1, <1>7 DEF MirrorInv, ExactOf, NextRead
  <2>2. size(h) = Len(open_files[h].bytes)
    BY <1>3, SizeFacts
  <2> QED
    BY <1>6, <2>1, <2>2
<1>8. HandlesInv'
  BY <1>1, <1>6, HandlesSame
<1>9. SlotMoved(open_files[h].slot, c)
  <2>1. table' = [table EXCEPT ![open_files[h].slot].cursor = c]
    BY <1>1, <1>3 DEF Slot
  <2> HIDE DEF c, s
  <2> QED
    BY <1>3, <1>5, <2>1, CursorSet
<1> HIDE DEF c, s
<1>10. MirrorInv'
  BY <1>1, <1>5, <1>6, <1>7, <1>8, <1>9, SlotCursor
<1> QED
  BY <1>1, <1>8, <1>10 DEF KeptFiles

\* The position moves by a seek.
LEMMA MovePos ==
  ASSUME NamesInv, HandlesInv, NEW h \in DOMAIN open_files, NEW method, NEW d \in Int, Move(h, method, d)
  PROVE  LET to == Base(method, pos[h], size(h)) + d IN
         /\ to \in Int /\ pos' \in [DOMAIN open_files -> Nat]
         /\ to < 0 => pos' = pos
         /\ ~(to < 0) => pos'[h] = to
         /\ \A x \in DOMAIN open_files : x # h => pos'[x] = pos[x]
<1> DEFINE to == Base(method, pos[h], size(h)) + d
<1>1. pos \in [DOMAIN open_files -> Nat] /\ size(h) \in Nat
  BY SizeFacts DEF HandlesInv
<1>2. Base(method, pos[h], size(h)) \in Nat
  BY <1>1 DEF Base
<1>3. to \in Int
  BY <1>2
<1>4. pos' = IF to < 0 THEN pos ELSE [pos EXCEPT ![h] = to]
  BY DEF Move
<1> HIDE DEF to
<1>5. /\ pos' \in [DOMAIN open_files -> Nat]
      /\ to < 0 => pos' = pos
      /\ ~(to < 0) => pos'[h] = to
      /\ \A x \in DOMAIN open_files : x # h => pos'[x] = pos[x]
  BY <1>1, <1>3, <1>4
<1> QED
  BY <1>3, <1>5 DEF to

\* The guest's SetFilePointer.
LEMMA GuestSeekStep ==
  ASSUME NamesInv, HandlesInv, MirrorInv, NEW h \in DOMAIN open_files, NEW method, NEW d \in Int,
         guest_set_file_pointer(h, method, d)
  PROVE  HandlesInv' /\ MirrorInv' /\ KeptFiles
<1> DEFINE c == Base(method, Slot(h).cursor, Slot(h).size) + d
           to == Base(method, pos[h], size(h)) + d
<1>1. /\ Mirrored(h) /\ c >= 0 /\ Move(h, method, d)
      /\ table' = [table EXCEPT ![open_files[h].slot].cursor = c]
      /\ open_files' = open_files /\ opened' = opened /\ arena' = arena /\ arena_next' = arena_next
      /\ overrun' = overrun /\ failed' = failed /\ drifted' = drifted
  BY DEF guest_set_file_pointer, GuestMoves
<1>2. TableInv
  BY DEF MirrorInv
<1>3. Slot(h) \in SlotRecord /\ ~open_files[h].streaming
  BY <1>1, <1>2, TableFacts
<1>4. Slot(h).cursor \in Nat /\ Slot(h).size \in Nat
  BY <1>3 DEF SlotRecord
<1>5. c \in Nat
  <2>1. Base(method, Slot(h).cursor, Slot(h).size) \in Nat
    BY <1>4 DEF Base
  <2> QED
    BY <1>1, <2>1
<1>6. /\ to \in Int /\ pos' \in [DOMAIN open_files -> Nat]
      /\ ~(to < 0) => pos'[h] = to
      /\ \A x \in DOMAIN open_files : x # h => pos'[x] = pos[x]
  BY <1>1, MovePos
<1>7. ASSUME h \notin drifted, ~failed PROVE c = pos'[h]
  <2>1. Slot(h).cursor = pos[h] /\ Slot(h).size = Len(open_files[h].bytes)
    BY <1>1, <1>7 DEF MirrorInv, ExactOf, NextRead
  <2>2. size(h) = Len(open_files[h].bytes)
    BY <1>3, SizeFacts
  <2>3. c = to
    BY <2>1, <2>2
  <2> HIDE DEF c, to
  <2> QED
    BY <1>5, <1>6, <2>3
<1>8. HandlesInv'
  BY <1>1, <1>6, HandlesSame
<1> HIDE DEF c, to
<1>10. SlotMoved(open_files[h].slot, c)
  <2>1. table \in [1 .. Slots -> SlotRecord] /\ open_files[h].slot \in 1 .. Slots
    BY <1>1, <1>2, TableFacts
  <2> QED
    BY <1>1, <1>5, <2>1, CursorSet
<1>9. MirrorInv'
  BY <1>1, <1>5, <1>6, <1>7, <1>8, <1>10, SlotCursor
<1> QED
  BY <1>1, <1>8, <1>9 DEF KeptFiles

\* A handler changes the record of h and not its slot.
LEMMA RecordMoved ==
  ASSUME HandlesInv, MirrorInv, NEW h \in DOMAIN open_files, NEW g, RecordOf(g),
         g.slot = open_files[h].slot, g.data = open_files[h].data,
         open_files' = [open_files EXCEPT ![h] = g], opened' = opened,
         table' = table, arena' = arena, arena_next' = arena_next, overrun' = overrun,
         failed => failed', drifted \subseteq drifted',
         pos' \in [DOMAIN open_files -> Nat],
         \A x \in DOMAIN open_files : x # h => pos'[x] = pos[x],
         h \notin drifted' /\ Mirrored(h) => g.bytes = open_files[h].bytes,
         h \notin drifted' /\ ~failed' =>
           pos'[h] = IF g.slot # 0 THEN Slot(h).cursor ELSE g.cursor
  PROVE  HandlesInv' /\ MirrorInv'
<1>1. /\ HandlesInv' /\ DOMAIN open_files' = DOMAIN open_files /\ open_files'[h] = g
      /\ \A x \in DOMAIN open_files : x # h => open_files'[x] = open_files[x]
  BY HandleReplaced
<1>2. TableInv
  BY DEF MirrorInv
<1>3. /\ table \in [1 .. Slots -> SlotRecord] /\ arena \in [1 .. ArenaSize -> Nat]
      /\ overrun \in BOOLEAN /\ arena_next \in Nat
  BY <1>2, TableFacts
<1>4. \A x \in DOMAIN open_files' : /\ open_files'[x].slot = open_files[x].slot
                                    /\ open_files'[x].data = open_files[x].data
  BY <1>1
<1>5. \A x \in DOMAIN open_files : Mirrored(x)' <=> Mirrored(x)
  BY <1>1, <1>4 DEF Mirrored
<1>6. TableInv'
  <2>1. \A x \in DOMAIN open_files' : open_files'[x].slot # 0 =>
           /\ open_files'[x].slot = open_files[x].slot /\ open_files'[x].data = open_files[x].data
           /\ table'[open_files[x].slot].handle = table[open_files[x].slot].handle
           /\ table'[open_files[x].slot].data = table[open_files[x].slot].data
    BY <1>4
  <2> QED
    BY <1>1, <1>2, <1>3, <2>1, TableKept
<1>7. MirrorsGrow
  BY <1>1, <1>4, <1>5 DEF MirrorsGrow, Mirrored
<1>8. ASSUME NEW e \in DOMAIN open_files' \ drifted', e # h PROVE ExactOf(e)'
  <2>1. e \in DOMAIN open_files /\ ExactOf(e) /\ open_files'[e] = open_files[e] /\ pos'[e] = pos[e]
    BY <1>1, <1>8 DEF MirrorInv
  <2>2. ArenaKept(e) /\ arena_next' \in Nat /\ arena_next <= arena_next'
    BY <1>3 DEF ArenaKept
  <2> QED
    BY <1>1, <1>2, <1>7, <2>1, <2>2, ExactKept
<1>9. ASSUME h \notin drifted' PROVE ExactOf(h)'
  <2>1. ExactOf(h)
    BY <1>9 DEF MirrorInv
  <2>2. ~failed' => NextRead(h)' = pos'[h]
    BY <1>1, <1>9 DEF NextRead, Mirrored, Slot
  <2>3. Mirrored(h) => g.bytes = open_files[h].bytes /\ Slot(h)' = Slot(h)
    BY <1>1, <1>9 DEF Slot
  <2>4. LET f == open_files[h] IN Mirrored(h) =>
        /\ Slot(h).size = Len(f.bytes)
        /\ f.data + Len(f.bytes) <= arena_next
        /\ \A e \in DOMAIN open_files :
             Mirrored(e) /\ f.data < open_files[e].data => f.data + Len(f.bytes) <= open_files[e].data
        /\ ~overrun => \A i \in 1 .. Len(f.bytes) : arena[f.data + i] = f.bytes[i]
    BY <2>1 DEF ExactOf
  <2> QED
    BY <1>1, <1>4, <1>5, <2>2, <2>3, <2>4 DEF ExactOf
<1> QED
  BY <1>1, <1>6, <1>8, <1>9 DEF MirrorInv

\* A handler moves the record's cursor and refreshes the slot.
LEMMA SyncedStep ==
  ASSUME HandlesInv, MirrorInv, NEW h \in DOMAIN open_files, NEW g, RecordOf(g),
         g.slot = open_files[h].slot, g.data = open_files[h].data, g.bytes = open_files[h].bytes,
         open_files' = [open_files EXCEPT ![h] = g], opened' = opened,
         sync_slot_from_host(g), arena_next' = arena_next,
         failed' = failed, drifted \subseteq drifted',
         pos' \in [DOMAIN open_files -> Nat],
         \A x \in DOMAIN open_files : x # h => pos'[x] = pos[x],
         h \notin drifted' /\ ~failed => g.cursor = pos'[h]
  PROVE  HandlesInv' /\ MirrorInv'
<1>1. /\ HandlesInv' /\ DOMAIN open_files' = DOMAIN open_files /\ open_files'[h] = g
      /\ \A x \in DOMAIN open_files : x # h => open_files'[x] = open_files[x]
  BY HandleReplaced
<1>2. TableInv
  BY DEF MirrorInv
<1>3. SlotSynced(h, g)
  BY <1>2, SyncFacts
<1>4. /\ table' \in [1 .. Slots -> SlotRecord] /\ arena' \in [1 .. ArenaSize -> Nat]
      /\ overrun' \in BOOLEAN /\ (overrun => overrun')
      /\ \A i \in 1 .. Slots : /\ table'[i].handle = table[i].handle /\ table'[i].data = table[i].data
                               /\ i # g.slot => table'[i] = table[i]
  BY <1>3 DEF SlotSynced
<1>5. \A x \in DOMAIN open_files' : /\ open_files'[x].slot = open_files[x].slot
                                    /\ open_files'[x].data = open_files[x].data
  BY <1>1
<1>6. \A x \in DOMAIN open_files : Mirrored(x)' <=> Mirrored(x)
  BY <1>1, <1>5 DEF Mirrored
<1>7. TableInv'
  <2>1. \A x \in DOMAIN open_files : Mirrored(x) => open_files[x].slot \in 1 .. Slots
    BY <1>2, TableFacts
  <2>2. \A x \in DOMAIN open_files' : open_files'[x].slot # 0 =>
           /\ open_files'[x].slot = open_files[x].slot /\ open_files'[x].data = open_files[x].data
           /\ table'[open_files[x].slot].handle = table[open_files[x].slot].handle
           /\ table'[open_files[x].slot].data = table[open_files[x].slot].data
    BY <1>1, <1>4, <1>5, <2>1 DEF Mirrored
  <2> QED
    BY <1>1, <1>2, <1>4, <2>2, TableKept
<1>8. MirrorsGrow
  BY <1>1, <1>5, <1>6 DEF MirrorsGrow, Mirrored
<1>9. ASSUME NEW e \in DOMAIN open_files' \ drifted', e # h PROVE ExactOf(e)'
  <2>1. e \in DOMAIN open_files /\ ExactOf(e) /\ open_files'[e] = open_files[e] /\ pos'[e] = pos[e]
    BY <1>1, <1>9 DEF MirrorInv
  <2>2. arena_next' \in Nat /\ arena_next <= arena_next'
    BY <1>2, TableFacts
  <2>3. Mirrored(e) => ArenaKept(e)
    BY <1>3, <1>9, <2>1 DEF SlotSynced
  <2>4. Mirrored(e) => open_files[e].slot \in 1 .. Slots /\ open_files[e].slot # g.slot
    <3>1. CASE Mirrored(h)
      BY <1>2, <1>9, <2>1, <3>1, TableFacts
    <3>2. CASE ~Mirrored(h)
      BY <1>2, <2>1, <3>2, TableFacts DEF Mirrored
    <3> QED
      BY <3>1, <3>2
  <2>5. Mirrored(e) => table'[open_files[e].slot] = table[open_files[e].slot]
    BY <1>4, <2>4
  <2> QED
    BY <1>1, <1>2, <1>4, <1>8, <2>1, <2>2, <2>3, <2>5, ExactKept
<1>10. ASSUME h \notin drifted' PROVE ExactOf(h)'
  <2>1. ExactOf(h)
    BY <1>10 DEF MirrorInv
  <2>2. g.slot # 0 => /\ table'[g.slot].size = Len(g.bytes) /\ table'[g.slot].cursor = g.cursor
                      /\ g.data + Len(g.bytes) <= ArenaSize =>
                           \A i \in 1 .. Len(g.bytes) : arena'[g.data + i] = g.bytes[i]
    BY <1>3 DEF SlotSynced
  <2>3. ~failed' => NextRead(h)' = pos'[h]
    BY <1>1, <1>10, <2>2 DEF NextRead, Mirrored, Slot
  <2>4. Mirrored(h) =>
        /\ g.data + Len(g.bytes) <= arena_next
        /\ \A e \in DOMAIN open_files :
             Mirrored(e) /\ g.data < open_files[e].data => g.data + Len(g.bytes) <= open_files[e].data
    BY <2>1 DEF ExactOf
  <2>5. g.data \in Nat /\ Len(g.bytes) \in Nat /\ arena_next \in Nat /\ arena_next <= ArenaSize
        /\ ArenaSize \in Nat
    BY <1>2, TableFacts, RecordFacts, FilesAssumption
  <2>6. Mirrored(h) => g.data + Len(g.bytes) <= ArenaSize /\ g.slot # 0
    BY <2>4, <2>5 DEF Mirrored
  <2>7. Mirrored(h) =>
        /\ Slot(h)'.size = Len(g.bytes)
        /\ \A i \in 1 .. Len(g.bytes) : arena'[g.data + i] = g.bytes[i]
    BY <1>1, <2>2, <2>6 DEF Slot
  <2> QED
    BY <1>1, <1>5, <1>6, <2>3, <2>4, <2>7 DEF ExactOf
<1> QED
  BY <1>1, <1>7, <1>9, <1>10 DEF MirrorInv

\* Where the next read is, as far as the handle has not drifted.
LEMMA NextReadFacts ==
  ASSUME HandlesInv, MirrorInv, NEW h \in DOMAIN open_files
  PROVE  /\ NextRead(h) \in Nat
         /\ h \notin drifted /\ ~failed => NextRead(h) = pos[h]
         /\ sync_host_cursor_from_guest(h) = [open_files[h] EXCEPT !.cursor = NextRead(h)]
<1> DEFINE f == open_files[h]
<1>1. RecordOf(f) /\ TableInv /\ (Mirrored(h) => Slot(h) \in SlotRecord)
  BY TableFacts DEF MirrorInv
<1>2. NextRead(h) \in Nat
  BY <1>1, RecordFacts DEF NextRead, SlotRecord
<1>3. [f EXCEPT !.cursor = f.cursor] = f
  BY <1>1 DEF RecordOf
<1>4. sync_host_cursor_from_guest(h) = [open_files[h] EXCEPT !.cursor = NextRead(h)]
  BY <1>3 DEF sync_host_cursor_from_guest, NextRead
<1> QED
  BY <1>2, <1>4 DEF MirrorInv, ExactOf

\* ReadFile on the host.
LEMMA ReadStep ==
  ASSUME NamesInv, HandlesInv, MirrorInv, NEW h \in DOMAIN open_files, NEW n \in Nat, read_file(h, n)
  PROVE  HandlesInv' /\ MirrorInv' /\ KeptFiles
<1> DEFINE r == NextRead(h)
           f == [open_files[h] EXCEPT !.cursor = r]
           c == r + Upto(n, size(h), r)
           g == [open_files[h] EXCEPT !.cursor = c]
<1>1. /\ r \in Nat /\ (h \notin drifted /\ ~failed => r = pos[h]) /\ sync_host_cursor_from_guest(h) = f
  BY NextReadFacts
<1>2. RecordOf(open_files[h]) /\ size(h) \in Nat
  BY SizeFacts DEF HandlesInv
<1>3. c \in Nat
  BY <1>1, <1>2, UptoFacts
<1> DEFINE rc == r
           cc == c
<1>4. /\ RecordOf(f) /\ f.cursor = r /\ f.bytes = open_files[h].bytes /\ f.slot = open_files[h].slot
      /\ f.data = open_files[h].data /\ f.path = open_files[h].path /\ f.host = open_files[h].host
      /\ f.streaming = open_files[h].streaming
  BY <1>1, <1>2, RecordCursor
<1>5. [f EXCEPT !.cursor = @ + Upto(n, size(h), @)] = g
  <2>1. [f EXCEPT !.cursor = @ + Upto(n, size(h), @)] = [f EXCEPT !.cursor = c]
    BY <1>4
  <2> HIDE DEF c, r
  <2> QED
    BY <2>1
<1>6. /\ IF ~f.streaming /\ f.cursor > Len(f.bytes)
           THEN /\ failed' = TRUE
                /\ open_files' = [open_files EXCEPT ![h] = f]
                /\ table' = table /\ arena' = arena /\ overrun' = overrun /\ pos' = pos
           ELSE /\ open_files' = [open_files EXCEPT ![h] = g]
                /\ sync_slot_from_host(g)
                /\ Read(h, n)
                /\ failed' = failed
      /\ opened' = opened /\ arena_next' = arena_next /\ drifted' = drifted
  <2> HIDE DEF f, g
  <2> QED
    BY <1>1, <1>5 DEF read_file
<1>7. /\ RecordOf(g) /\ g.cursor = c /\ g.bytes = open_files[h].bytes /\ g.slot = open_files[h].slot
      /\ g.data = open_files[h].data /\ g.path = open_files[h].path /\ g.host = open_files[h].host
      /\ g.streaming = open_files[h].streaming
  <2> HIDE DEF c
  <2> QED
    BY <1>2, <1>3, RecordCursor
<1>8. CASE ~f.streaming /\ f.cursor > Len(f.bytes)
  <2> HIDE DEF f, g, c, r
  <2>1. /\ failed' = TRUE /\ open_files' = [open_files EXCEPT ![h] = f]
        /\ table' = table /\ arena' = arena /\ overrun' = overrun /\ pos' = pos
    BY <1>6, <1>8
  <2>2. pos \in [DOMAIN open_files -> Nat]
    BY DEF HandlesInv
  <2>3. HandlesInv' /\ MirrorInv'
    BY <1>4, <1>6, <2>1, <2>2, RecordMoved
  <2>4. KeptFiles
    BY <1>4, <2>1 DEF KeptFiles
  <2> QED
    BY <2>3, <2>4
<1>9. CASE ~(~f.streaming /\ f.cursor > Len(f.bytes))
  <2> HIDE DEF f, g
  <2>1. /\ open_files' = [open_files EXCEPT ![h] = g] /\ sync_slot_from_host(g) /\ Read(h, n)
        /\ failed' = failed
    BY <1>6, <1>9
  <2>2. /\ pos' \in [DOMAIN open_files -> Nat] /\ pos'[h] = pos[h] + Upto(n, size(h), pos[h])
        /\ \A x \in DOMAIN open_files : x # h => pos'[x] = pos[x]
    BY <2>1, ReadPos
  <2>3. h \notin drifted' /\ ~failed => g.cursor = pos'[h]
    BY <1>1, <1>6, <1>7, <2>2
  <2> HIDE DEF c, r
  <2>4. HandlesInv' /\ MirrorInv'
    BY <1>6, <1>7, <2>1, <2>2, <2>3, SyncedStep
  <2>5. KeptFiles
    BY <1>7, <2>1 DEF KeptFiles
  <2> QED
    BY <2>4, <2>5
<1> QED
  BY <1>8, <1>9

\* A handler that goes by the record: the handle drifts where the slot differs.
LEMMA DriftFacts ==
  ASSUME NEW h, NEW after, Drift(h, after, table)
  PROVE  /\ drifted \subseteq drifted'
         /\ h \notin drifted' /\ Mirrored(h) =>
              /\ Slot(h).cursor = open_files[h].cursor /\ Slot(h).size = Len(open_files[h].bytes)
              /\ after.slot # 0 => /\ table[after.slot].cursor = after.cursor
                                   /\ table[after.slot].size = Len(after.bytes)
<1>1. drifted' = IF /\ Mirrored(h)
                    /\ \/ table[open_files[h].slot].cursor # open_files[h].cursor
                       \/ table[open_files[h].slot].size # Len(open_files[h].bytes)
                       \/ after.slot # 0 /\ (\/ table[after.slot].cursor # after.cursor
                                             \/ table[after.slot].size # Len(after.bytes))
                   THEN drifted \cup {h} ELSE drifted
  BY DEF Drift
<1> QED
  BY <1>1 DEF Slot

\* The record's cursor is where the next read is, unless the handle drifts.
LEMMA CursorExact ==
  ASSUME HandlesInv, MirrorInv, NEW h \in DOMAIN open_files, NEW after, Drift(h, after, table),
         h \notin drifted', ~failed
  PROVE  open_files[h].cursor = pos[h]
<1>1. /\ drifted \subseteq drifted' /\ (Mirrored(h) => Slot(h).cursor = open_files[h].cursor)
  BY DriftFacts
<1>2. NextRead(h) = pos[h]
  BY <1>1, NextReadFacts
<1> QED
  BY <1>1, <1>2 DEF NextRead

\* SetFilePointer on the host.
LEMMA SeekStep ==
  ASSUME NamesInv, HandlesInv, MirrorInv, NEW h \in DOMAIN open_files, NEW method, NEW d \in Int,
         set_file_pointer(h, method, d)
  PROVE  HandlesInv' /\ MirrorInv' /\ KeptFiles
<1> DEFINE f == open_files[h]
           c == Base(method, f.cursor, size(h)) + d
           to == Base(method, pos[h], size(h)) + d
           g == [f EXCEPT !.cursor = c]
<1>1. /\ Move(h, method, d) /\ Drift(h, f, table)
      /\ IF c < 0 THEN open_files' = open_files /\ table' = table /\ arena' = arena /\ overrun' = overrun
         ELSE open_files' = [open_files EXCEPT ![h] = g] /\ sync_slot_from_host(g)
      /\ opened' = opened /\ arena_next' = arena_next /\ failed' = failed
  BY DEF set_file_pointer
<1>2. RecordOf(f) /\ size(h) \in Nat /\ f.cursor \in Nat
  BY SizeFacts, RecordFacts DEF HandlesInv
<1>3. c \in Int
  <2>1. Base(method, f.cursor, size(h)) \in Nat
    BY <1>2 DEF Base
  <2> QED
    BY <2>1
<1>4. /\ to \in Int /\ pos' \in [DOMAIN open_files -> Nat]
      /\ to < 0 => pos' = pos
      /\ ~(to < 0) => pos'[h] = to
      /\ \A x \in DOMAIN open_files : x # h => pos'[x] = pos[x]
  BY <1>1, MovePos
<1>5. h \notin drifted' /\ ~failed => f.cursor = pos[h]
  BY <1>1, CursorExact
<1>6. h \notin drifted' /\ ~failed => c = to
  BY <1>5
<1>7. /\ drifted \subseteq drifted'
      /\ h \notin drifted' /\ Mirrored(h) => Slot(h).cursor = f.cursor
  BY <1>1, DriftFacts
<1>8. CASE c < 0
  <2>1. open_files' = open_files /\ table' = table /\ arena' = arena /\ overrun' = overrun
    BY <1>1, <1>8
  <2>2. [open_files EXCEPT ![h] = f] = open_files
    BY DEF HandlesInv
  <2>3. h \notin drifted' /\ ~failed' => pos'[h] = f.cursor
    BY <1>1, <1>4, <1>5, <1>6, <1>8
  <2>4. h \notin drifted' /\ ~failed' => pos'[h] = IF f.slot # 0 THEN Slot(h).cursor ELSE f.cursor
    BY <1>7, <2>3 DEF Mirrored
  <2> HIDE DEF f, c, to
  <2>5. open_files' = [open_files EXCEPT ![h] = f] /\ f.slot = open_files[h].slot
        /\ f.data = open_files[h].data /\ f.bytes = open_files[h].bytes
    BY <2>1, <2>2 DEF f
  <2>6. HandlesInv' /\ MirrorInv'
    BY <1>1, <1>2, <1>4, <1>7, <2>1, <2>4, <2>5, RecordMoved
  <2> QED
    BY <2>1, <2>6 DEF KeptFiles
<1>9. CASE ~(c < 0)
  <2>1. open_files' = [open_files EXCEPT ![h] = g] /\ sync_slot_from_host(g)
    BY <1>1, <1>9
  <2>2. c \in Nat
    BY <1>3, <1>9
  <2>3. h \notin drifted' /\ ~failed => c = pos'[h]
    BY <1>4, <1>6, <1>9
  <2> HIDE DEF c, to
  <2>4. /\ RecordOf(g) /\ g.cursor = c /\ g.bytes = f.bytes /\ g.slot = f.slot
        /\ g.data = f.data /\ g.path = f.path /\ g.host = f.host
        /\ g.streaming = f.streaming
    BY <1>2, <2>2, RecordCursor
  <2> HIDE DEF g
  <2>5. HandlesInv' /\ MirrorInv'
    BY <1>1, <1>4, <1>7, <2>1, <2>3, <2>4, SyncedStep
  <2>6. KeptFiles
    BY <2>1, <2>4 DEF KeptFiles
  <2> QED
    BY <2>5, <2>6
<1> QED
  BY <1>8, <1>9

\* SetFilePointerEx.
LEMMA SeekExStep ==
  ASSUME NamesInv, HandlesInv, MirrorInv, NEW h \in DOMAIN open_files, NEW method, NEW d \in Int,
         set_file_pointer_ex(h, method, d)
  PROVE  HandlesInv' /\ MirrorInv' /\ KeptFiles
<1> DEFINE f == open_files[h]
           c == Base(method, f.cursor, size(h)) + d
           to == Base(method, pos[h], size(h)) + d
           g == [f EXCEPT !.cursor = c]
<1>1. /\ Move(h, method, d) /\ Drift(h, g, table) /\ c \in 0 .. MaxSize
      /\ open_files' = [open_files EXCEPT ![h] = g]
      /\ table' = table /\ arena' = arena /\ overrun' = overrun
      /\ opened' = opened /\ arena_next' = arena_next /\ failed' = failed
  BY DEF set_file_pointer_ex
<1>2. RecordOf(f)
  BY DEF HandlesInv
<1>3. c \in Nat
  BY <1>1, FilesAssumption
<1>4. /\ to \in Int /\ pos' \in [DOMAIN open_files -> Nat]
      /\ ~(to < 0) => pos'[h] = to
      /\ \A x \in DOMAIN open_files : x # h => pos'[x] = pos[x]
  BY <1>1, MovePos
<1>5. h \notin drifted' /\ ~failed => f.cursor = pos[h]
  BY <1>1, CursorExact
<1>6. h \notin drifted' /\ ~failed => c = to
  BY <1>5
<1> HIDE DEF c, to
<1>7. /\ RecordOf(g) /\ g.cursor = c /\ g.bytes = f.bytes /\ g.slot = f.slot
      /\ g.data = f.data /\ g.path = f.path /\ g.host = f.host
      /\ g.streaming = f.streaming
  BY <1>2, <1>3, RecordCursor
<1> HIDE DEF g
<1>8. /\ drifted \subseteq drifted'
      /\ h \notin drifted' /\ Mirrored(h) /\ g.slot # 0 => table[g.slot].cursor = g.cursor
  BY <1>1, DriftFacts
<1>9. h \notin drifted' /\ ~failed' => pos'[h] = IF g.slot # 0 THEN Slot(h).cursor ELSE g.cursor
  BY <1>1, <1>3, <1>4, <1>6, <1>7, <1>8 DEF Mirrored, Slot
<1>10. HandlesInv' /\ MirrorInv'
  BY <1>1, <1>4, <1>7, <1>8, <1>9, RecordMoved
<1>11. KeptFiles
  BY <1>1, <1>7 DEF KeptFiles
<1> QED
  BY <1>10, <1>11

---------------------------------------------------------------------------
(* Opening, closing and writing *)

\* CreateFile gives the new handle a slot and a mirror behind all others, or none.
LEMMA OpenMirror ==
  ASSUME HandlesInv, MirrorInv, NEW f, RecordOf(f), f.cursor = 0, NEW g, NEW h, h = opened + 1,
         Registered(h, f, g), opened' = opened + 1, pos' = With(pos, opened + 1, 0),
         drifted' = drifted, failed' = failed, overrun' = overrun
  PROVE  MirrorInv'
<1>1. /\ open_files' = With(open_files, h, g)
      /\ RecordOf(g) /\ g.bytes = f.bytes /\ g.cursor = 0
  BY DEF Registered
<1>2. /\ HandlesInv' /\ h \notin DOMAIN open_files
      /\ DOMAIN open_files' = DOMAIN open_files \cup {h}
      /\ open_files'[h] = g /\ pos'[h] = 0
      /\ \A x \in DOMAIN open_files : open_files'[x] = open_files[x] /\ pos'[x] = pos[x]
  BY <1>1, HandleAdded
<1>3. TableInv
  BY DEF MirrorInv
<1>4. /\ table \in [1 .. Slots -> SlotRecord] /\ arena \in [1 .. ArenaSize -> Nat]
      /\ overrun \in BOOLEAN /\ arena_next \in Nat /\ arena_next <= ArenaSize
      /\ ArenaSize \in Nat /\ h \in Nat
  BY <1>3, TableFacts, FilesAssumption DEF HandlesInv
<1>5. /\ f.bytes \in Bytes /\ Len(f.bytes) \in Nat
  BY RecordFacts
<1> DEFINE n == Len(f.bytes)
           m == Aligned(n)
<1>6. m \in Nat /\ n <= m
  BY <1>5, AlignedFacts
<1>7. \A x \in DOMAIN open_files : Mirrored(x)' <=> Mirrored(x)
  BY <1>2 DEF Mirrored
<1>8. \A x \in DOMAIN open_files : Mirrored(x) =>
        /\ Slot(x).handle = x /\ Slot(x).data = open_files[x].data /\ open_files[x].data < arena_next
        /\ open_files[x].slot \in 1 .. Slots /\ x >= 1 /\ x \in Nat
  BY <1>3, TableFacts DEF TableInv
<1>9. \A x, y \in DOMAIN open_files :
        Mirrored(x) /\ Mirrored(y) /\ x # y => open_files[x].data # open_files[y].data
  BY <1>3 DEF TableInv
<1>10. /\ Stored(arena_next, f.bytes) \in [1 .. ArenaSize -> Nat]
       /\ \A i \in 1 .. ArenaSize : i \notin arena_next + 1 .. arena_next + n
            => Stored(arena_next, f.bytes)[i] = arena[i]
       /\ arena_next + n <= ArenaSize => \A i \in 1 .. n : Stored(arena_next, f.bytes)[arena_next + i] = f.bytes[i]
  BY <1>4, <1>5, StoredFacts
<1>11. ASSUME NEW e \in DOMAIN open_files, Mirrored(e), ExactOf(e),
              arena' = arena \/ arena' = Stored(arena_next, f.bytes)
       PROVE  ArenaKept(e)
  <2> DEFINE a == open_files[e].data
             k == Len(open_files[e].bytes)
  <2>1. a \in Nat /\ k \in Nat
    BY <1>3, TableFacts, RecordFacts
  <2>2. a + k <= arena_next
    BY <1>11 DEF ExactOf
  <2>3. ASSUME NEW i \in 1 .. k PROVE arena'[a + i] = arena[a + i]
    <3> HIDE DEF a, k
    <3>1. a + i \in 1 .. ArenaSize /\ a + i \notin arena_next + 1 .. arena_next + n
      BY <1>4, <1>5, <2>1, <2>2
    <3> QED
      BY <1>10, <1>11, <3>1
  <2> QED
    BY <2>3 DEF ArenaKept
<1>12. CASE g.slot = 0 /\ table' = table /\ arena_next' = arena_next
            /\ (arena' = arena \/ arena' = Stored(arena_next, f.bytes))
  <2>1. arena' \in [1 .. ArenaSize -> Nat]
    BY <1>4, <1>10, <1>12
  <2>2. ~Mirrored(h)'
    BY <1>2, <1>12 DEF Mirrored
  <2>3. ASSUME NEW x \in DOMAIN open_files', Mirrored(x)'
        PROVE  /\ x \in DOMAIN open_files /\ Mirrored(x) /\ open_files'[x] = open_files[x]
               /\ Slot(x)' = Slot(x)
    BY <1>2, <1>7, <1>12, <2>2, <2>3 DEF Slot
  <2>4. TableInv'
    <3>1. /\ table' \in [1 .. Slots -> [handle : Nat, data : Nat, size : Nat, cursor : Nat]]
          /\ arena_next' \in 0 .. ArenaSize /\ overrun' \in BOOLEAN
      BY <1>3, <1>4, <1>12 DEF TableInv
    <3>2. \A x \in DOMAIN open_files' : Mirrored(x)' =>
            /\ Slot(x)'.handle = x /\ Slot(x)'.data = open_files'[x].data
            /\ open_files'[x].data < arena_next'
      BY <1>8, <1>12, <2>3
    <3>3. \A x, y \in DOMAIN open_files' :
            Mirrored(x)' /\ Mirrored(y)' /\ x # y => open_files'[x].data # open_files'[y].data
      BY <1>9, <2>3
    <3> QED
      BY <2>1, <3>1, <3>2, <3>3 DEF TableInv
  <2>5. MirrorsGrow
    BY <2>3 DEF MirrorsGrow, Mirrored
  <2>6. ASSUME NEW e \in DOMAIN open_files' \ drifted', e # h PROVE ExactOf(e)'
    <3>1. e \in DOMAIN open_files /\ ExactOf(e) /\ open_files'[e] = open_files[e] /\ pos'[e] = pos[e]
      BY <1>2, <2>6 DEF MirrorInv
    <3>2. Mirrored(e) => ArenaKept(e)
      BY <1>11, <1>12, <3>1
    <3>3. /\ table'[open_files[e].slot] = table[open_files[e].slot]
          /\ arena_next' \in Nat /\ arena_next <= arena_next'
      BY <1>4, <1>12
    <3> QED
      BY <1>2, <1>3, <2>5, <3>1, <3>2, <3>3, ExactKept
  <2>7. ExactOf(h)'
    BY <1>1, <1>2, <2>2 DEF ExactOf, NextRead
  <2> QED
    BY <2>4, <2>6, <2>7 DEF MirrorInv
<1>13. CASE /\ g.slot \in 1 .. Slots /\ table[g.slot].handle = 0 /\ g.data = arena_next
            /\ table' = [table EXCEPT ![g.slot] = [handle |-> h, data |-> arena_next,
                                                   size |-> n, cursor |-> 0]]
            /\ arena_next' = arena_next + m /\ arena_next + m <= ArenaSize
            /\ arena' = Stored(arena_next, f.bytes) /\ f.bytes # <<>>
  <2>1. /\ arena' \in [1 .. ArenaSize -> Nat] /\ arena_next' \in Nat /\ arena_next < arena_next'
        /\ arena_next + n <= arena_next' /\ arena_next' <= ArenaSize
    <3>1. n >= 1 /\ n \in Nat
      BY <1>5, <1>13 DEF Bytes
    <3>2. arena' \in [1 .. ArenaSize -> Nat]
      BY <1>10, <1>13
    <3> HIDE DEF n, m
    <3> QED
      BY <1>4, <1>6, <1>13, <3>1, <3>2
  <2>2. /\ table' \in [1 .. Slots -> SlotRecord]
        /\ table'[g.slot].handle = h /\ table'[g.slot].data = arena_next
        /\ table'[g.slot].size = n /\ table'[g.slot].cursor = 0
        /\ \A i \in 1 .. Slots : i # g.slot => table'[i] = table[i]
    <3> DEFINE s == g.slot
               r == [handle |-> h, data |-> arena_next, size |-> n, cursor |-> 0]
    <3>1. r \in SlotRecord /\ r.handle = h /\ r.data = arena_next /\ r.size = n /\ r.cursor = 0
      BY <1>4, <1>5 DEF SlotRecord
    <3>2. s \in 1 .. Slots /\ table' = [table EXCEPT ![s] = r]
      BY <1>13
    <3> HIDE DEF s, r, n
    <3> QED
      BY <1>4, <3>1, <3>2 DEF s
  <2>3. Mirrored(h)' /\ Slot(h)' = table'[g.slot]
    <3>1. g.slot # 0
      BY <1>13, FilesAssumption
    <3> QED
      BY <1>2, <3>1 DEF Mirrored, Slot
  <2>4. ASSUME NEW x \in DOMAIN open_files, Mirrored(x)
        PROVE  Mirrored(x)' /\ open_files'[x] = open_files[x] /\ Slot(x)' = Slot(x)
               /\ open_files[x].slot # g.slot
    <3>1. open_files[x].slot # g.slot /\ open_files[x].slot \in 1 .. Slots
      BY <1>8, <1>13, <2>4 DEF Slot
    <3> QED
      BY <1>2, <1>7, <2>2, <2>4, <3>1 DEF Slot
  <2>5. TableInv'
    <3>1. /\ table' \in [1 .. Slots -> [handle : Nat, data : Nat, size : Nat, cursor : Nat]]
          /\ arena_next' \in 0 .. ArenaSize /\ overrun' \in BOOLEAN
      BY <1>4, <2>1, <2>2 DEF SlotRecord
    <3>2. ASSUME NEW x \in DOMAIN open_files', Mirrored(x)'
          PROVE  /\ Slot(x)'.handle = x /\ Slot(x)'.data = open_files'[x].data
                 /\ open_files'[x].data < arena_next'
      <4>1. CASE x = h
        BY <1>2, <1>13, <2>1, <2>2, <2>3, <4>1
      <4>2. CASE x # h
        <5>1. x \in DOMAIN open_files /\ Mirrored(x)
          BY <1>2, <1>7, <3>2, <4>2
        <5>2. open_files[x].data \in Nat
          BY <1>3, <5>1, TableFacts, RecordFacts
        <5> QED
          BY <1>4, <1>8, <2>1, <2>4, <5>1, <5>2
      <4> QED
        BY <4>1, <4>2
    <3>3. ASSUME NEW x \in DOMAIN open_files', NEW y \in DOMAIN open_files', Mirrored(x)', Mirrored(y)',
                 x # y, x # h
          PROVE  open_files'[x].data # open_files'[y].data
      <4>1. x \in DOMAIN open_files /\ Mirrored(x) /\ open_files'[x] = open_files[x]
        BY <1>2, <1>7, <3>3
      <4>2. open_files[x].data \in Nat /\ open_files[x].data < arena_next
        BY <1>3, <1>8, <4>1, TableFacts, RecordFacts
      <4>3. CASE y = h
        BY <1>2, <1>4, <1>13, <4>1, <4>2, <4>3
      <4>4. CASE y # h
        <5>1. y \in DOMAIN open_files /\ Mirrored(y) /\ open_files'[y] = open_files[y]
          BY <1>2, <1>7, <3>3, <4>4
        <5> QED
          BY <1>9, <3>3, <4>1, <5>1
      <4> QED
        BY <4>3, <4>4
    <3>4. \A x, y \in DOMAIN open_files' :
            Mirrored(x)' /\ Mirrored(y)' /\ x # y => open_files'[x].data # open_files'[y].data
      BY <3>3
    <3> QED
      BY <2>1, <3>1, <3>2, <3>4 DEF TableInv
  <2>6. MirrorsGrow
    BY <1>2, <1>7, <1>13 DEF MirrorsGrow, Mirrored
  <2>7. ASSUME NEW e \in DOMAIN open_files' \ drifted', e # h PROVE ExactOf(e)'
    <3>1. e \in DOMAIN open_files /\ ExactOf(e) /\ open_files'[e] = open_files[e] /\ pos'[e] = pos[e]
      BY <1>2, <2>7 DEF MirrorInv
    <3>2. Mirrored(e) => ArenaKept(e)
      BY <1>11, <1>13, <3>1
    <3>3. Mirrored(e) => table'[open_files[e].slot] = table[open_files[e].slot]
      BY <1>8, <2>2, <2>4, <3>1
    <3>4. arena_next' \in Nat /\ arena_next <= arena_next'
      BY <1>4, <2>1
    <3> QED
      BY <1>2, <1>3, <2>6, <3>1, <3>2, <3>3, <3>4, ExactKept
  <2>8. ExactOf(h)'
    <3>1. NextRead(h)' = pos'[h]
      BY <1>2, <2>2, <2>3 DEF NextRead
    <3>2. ASSUME NEW e \in DOMAIN open_files', Mirrored(e)' PROVE ~(g.data < open_files'[e].data)
      <4>1. CASE e = h
        BY <1>2, <1>4, <1>13, <4>1
      <4>2. CASE e # h
        <5>1. e \in DOMAIN open_files /\ Mirrored(e) /\ open_files'[e] = open_files[e]
          BY <1>2, <1>7, <3>2, <4>2
        <5>2. open_files[e].data \in Nat /\ open_files[e].data < arena_next
          BY <1>3, <1>8, <5>1, TableFacts, RecordFacts
        <5> QED
          BY <1>4, <1>13, <5>1, <5>2
      <4> QED
        BY <4>1, <4>2
    <3>3. \A i \in 1 .. n : arena'[arena_next + i] = f.bytes[i]
      <4>1. arena_next + n <= ArenaSize
        <5> HIDE DEF n
        <5> QED
          BY <1>4, <1>5, <2>1 DEF n
      <4> QED
        BY <1>10, <1>13, <4>1
    <3> QED
      BY <1>1, <1>2, <1>13, <2>1, <2>2, <2>3, <3>1, <3>2, <3>3 DEF ExactOf
  <2> QED
    BY <2>5, <2>7, <2>8 DEF MirrorInv
<1> QED
  BY <1>12, <1>13 DEF Registered

\* unregister_open_file frees the slots of h and no others.
LEMMA UnregisterFacts ==
  ASSUME table \in [1 .. Slots -> SlotRecord], NEW h
  PROVE  /\ unregister_open_file(h) \in [1 .. Slots -> SlotRecord]
         /\ \A i \in 1 .. Slots : table[i].handle # h => unregister_open_file(h)[i] = table[i]
<1>1. FreeSlot \in SlotRecord
  BY DEF FreeSlot, SlotRecord
<1> QED
  BY <1>1 DEF unregister_open_file

\* A handler that gives up the slot of h.
LEMMA SlotFreed ==
  ASSUME HandlesInv, MirrorInv, HandlesInv', NEW h \in DOMAIN open_files,
         DOMAIN open_files' \subseteq DOMAIN open_files,
         \A x \in DOMAIN open_files' : x # h => open_files'[x] = open_files[x] /\ pos'[x] = pos[x],
         h \in DOMAIN open_files' => open_files'[h].slot = 0,
         table' = unregister_open_file(h), arena' = arena, arena_next' = arena_next,
         overrun' = overrun, failed' = failed, drifted \subseteq drifted' \cup {h},
         h \in DOMAIN open_files' \ drifted' /\ ~failed => open_files'[h].cursor = pos'[h]
  PROVE  MirrorInv'
<1>1. TableInv
  BY DEF MirrorInv
<1>2. /\ table \in [1 .. Slots -> SlotRecord] /\ arena \in [1 .. ArenaSize -> Nat]
      /\ overrun \in BOOLEAN /\ arena_next \in Nat
  BY <1>1, TableFacts
<1>3. /\ table' \in [1 .. Slots -> SlotRecord]
      /\ \A i \in 1 .. Slots : table[i].handle # h => table'[i] = table[i]
  BY <1>2, UnregisterFacts
<1>4. ASSUME NEW x \in DOMAIN open_files, Mirrored(x), x # h
      PROVE  table'[open_files[x].slot] = table[open_files[x].slot]
  <2>1. open_files[x].slot \in 1 .. Slots /\ Slot(x).handle = x
    BY <1>1, <1>4, TableFacts DEF TableInv
  <2> QED
    BY <1>3, <1>4, <2>1 DEF Slot
<1>5. ASSUME NEW x \in DOMAIN open_files', open_files'[x].slot # 0
      PROVE  x # h /\ x \in DOMAIN open_files /\ open_files'[x] = open_files[x] /\ Mirrored(x)
  BY <1>5 DEF Mirrored
<1>6. TableInv'
  <2>1. \A x \in DOMAIN open_files' : open_files'[x].slot # 0 =>
           /\ open_files'[x].slot = open_files[x].slot /\ open_files'[x].data = open_files[x].data
           /\ table'[open_files[x].slot].handle = table[open_files[x].slot].handle
           /\ table'[open_files[x].slot].data = table[open_files[x].slot].data
    BY <1>4, <1>5
  <2> QED
    BY <1>1, <1>2, <1>3, <2>1, TableKept
<1>7. MirrorsGrow
  BY <1>5 DEF MirrorsGrow
<1>8. ASSUME NEW e \in DOMAIN open_files' \ drifted', e # h PROVE ExactOf(e)'
  <2>1. e \in DOMAIN open_files /\ ExactOf(e) /\ open_files'[e] = open_files[e] /\ pos'[e] = pos[e]
    BY <1>8 DEF MirrorInv
  <2>2. ArenaKept(e) /\ arena_next' \in Nat /\ arena_next <= arena_next'
    BY <1>2 DEF ArenaKept
  <2>3. Mirrored(e) => table'[open_files[e].slot] = table[open_files[e].slot]
    BY <1>4, <1>8, <2>1
  <2> QED
    BY <1>1, <1>7, <2>1, <2>2, <2>3, ExactKept
<1>9. ASSUME h \in DOMAIN open_files' \ drifted' PROVE ExactOf(h)'
  <2>1. ~Mirrored(h)'
    BY <1>9 DEF Mirrored
  <2> QED
    BY <1>9, <2>1 DEF ExactOf, NextRead
<1> QED
  BY <1>6, <1>8, <1>9 DEF MirrorInv

\* CloseHandle.
LEMMA CloseStep ==
  ASSUME NamesInv, HandlesInv, MirrorInv, NEW h \in DOMAIN open_files, close_handle(h)
  PROVE  /\ NamesInv' /\ HandlesInv' /\ MirrorInv'
         /\ SameFiles(disk, disk', {open_files[h].host}) /\ VirtualElse(open_files[h].path)
<1> DEFINE f == open_files[h]
<1>1. /\ virtual_files' = sync_open_bytes_to_virtual(f) /\ disk' = persist_open_file_to_host(f)
      /\ table' = unregister_open_file(h) /\ open_files' = Without(open_files, h)
      /\ pos' = Without(pos, h) /\ drifted' = drifted \ {h}
      /\ cwd' = cwd /\ opened' = opened /\ arena' = arena /\ arena_next' = arena_next
      /\ failed' = failed /\ overrun' = overrun
  BY DEF close_handle
<1>2. RecordOf(f) /\ DiskOf(disk) /\ VirtualOf(virtual_files) /\ cwd \in Dirs
  BY DEF HandlesInv, NamesInv
<1>3. DiskOf(disk') /\ SameFiles(disk, disk', {f.host})
  BY <1>1, <1>2, PersistFacts
<1>4. VirtualOf(virtual_files')
  BY <1>1, <1>2, VirtualFacts
<1>5. VirtualElse(f.path)
  <2>1. virtual_files' = virtual_files \/ virtual_files' = With(virtual_files, f.path, f.bytes)
    BY <1>1 DEF sync_open_bytes_to_virtual
  <2> QED
    BY <2>1, VirtualWith
<1>6. /\ HandlesInv' /\ DOMAIN open_files' = DOMAIN open_files \ {h}
      /\ \A x \in DOMAIN open_files' : open_files'[x] = open_files[x] /\ pos'[x] = pos[x]
  BY <1>1, HandleClosed
<1>7. MirrorInv'
  <2>1. /\ DOMAIN open_files' \subseteq DOMAIN open_files /\ h \notin DOMAIN open_files'
        /\ drifted \subseteq drifted' \cup {h}
    BY <1>1, <1>6
  <2> QED
    BY <1>1, <1>6, <2>1, SlotFreed
<1> QED
  BY <1>1, <1>2, <1>3, <1>4, <1>5, <1>6, <1>7 DEF NamesInv

\* What WriteFile makes of the record of h: a stream writes through, or fails;
\* a buffer grows, or is spilled.
Wrote(h, data, g) ==
  LET f == open_files[h] IN
  /\ open_files' = [open_files EXCEPT ![h] = g]
  /\ RecordOf(g) /\ g.path = f.path /\ g.host = f.host
  /\ DiskOf(disk') /\ SameFiles(disk, disk', {f.host})
  /\ \/ /\ f.streaming /\ g.streaming /\ dirty' = dirty
        /\ disk'[f.host] = File(Overlay(disk[f.host].bytes, f.cursor, data))
     \/ /\ f.streaming /\ ~CanWriteAt(f.host) /\ g = f /\ disk' = disk /\ dirty' = dirty
     \/ /\ ~f.streaming /\ ~g.streaming /\ g.bytes = Overlay(f.bytes, f.cursor, data)
        /\ disk' = disk /\ dirty' = dirty \cup {h}
     \/ /\ ~f.streaming /\ g.streaming /\ dirty' = dirty \ {h}
        /\ disk'[f.host] = File(Overlay(f.bytes, f.cursor, data))

\* What is written is not empty.
LEMMA DataFacts ==
  ASSUME NEW data \in Data
  PROVE  data \in Bytes /\ Len(data) \in Nat /\ Len(data) >= 1
<1>1. data \in Seq(Nat) /\ data # <<>>
  BY FilesAssumption
<1> QED
  BY <1>1 DEF Bytes

\* A write to a buffer that has a mirror drifts: the slot keeps the old cursor.
LEMMA WriteDrifts ==
  ASSUME HandlesInv, NEW h \in DOMAIN open_files, NEW b, b.slot = open_files[h].slot, NEW n \in Nat, n >= 1,
         b.cursor = open_files[h].cursor + n, Drift(h, b, table), Mirrored(h)
  PROVE  h \in drifted'
<1>1. open_files[h].cursor \in Nat
  BY RecordFacts DEF HandlesInv
<1>2. SUFFICES ASSUME h \notin drifted' PROVE FALSE
  OBVIOUS
<1>3. Slot(h).cursor = open_files[h].cursor /\ (b.slot # 0 => table[b.slot].cursor = b.cursor)
  BY <1>2, DriftFacts
<1>4. table[b.slot].cursor = open_files[h].cursor /\ b.slot # 0
  BY <1>3 DEF Slot, Mirrored
<1> QED
  BY <1>1, <1>3, <1>4

\* WriteFile.
LEMMA WriteStep ==
  ASSUME NamesInv, HandlesInv, MirrorInv, NEW h \in DOMAIN open_files, NEW data \in Data, write_file(h, data)
  PROVE  NamesInv' /\ HandlesInv' /\ MirrorInv' /\ \E g : Wrote(h, data, g)
<1> DEFINE f == open_files[h]
           c == f.cursor + Len(data)
           o == Overlay(f.bytes, f.cursor, data)
           g == [f EXCEPT !.cursor = c]
           b == [g EXCEPT !.bytes = o]
<1>1. /\ \/ /\ f.streaming /\ CanWriteAt(f.host)
            /\ disk' = host_write_at(f.host, f.cursor, data)
            /\ open_files' = [open_files EXCEPT ![h] = g]
            /\ table' = table /\ dirty' = dirty /\ failed' = failed /\ drifted' = drifted
         \/ /\ ~f.streaming
            /\ maybe_promote_open_file_to_streaming(h, [g EXCEPT !.bytes = Overlay(@, f.cursor, data)])
            /\ Drift(h, [g EXCEPT !.bytes = Overlay(@, f.cursor, data)], table)
            /\ failed' = failed
         \/ /\ f.streaming /\ ~CanWriteAt(f.host)
            /\ failed' = TRUE
            /\ disk' = disk /\ open_files' = open_files /\ table' = table
            /\ dirty' = dirty /\ drifted' = drifted
      /\ pos' = [pos EXCEPT ![h] = @ + Len(data)]
      /\ virtual_files' = virtual_files /\ cwd' = cwd /\ opened' = opened /\ arena' = arena
      /\ arena_next' = arena_next /\ overrun' = overrun
  BY DEF write_file
<1>2. /\ RecordOf(f) /\ DiskOf(disk) /\ VirtualOf(virtual_files) /\ cwd \in Dirs
      /\ pos \in [DOMAIN open_files -> Nat]
  BY DEF HandlesInv, NamesInv
<1>3. /\ data \in Bytes /\ Len(data) \in Nat /\ Len(data) >= 1 /\ f.bytes \in Bytes /\ f.cursor \in Nat
      /\ f.host # NoHost => f.host \in HostPaths /\ Len(f.host) > 1
      /\ f.streaming => f.host # NoHost /\ f.slot = 0
  BY <1>2, DataFacts, RecordFacts
<1>4. c \in Nat /\ o \in Bytes
  BY <1>3, OverlayFacts
<1>5. /\ pos' \in [DOMAIN open_files -> Nat] /\ pos'[h] = pos[h] + Len(data)
      /\ \A x \in DOMAIN open_files : x # h => pos'[x] = pos[x]
  <2> DEFINE n == Len(data)
  <2>1. n \in Nat /\ pos' = [pos EXCEPT ![h] = @ + n]
    BY <1>1, <1>3
  <2> HIDE DEF n
  <2>2. /\ pos' \in [DOMAIN open_files -> Nat] /\ pos'[h] = pos[h] + n
        /\ \A x \in DOMAIN open_files : x # h => pos'[x] = pos[x]
    BY <1>2, <2>1
  <2> QED
    BY <2>2 DEF n
<1>6. c = f.cursor + Len(data) /\ o = Overlay(f.bytes, f.cursor, data)
  OBVIOUS
<1> HIDE DEF c, o
<1>7. /\ RecordOf(g) /\ g.cursor = c /\ g.bytes = f.bytes /\ g.slot = f.slot
      /\ g.data = f.data /\ g.path = f.path /\ g.host = f.host
      /\ g.streaming = f.streaming
  BY <1>2, <1>4, RecordCursor
<1>8. [g EXCEPT !.bytes = Overlay(@, f.cursor, data)] = b
  BY <1>6, <1>7
<1> HIDE DEF g
<1>9. /\ RecordOf(b) /\ b.cursor = c /\ b.bytes = o /\ b.slot = f.slot
      /\ b.data = f.data /\ b.path = f.path /\ b.host = f.host
      /\ b.streaming = f.streaming
  BY <1>4, <1>7, RecordBytes
<1> HIDE DEF b
<1>10. CASE /\ f.streaming /\ CanWriteAt(f.host)
            /\ disk' = host_write_at(f.host, f.cursor, data)
            /\ open_files' = [open_files EXCEPT ![h] = g]
            /\ table' = table /\ dirty' = dirty /\ failed' = failed /\ drifted' = drifted
  <2> DEFINE w == Overlay(disk[f.host].bytes, f.cursor, data)
  <2>1. disk' = [disk EXCEPT ![f.host] = File(w)]
    <3>1. data # <<>>
      BY DataFacts
    <3> QED
      BY <1>10, <3>1 DEF host_write_at
  <2>2. disk[f.host].bytes \in Bytes
    BY <1>2, <1>3, <1>10 DEF DiskOf, Node
  <2>3. w \in Bytes
    BY <1>3, <2>2, OverlayFacts
  <2> HIDE DEF w
  <2>4. DiskOf(disk') /\ disk'[f.host] = File(w) /\ SameFiles(disk, disk', {f.host})
    BY <1>2, <1>3, <1>10, <2>1, <2>3, WriteAtFacts
  <2>5. NamesInv'
    BY <1>1, <1>2, <2>4 DEF NamesInv
  <2>6. g.slot = 0 /\ ~Mirrored(h)
    BY <1>3, <1>7, <1>10 DEF Mirrored
  <2>7. h \notin drifted' /\ ~failed' => pos'[h] = g.cursor
    <3>1. h \notin drifted' /\ ~failed' => f.cursor = pos[h]
      BY <1>10, <2>6 DEF MirrorInv, ExactOf, NextRead
    <3> QED
      BY <1>5, <1>6, <1>7, <3>1
  <2>8. HandlesInv' /\ MirrorInv'
    <3>1. h \notin drifted' /\ ~failed' => pos'[h] = IF g.slot # 0 THEN Slot(h).cursor ELSE g.cursor
      BY <2>6, <2>7
    <3> QED
      BY <1>1, <1>5, <1>7, <1>10, <2>6, <3>1, RecordMoved
  <2>9. Wrote(h, data, g)
    BY <1>7, <1>10, <2>4 DEF Wrote, w
  <2> QED
    BY <2>5, <2>8, <2>9
<1>11. CASE /\ f.streaming /\ ~CanWriteAt(f.host) /\ failed' = TRUE
            /\ disk' = disk /\ open_files' = open_files /\ table' = table
            /\ dirty' = dirty /\ drifted' = drifted
  <2>1. NamesInv' /\ SameFiles(disk, disk', {f.host})
    BY <1>1, <1>2, <1>11 DEF NamesInv, SameFiles
  <2>2. open_files' = [open_files EXCEPT ![h] = f]
    BY <1>11 DEF HandlesInv
  <2>3. Wrote(h, data, f)
    BY <1>2, <1>11, <2>1, <2>2 DEF Wrote, NamesInv
  <2>4. HandlesInv' /\ MirrorInv'
    <3> HIDE DEF f
    <3>1. f.slot = open_files[h].slot /\ f.data = open_files[h].data /\ f.bytes = open_files[h].bytes
      BY DEF f
    <3> QED
      BY <1>1, <1>2, <1>5, <1>11, <2>2, <3>1, RecordMoved
  <2> QED
    BY <2>1, <2>3, <2>4
<1>12. CASE /\ ~f.streaming /\ maybe_promote_open_file_to_streaming(h, b) /\ Drift(h, b, table)
            /\ failed' = failed
  <2>1. drifted \subseteq drifted' /\ (Mirrored(h) => h \in drifted')
    <3>1. drifted \subseteq drifted'
      BY <1>12, DriftFacts
    <3>2. Mirrored(h) => h \in drifted'
      BY <1>3, <1>6, <1>9, <1>12, WriteDrifts
    <3> QED
      BY <3>1, <3>2
  <2>2. h \notin drifted' /\ ~failed' => pos'[h] = b.cursor
    <3>1. h \notin drifted' /\ ~failed' => f.cursor = pos[h]
      BY <1>12, <2>1 DEF MirrorInv, ExactOf, NextRead
    <3> QED
      BY <1>5, <1>6, <1>9, <3>1
  <2>3. CASE Len(b.bytes) > Threshold /\ b.host # NoHost /\ CanWrite(b.host)
    <3>1. /\ disk' = Written(b.host, b.bytes) /\ table' = unregister_open_file(h)
          /\ open_files' = [open_files EXCEPT ![h] = Spilled(b)] /\ dirty' = dirty \ {h}
      BY <1>12, <2>3 DEF maybe_promote_open_file_to_streaming, Spilled
    <3>2. DiskOf(disk') /\ disk'[f.host] = File(o) /\ SameFiles(disk, disk', {f.host})
      BY <1>2, <1>3, <1>4, <1>9, <2>3, <3>1, WrittenFacts
    <3>3. /\ RecordOf(Spilled(b)) /\ Spilled(b).cursor = b.cursor /\ Spilled(b).slot = 0
          /\ Spilled(b).streaming = TRUE /\ Spilled(b).path = f.path /\ Spilled(b).host = f.host
      BY <1>9, <2>3, RecordSpilled
    <3>4. NamesInv'
      BY <1>1, <1>2, <3>2 DEF NamesInv
    <3>5. /\ HandlesInv' /\ DOMAIN open_files' = DOMAIN open_files /\ open_files'[h] = Spilled(b)
          /\ \A x \in DOMAIN open_files : x # h => open_files'[x] = open_files[x]
      BY <1>1, <1>5, <3>1, <3>3, HandleReplaced
    <3>6. MirrorInv'
      <4>1. drifted \subseteq drifted' \cup {h} /\ open_files'[h].slot = 0
            /\ (h \in DOMAIN open_files' \ drifted' /\ ~failed => open_files'[h].cursor = pos'[h])
        BY <1>12, <2>1, <2>2, <3>3, <3>5
      <4>2. \A x \in DOMAIN open_files' : x # h => open_files'[x] = open_files[x] /\ pos'[x] = pos[x]
        BY <1>5, <3>5
      <4> QED
        BY <1>1, <1>12, <3>1, <3>5, <4>1, <4>2, SlotFreed
    <3>7. Wrote(h, data, Spilled(b))
      BY <1>6, <1>12, <3>1, <3>2, <3>3 DEF Wrote
    <3> QED
      BY <3>4, <3>5, <3>6, <3>7
  <2>4. CASE ~(Len(b.bytes) > Threshold /\ b.host # NoHost /\ CanWrite(b.host))
    <3>1. /\ disk' = disk /\ table' = table
          /\ open_files' = [open_files EXCEPT ![h] = b] /\ dirty' = dirty \cup {h}
      BY <1>12, <2>4 DEF maybe_promote_open_file_to_streaming
    <3>2. NamesInv' /\ SameFiles(disk, disk', {f.host}) /\ DiskOf(disk')
      BY <1>1, <1>2, <3>1 DEF NamesInv, SameFiles
    <3>3. HandlesInv' /\ MirrorInv'
      <4>1. h \notin drifted' /\ ~failed' => pos'[h] = IF b.slot # 0 THEN Slot(h).cursor ELSE b.cursor
        BY <1>9, <2>1, <2>2 DEF Mirrored
      <4>2. h \notin drifted' /\ Mirrored(h) => b.bytes = open_files[h].bytes
        BY <2>1
      <4> QED
        BY <1>1, <1>5, <1>9, <1>12, <2>1, <3>1, <4>1, <4>2, RecordMoved
    <3>4. Wrote(h, data, b)
      BY <1>6, <1>9, <1>12, <3>1, <3>2 DEF Wrote
    <3> QED
      BY <3>2, <3>3, <3>4
  <2> QED
    BY <2>3, <2>4
<1> QED
  BY <1>1, <1>8, <1>10, <1>11, <1>12

\* Nothing happens to the handles.
LEMMA HandlesKept ==
  ASSUME HandlesInv, MirrorInv,
         open_files' = open_files, opened' = opened, table' = table, arena' = arena,
         arena_next' = arena_next, pos' = pos, drifted' = drifted, failed' = failed, overrun' = overrun
  PROVE  HandlesInv' /\ MirrorInv' /\ KeptFiles
<1>1. HandlesInv' /\ KeptFiles
  BY DEF HandlesInv, KeptFiles
<1>2. TableInv'
  BY DEF MirrorInv, TableInv, Mirrored, Slot
<1>3. \A h \in DOMAIN open_files : ExactOf(h)' <=> ExactOf(h)
  BY DEF ExactOf, Mirrored, Slot, NextRead
<1> QED
  BY <1>1, <1>2, <1>3 DEF MirrorInv

\* What SetEndOfFile makes of the file of h.
Ended(h) ==
  LET f == open_files[h] IN
  /\ SameFiles(disk, disk', {f.host}) /\ VirtualElse(f.path)
  /\ DOMAIN open_files' = DOMAIN open_files
  /\ \A x \in DOMAIN open_files : x # h => open_files'[x] = open_files[x]
  /\ open_files'[h].path = f.path /\ open_files'[h].host = f.host
  /\ open_files'[h].streaming = f.streaming
  /\ ~f.streaming => open_files'[h].bytes = Resize(f.bytes, f.cursor)
  /\ f.host # NoHost /\ disk[f.host].kind = "file" =>
       disk'[f.host] = File(Resize(IF f.streaming THEN disk[f.host].bytes ELSE f.bytes, f.cursor))

\* SetEndOfFile.
LEMMA EndStep ==
  ASSUME NamesInv, HandlesInv, MirrorInv, NEW h \in DOMAIN open_files, set_end_of_file(h)
  PROVE  NamesInv' /\ HandlesInv' /\ MirrorInv' /\ Ended(h)
<1> DEFINE f == open_files[h]
           r == Resize(f.bytes, f.cursor)
           g == [f EXCEPT !.bytes = r]
<1>1. /\ IF f.streaming
           THEN /\ disk' = IF disk[f.host].kind = "file"
                             THEN [disk EXCEPT ![f.host].bytes = Resize(@, f.cursor)] ELSE disk
                /\ open_files' = open_files /\ virtual_files' = virtual_files /\ drifted' = drifted
           ELSE /\ open_files' = [open_files EXCEPT ![h] = [f EXCEPT !.bytes = Resize(@, f.cursor)]]
                /\ virtual_files' = sync_open_bytes_to_virtual([f EXCEPT !.bytes = Resize(@, f.cursor)])
                /\ disk' = persist_open_file_to_host([f EXCEPT !.bytes = Resize(@, f.cursor)])
                /\ Drift(h, [f EXCEPT !.bytes = Resize(@, f.cursor)], table)
      /\ cwd' = cwd /\ opened' = opened /\ table' = table /\ arena' = arena
      /\ arena_next' = arena_next /\ failed' = failed /\ pos' = pos /\ overrun' = overrun
  BY DEF set_end_of_file
<1>2. /\ RecordOf(f) /\ DiskOf(disk) /\ VirtualOf(virtual_files) /\ cwd \in Dirs
      /\ pos \in [DOMAIN open_files -> Nat]
  BY DEF HandlesInv, NamesInv
<1>3. /\ f.bytes \in Bytes /\ f.cursor \in Nat
      /\ f.host # NoHost => f.host \in HostPaths /\ Len(f.host) > 1
      /\ f.streaming => f.host # NoHost /\ f.slot = 0
  BY <1>2, RecordFacts
<1>4. /\ r \in Bytes /\ Len(r) = f.cursor /\ (f.cursor = Len(f.bytes) => r = f.bytes)
  BY <1>3, ResizeFacts
<1>5. [f EXCEPT !.bytes = Resize(@, f.cursor)] = g
  OBVIOUS
<1>6. r = Resize(f.bytes, f.cursor)
  OBVIOUS
<1> HIDE DEF r
<1>7. /\ RecordOf(g) /\ g.cursor = f.cursor /\ g.bytes = r /\ g.slot = f.slot
      /\ g.data = f.data /\ g.path = f.path /\ g.host = f.host
      /\ g.streaming = f.streaming
  BY <1>2, <1>4, RecordBytes
<1> HIDE DEF g
<1>8. CASE f.streaming
  <2>1. open_files' = open_files /\ virtual_files' = virtual_files /\ drifted' = drifted
    BY <1>1, <1>8
  <2>2. HandlesInv' /\ MirrorInv'
    BY <1>1, <2>1, HandlesKept
  <2>3. VirtualElse(f.path)
    BY <2>1, VirtualWith
  <2>4. /\ DiskOf(disk') /\ SameFiles(disk, disk', {f.host})
        /\ disk[f.host].kind = "file" => disk'[f.host] = File(Resize(disk[f.host].bytes, f.cursor))
    <3>1. CASE disk[f.host].kind = "file"
      <4> DEFINE w == Resize(disk[f.host].bytes, f.cursor)
                 k == f.host
      <4>1. disk' = [disk EXCEPT ![k].bytes = w] /\ k \in HostPaths
        BY <1>1, <1>3, <1>8, <3>1
      <4>2. disk[k] \in Node /\ disk[k].bytes \in Bytes /\ DOMAIN disk = HostPaths
        BY <1>2, <4>1 DEF DiskOf, Node
      <4>3. w \in Bytes
        BY <1>3, <4>2, ResizeFacts
      <4> HIDE DEF w, k
      <4>4. [disk[k] EXCEPT !.bytes = w] = File(w)
        BY <3>1, <4>2 DEF Node, File, k
      <4>5. disk' = [disk EXCEPT ![k] = File(w)]
        BY <4>1, <4>4
      <4>6. DiskOf(disk') /\ disk'[k] = File(w) /\ SameFiles(disk, disk', {k})
        <5>1. disk[k].kind = "file"
          BY <3>1 DEF k
        <5> QED
          BY <1>2, <4>1, <4>3, <4>5, <5>1, CutFacts, ZenonT(40)
      <4> QED
        BY <4>6 DEF w, k
    <3>2. CASE disk[f.host].kind # "file"
      BY <1>1, <1>2, <1>8, <3>2 DEF SameFiles
    <3> QED
      BY <3>1, <3>2
  <2>5. NamesInv'
    BY <1>1, <1>2, <2>1, <2>4 DEF NamesInv
  <2>6. Ended(h)
    BY <1>8, <2>1, <2>3, <2>4 DEF Ended
  <2> QED
    BY <2>2, <2>5, <2>6
<1>9. CASE ~f.streaming
  <2>1. /\ open_files' = [open_files EXCEPT ![h] = g] /\ virtual_files' = sync_open_bytes_to_virtual(g)
        /\ disk' = persist_open_file_to_host(g) /\ Drift(h, g, table)
    BY <1>1, <1>5, <1>9
  <2>2. /\ DiskOf(disk') /\ SameFiles(disk, disk', {f.host})
        /\ f.host # NoHost /\ disk[f.host].kind = "file" => disk'[f.host] = File(r)
    BY <1>2, <1>7, <1>9, <2>1, PersistFacts
  <2>3. VirtualOf(virtual_files')
    BY <1>2, <1>7, <2>1, VirtualFacts
  <2>4. VirtualElse(f.path)
    <3>1. virtual_files' = virtual_files \/ virtual_files' = With(virtual_files, f.path, r)
      BY <1>7, <2>1 DEF sync_open_bytes_to_virtual
    <3> QED
      BY <3>1, VirtualWith
  <2>5. /\ drifted \subseteq drifted'
        /\ h \notin drifted' /\ Mirrored(h) => /\ Slot(h).cursor = f.cursor /\ Slot(h).size = Len(f.bytes)
                                               /\ g.slot # 0 => table[g.slot].size = Len(g.bytes)
    BY <2>1, DriftFacts
  <2>6. h \notin drifted' /\ Mirrored(h) => g.bytes = f.bytes
    BY <1>4, <1>7, <2>5 DEF Mirrored, Slot
  <2>7. h \notin drifted' /\ ~failed => f.cursor = pos[h]
    BY <2>1, CursorExact
  <2>8. h \notin drifted' /\ ~failed' => pos'[h] = IF g.slot # 0 THEN Slot(h).cursor ELSE g.cursor
    BY <1>1, <1>7, <2>5, <2>7 DEF Mirrored
  <2>9. HandlesInv' /\ MirrorInv'
    BY <1>1, <1>2, <1>7, <2>1, <2>5, <2>6, <2>8, RecordMoved
  <2>10. NamesInv'
    BY <1>1, <1>2, <2>2, <2>3 DEF NamesInv
  <2>11. /\ DOMAIN open_files' = DOMAIN open_files /\ open_files'[h] = g
         /\ \A x \in DOMAIN open_files : x # h => open_files'[x] = open_files[x]
    BY <2>1
  <2>12. Ended(h)
    BY <1>6, <1>7, <1>9, <2>2, <2>4, <2>11 DEF Ended
  <2> QED
    BY <2>9, <2>10, <2>12
<1> QED
  BY <1>8, <1>9

\* FlushFileBuffers.
LEMMA FlushStep ==
  ASSUME NamesInv, HandlesInv, MirrorInv, NEW h \in DOMAIN open_files, flush_file_buffers(h)
  PROVE  /\ NamesInv' /\ HandlesInv' /\ MirrorInv' /\ KeptFiles
         /\ SameFiles(disk, disk', {open_files[h].host}) /\ virtual_files' = virtual_files
         /\ disk' = persist_open_file_to_host(open_files[h])
<1>1. /\ disk' = persist_open_file_to_host(open_files[h])
      /\ open_files' = open_files /\ opened' = opened /\ table' = table /\ arena' = arena
      /\ arena_next' = arena_next /\ pos' = pos /\ drifted' = drifted /\ failed' = failed
      /\ overrun' = overrun /\ virtual_files' = virtual_files /\ cwd' = cwd
  BY DEF flush_file_buffers, handleVars
<1>2. RecordOf(open_files[h]) /\ DiskOf(disk)
  BY DEF HandlesInv, NamesInv
<1>3. DiskOf(disk') /\ SameFiles(disk, disk', {open_files[h].host})
  BY <1>1, <1>2, PersistFacts
<1>4. HandlesInv' /\ MirrorInv' /\ KeptFiles
  BY <1>1, HandlesKept
<1> QED
  BY <1>1, <1>3, <1>4 DEF NamesInv

---------------------------------------------------------------------------
(* One file, whatever holds it *)

\* What holds the file of q stays as it is.
FileKept(q) ==
  /\ host_path_of(q) # NoHost =>
       LET k == host_path_of(q) IN
       disk[k].kind = "file" \/ disk'[k].kind = "file" => disk'[k] = disk[k]
  /\ q \in DOMAIN virtual_files' <=> q \in DOMAIN virtual_files
  /\ q \in DOMAIN virtual_files => virtual_files'[q] = virtual_files[q]
  /\ HandlesOn(q)' = HandlesOn(q)
  /\ \A h \in HandlesOn(q) :
       /\ open_files'[h].bytes = open_files[h].bytes /\ open_files'[h].host = open_files[h].host
       /\ open_files'[h].streaming = open_files[h].streaming
       /\ h \in dirty' <=> h \in dirty
  /\ content'[q] = content[q]

\* Then it is still one file.
LEMMA FileStays ==
  ASSUME NamesInv, NamesInv', HandlesInv, NEW q \in Paths, Plain(q), FileOf(q), FileKept(q)
  PROVE  FileOf(q)'
<1> DEFINE k == host_path_of(q)
<1>1. /\ k \in HostPaths \cup {NoHost}
      /\ Head(q) \in Volumes => k = q
      /\ Head(q) \notin Volumes /\ q \in Mounted => k = MountFile(q)
      /\ k = NoHost <=> Head(q) \notin Volumes /\ q \notin Mounted
  BY HostPathOf
<1>2. k # NoHost => (disk[k].kind = "file" \/ disk'[k].kind = "file" => disk'[k] = disk[k])
  BY DEF FileKept
<1> HIDE DEF k
<1>3. /\ q \in DOMAIN virtual_files' <=> q \in DOMAIN virtual_files
      /\ q \in DOMAIN virtual_files => virtual_files'[q] = virtual_files[q]
      /\ HandlesOn(q)' = HandlesOn(q) /\ content'[q] = content[q]
  BY DEF FileKept
<1>4. ~is_main_module_path(q) /\ ~(q \in Mounted /\ Head(q) \in Volumes)
  BY DEF Plain
<1>5. Loaded(disk', virtual_files', q) = Loaded(disk, virtual_files, q)
  <2>1. CASE q \in Mounted
    <3>1. disk[MountFile(q)].kind = "file" /\ k = MountFile(q) /\ k # NoHost
      BY <1>1, <1>4, <2>1 DEF NamesInv, DiskOf
    <3> QED
      BY <1>2, <2>1, <3>1 DEF Loaded
  <2>2. CASE q \notin Mounted /\ Head(q) \in Volumes
    <3>1. k = q /\ k # NoHost
      BY <1>1, <2>2
    <3> QED
      BY <1>2, <2>2, <3>1 DEF Loaded
  <2>3. CASE q \notin Mounted /\ Head(q) \notin Volumes
    BY <1>3, <2>3 DEF Loaded
  <2> QED
    BY <2>1, <2>2, <2>3
<1>6. resolve_guest_file_bytes(q)' = resolve_guest_file_bytes(q)
  BY <1>4, <1>5, ResolveNow, ResolveNext
<1>7. ASSUME NEW h \in HandlesOn(q) PROVE HandleOn(q, h)'
  <2>1. h \in DOMAIN open_files /\ open_files[h].path = q /\ HandleOn(q, h)
    BY DEF HandlesOn, FileOf
  <2>2. RecordOf(open_files[h])
    BY <2>1 DEF HandlesInv
  <2>3. open_files[h].host = k /\ (open_files[h].streaming => k # NoHost)
    BY <2>1, <2>2, RecordFacts DEF k
  <2>4. /\ open_files'[h].bytes = open_files[h].bytes /\ open_files'[h].host = open_files[h].host
        /\ open_files'[h].streaming = open_files[h].streaming
        /\ h \in dirty' <=> h \in dirty
    BY DEF FileKept
  <2>5. k # NoHost => disk[k].kind = "file" /\ disk'[k] = disk[k]
    BY <1>2, <2>1, <2>3 DEF HandleOn
  <2> QED
    BY <1>3, <2>1, <2>3, <2>4, <2>5 DEF HandleOn
<1>8. (HandlesOn(q) = {})' => resolve_guest_file_bytes(q)' = content'[q]
  BY <1>3, <1>6 DEF FileOf
<1>9. \A g, h \in HandlesOn(q)' : g = h
  BY <1>3 DEF FileOf
<1> QED
  BY <1>3, <1>7, <1>8, <1>9 DEF FileOf

\* A handler that is about the files of P.
LEMMA ContentStep ==
  ASSUME NamesInv, NamesInv', HandlesInv, ContentInv, NEW P,
         \A q \in Paths \ P : FileKept(q) /\ (q \in shared' <=> q \in shared),
         content' \in [Paths -> Node], shared' \subseteq Paths,
         \A q \in P \cap Paths : /\ q \in shared' => (HandlesOn(q) # {})'
                                 /\ q \notin shared' /\ Plain(q) => FileOf(q)'
  PROVE  ContentInv'
<1>1. ASSUME NEW q \in shared' PROVE (HandlesOn(q) # {})'
  <2>1. CASE q \in P
    BY <2>1
  <2>2. CASE q \notin P
    <3>1. FileKept(q) /\ q \in shared
      BY <2>2
    <3>2. HandlesOn(q) # {} /\ HandlesOn(q)' = HandlesOn(q)
      BY <3>1 DEF ContentInv, FileKept
    <3> QED
      BY <3>2
  <2> QED
    BY <2>1, <2>2
<1>2. ASSUME NEW q \in Paths \ shared', Plain(q) PROVE FileOf(q)'
  <2>1. CASE q \in P
    BY <1>2, <2>1
  <2>2. CASE q \notin P
    <3>1. FileKept(q) /\ q \notin shared
      BY <2>2
    <3>2. FileOf(q)
      BY <1>2, <3>1 DEF ContentInv
    <3> QED
      BY <1>2, <3>1, <3>2, FileStays
  <2> QED
    BY <2>1, <2>2
<1> QED
  BY <1>1, <1>2 DEF ContentInv

\* A handler that is about the handle h, on the path p.
HandleElse(p, h) ==
  /\ DOMAIN open_files' \ {h} = DOMAIN open_files \ {h}
  /\ h \in DOMAIN open_files => open_files[h].path = p
  /\ h \in DOMAIN open_files' => open_files'[h].path = p
  /\ \A x \in DOMAIN open_files \ {h} :
       /\ open_files'[x].path = open_files[x].path /\ open_files'[x].bytes = open_files[x].bytes
       /\ open_files'[x].host = open_files[x].host
       /\ open_files'[x].streaming = open_files[x].streaming
       /\ x \in dirty' <=> x \in dirty

\* It leaves the files of other paths alone.
LEMMA ElsewhereKept ==
  ASSUME NEW p \in Paths, NEW h, SameFiles(disk, disk', {host_path_of(p)}), VirtualElse(p),
         HandleElse(p, h), NEW q \in Paths, q # p, content'[q] = content[q]
  PROVE  FileKept(q)
<1>1. HandlesOn(q)' = HandlesOn(q)
  <2>1. \A x : x \in HandlesOn(q)' <=> x \in DOMAIN open_files' /\ open_files'[x].path = q
    BY DEF HandlesOn
  <2>2. \A x : x \in HandlesOn(q) <=> x \in DOMAIN open_files /\ open_files[x].path = q
    BY DEF HandlesOn
  <2>3. \A x : x \in HandlesOn(q)' <=> x \in HandlesOn(q)
    BY <2>1, <2>2 DEF HandleElse
  <2> QED
    BY <2>3
<1>2. \A x \in HandlesOn(q) :
       /\ open_files'[x].bytes = open_files[x].bytes /\ open_files'[x].host = open_files[x].host
       /\ open_files'[x].streaming = open_files[x].streaming
       /\ x \in dirty' <=> x \in dirty
  BY DEF HandlesOn, HandleElse
<1>3. ASSUME host_path_of(q) # NoHost
      PROVE  LET k == host_path_of(q) IN
             disk[k].kind = "file" \/ disk'[k].kind = "file" => disk'[k] = disk[k]
  <2> DEFINE k == host_path_of(q)
  <2>1. k \in HostPaths
    BY <1>3, HostPathOf
  <2>2. k # host_path_of(p)
    BY <1>3, HostPathsDiffer
  <2> HIDE DEF k
  <2>3. disk[k].kind = "file" \/ disk'[k].kind = "file" => disk'[k] = disk[k]
    BY <2>1, <2>2 DEF SameFiles
  <2> QED
    BY <2>3 DEF k
<1> QED
  BY <1>1, <1>2, <1>3 DEF FileKept, VirtualElse

\* A handler that is about one path, p, and one handle on it, h.
LEMMA ContentOne ==
  ASSUME NamesInv, NamesInv', HandlesInv, ContentInv, NEW p \in Paths, NEW h,
         SameFiles(disk, disk', {host_path_of(p)}), VirtualElse(p), HandleElse(p, h),
         \A q \in Paths : q # p => content'[q] = content[q] /\ (q \in shared' <=> q \in shared),
         content' \in [Paths -> Node], shared' \subseteq Paths,
         p \in shared' => (HandlesOn(p) # {})',
         p \notin shared' /\ Plain(p) => FileOf(p)'
  PROVE  ContentInv'
<1>1. ASSUME NEW q \in Paths \ {p} PROVE FileKept(q) /\ (q \in shared' <=> q \in shared)
  BY ElsewhereKept
<1>2. \A q \in {p} \cap Paths : /\ q \in shared' => (HandlesOn(q) # {})'
                                /\ q \notin shared' /\ Plain(q) => FileOf(q)'
  OBVIOUS
<1> QED
  BY <1>1, <1>2, ContentStep

\* A handler that changes no file.
LEMMA ContentSame ==
  ASSUME NamesInv, NamesInv', HandlesInv, ContentInv, SameFiles(disk, disk', {}), KeptFiles,
         virtual_files' = virtual_files, dirty' = dirty, content' = content, shared' = shared
  PROVE  ContentInv'
<1>1. ASSUME NEW q \in Paths PROVE FileKept(q)
  <2>1. HandlesOn(q)' = HandlesOn(q)
    BY DEF HandlesOn, KeptFiles
  <2>2. \A x \in HandlesOn(q) :
       /\ open_files'[x].bytes = open_files[x].bytes /\ open_files'[x].host = open_files[x].host
       /\ open_files'[x].streaming = open_files[x].streaming
       /\ x \in dirty' <=> x \in dirty
    BY DEF HandlesOn, KeptFiles
  <2> DEFINE k == host_path_of(q)
  <2>3. k # NoHost => k \in HostPaths
    BY HostPathOf
  <2> HIDE DEF k
  <2>4. k # NoHost => (disk[k].kind = "file" \/ disk'[k].kind = "file" => disk'[k] = disk[k])
    BY <2>3 DEF SameFiles
  <2> QED
    BY <2>1, <2>2, <2>4 DEF FileKept, k
<1>2. content' \in [Paths -> Node] /\ shared' \subseteq Paths
  BY DEF ContentInv
<1> QED
  BY <1>1, <1>2, ContentStep

\* One handle on p.
LEMMA FileOne ==
  ASSUME NEW p, NEW h, h \in DOMAIN open_files', open_files'[h].path = p,
         \A x \in DOMAIN open_files' : open_files'[x].path = p => x = h, HandleOn(p, h)'
  PROVE  FileOf(p)'
<1>1. HandlesOn(p)' = {h}
  BY DEF HandlesOn
<1> QED
  BY <1>1 DEF FileOf

\* The one handle of a file that is not shared.
LEMMA TheHandle ==
  ASSUME ContentInv, NEW p \in Paths \ shared, Plain(p), NEW h \in DOMAIN open_files, open_files[h].path = p
  PROVE  /\ HandlesOn(p) = {h} /\ HandleOn(p, h)
         /\ \A x \in DOMAIN open_files : open_files[x].path = p => x = h
<1>1. FileOf(p) /\ h \in HandlesOn(p)
  BY DEF ContentInv, HandlesOn
<1>2. \A x \in HandlesOn(p) : x = h
  BY <1>1 DEF FileOf
<1> QED
  BY <1>1, <1>2 DEF FileOf, HandlesOn

\* An empty file.
LEMMA EmptyFile == File(<<>>) \in Node /\ File(<<>>).kind = "file"
<1>1. <<>> \in Bytes
  BY DEF Bytes
<1> QED
  BY <1>1, NodesTyped

\* CreateFile.
LEMMA OpenContent ==
  ASSUME NamesInv, HandlesInv, TableInv, ContentInv, NEW in \in Inputs, NEW disposition,
         open_or_create_guest_path(in, disposition)
  PROVE  ContentInv'
<1>1. /\ Full(in) \in Paths /\ NamesInv' /\ HandlesInv'
      /\ \E f : Opened(Full(in), f)
  BY OpenFacts
<1>2. PICK p \in Paths : p = Full(in)
  BY <1>1
<1>3. PICK h : h = opened + 1
  OBVIOUS
<1>4. PICK f : Opened(p, f)
  BY <1>1, <1>2
<1>5. /\ RecordOf(f) /\ f.path = p
      /\ opened' = opened + 1 /\ pos' = With(pos, opened + 1, 0)
      /\ SameFiles(disk, disk', {f.host}) /\ VirtualElse(p)
      /\ (\E t \in BOOLEAN : FoundFile(p, f, t)) \/ NewFile(p, f)
  BY <1>4 DEF Opened
<1>6. PICK g : Registered(h, f, g)
  BY <1>3, <1>4 DEF Opened
<1>7. /\ open_files' = With(open_files, opened + 1, g) /\ RecordOf(g)
      /\ g.path = p /\ g.bytes = f.bytes /\ g.host = f.host /\ g.streaming = f.streaming
  BY <1>3, <1>5, <1>6 DEF Registered
<1>8. /\ h \notin DOMAIN open_files
      /\ DOMAIN open_files' = DOMAIN open_files \cup {h}
      /\ open_files'[h] = g
      /\ \A x \in DOMAIN open_files : open_files'[x] = open_files[x]
  BY <1>3, <1>5, <1>7, HandleAdded
<1>9. /\ f.bytes \in Bytes /\ f.host = host_path_of(p) /\ f.streaming \in BOOLEAN
      /\ f.streaming => f.host # NoHost
      /\ f.host # NoHost => f.host \in HostPaths
      /\ f.host = NoHost <=> Head(p) \notin Volumes /\ p \notin Mounted
  BY <1>5, RecordFacts
<1>10. shared' = IF HandlesOn(p) # {} THEN shared \cup {p} ELSE shared
  BY <1>2 DEF open_or_create_guest_path
<1>11. dirty' \in {dirty, dirty \cup {h}}
  BY <1>3, <1>5 DEF FoundFile, NewFile
<1>12. HandleElse(p, h)
  BY <1>7, <1>8, <1>11 DEF HandleElse
<1>13. /\ content' \in {content, [content EXCEPT ![p] = File(<<>>)]}
       /\ content \in [Paths -> Node] /\ shared \subseteq Paths
  BY <1>5 DEF FoundFile, NewFile, ContentInv
<1>14. File(<<>>) \in Node /\ File(<<>>).kind = "file"
  BY EmptyFile
<1>15. /\ content' \in [Paths -> Node] /\ shared' \subseteq Paths
       /\ \A q \in Paths : q # p => content'[q] = content[q] /\ (q \in shared' <=> q \in shared)
  BY <1>10, <1>13, <1>14
<1>16. (HandlesOn(p) # {})'
  BY <1>7, <1>8 DEF HandlesOn
<1>17. ASSUME p \notin shared', Plain(p) PROVE FileOf(p)'
  <2>1. HandlesOn(p) = {} /\ p \notin shared
    BY <1>10, <1>17
  <2>2. resolve_guest_file_bytes(p) = content[p]
    BY <1>17, <2>1 DEF ContentInv, FileOf
  <2>3. ~is_main_module_path(p) /\ ~(p \in Mounted /\ Head(p) \in Volumes)
    BY <1>17 DEF Plain
  <2>4. HandleOn(p, h)'
    <3>1. CASE \E t \in BOOLEAN : FoundFile(p, f, t)
      <4>1. PICK t \in BOOLEAN : FoundFile(p, f, t)
        BY <3>1
      <4>2. /\ content[p].kind = "file" /\ content[p] \in Node
            /\ content'[p] = IF t THEN File(<<>>) ELSE content[p]
        BY <1>13, <2>2, <4>1 DEF FoundFile
      <4>3. f.host # NoHost => disk[f.host] = content[p]
        <5>1. content[p] = Loaded(disk, virtual_files, p)
          BY <2>2, <2>3, ResolveNow
        <5>2. /\ Head(p) \in Volumes => host_path_of(p) = p
              /\ Head(p) \notin Volumes /\ p \in Mounted => host_path_of(p) = MountFile(p)
          BY HostPathOf
        <5> QED
          BY <1>9, <2>3, <4>2, <5>1, <5>2, NodesTyped DEF Loaded
      <4>4. CASE f.streaming
        <5>1. disk'[f.host] = content'[p]
          BY <4>1, <4>2, <4>3, <4>4, <1>9 DEF FoundFile
        <5> QED
          BY <1>7, <1>8, <1>9, <1>14, <4>2, <4>4, <5>1 DEF HandleOn
      <4>5. CASE ~f.streaming
        <5>1. /\ disk' = disk /\ f.bytes = IF t THEN <<>> ELSE content[p].bytes
              /\ t => h \in dirty'
          BY <1>3, <2>2, <4>1, <4>5 DEF FoundFile
        <5>2. File(f.bytes) = content'[p] /\ content'[p].kind = "file"
          BY <1>14, <4>2, <5>1, NodesTyped
        <5>3. h \notin dirty' => content'[p] = content[p]
          BY <4>2, <5>1
        <5> QED
          BY <1>7, <1>8, <4>2, <4>3, <4>5, <5>1, <5>2, <5>3 DEF HandleOn
      <4> QED
        BY <4>4, <4>5
    <3>2. CASE NewFile(p, f)
      <4>1. /\ content'[p] = File(<<>>) /\ f.bytes = <<>>
            /\ f.host # NoHost => f.streaming /\ disk'[f.host] = File(<<>>)
        BY <1>13, <3>2 DEF NewFile
      <4> QED
        BY <1>7, <1>8, <1>9, <1>14, <4>1 DEF HandleOn
    <3> QED
      BY <1>5, <3>1, <3>2
  <2>5. \A x \in DOMAIN open_files' : open_files'[x].path = p => x = h
    BY <1>8, <2>1 DEF HandlesOn
  <2> QED
    BY <1>7, <1>8, <2>4, <2>5, FileOne
<1>18. SameFiles(disk, disk', {host_path_of(p)})
  BY <1>5, <1>9
<1> QED
  BY <1>1, <1>5, <1>12, <1>15, <1>16, <1>17, <1>18, ContentOne

\* CloseHandle.
LEMMA CloseContent ==
  ASSUME NamesInv, HandlesInv, MirrorInv, ContentInv, NEW h \in DOMAIN open_files, close_handle(h)
  PROVE  ContentInv'
<1>1. /\ NamesInv' /\ SameFiles(disk, disk', {open_files[h].host}) /\ VirtualElse(open_files[h].path)
  BY CloseStep
<1>2. RecordOf(open_files[h])
  BY DEF HandlesInv
<1>3. PICK p \in Paths : p = open_files[h].path
  BY <1>2, RecordFacts
<1> DEFINE f == open_files[h]
<1>4. /\ f.bytes \in Bytes /\ f.host = host_path_of(p) /\ f.streaming \in BOOLEAN
      /\ f.streaming => f.host # NoHost
      /\ f.host # NoHost => f.host \in HostPaths
      /\ f.host = NoHost <=> Head(p) \notin Volumes /\ p \notin Mounted
  BY <1>2, <1>3, RecordFacts
<1>5. /\ virtual_files' = sync_open_bytes_to_virtual(f) /\ disk' = persist_open_file_to_host(f)
      /\ open_files' = Without(open_files, h) /\ dirty' = dirty \ {h}
      /\ IF HandlesOn(p) = {h} /\ p \in shared
           THEN /\ shared' = shared \ {p}
                /\ content' = [content EXCEPT ![p] = resolve_guest_file_bytes(p)']
           ELSE shared' = shared /\ content' = content
  BY <1>3 DEF close_handle
<1>6. /\ DOMAIN open_files' = DOMAIN open_files \ {h}
      /\ \A x \in DOMAIN open_files' : open_files'[x] = open_files[x]
  BY <1>5 DEF Without
<1>7. HandleElse(p, h)
  BY <1>3, <1>5, <1>6 DEF HandleElse
<1>8. content \in [Paths -> Node] /\ shared \subseteq Paths
  BY DEF ContentInv
<1>9. resolve_guest_file_bytes(p)' \in Node
  BY <1>1, ResolveNext
<1>10. /\ content' \in [Paths -> Node] /\ shared' \subseteq Paths
       /\ \A q \in Paths : q # p => content'[q] = content[q] /\ (q \in shared' <=> q \in shared)
  BY <1>5, <1>8, <1>9
<1>11. h \in HandlesOn(p)
  BY <1>3 DEF HandlesOn
<1>12. HandlesOn(p)' = HandlesOn(p) \ {h}
  BY <1>6 DEF HandlesOn
<1>13. p \in shared' => (HandlesOn(p) # {})'
  <2>1. p \in shared' => HandlesOn(p) # {h}
    BY <1>5
  <2> QED
    BY <1>11, <1>12, <2>1
<1>14. ASSUME p \notin shared', Plain(p) PROVE FileOf(p)'
  <2>1. CASE p \in shared
    <3>1. HandlesOn(p) = {h} /\ content'[p] = resolve_guest_file_bytes(p)'
      BY <1>5, <1>8, <1>14, <2>1
    <3>2. HandlesOn(p)' = {}
      BY <1>12, <3>1
    <3> QED
      BY <3>1, <3>2 DEF FileOf
  <2>2. CASE p \notin shared
    <3>1. HandlesOn(p) = {h} /\ HandleOn(p, h)
      BY <1>3, <1>14, <2>2, TheHandle
    <3>2. HandlesOn(p)' = {} /\ content' = content
      BY <1>5, <1>12, <2>2, <3>1
    <3>3. ~is_main_module_path(p) /\ ~(p \in Mounted /\ Head(p) \in Volumes)
      BY <1>14 DEF Plain
    <3>4. /\ content[p].kind = "file" /\ (f.host # NoHost => disk[f.host].kind = "file")
          /\ (IF f.streaming THEN disk[f.host] ELSE File(f.bytes)) = content[p]
      BY <3>1 DEF HandleOn
    <3>5. f.host # NoHost => disk'[f.host] = content[p]
      <4>1. CASE f.streaming
        <5>1. disk' = disk
          BY <1>2, <1>5, <4>1, PersistFacts DEF NamesInv
        <5> QED
          BY <3>4, <4>1, <5>1
      <4>2. CASE ~f.streaming
        BY <1>2, <1>5, <3>4, <4>2, PersistFacts DEF NamesInv
      <4> QED
        BY <4>1, <4>2
    <3>6. f.host = NoHost => p \in DOMAIN virtual_files' /\ File(virtual_files'[p]) = content[p]
      <4>1. ASSUME f.host = NoHost PROVE virtual_files' = With(virtual_files, p, f.bytes) /\ ~f.streaming
        BY <1>2, <1>3, <1>4, <1>5, <3>3, <4>1, VirtualFacts DEF NamesInv
      <4>2. p \in DOMAIN With(virtual_files, p, f.bytes) /\ With(virtual_files, p, f.bytes)[p] = f.bytes
        BY DEF With
      <4> QED
        BY <3>4, <4>1, <4>2
    <3>7. Loaded(disk', virtual_files', p) = content[p]
      <4>1. /\ Head(p) \in Volumes => host_path_of(p) = p
            /\ Head(p) \notin Volumes /\ p \in Mounted => host_path_of(p) = MountFile(p)
        BY HostPathOf
      <4> QED
        BY <1>4, <3>3, <3>4, <3>5, <3>6, <4>1 DEF Loaded
    <3>8. resolve_guest_file_bytes(p)' = content'[p]
      BY <1>1, <3>2, <3>3, <3>7, ResolveNext
    <3> QED
      BY <3>2, <3>8 DEF FileOf
  <2> QED
    BY <2>1, <2>2
<1>15. SameFiles(disk, disk', {host_path_of(p)}) /\ VirtualElse(p)
  BY <1>1, <1>3, <1>4
<1> QED
  BY <1>1, <1>7, <1>10, <1>13, <1>14, <1>15, ContentOne

\* The handler keeps the one handle of a path that is not shared.
LEMMA StillOne ==
  ASSUME ContentInv, NEW p \in Paths \ shared, Plain(p), NEW h \in DOMAIN open_files,
         open_files[h].path = p, HandleElse(p, h), h \in DOMAIN open_files', HandleOn(p, h)'
  PROVE  FileOf(p)'
<1>1. \A x \in DOMAIN open_files : open_files[x].path = p => x = h
  BY TheHandle
<1>2. \A x \in DOMAIN open_files' : open_files'[x].path = p => x = h
  BY <1>1 DEF HandleElse
<1>3. open_files'[h].path = p
  BY DEF HandleElse
<1> QED
  BY <1>2, <1>3, FileOne

\* The file a handle is on, and what is known of it.
LEMMA OnFile ==
  ASSUME HandlesInv, ContentInv, NEW h \in DOMAIN open_files, NEW p, p = open_files[h].path
  PROVE  /\ p \in Paths /\ RecordOf(open_files[h]) /\ content[p] \in Node
         /\ open_files[h].host = host_path_of(p)
         /\ open_files[h].host # NoHost => open_files[h].host \in HostPaths /\ Len(open_files[h].host) > 1
         /\ open_files[h].streaming => open_files[h].host # NoHost
         /\ open_files[h].bytes \in Bytes /\ open_files[h].cursor \in Nat
<1>1. RecordOf(open_files[h])
  BY DEF HandlesInv
<1> QED
  BY <1>1, RecordFacts DEF ContentInv

\* WriteFile.
LEMMA WriteContent ==
  ASSUME NamesInv, HandlesInv, MirrorInv, ContentInv, NEW h \in DOMAIN open_files, NEW data \in Data,
         write_file(h, data)
  PROVE  ContentInv'
<1>1. NamesInv' /\ HandlesInv'
  BY WriteStep
<1>2. PICK g : Wrote(h, data, g)
  BY WriteStep
<1>3. PICK p : p = open_files[h].path
  OBVIOUS
<1> DEFINE f == open_files[h]
<1>4. /\ p \in Paths /\ RecordOf(f) /\ content[p] \in Node /\ f.host = host_path_of(p)
      /\ f.host # NoHost => f.host \in HostPaths /\ Len(f.host) > 1
      /\ f.streaming => f.host # NoHost
      /\ f.bytes \in Bytes /\ f.cursor \in Nat
  BY <1>3, OnFile
<1>5. /\ content' = [content EXCEPT ![p] = File(Overlay(@.bytes, f.cursor, data))]
      /\ shared' = shared /\ virtual_files' = virtual_files
  BY <1>3 DEF write_file
<1>6. content \in [Paths -> Node] /\ shared \subseteq Paths
  BY DEF ContentInv
<1> DEFINE o == Overlay(content[p].bytes, f.cursor, data)
<1>7. o \in Bytes
  <2>1. content[p].bytes \in Bytes
    BY <1>4 DEF Node
  <2> QED
    BY <1>4, <2>1, DataFacts, OverlayFacts
<1>8. File(o) \in Node /\ File(o).kind = "file"
  BY <1>7, NodesTyped
<1>9. content' = [content EXCEPT ![p] = File(o)]
  BY <1>4, <1>5, <1>6
<1>10. o = Overlay(content[p].bytes, f.cursor, data)
  OBVIOUS
<1> HIDE DEF o
<1>11. /\ content' \in [Paths -> Node] /\ shared' \subseteq Paths /\ content'[p] = File(o)
       /\ \A q \in Paths : q # p => content'[q] = content[q] /\ (q \in shared' <=> q \in shared)
  BY <1>4, <1>5, <1>6, <1>8, <1>9
<1>12. /\ open_files' = [open_files EXCEPT ![h] = g]
       /\ RecordOf(g) /\ g.path = p /\ g.host = f.host
       /\ SameFiles(disk, disk', {f.host})
       /\ dirty' \in {dirty, dirty \cup {h}, dirty \ {h}}
  BY <1>2, <1>3 DEF Wrote
<1>13. /\ DOMAIN open_files' = DOMAIN open_files /\ open_files'[h] = g
       /\ \A x \in DOMAIN open_files : x # h => open_files'[x] = open_files[x]
  BY <1>12
<1>14. HandleElse(p, h)
  BY <1>3, <1>12, <1>13 DEF HandleElse
<1>15. p \in shared' => (HandlesOn(p) # {})'
  BY <1>12, <1>13 DEF HandlesOn
<1>16. ASSUME p \notin shared', Plain(p) PROVE FileOf(p)'
  <2>1. HandleOn(p, h)
    BY <1>3, <1>4, <1>5, <1>16, TheHandle
  <2>2. /\ content[p].kind = "file" /\ (f.host # NoHost => disk[f.host].kind = "file")
        /\ (IF f.streaming THEN disk[f.host] ELSE File(f.bytes)) = content[p]
    BY <2>1 DEF HandleOn
  <2>3. f.streaming => CanWriteAt(f.host)
    BY <1>4, <2>2, FileWritable DEF NamesInv
  <2>4. ~f.streaming => content[p].bytes = f.bytes
    BY <1>4, <2>2, NodesTyped
  <2>5. HandleOn(p, h)'
    <3>1. CASE /\ f.streaming /\ g.streaming /\ dirty' = dirty
               /\ disk'[f.host] = File(Overlay(disk[f.host].bytes, f.cursor, data))
      <4>1. disk'[f.host] = File(o)
        BY <1>10, <2>2, <3>1
      <4> QED
        BY <1>8, <1>11, <1>12, <1>13, <3>1, <4>1 DEF HandleOn
    <3>2. CASE /\ ~f.streaming /\ ~g.streaming /\ g.bytes = Overlay(f.bytes, f.cursor, data)
               /\ disk' = disk /\ dirty' = dirty \cup {h}
      <4>1. g.bytes = o
        BY <1>10, <2>4, <3>2
      <4> QED
        BY <1>8, <1>11, <1>12, <1>13, <2>2, <3>2, <4>1 DEF HandleOn
    <3>3. CASE /\ ~f.streaming /\ g.streaming /\ dirty' = dirty \ {h}
               /\ disk'[f.host] = File(Overlay(f.bytes, f.cursor, data))
      <4>1. disk'[f.host] = File(o)
        BY <1>10, <2>4, <3>3
      <4> QED
        BY <1>8, <1>11, <1>12, <1>13, <3>3, <4>1 DEF HandleOn
    <3> QED
      BY <1>2, <2>3, <3>1, <3>2, <3>3 DEF Wrote
  <2> QED
    BY <1>3, <1>4, <1>5, <1>13, <1>14, <1>16, <2>5, StillOne
<1>17. SameFiles(disk, disk', {host_path_of(p)})
  BY <1>4, <1>12
<1>18. VirtualElse(p)
  BY <1>5, VirtualWith
<1> QED
  BY <1>1, <1>4, <1>11, <1>14, <1>15, <1>16, <1>17, <1>18, ContentOne

\* SetEndOfFile.
LEMMA EndContent ==
  ASSUME NamesInv, HandlesInv, MirrorInv, ContentInv, NEW h \in DOMAIN open_files, set_end_of_file(h)
  PROVE  ContentInv'
<1>1. NamesInv' /\ HandlesInv' /\ Ended(h)
  BY EndStep
<1>2. PICK p : p = open_files[h].path
  OBVIOUS
<1> DEFINE f == open_files[h]
<1>3. /\ p \in Paths /\ RecordOf(f) /\ content[p] \in Node /\ f.host = host_path_of(p)
      /\ f.streaming => f.host # NoHost
      /\ f.bytes \in Bytes /\ f.cursor \in Nat
  BY <1>2, OnFile
<1>4. /\ content' = [content EXCEPT ![p].bytes = Resize(@, f.cursor)]
      /\ shared' = shared /\ dirty' = dirty \ {h}
  BY <1>2 DEF set_end_of_file
<1>5. content \in [Paths -> Node] /\ shared \subseteq Paths
  BY DEF ContentInv
<1> DEFINE o == Resize(content[p].bytes, f.cursor)
<1>6. o \in Bytes
  <2>1. content[p].bytes \in Bytes
    BY <1>3 DEF Node
  <2> QED
    BY <1>3, <2>1, ResizeFacts
<1>7. content' = [content EXCEPT ![p].bytes = o]
  BY <1>4
<1>8. o = Resize(content[p].bytes, f.cursor)
  OBVIOUS
<1> HIDE DEF o
<1>9. [content[p] EXCEPT !.bytes = o] \in Node
  BY <1>3, <1>6 DEF Node
<1>10. /\ content' \in [Paths -> Node] /\ shared' \subseteq Paths
       /\ content'[p] = [content[p] EXCEPT !.bytes = o]
       /\ \A q \in Paths : q # p => content'[q] = content[q] /\ (q \in shared' <=> q \in shared)
  <2> DEFINE w == [content[p] EXCEPT !.bytes = o]
  <2>1. content' = [content EXCEPT ![p] = w] /\ w \in Node
    BY <1>7, <1>9
  <2> HIDE DEF w
  <2>2. /\ content' \in [Paths -> Node] /\ content'[p] = w
        /\ \A q \in Paths : q # p => content'[q] = content[q]
    BY <1>3, <1>5, <2>1
  <2> QED
    BY <1>4, <1>5, <2>2 DEF w
<1>11. /\ SameFiles(disk, disk', {f.host}) /\ VirtualElse(p)
       /\ DOMAIN open_files' = DOMAIN open_files
       /\ \A x \in DOMAIN open_files : x # h => open_files'[x] = open_files[x]
       /\ open_files'[h].path = p /\ open_files'[h].host = f.host
       /\ open_files'[h].streaming = f.streaming
       /\ ~f.streaming => open_files'[h].bytes = Resize(f.bytes, f.cursor)
       /\ f.host # NoHost /\ disk[f.host].kind = "file" =>
            disk'[f.host] = File(Resize(IF f.streaming THEN disk[f.host].bytes ELSE f.bytes, f.cursor))
  BY <1>1, <1>2 DEF Ended
<1>12. HandleElse(p, h)
  BY <1>2, <1>4, <1>11 DEF HandleElse
<1>13. p \in shared' => (HandlesOn(p) # {})'
  BY <1>11 DEF HandlesOn
<1>14. ASSUME p \notin shared', Plain(p) PROVE FileOf(p)'
  <2>1. HandleOn(p, h)
    BY <1>2, <1>3, <1>4, <1>14, TheHandle
  <2>2. /\ content[p].kind = "file" /\ (f.host # NoHost => disk[f.host].kind = "file")
        /\ (IF f.streaming THEN disk[f.host] ELSE File(f.bytes)) = content[p]
    BY <2>1 DEF HandleOn
  <2>3. content[p].bytes = IF f.streaming THEN disk[f.host].bytes ELSE f.bytes
    BY <1>3, <2>2, NodesTyped
  <2>4. content'[p] = File(o) /\ content'[p].kind = "file"
    <3>1. [content[p] EXCEPT !.bytes = o] = File(o)
      BY <1>3, <2>2 DEF Node, File
    <3> QED
      BY <1>6, <1>10, <3>1, NodesTyped
  <2>5. f.host # NoHost => disk'[f.host] = File(o)
    BY <1>8, <1>11, <2>2, <2>3
  <2>6. ~f.streaming => open_files'[h].bytes = o
    BY <1>8, <1>11, <2>3
  <2>7. HandleOn(p, h)'
    BY <1>3, <1>11, <2>4, <2>5, <2>6 DEF HandleOn
  <2> QED
    BY <1>2, <1>3, <1>4, <1>11, <1>12, <1>14, <2>7, StillOne
<1>15. SameFiles(disk, disk', {host_path_of(p)})
  BY <1>3, <1>11
<1> QED
  BY <1>1, <1>3, <1>10, <1>11, <1>12, <1>13, <1>14, <1>15, ContentOne

\* FlushFileBuffers.
LEMMA FlushContent ==
  ASSUME NamesInv, HandlesInv, MirrorInv, ContentInv, NEW h \in DOMAIN open_files, flush_file_buffers(h)
  PROVE  ContentInv'
<1>1. /\ NamesInv' /\ KeptFiles /\ SameFiles(disk, disk', {open_files[h].host})
      /\ virtual_files' = virtual_files /\ disk' = persist_open_file_to_host(open_files[h])
  BY FlushStep
<1>2. PICK p : p = open_files[h].path
  OBVIOUS
<1> DEFINE f == open_files[h]
<1>3. /\ p \in Paths /\ RecordOf(f) /\ f.host = host_path_of(p) /\ (f.streaming => f.host # NoHost)
  BY <1>2, OnFile
<1>4. content' = content /\ shared' = shared /\ dirty' = dirty \ {h} /\ open_files' = open_files
  BY DEF flush_file_buffers, handleVars
<1>5. content' \in [Paths -> Node] /\ shared' \subseteq Paths
  BY <1>4 DEF ContentInv
<1>6. HandleElse(p, h)
  BY <1>2, <1>4 DEF HandleElse
<1>7. p \in shared' => (HandlesOn(p) # {})'
  BY <1>2, <1>4 DEF HandlesOn
<1>8. ASSUME p \notin shared', Plain(p) PROVE FileOf(p)'
  <2>1. HandleOn(p, h)
    BY <1>2, <1>3, <1>4, <1>8, TheHandle
  <2>2. /\ content[p].kind = "file" /\ (f.host # NoHost => disk[f.host].kind = "file")
        /\ (IF f.streaming THEN disk[f.host] ELSE File(f.bytes)) = content[p]
    BY <2>1 DEF HandleOn
  <2>3. f.host # NoHost => disk'[f.host] = content[p]
    BY <1>1, <1>3, <2>2, PersistFacts DEF NamesInv
  <2>4. HandleOn(p, h)'
    BY <1>3, <1>4, <2>2, <2>3 DEF HandleOn
  <2> QED
    BY <1>2, <1>3, <1>4, <1>6, <1>8, <2>4, StillOne
<1>9. SameFiles(disk, disk', {host_path_of(p)})
  BY <1>1, <1>3
<1>10. VirtualElse(p)
  BY <1>1, VirtualWith
<1> QED
  BY <1>1, <1>3, <1>4, <1>5, <1>6, <1>7, <1>8, <1>9, <1>10, ContentOne

\* A path that no handle is open on holds what CreateFile would load.
LEMMA Unopened ==
  ASSUME NamesInv', ContentInv, NEW q \in Paths, open_files' = open_files, q \notin shared', Plain(q),
         q \in shared' <=> q \in shared \/ HandlesOn(q) # {},
         HandlesOn(q) = {} => Loaded(disk', virtual_files', q) = content'[q]
  PROVE  FileOf(q)'
<1>1. HandlesOn(q) = {} /\ HandlesOn(q)' = HandlesOn(q)
  BY DEF HandlesOn
<1>2. resolve_guest_file_bytes(q)' = content'[q]
  BY <1>1, ResolveNext DEF Plain
<1> QED
  BY <1>1, <1>2 DEF FileOf

\* What it holds now.
LEMMA UnopenedNow ==
  ASSUME NamesInv, ContentInv, NEW q \in Paths \ shared, Plain(q), HandlesOn(q) = {}
  PROVE  Loaded(disk, virtual_files, q) = content[q]
<1>1. FileOf(q)
  BY DEF ContentInv
<1>2. resolve_guest_file_bytes(q) = content[q]
  BY <1>1 DEF FileOf
<1> QED
  BY <1>2, ResolveNow DEF Plain

\* A handler of the namespace that is about one path, p.
LEMMA NamedContent ==
  ASSUME NamesInv, NamesInv', HandlesInv, ContentInv, NEW p \in Paths,
         SameFiles(disk, disk', {p}), Head(p) \notin Volumes => disk' = disk, VirtualElse(p),
         open_files' = open_files, dirty' = dirty, Share({p}),
         content' \in [Paths -> Node], \A q \in Paths : q # p => content'[q] = content[q],
         p \notin shared /\ Plain(p) /\ HandlesOn(p) = {} =>
           Loaded(disk', virtual_files', p) = content'[p]
  PROVE  ContentInv'
<1>1. PICK h : h = opened + 1
  OBVIOUS
<1>2. h \notin DOMAIN open_files
  BY <1>1 DEF HandlesInv
<1>3. HandleElse(p, h)
  BY <1>2 DEF HandleElse
<1>4. SameFiles(disk, disk', {host_path_of(p)})
  <2>1. CASE Head(p) \in Volumes
    BY <2>1, HostPathOf
  <2>2. CASE Head(p) \notin Volumes
    BY <2>2 DEF SameFiles
  <2> QED
    BY <2>1, <2>2
<1>5. /\ \A q \in Paths : q # p => (q \in shared' <=> q \in shared)
      /\ p \in shared' <=> p \in shared \/ HandlesOn(p) # {}
      /\ shared' \subseteq shared \cup {p}
  BY DEF Share
<1>6. shared \subseteq Paths /\ (p \in shared => HandlesOn(p) # {})
  BY DEF ContentInv
<1>7. p \in shared' => (HandlesOn(p) # {})'
  BY <1>5, <1>6 DEF HandlesOn
<1>8. ASSUME p \notin shared', Plain(p) PROVE FileOf(p)'
  BY <1>5, <1>8, Unopened
<1> QED
  BY <1>3, <1>4, <1>5, <1>6, <1>7, <1>8, ContentOne

\* What the handlers of the namespace keep.
LEMMA KeptFacts ==
  ASSUME HandlesInv, MirrorInv, Kept
  PROVE  HandlesInv' /\ MirrorInv' /\ KeptFiles /\ open_files' = open_files /\ dirty' = dirty
BY HandlesKept DEF Kept, handleVars

\* DeleteFile.
LEMMA DeleteContent ==
  ASSUME NamesInv, HandlesInv, ContentInv, NEW in \in Inputs, DeleteFile(in)
  PROVE  NamesInv' /\ ContentInv'
<1>1. finish_delete_file(in) /\ Full(in) \in Paths
  BY DEF DeleteFile
<1>2. PICK p \in Paths : p = Full(in)
  BY <1>1
<1>3. /\ NamesInv' /\ SameFiles(disk, disk', {p})
      /\ Head(p) \in Volumes => disk'[p].kind # "file"
      /\ Head(p) \notin Volumes => disk' = disk
      /\ virtual_files' = Without(virtual_files, p)
  BY <1>1, <1>2, DeleteNames
<1>4. /\ content' = IF p \in Mounted THEN content ELSE [content EXCEPT ![p] = None]
      /\ Share({p}) /\ open_files' = open_files /\ dirty' = dirty
  BY <1>2 DEF DeleteFile, Kept, handleVars
<1>5. VirtualElse(p)
  BY <1>3, VirtualWith
<1>6. content \in [Paths -> Node]
  BY DEF ContentInv
<1>7. content' \in [Paths -> Node] /\ \A q \in Paths : q # p => content'[q] = content[q]
  BY <1>4, <1>6, NodesTyped
<1>8. ASSUME p \notin shared, Plain(p), HandlesOn(p) = {}
      PROVE  Loaded(disk', virtual_files', p) = content'[p]
  <2>1. CASE p \in Mounted
    <3>1. disk' = disk /\ content' = content
      BY <1>3, <1>4, <1>8, <2>1 DEF Plain
    <3>2. Loaded(disk, virtual_files, p) = content[p]
      BY <1>8, UnopenedNow
    <3> QED
      BY <2>1, <3>1, <3>2 DEF Loaded
  <2>2. CASE p \notin Mounted
    <3>1. content'[p] = None
      BY <1>4, <1>6, <2>2
    <3>2. p \notin DOMAIN virtual_files'
      BY <1>3 DEF Without
    <3> QED
      BY <1>3, <2>2, <3>1, <3>2 DEF Loaded
  <2> QED
    BY <2>1, <2>2
<1> QED
  BY <1>3, <1>4, <1>5, <1>7, <1>8, NamedContent

\* GetTempFileName.
LEMMA TempContent ==
  ASSUME NamesInv, HandlesInv, ContentInv, NEW in \in Inputs, GetTempFileName(in)
  PROVE  NamesInv' /\ ContentInv'
<1>1. finish_create_file_create_only(in) /\ Full(in) \in Paths
  BY DEF GetTempFileName
<1>2. PICK p \in Paths : p = Full(in)
  BY <1>1
<1>3. Plain(p) /\ p \in Mounted => Head(p) \notin Volumes
  BY DEF Plain
<1>4. /\ NamesInv' /\ SameFiles(disk, disk', {p})
      /\ Head(p) \in Volumes =>
           /\ virtual_files' = virtual_files
           /\ IF CanWrite(p) THEN disk'[p] = File(<<>>) ELSE disk' = disk
      /\ Head(p) \notin Volumes =>
           /\ disk' = disk
           /\ virtual_files' = IF p \in DOMAIN virtual_files THEN virtual_files
                               ELSE With(virtual_files, p, <<>>)
  BY <1>1, <1>2, TempNames
<1>5. guest_path_to_host(p) # NoHost <=> Head(p) \in Volumes
  BY PathLong, GuestHostFacts
<1> DEFINE made == IF Head(p) \in Volumes THEN CanWrite(p) ELSE ~guest_path_exists(p)
<1>6. /\ content' = IF made THEN [content EXCEPT ![p] = File(<<>>)] ELSE content
      /\ Share({p}) /\ open_files' = open_files /\ dirty' = dirty
  BY <1>2, <1>5 DEF GetTempFileName, Kept, handleVars
<1>7. ~is_main_module_path(p) /\ Head(p) \notin Volumes =>
        (made <=> p \notin Mounted /\ p \notin DOMAIN virtual_files)
  BY <1>5 DEF guest_path_exists
<1>8. Head(p) \in Volumes => (made <=> CanWrite(p))
  OBVIOUS
<1> HIDE DEF made
<1>9. VirtualElse(p)
  BY <1>4, VirtualWith
<1>10. content \in [Paths -> Node]
  BY DEF ContentInv
<1>11. content' \in [Paths -> Node] /\ \A q \in Paths : q # p => content'[q] = content[q]
  BY <1>6, <1>10, EmptyFile
<1>12. ASSUME p \notin shared, Plain(p), HandlesOn(p) = {}
       PROVE  Loaded(disk', virtual_files', p) = content'[p]
  <2>1. CASE made /\ Head(p) \in Volumes
    <3>1. content'[p] = File(<<>>) /\ disk'[p] = File(<<>>)
      BY <1>4, <1>6, <1>8, <1>10, <2>1
    <3> QED
      BY <1>3, <1>12, <2>1, <3>1, EmptyFile DEF Loaded
  <2>2. CASE made /\ Head(p) \notin Volumes
    <3>1. p \notin Mounted /\ content'[p] = File(<<>>) /\ virtual_files' = With(virtual_files, p, <<>>)
      BY <1>4, <1>6, <1>7, <1>10, <1>12, <2>2 DEF Plain
    <3>2. p \in DOMAIN virtual_files' /\ virtual_files'[p] = <<>>
      BY <3>1 DEF With
    <3> QED
      BY <2>2, <3>1, <3>2 DEF Loaded
  <2>3. CASE ~made /\ p \notin Mounted
    <3>1. content' = content /\ disk' = disk /\ virtual_files' = virtual_files
      BY <1>4, <1>6, <1>7, <1>8, <1>12, <2>3 DEF Plain
    <3> QED
      BY <1>12, <3>1, UnopenedNow
  <2>4. CASE ~made /\ p \in Mounted
    <3>1. content' = content /\ disk' = disk
      BY <1>3, <1>4, <1>6, <1>12, <2>4
    <3>2. Loaded(disk', virtual_files', p) = Loaded(disk, virtual_files, p)
      BY <2>4, <3>1 DEF Loaded
    <3> QED
      BY <1>12, <3>1, <3>2, UnopenedNow
  <2> QED
    BY <2>1, <2>2, <2>3, <2>4
<1>13. Head(p) \notin Volumes => disk' = disk
  BY <1>4
<1> QED
  BY <1>4, <1>6, <1>9, <1>11, <1>12, <1>13, NamedContent

\* What a file of a mapped drive holds, moved or not.
LEMMA HeldFacts ==
  ASSUME NamesInv, ContentInv, NEW o \in Seq(Name), Len(o) >= 1, o[1] \in Volumes
  PROVE  /\ Held(o) \in Node
         /\ Held(o) = IF o \in HostPaths /\ disk[o].kind = "file" THEN disk[o] ELSE None
<1>1. DOMAIN disk = HostPaths /\ disk \in [HostPaths -> Node]
  BY DEF NamesInv, DiskOf
<1> DEFINE e == IF o \in HostPaths /\ disk[o].kind = "file" THEN disk[o] ELSE None
<1>2. e \in Node
  BY <1>1, NodesTyped
<1>3. Held(o) = e
  <2>1. CASE o \in Paths \ Mounted /\ HandlesOn(o) = {} /\ ~is_main_module_path(o)
    <3>1. Held(o) = content[o]
      BY <2>1 DEF Held
    <3>2. o \notin shared /\ Plain(o)
      BY <2>1 DEF ContentInv, Plain
    <3>3. Loaded(disk, virtual_files, o) = content[o]
      BY <2>1, <3>2, UnopenedNow
    <3>4. Head(o) \in Volumes /\ o \in HostPaths
      <4>1. o \in Dirs
        BY <2>1 DEF Dirs
      <4> QED
        BY <4>1, DirFacts, GuestHostFacts
    <3> QED
      BY <2>1, <3>1, <3>3, <3>4 DEF Loaded
  <2>2. CASE ~(o \in Paths \ Mounted /\ HandlesOn(o) = {} /\ ~is_main_module_path(o))
    BY <1>1, <2>2 DEF Held
  <2> QED
    BY <2>1, <2>2
<1> QED
  BY <1>2, <1>3

\* What is inside a directory of a mapped drive is on the drive.
LEMMA UnderFacts ==
  ASSUME NEW from \in HostPaths, Head(from) \in Volumes, NEW q \in Seq(Name), IsPrefix(from, q)
  PROVE  Len(q) >= 1 /\ q[1] \in Volumes /\ (q \in Paths => Head(q) \in Volumes /\ q \in HostPaths)
<1>1. from \in Seq(Name) /\ Len(from) >= 1 /\ Head(from) = from[1]
  BY HostFacts
<1>2. Len(from) <= Len(q) /\ from[1] = q[1]
  <2>1. Len(from) <= Len(q) /\ \A i \in 1 .. Len(from) : from[i] = q[i]
    BY <1>1, PrefixFacts
  <2>2. 1 \in 1 .. Len(from)
    BY <1>1
  <2> QED
    BY <2>1, <2>2
<1>3. Len(q) >= 1 /\ q[1] \in Volumes
  BY <1>1, <1>2
<1>4. ASSUME q \in Paths PROVE Head(q) \in Volumes /\ q \in HostPaths
  <2>1. q \in Dirs
    BY <1>4 DEF Dirs
  <2> QED
    BY <1>3, <2>1, DirFacts, GuestHostFacts
<1> QED
  BY <1>3, <1>4

\* MoveFile that fails.
LEMMA MoveFails ==
  ASSUME NamesInv, HandlesInv, ContentInv, NEW in \in Inputs, NEW into \in Inputs, MoveFile(in, into),
         ~RenameWorks(Full(in), Full(into)), KeptFiles, dirty' = dirty
  PROVE  NamesInv' /\ ContentInv'
<1>1. finish_move_file(in, into) /\ content' = content /\ shared' = shared
  BY DEF MoveFile
<1>2. NamesInv' /\ virtual_files' = virtual_files /\ SameFiles(disk, disk', {})
  BY <1>1, MoveNames
<1> QED
  BY <1>1, <1>2, ContentSame

\* MoveFile that renames.
LEMMA MoveContent ==
  ASSUME NamesInv, HandlesInv, ContentInv, NEW in \in Inputs, NEW into \in Inputs, MoveFile(in, into),
         RenameWorks(Full(in), Full(into))
  PROVE  NamesInv' /\ ContentInv'
<1>1. finish_move_file(in, into)
  BY DEF MoveFile
<1>2. PICK from : from = Full(in)
  OBVIOUS
<1>3. PICK to : to = Full(into)
  OBVIOUS
<1>4. /\ NamesInv' /\ virtual_files' = virtual_files
      /\ Movable(from, to) /\ disk' = Renamed(from, to)
  BY <1>1, <1>2, <1>3, MoveNames
<1>5. /\ content' = [q \in Paths |-> IF q \in Under(to) THEN Held(Onto(to, from, q))
                                     ELSE IF q \in Under(from) THEN None ELSE content[q]]
      /\ Share(Under(from) \cup Under(to)) /\ open_files' = open_files /\ dirty' = dirty
  BY <1>2, <1>3 DEF MoveFile, Onto, Kept, handleVars
<1>6. /\ from \in HostPaths /\ to \in HostPaths /\ Head(from) \in Volumes /\ Head(to) \in Volumes
      /\ ~IsPrefix(from, to) /\ ~IsPrefix(to, from)
  BY <1>4 DEF Movable
<1>7. /\ from \in Seq(Name) /\ to \in Seq(Name) /\ Len(from) >= 1 /\ Len(to) >= 1
      /\ Head(from) = from[1] /\ Head(to) = to[1]
  BY <1>6, HostFacts
<1>8. DiskOf(disk) /\ content \in [Paths -> Node] /\ shared \subseteq Paths
  BY DEF NamesInv, ContentInv
<1>9. /\ \A q \in HostPaths : IsPrefix(to, q) =>
           IF Onto(to, from, q) \in HostPaths THEN disk'[q] = disk[Onto(to, from, q)]
           ELSE disk'[q].kind = "none"
      /\ \A q \in HostPaths : IsPrefix(from, q) => disk'[q] = None
  BY <1>4, <1>8, RenamedFacts
<1>10. SameFiles(disk, disk', {q \in HostPaths : IsPrefix(from, q) \/ IsPrefix(to, q)})
  BY <1>4, <1>8, RenamedTree
<1> DEFINE P == Under(from) \cup Under(to)
<1>11. \A q \in Paths : q \in Seq(Name)
  BY PathLong
<1>12. ASSUME NEW q \in Under(to)
       PROVE  /\ q \in Paths /\ IsPrefix(to, q) /\ q \in HostPaths /\ Head(q) \in Volumes
              /\ Held(Onto(to, from, q)) \in Node
              /\ Held(Onto(to, from, q)) = IF disk'[q].kind = "file" THEN disk'[q] ELSE None
  <2>1. q \in Paths /\ IsPrefix(to, q) /\ q \in Seq(Name)
    BY <1>11 DEF Under
  <2>2. q \in HostPaths /\ Head(q) \in Volumes
    BY <1>6, <2>1, UnderFacts
  <2> DEFINE o == Onto(to, from, q)
  <2>3. o \in Seq(Name) /\ IsPrefix(from, o)
    BY <1>7, <2>1, OntoFacts
  <2>4. IF o \in HostPaths THEN disk'[q] = disk[o] ELSE disk'[q].kind = "none"
    BY <1>9, <2>1, <2>2
  <2> HIDE DEF o
  <2>5. Len(o) >= 1 /\ o[1] \in Volumes
    BY <1>6, <2>3, UnderFacts
  <2>6. /\ Held(o) \in Node
        /\ Held(o) = IF o \in HostPaths /\ disk[o].kind = "file" THEN disk[o] ELSE None
    BY <2>3, <2>5, HeldFacts
  <2>7. Held(o) = IF disk'[q].kind = "file" THEN disk'[q] ELSE None
    BY <2>4, <2>6
  <2> QED
    BY <2>1, <2>2, <2>6, <2>7 DEF o
<1>13. content' \in [Paths -> Node]
  <2>1. ASSUME NEW q \in Paths PROVE content'[q] \in Node
    BY <1>5, <1>8, <1>12, NodesTyped
  <2> QED
    BY <1>5, <2>1
<1>14. shared' = shared \cup {x \in P : HandlesOn(x) # {}} /\ P \subseteq Paths
  BY <1>5 DEF Share, Under
<1>15. shared' \subseteq Paths
  BY <1>8, <1>14
<1>16. ASSUME NEW q \in Paths \ P PROVE FileKept(q) /\ (q \in shared' <=> q \in shared)
  <2>1. ~IsPrefix(from, q) /\ ~IsPrefix(to, q)
    BY <1>16 DEF Under
  <2>2. content'[q] = content[q]
    BY <1>5, <1>16
  <2>3. HandlesOn(q)' = HandlesOn(q)
    BY <1>5 DEF HandlesOn
  <2>4. host_path_of(q) # NoHost =>
          /\ host_path_of(q) \in HostPaths
          /\ ~IsPrefix(from, host_path_of(q)) /\ ~IsPrefix(to, host_path_of(q))
    <3>1. CASE Head(q) \in Volumes
      BY <2>1, <3>1, HostPathOf
    <3>2. CASE Head(q) \notin Volumes /\ q \in Mounted
      <4>1. /\ host_path_of(q) = MountFile(q) /\ MountFile(q) \in Seq(Name)
            /\ MountFile(q)[1] = "mount" /\ "mount" \notin Volumes /\ MountFile(q) \in HostPaths
        BY <3>2, HostPathOf, MountFacts DEF HostPaths
      <4> QED
        BY <1>6, <4>1, UnderFacts
    <3>3. CASE Head(q) \notin Volumes /\ q \notin Mounted
      BY <3>3, HostPathOf
    <3> QED
      BY <3>1, <3>2, <3>3
  <2> DEFINE k == host_path_of(q)
  <2> HIDE DEF k
  <2>5. k # NoHost => (disk[k].kind = "file" \/ disk'[k].kind = "file" => disk'[k] = disk[k])
    BY <1>10, <2>4 DEF SameFiles, k
  <2>6. q \in shared' <=> q \in shared
    BY <1>14, <1>16
  <2> QED
    BY <1>4, <1>5, <2>2, <2>3, <2>5, <2>6 DEF FileKept, HandlesOn, k
<1>17. ASSUME NEW q \in P \cap Paths
       PROVE  /\ q \in shared' => (HandlesOn(q) # {})'
              /\ q \notin shared' /\ Plain(q) => FileOf(q)'
  <2>1. q \in shared' <=> q \in shared \/ HandlesOn(q) # {}
    BY <1>14, <1>17
  <2>2. q \in shared => HandlesOn(q) # {}
    BY DEF ContentInv
  <2>3. q \in shared' => (HandlesOn(q) # {})'
    BY <1>5, <2>1, <2>2 DEF HandlesOn
  <2>4. ASSUME q \notin shared', Plain(q) PROVE FileOf(q)'
    <3>1. Loaded(disk', virtual_files', q) = content'[q]
      <4>1. CASE q \in Under(to)
        <5>1. /\ Head(q) \in Volumes
              /\ content'[q] = IF disk'[q].kind = "file" THEN disk'[q] ELSE None
          BY <1>5, <1>12, <4>1
        <5> QED
          BY <2>4, <5>1 DEF Loaded, Plain
      <4>2. CASE q \notin Under(to)
        <5>1. q \in Under(from) /\ q \in Seq(Name) /\ IsPrefix(from, q)
          BY <1>11, <1>17, <4>2 DEF Under
        <5>2. q \in HostPaths /\ Head(q) \in Volumes
          BY <1>6, <1>17, <5>1, UnderFacts
        <5>3. disk'[q] = None /\ content'[q] = None
          BY <1>5, <1>9, <4>2, <5>1, <5>2
        <5> QED
          BY <2>4, <5>2, <5>3 DEF Loaded, Plain
      <4> QED
        BY <4>1, <4>2
    <3> QED
      BY <1>4, <1>5, <2>1, <2>4, <3>1, Unopened
  <2> QED
    BY <2>3, <2>4
<1> HIDE DEF P
<1> QED
  BY <1>4, <1>13, <1>15, <1>16, <1>17, ContentStep

---------------------------------------------------------------------------
(* The invariant holds *)

FileInv == NamesInv /\ HandlesInv /\ MirrorInv /\ ContentInv

\* It holds when the session starts.
LEMMA InitFiles == Init => FileInv
<1> SUFFICES ASSUME Init PROVE FileInv
  OBVIOUS
<1>1. /\ disk = InitDisk /\ virtual_files = [p \in {} |-> <<>>] /\ cwd = guest_parent(MainPath)
      /\ open_files = [h \in {} |-> {}] /\ opened = 0 /\ pos = [h \in {} |-> 0]
      /\ table = [i \in 1 .. Slots |-> FreeSlot]
      /\ arena = [a \in 1 .. ArenaSize |-> 0] /\ arena_next = 0 /\ overrun = FALSE
      /\ content = [p \in Paths |-> resolve_guest_file_bytes(p)] /\ shared = {}
  BY DEF Init
<1>2. NamesInv
  <2>1. DiskOf(disk)
    BY <1>1, FilesAssumption DEF DiskOf, TreeOf, Node, Bytes
  <2>2. VirtualOf(virtual_files)
    BY <1>1 DEF VirtualOf
  <2>3. cwd \in Dirs
    BY <1>1, PathAssumption
  <2> QED
    BY <2>1, <2>2, <2>3 DEF NamesInv
<1>3. DOMAIN open_files = {}
  BY <1>1
<1>4. HandlesInv
  <2>1. opened \in Nat /\ pos \in [DOMAIN open_files -> Nat]
    BY <1>1
  <2>2. open_files = [h \in DOMAIN open_files |-> open_files[h]]
    BY <1>1
  <2> QED
    BY <1>3, <2>1, <2>2 DEF HandlesInv
<1>5. MirrorInv
  <2>1. FreeSlot \in [handle : Nat, data : Nat, size : Nat, cursor : Nat]
    BY DEF FreeSlot
  <2>2. table \in [1 .. Slots -> [handle : Nat, data : Nat, size : Nat, cursor : Nat]]
    BY <1>1, <2>1
  <2>3. arena \in [1 .. ArenaSize -> Nat]
    BY <1>1
  <2>4. arena_next \in 0 .. ArenaSize
    BY <1>1, FilesAssumption
  <2>5. overrun \in BOOLEAN
    BY <1>1
  <2> QED
    BY <1>3, <2>2, <2>3, <2>4, <2>5 DEF MirrorInv, TableInv
<1>6. ContentInv
  <2>1. content \in [Paths -> Node]
    BY <1>1, <1>2, ResolveNow
  <2>2. ASSUME NEW p \in Paths PROVE FileOf(p)
    <3>1. HandlesOn(p) = {}
      BY <1>3 DEF HandlesOn
    <3> QED
      BY <1>1, <3>1 DEF FileOf
  <2> QED
    BY <1>1, <2>1, <2>2 DEF ContentInv
<1> QED
  BY <1>2, <1>4, <1>5, <1>6 DEF FileInv

\* CreateFile keeps it.
LEMMA OpenStep ==
  ASSUME FileInv, NEW in \in Inputs, NEW disposition, open_or_create_guest_path(in, disposition)
  PROVE  FileInv'
<1>1. NamesInv /\ HandlesInv /\ MirrorInv /\ TableInv /\ ContentInv
  BY DEF FileInv, MirrorInv
<1>2. NamesInv' /\ HandlesInv' /\ \E f : Opened(Full(in), f)
  BY <1>1, OpenFacts
<1>3. PICK f : Opened(Full(in), f)
  BY <1>2
<1>4. /\ RecordOf(f) /\ f.cursor = 0 /\ opened' = opened + 1 /\ pos' = With(pos, opened + 1, 0)
      /\ \E g : Registered(opened + 1, f, g)
  BY <1>3 DEF Opened
<1>5. PICK h : h = opened + 1
  OBVIOUS
<1>6. PICK g : Registered(h, f, g)
  BY <1>4, <1>5
<1>7. drifted' = drifted /\ failed' = failed /\ overrun' = overrun
  BY DEF open_or_create_guest_path
<1>8. MirrorInv'
  BY <1>1, <1>4, <1>5, <1>6, <1>7, OpenMirror
<1>9. ContentInv'
  BY <1>1, OpenContent
<1> QED
  BY <1>2, <1>8, <1>9 DEF FileInv

\* Handlers that leave the namespace and the files as they are.
LEMMA QuietStep ==
  ASSUME FileInv, HandlesInv', MirrorInv', KeptFiles, disk' = disk, virtual_files' = virtual_files,
         cwd' = cwd, dirty' = dirty, content' = content, shared' = shared
  PROVE  FileInv'
<1>1. NamesInv /\ HandlesInv /\ ContentInv
  BY DEF FileInv
<1>2. NamesInv'
  BY <1>1 DEF NamesInv
<1>3. SameFiles(disk, disk', {})
  BY DEF SameFiles
<1>4. ContentInv'
  BY <1>1, <1>2, <1>3, ContentSame
<1> QED
  BY <1>2, <1>4 DEF FileInv

\* The handlers that take names keep it.
LEMMA NamesStep ==
  ASSUME FileInv, NEW in \in Inputs, Names(in)
  PROVE  FileInv'
<1>1. NamesInv /\ HandlesInv /\ MirrorInv /\ ContentInv
  BY DEF FileInv
<1>2. CASE \E disposition \in Dispositions : open_or_create_guest_path(in, disposition)
  BY <1>2, OpenStep
<1>3. CASE DeleteFile(in)
  <2>1. HandlesInv' /\ MirrorInv'
    BY <1>1, <1>3, KeptFacts DEF DeleteFile
  <2> QED
    BY <1>1, <1>3, <2>1, DeleteContent DEF FileInv
<1>4. CASE \E into \in program \cap Inputs : MoveFile(in, into)
  <2>1. PICK into \in Inputs : MoveFile(in, into)
    BY <1>4
  <2>2. HandlesInv' /\ MirrorInv' /\ KeptFiles /\ dirty' = dirty
    BY <1>1, <2>1, KeptFacts DEF MoveFile
  <2>3. NamesInv' /\ ContentInv'
    BY <1>1, <2>1, <2>2, MoveContent, MoveFails
  <2> QED
    BY <2>2, <2>3 DEF FileInv
<1>5. CASE GetTempFileName(in)
  <2>1. HandlesInv' /\ MirrorInv'
    BY <1>1, <1>5, KeptFacts DEF GetTempFileName
  <2> QED
    BY <1>1, <1>5, <2>1, TempContent DEF FileInv
<1>6. CASE Directories(in)
  <2>1. Kept /\ content' = content /\ shared' = shared
    BY <1>6 DEF Directories
  <2>2. HandlesInv' /\ MirrorInv' /\ KeptFiles /\ dirty' = dirty
    BY <1>1, <2>1, KeptFacts
  <2>3. NamesInv' /\ SameFiles(disk, disk', {}) /\ virtual_files' = virtual_files
    BY <1>1, <1>6, DirectoryNames DEF Directories
  <2>4. ContentInv'
    BY <1>1, <2>1, <2>2, <2>3, ContentSame
  <2> QED
    BY <2>2, <2>3, <2>4 DEF FileInv
<1> QED
  BY <1>2, <1>3, <1>4, <1>5, <1>6 DEF Names

\* The handlers that take a handle keep it.
LEMMA UsesStep ==
  ASSUME FileInv, NEW h \in DOMAIN open_files, Uses(h)
  PROVE  FileInv'
<1>1. NamesInv /\ HandlesInv /\ MirrorInv /\ ContentInv
  BY DEF FileInv
<1>2. CASE close_handle(h)
  BY <1>1, <1>2, CloseStep, CloseContent DEF FileInv
<1>3. ASSUME NEW n \in {1, LargeRead}, guest_read_file(h, n) \/ read_file(h, n) PROVE FileInv'
  <2>1. n \in Nat
    BY FilesAssumption
  <2>2. HandlesInv' /\ MirrorInv' /\ KeptFiles
    BY <1>1, <1>3, <2>1, GuestReadStep, ReadStep
  <2>3. /\ disk' = disk /\ virtual_files' = virtual_files /\ cwd' = cwd
        /\ dirty' = dirty /\ content' = content /\ shared' = shared
    BY <1>3 DEF guest_read_file, read_file
  <2> QED
    BY <2>2, <2>3, QuietStep
<1>4. ASSUME NEW data \in Data, write_file(h, data) PROVE FileInv'
  BY <1>1, <1>4, WriteStep, WriteContent DEF FileInv
<1>5. ASSUME NEW method, NEW d \in {-1, 1},
             \/ guest_set_file_pointer(h, method, d)
             \/ set_file_pointer(h, method, d)
             \/ set_file_pointer_ex(h, method, d)
      PROVE  FileInv'
  <2>1. d \in Int
    OBVIOUS
  <2>2. HandlesInv' /\ MirrorInv' /\ KeptFiles
    BY <1>1, <1>5, <2>1, GuestSeekStep, SeekStep, SeekExStep
  <2>3. /\ disk' = disk /\ virtual_files' = virtual_files /\ cwd' = cwd
        /\ dirty' = dirty /\ content' = content /\ shared' = shared
    BY <1>5 DEF guest_set_file_pointer, set_file_pointer, set_file_pointer_ex
  <2> QED
    BY <2>2, <2>3, QuietStep
<1>6. CASE set_end_of_file(h)
  BY <1>1, <1>6, EndStep, EndContent DEF FileInv
<1>7. CASE flush_file_buffers(h)
  BY <1>1, <1>7, FlushStep, FlushContent DEF FileInv
<1> QED
  BY <1>2, <1>3, <1>4, <1>5, <1>6, <1>7 DEF Uses

\* Searches and the console leave the files alone.
LEMMA OtherStep ==
  ASSUME FileInv,
         \/ \E in \in Patterns : Search(in)
         \/ \E h : Searched(h)
         \/ \E n \in 1 .. 2, line \in 0 .. 2 : read_stdin(n, line)
  PROVE  FileInv'
<1>1. /\ disk' = disk /\ virtual_files' = virtual_files /\ cwd' = cwd /\ dirty' = dirty
      /\ content' = content /\ shared' = shared
      /\ open_files' = open_files /\ opened' = opened /\ table' = table /\ arena' = arena
      /\ arena_next' = arena_next /\ pos' = pos /\ drifted' = drifted /\ failed' = failed
      /\ overrun' = overrun
  BY DEF Search, Searched, read_stdin, finish_find_first, finish_find_next, find_close, Kept,
         handleVars, ghostVars
<1>2. HandlesInv' /\ MirrorInv' /\ KeptFiles
  BY <1>1, HandlesKept DEF FileInv
<1> QED
  BY <1>1, <1>2, QuietStep

\* Every step keeps it.
LEMMA NextFiles == FileInv /\ [Next]_vars => FileInv'
<1> SUFFICES ASSUME FileInv, [Next]_vars PROVE FileInv'
  OBVIOUS
<1>1. CASE Next
  BY <1>1, NamesStep, UsesStep, OtherStep DEF Next
<1>2. CASE UNCHANGED vars
  <2>1. /\ disk' = disk /\ virtual_files' = virtual_files /\ cwd' = cwd /\ dirty' = dirty
        /\ content' = content /\ shared' = shared
        /\ open_files' = open_files /\ opened' = opened /\ table' = table /\ arena' = arena
        /\ arena_next' = arena_next /\ pos' = pos /\ drifted' = drifted /\ failed' = failed
        /\ overrun' = overrun
    BY <1>2 DEF vars, vfsVars, handleVars, ghostVars
  <2>2. HandlesInv' /\ MirrorInv' /\ KeptFiles
    BY <2>1, HandlesKept DEF FileInv
  <2> QED
    BY <2>1, <2>2, QuietStep
<1> QED
  BY <1>1, <1>2

\* Only ReadFile on the console takes from its input.
LEMMA NextInput == InputInv /\ [Next]_vars => InputInv'
<1> SUFFICES ASSUME InputInv, [Next]_vars PROVE InputInv'
  OBVIOUS
<1>1. ASSUME stdin' = stdin, input' = input PROVE InputInv'
  BY <1>1 DEF InputInv, InputInOrder
<1>2. CASE Next
  <2>1. ASSUME NEW in, Names(in) PROVE stdin' = stdin /\ input' = input
    BY <2>1 DEF Names, open_or_create_guest_path, DeleteFile, MoveFile, GetTempFileName, Directories, Kept
  <2>2. ASSUME NEW in, Search(in) PROVE stdin' = stdin /\ input' = input
    BY <2>2 DEF Search, Kept
  <2>3. ASSUME NEW h, Searched(h) PROVE stdin' = stdin /\ input' = input
    BY <2>3 DEF Searched, Kept
  <2>4. ASSUME NEW h, Uses(h) PROVE stdin' = stdin /\ input' = input
    BY <2>4 DEF Uses, close_handle, guest_read_file, read_file, write_file, guest_set_file_pointer,
       set_file_pointer, set_file_pointer_ex, set_end_of_file, flush_file_buffers
  <2>5. ASSUME NEW n \in 1 .. 2, NEW line \in 0 .. 2, read_stdin(n, line) PROVE InputInv'
    BY <2>5, ReadStdinStep
  <2> QED
    BY <1>1, <1>2, <2>1, <2>2, <2>3, <2>4, <2>5 DEF Next
<1>3. CASE UNCHANGED vars
  BY <1>1, <1>3 DEF vars
<1> QED
  BY <1>2, <1>3

---------------------------------------------------------------------------
(* The four answers *)

\* A path is its directory and its last component.
LEMMA SameEntry ==
  ASSUME NEW p \in Seq(Name), NEW q \in Seq(Name), Len(p) > 1, Len(q) > 1,
         guest_parent(p) = guest_parent(q), Last(p) = Last(q)
  PROVE  p = q
<1>1. /\ Len(guest_parent(p)) = Len(p) - 1 /\ guest_parent(p) = SubSeq(p, 1, Len(p) - 1)
      /\ Len(guest_parent(q)) = Len(q) - 1 /\ guest_parent(q) = SubSeq(q, 1, Len(q) - 1)
  BY ParentFacts
<1>2. Len(p) \in Nat /\ Len(q) \in Nat
  OBVIOUS
<1>3. Len(p) = Len(q)
  BY <1>1, <1>2
<1>4. ASSUME NEW i \in 1 .. Len(p) PROVE p[i] = q[i]
  <2>1. CASE i = Len(p)
    BY <1>3, <2>1 DEF Last
  <2>2. CASE i # Len(p)
    <3>1. i \in 1 .. Len(p) - 1 /\ i \in 1 .. Len(q) - 1
      BY <1>2, <1>3, <2>2
    <3>2. SubSeq(p, 1, Len(p) - 1)[i] = p[i] /\ SubSeq(q, 1, Len(q) - 1)[i] = q[i]
      BY <1>2, <3>1
    <3> QED
      BY <1>1, <3>2
  <2> QED
    BY <2>1, <2>2
<1> QED
  BY <1>3, <1>4, SameSeq

\* The entries of a child: one with its parent's prefix and one component more.
LEMMA ChildFacts ==
  ASSUME NEW d \in Seq(Name), NEW q \in Seq(Name), Len(d) >= 1
  PROVE  Len(q) = Len(d) + 1 /\ IsPrefix(d, q) <=> Len(q) > 1 /\ guest_parent(q) = d
<1>1. Len(d) \in Nat /\ Len(q) \in Nat
  OBVIOUS
<1>2. ASSUME Len(q) > 1, guest_parent(q) = d PROVE Len(q) = Len(d) + 1 /\ IsPrefix(d, q)
  BY <1>1, <1>2, ParentFacts DEF IsStrictPrefix
<1>3. ASSUME Len(q) = Len(d) + 1, IsPrefix(d, q) PROVE Len(q) > 1 /\ guest_parent(q) = d
  <2>1. Len(q) > 1 /\ Len(q) - 1 = Len(d) /\ Len(q) - 1 \in 1 .. Len(q)
    BY <1>1, <1>3
  <2>2. guest_parent(q) = SubSeq(q, 1, Len(q) - 1)
    BY <2>1, ParentFacts
  <2>3. d = SubSeq(q, 1, Len(q) - 1)
    BY <1>3, <2>1, PrefixOf
  <2> QED
    BY <2>1, <2>2, <2>3
<1> QED
  BY <1>2, <1>3

\* Which files exist, and what they hold.
LEMMA Answers ==
  ASSUME NamesInv, NEW p \in Paths
  PROVE  /\ guest_path_exists(p) <=> file_attributes_for_path(p) = "file"
         /\ guest_path_exists(p) <=> resolve_guest_file_bytes(p).kind = "file"
         /\ ~is_main_module_path(p) =>
              /\ p \in Mounted => guest_path_exists(p) /\ resolve_guest_file_bytes(p) = disk[MountFile(p)]
              /\ p \notin Mounted /\ p \in DOMAIN virtual_files =>
                   guest_path_exists(p) /\ resolve_guest_file_bytes(p) = File(virtual_files[p])
              /\ p \notin Mounted /\ Head(p) \in Volumes =>
                   /\ guest_path_exists(p) <=> disk[p].kind = "file"
                   /\ disk[p].kind = "file" => resolve_guest_file_bytes(p) = disk[p]
              /\ p \notin Mounted /\ Head(p) \notin Volumes /\ p \notin DOMAIN virtual_files =>
                   ~guest_path_exists(p)
<1>1. Len(p) > 1 /\ p \in Dirs
  BY PathLong
<1>2. p \notin Roots
  <2> SUFFICES ASSUME p \in Roots PROVE FALSE
    OBVIOUS
  <2>1. PICK d \in Drives : p = <<d>>
    BY DEF Roots
  <2>2. Len(p) = 1
    BY <2>1
  <2> QED
    BY <1>1, <2>2
<1>3. guest_path_to_host(p) # NoHost <=> Head(p) \in Volumes
  BY <1>1, GuestHostFacts
<1>4. Head(p) \in Volumes => guest_path_to_host(p) = p
  BY <1>1, GuestHostFacts
<1>5. /\ p \in DOMAIN virtual_files => Head(p) \notin Volumes
      /\ p \in Mounted => disk[MountFile(p)].kind = "file"
  BY DEF NamesInv, VirtualOf, DiskOf
<1>6. /\ \A b : File(b).kind = "file" /\ None.kind = "none"
  BY DEF File, None
<1>7. file_attributes_for_path(p) =
        IF is_main_module_path(p) THEN "file" ELSE IF p \in Mounted THEN disk[MountFile(p)].kind
        ELSE IF p \in DOMAIN virtual_files THEN "file"
        ELSE IF Head(p) \in Volumes THEN disk[p].kind ELSE "none"
  BY <1>2, <1>3, <1>4, <1>6 DEF file_attributes_for_path, stat_path, stat_host_path
<1>8. guest_path_exists(p) <=> \/ is_main_module_path(p) \/ p \in Mounted \/ p \in DOMAIN virtual_files
                               \/ Head(p) \in Volumes /\ disk[p].kind = "file"
  BY <1>3 DEF guest_path_exists
<1>9. resolve_guest_file_bytes(p) = IF is_main_module_path(p) THEN File(Executable)
                                    ELSE Loaded(disk, virtual_files, p)
  BY ResolveNow
<1>10. guest_path_exists(p) <=> file_attributes_for_path(p) = "file"
  BY <1>5, <1>7, <1>8
<1>11. guest_path_exists(p) <=> resolve_guest_file_bytes(p).kind = "file"
  BY <1>5, <1>6, <1>8, <1>9 DEF Loaded
<1>12. ASSUME ~is_main_module_path(p)
       PROVE  /\ p \in Mounted => guest_path_exists(p) /\ resolve_guest_file_bytes(p) = disk[MountFile(p)]
              /\ p \notin Mounted /\ p \in DOMAIN virtual_files =>
                   guest_path_exists(p) /\ resolve_guest_file_bytes(p) = File(virtual_files[p])
              /\ p \notin Mounted /\ Head(p) \in Volumes =>
                   /\ guest_path_exists(p) <=> disk[p].kind = "file"
                   /\ disk[p].kind = "file" => resolve_guest_file_bytes(p) = disk[p]
              /\ p \notin Mounted /\ Head(p) \notin Volumes /\ p \notin DOMAIN virtual_files =>
                   ~guest_path_exists(p)
  BY <1>5, <1>8, <1>9, <1>12 DEF Loaded
<1> QED
  BY <1>10, <1>11, <1>12

\* The entries of a directory that have the name of one of its files: the
\* host's, the virtual file's and the mount's.
LEMMA ListedAs ==
  ASSUME NamesInv, NEW p \in Paths, ~is_main_module_path(p), NEW d, d = guest_parent(p),
         guest_dir_exists(d), NEW e
  PROVE  e \in list_dir(d) /\ e.name = Last(p) <=>
           \/ /\ Head(p) \in Volumes /\ disk[p].kind # "none"
              /\ e = Entry("host", Last(p), disk[p].kind, Len(disk[p].bytes))
           \/ p \in DOMAIN virtual_files /\ e = Entry("virtual", Last(p), "file", Len(virtual_files[p]))
           \/ p \in Mounted /\ e = Entry("mount", Last(p), "file", Len(disk[MountFile(p)].bytes))
<1>1. Len(p) > 1 /\ p \in Dirs /\ p \in Seq(Name)
  BY PathLong
<1>2. d \in Seq(Name) /\ Len(d) = Len(p) - 1 /\ d = SubSeq(p, 1, Len(p) - 1)
  BY <1>1, ParentFacts
<1>3. Len(p) - 1 \in 1 .. Len(p) /\ Len(d) >= 1
  BY <1>1, <1>2
<1>4. d \in Dirs /\ d[1] = p[1]
  BY <1>1, <1>2, <1>3, DirFacts, PrefixOf
<1>5. (Head(d) \in Volumes <=> Head(p) \in Volumes) /\ (Head(p) \in Volumes => p \in HostPaths)
  BY <1>1, <1>4, DirFacts, GuestHostFacts
<1>6. guest_path_to_host(d) # NoHost <=> Head(p) \in Volumes
  BY <1>4, <1>5, GuestHostFacts
<1>7. \A q \in Seq(Name) : Len(q) > 1 /\ guest_parent(q) = d /\ Last(q) = Last(p) => q = p
  BY <1>1, SameEntry
<1>8. /\ DOMAIN disk = HostPaths /\ DOMAIN virtual_files \subseteq Paths /\ Mounted \subseteq Paths
  BY PathAssumption DEF NamesInv, DiskOf, VirtualOf
<1>9. \A q \in Paths : q \in Seq(Name) /\ Len(q) > 1
  BY PathLong
<1>10. \A q \in HostPaths : q \in Seq(Name)
  BY HostFacts
<1>11. /\ Last(p) # "." /\ Last(p) # ".." /\ Last(p) # Last(MainPath)
  BY PathAssumption DEF is_main_module_path, guest_basename
<1>12. stat_path(d).kind = "dir"
  BY DEF guest_dir_exists, file_attributes_for_path
<1> DEFINE host == IF guest_path_to_host(d) # NoHost
                     THEN {Entry("host", Last(q), disk[q].kind, Len(disk[q].bytes)) : q \in Children(d)}
                     ELSE {}
           virtual == {Entry("virtual", Last(q), "file", Len(virtual_files[q])) :
                         q \in {r \in DOMAIN virtual_files : guest_parent(r) = d}}
           mounts == {Entry("mount", Last(q), "file", Len(disk[MountFile(q)].bytes)) :
                         q \in {r \in Mounted : guest_parent(r) = d}}
           known == host \cup virtual \cup mounts
           main == IF /\ guest_parent(MainPath) = d
                      /\ \A x \in known : x.name # Last(MainPath)
                     THEN {Entry("main", Last(MainPath), "file", 0)} ELSE {}
<1>13. list_dir(d) = {Entry("dot", ".", "dir", 0), Entry("dot", "..", "dir", 0)} \cup known \cup main
  BY <1>12 DEF list_dir
<1>14. \A o, n, k, s : Entry(o, n, k, s).name = n
  BY DEF Entry
<1>15. \A x \in main : x = Entry("main", Last(MainPath), "file", 0)
  OBVIOUS
<1>16. e \in host /\ e.name = Last(p) <=> /\ Head(p) \in Volumes /\ disk[p].kind # "none"
                                          /\ e = Entry("host", Last(p), disk[p].kind, Len(disk[p].bytes))
  <2>1. \A q : q \in Children(d) <=> /\ q \in HostPaths /\ Len(q) > 1 /\ guest_parent(q) = d
                                     /\ disk[q].kind # "none"
    BY <1>2, <1>3, <1>8, <1>10, ChildFacts DEF Children
  <2>2. ASSUME e \in host, e.name = Last(p)
        PROVE  /\ Head(p) \in Volumes /\ disk[p].kind # "none"
               /\ e = Entry("host", Last(p), disk[p].kind, Len(disk[p].bytes))
    <3>1. Head(p) \in Volumes
      BY <1>6, <2>2
    <3>2. PICK q \in Children(d) : e = Entry("host", Last(q), disk[q].kind, Len(disk[q].bytes))
      BY <2>2
    <3>3. Last(q) = Last(p)
      BY <1>14, <2>2, <3>2
    <3>4. q = p /\ disk[q].kind # "none"
      BY <1>7, <1>10, <2>1, <3>2, <3>3
    <3> QED
      BY <3>1, <3>2, <3>4
  <2>3. ASSUME Head(p) \in Volumes, disk[p].kind # "none",
               e = Entry("host", Last(p), disk[p].kind, Len(disk[p].bytes))
        PROVE  e \in host /\ e.name = Last(p)
    <3>1. p \in Children(d)
      BY <1>1, <1>5, <2>1, <2>3
    <3> QED
      BY <1>6, <1>14, <2>3, <3>1
  <2> QED
    BY <2>2, <2>3
<1>17. e \in virtual /\ e.name = Last(p) <=>
         p \in DOMAIN virtual_files /\ e = Entry("virtual", Last(p), "file", Len(virtual_files[p]))
  <2>1. ASSUME e \in virtual, e.name = Last(p)
        PROVE  p \in DOMAIN virtual_files /\ e = Entry("virtual", Last(p), "file", Len(virtual_files[p]))
    <3>1. PICK q \in DOMAIN virtual_files :
            guest_parent(q) = d /\ e = Entry("virtual", Last(q), "file", Len(virtual_files[q]))
      BY <2>1
    <3>2. q = p
      BY <1>7, <1>8, <1>9, <1>14, <2>1, <3>1
    <3> QED
      BY <3>1, <3>2
  <2>2. ASSUME p \in DOMAIN virtual_files, e = Entry("virtual", Last(p), "file", Len(virtual_files[p]))
        PROVE  e \in virtual /\ e.name = Last(p)
    BY <1>14, <2>2
  <2> QED
    BY <2>1, <2>2
<1>18. e \in mounts /\ e.name = Last(p) <=>
         p \in Mounted /\ e = Entry("mount", Last(p), "file", Len(disk[MountFile(p)].bytes))
  <2>1. ASSUME e \in mounts, e.name = Last(p)
        PROVE  p \in Mounted /\ e = Entry("mount", Last(p), "file", Len(disk[MountFile(p)].bytes))
    <3>1. PICK q \in Mounted :
            guest_parent(q) = d /\ e = Entry("mount", Last(q), "file", Len(disk[MountFile(q)].bytes))
      BY <2>1
    <3>2. q = p
      BY <1>7, <1>8, <1>9, <1>14, <2>1, <3>1
    <3> QED
      BY <3>1, <3>2
  <2>2. ASSUME p \in Mounted, e = Entry("mount", Last(p), "file", Len(disk[MountFile(p)].bytes))
        PROVE  e \in mounts /\ e.name = Last(p)
    BY <1>14, <2>2
  <2> QED
    BY <2>1, <2>2
<1>19. e \in list_dir(d) <=> \/ e = Entry("dot", ".", "dir", 0) \/ e = Entry("dot", "..", "dir", 0)
                             \/ e \in host \/ e \in virtual \/ e \in mounts \/ e \in main
  BY <1>13
<1> HIDE DEF host, virtual, mounts, known, main
<1>20. e.name = Last(p) => /\ e # Entry("dot", ".", "dir", 0) /\ e # Entry("dot", "..", "dir", 0) /\ e \notin main
  BY <1>11, <1>14, <1>15
<1> QED
  BY <1>16, <1>17, <1>18, <1>19, <1>20

\* The four answers agree.
LEMMA NamesAgree ==
  ASSUME NamesInv
  PROVE  NamespaceAgrees
<1> SUFFICES ASSUME NEW p \in Paths
             PROVE  LET exists == guest_path_exists(p)
                        listed == {e \in list_dir(guest_parent(p)) : e.name = Last(p)}
                    IN
                    /\ exists <=> file_attributes_for_path(p) = "file"
                    /\ exists <=> resolve_guest_file_bytes(p).kind = "file"
                    /\ guest_dir_exists(guest_parent(p)) /\ ~is_main_module_path(p)
                         => /\ ~Hidden(p) => Cardinality(listed) <= 1
                            /\ exists <=> \E e \in listed :
                                 /\ e.kind = "file"
                                 /\ e.size = Len(resolve_guest_file_bytes(p).bytes)
  BY DEF NamespaceAgrees
<1> DEFINE exists == guest_path_exists(p)
           listed == {e \in list_dir(guest_parent(p)) : e.name = Last(p)}
           bytes == resolve_guest_file_bytes(p).bytes
<1>1. /\ exists <=> file_attributes_for_path(p) = "file"
      /\ exists <=> resolve_guest_file_bytes(p).kind = "file"
  BY Answers
<1>2. ASSUME guest_dir_exists(guest_parent(p)), ~is_main_module_path(p)
      PROVE  /\ ~Hidden(p) => Cardinality(listed) <= 1
             /\ exists <=> \E e \in listed : e.kind = "file" /\ e.size = Len(bytes)
  <2>1. /\ p \in Mounted => exists /\ resolve_guest_file_bytes(p) = disk[MountFile(p)]
        /\ p \notin Mounted /\ p \in DOMAIN virtual_files =>
             exists /\ resolve_guest_file_bytes(p) = File(virtual_files[p])
        /\ p \notin Mounted /\ Head(p) \in Volumes =>
             /\ exists <=> disk[p].kind = "file"
             /\ disk[p].kind = "file" => resolve_guest_file_bytes(p) = disk[p]
        /\ p \notin Mounted /\ Head(p) \notin Volumes /\ p \notin DOMAIN virtual_files => ~exists
    BY <1>2, Answers
  <2>2. \A e : e \in listed <=>
           \/ /\ Head(p) \in Volumes /\ disk[p].kind # "none"
              /\ e = Entry("host", Last(p), disk[p].kind, Len(disk[p].bytes))
           \/ p \in DOMAIN virtual_files /\ e = Entry("virtual", Last(p), "file", Len(virtual_files[p]))
           \/ p \in Mounted /\ e = Entry("mount", Last(p), "file", Len(disk[MountFile(p)].bytes))
    BY <1>2, ListedAs
  <2> HIDE DEF listed, exists
  <2>3. p \in DOMAIN virtual_files => Head(p) \notin Volumes
    BY DEF NamesInv, VirtualOf
  <2>4. \A o, n, k, s : Entry(o, n, k, s).kind = k /\ Entry(o, n, k, s).size = s
    BY DEF Entry
  <2>5. \A b : File(b).bytes = b
    BY DEF File
  <2>6. \A x : Cardinality({x}) = 1
    BY FS_Singleton
  <2>7. Cardinality({}) = 0
    BY FS_EmptySet
  <2>8. CASE p \notin Mounted /\ Head(p) \in Volumes /\ disk[p].kind # "none"
    <3>1. p \notin Mounted /\ p \notin DOMAIN virtual_files
      BY <2>3, <2>8
    <3>2. listed = {Entry("host", Last(p), disk[p].kind, Len(disk[p].bytes))}
      BY <2>2, <2>8, <3>1
    <3>3. PICK x : x = Entry("host", Last(p), disk[p].kind, Len(disk[p].bytes))
      OBVIOUS
    <3>4. x.kind = disk[p].kind /\ x.size = Len(disk[p].bytes)
      BY <2>4, <3>3
    <3>5. listed = {x} /\ Cardinality({x}) = 1
      BY <2>6, <3>2, <3>3
    <3>6. Cardinality(listed) <= 1
      BY <3>5
    <3>7. exists <=> x.kind = "file" /\ x.size = Len(bytes)
      BY <2>1, <2>8, <3>1, <3>4
    <3> QED
      BY <3>5, <3>6, <3>7
  <2>9. CASE p \notin Mounted /\ p \in DOMAIN virtual_files
    <3>1. listed = {Entry("virtual", Last(p), "file", Len(virtual_files[p]))}
      BY <2>2, <2>3, <2>9
    <3>2. PICK x : x = Entry("virtual", Last(p), "file", Len(virtual_files[p]))
      OBVIOUS
    <3>3. x.kind = "file" /\ x.size = Len(virtual_files[p])
      BY <2>4, <3>2
    <3>4. listed = {x} /\ Cardinality({x}) = 1
      BY <2>6, <3>1, <3>2
    <3>5. Cardinality(listed) <= 1
      BY <3>4
    <3>6. exists /\ x.size = Len(bytes)
      BY <2>1, <2>5, <2>9, <3>3
    <3> QED
      BY <3>3, <3>4, <3>5, <3>6
  <2>10. CASE p \in Mounted
    <3>1. PICK x : x = Entry("mount", Last(p), "file", Len(disk[MountFile(p)].bytes))
      OBVIOUS
    <3>2. x.kind = "file" /\ x.size = Len(disk[MountFile(p)].bytes) /\ x \in listed
      BY <2>2, <2>4, <2>10, <3>1
    <3>3. exists /\ x.size = Len(bytes)
      BY <2>1, <2>10, <3>2
    <3>4. ASSUME ~Hidden(p) PROVE Cardinality(listed) <= 1
      <4>1. Head(p) \notin Volumes /\ p \notin DOMAIN virtual_files
        BY <2>10, <3>4, PathLong, GuestHostFacts DEF Hidden
      <4>2. listed = {x} /\ Cardinality({x}) = 1
        BY <2>2, <2>6, <2>10, <3>1, <4>1
      <4> QED
        BY <4>2
    <3> QED
      BY <3>2, <3>3, <3>4
  <2>11. CASE ~(Head(p) \in Volumes /\ disk[p].kind # "none") /\ p \notin DOMAIN virtual_files /\ p \notin Mounted
    <3>1. listed = {}
      BY <2>2, <2>11
    <3>2. ~exists
      BY <2>1, <2>11
    <3> QED
      BY <2>7, <3>1, <3>2
  <2> QED
    BY <2>8, <2>9, <2>10, <2>11
<1> QED
  BY <1>1, <1>2

---------------------------------------------------------------------------
(* Theorems *)

\* The namespace, the handles, their mirrors and the files keep to each other.
THEOREM FilesStaySound == Spec => []FileInv
<1>1. Init => FileInv
  BY InitFiles
<1>2. FileInv /\ [Next]_vars => FileInv'
  BY NextFiles
<1> QED
  BY <1>1, <1>2, PTL DEF Spec

\* CreateFile, ReadFile, WriteFile, CloseHandle, DeleteFile, MoveFile and
\* GetTempFileName keep one file per path, in whichever form a handle, the
\* host or the session's virtual files hold it.
THEOREM OneFileAlways == Spec => []OneFile
<1>1. FileInv => OneFile
  <2> SUFFICES ASSUME FileInv, NEW p \in Paths \ shared, Plain(p)
               PROVE  Seen(p) = content[p]
    BY DEF OneFile, Plain
  <2>1. FileOf(p)
    BY DEF FileInv, ContentInv
  <2>2. CASE HandlesOn(p) = {}
    BY <2>1, <2>2 DEF Seen, FileOf
  <2>3. CASE HandlesOn(p) # {}
    <3>1. PICK h \in HandlesOn(p) : h = CHOOSE x \in HandlesOn(p) : TRUE
      BY <2>3
    <3>2. HandleOn(p, h)
      BY <2>1 DEF FileOf
    <3>3. Seen(p) = IF open_files[h].streaming THEN disk[open_files[h].host] ELSE File(open_files[h].bytes)
      BY <2>3, <3>1 DEF Seen
    <3> QED
      BY <3>2, <3>3 DEF HandleOn
  <2> QED
    BY <2>2, <2>3
<1> QED
  BY <1>1, FilesStaySound, PTL

\* CloseHandle, FlushFileBuffers and SetEndOfFile leave nothing unstored: a
\* handle that is not dirty has its file on the host.
THEOREM FlushesAreDurable == Spec => []DurableFlush
<1>1. FileInv => DurableFlush
  <2> SUFFICES ASSUME FileInv, NEW h \in DOMAIN open_files \ dirty, open_files[h].host # NoHost,
                      open_files[h].path \notin shared, Plain(open_files[h].path)
               PROVE  disk[open_files[h].host] = content[open_files[h].path]
    BY DEF DurableFlush, Plain
  <2>1. open_files[h].path \in Paths
    BY RecordFacts DEF FileInv, HandlesInv
  <2>2. HandleOn(open_files[h].path, h)
    BY <2>1, TheHandle DEF FileInv
  <2> QED
    BY <2>2 DEF HandleOn
<1> QED
  BY <1>1, FilesStaySound, PTL

\* ReadFile, SetFilePointer and GetFileSize answer the same in the guest's
\* table and on the host, for a handle that has not drifted.
THEOREM MirrorsExact == Spec => []MirrorExact
<1>1. FileInv => MirrorExact
  <2> SUFFICES ASSUME FileInv, NEW h \in DOMAIN open_files \ drifted
               PROVE  /\ ~failed => NextRead(h) = pos[h]
                      /\ Mirrored(h) =>
                           /\ Slot(h).handle = h
                           /\ get_file_size(h) = size(h)
                           /\ ~overrun => \A i \in 1 .. size(h) :
                                arena[Slot(h).data + i] = open_files[h].bytes[i]
    BY DEF MirrorExact
  <2>1. ExactOf(h) /\ TableInv
    BY DEF FileInv, MirrorInv
  <2>2. RecordOf(open_files[h])
    BY DEF FileInv, HandlesInv
  <2>3. ~failed => NextRead(h) = pos[h]
    BY <2>1 DEF ExactOf
  <2>4. ASSUME Mirrored(h)
        PROVE  /\ Slot(h).handle = h /\ get_file_size(h) = size(h)
               /\ ~overrun => \A i \in 1 .. size(h) : arena[Slot(h).data + i] = open_files[h].bytes[i]
    <3>1. Slot(h).handle = h /\ Slot(h).data = open_files[h].data
      BY <2>1, <2>4 DEF TableInv
    <3>2. /\ Slot(h).size = Len(open_files[h].bytes)
          /\ ~overrun => \A i \in 1 .. Len(open_files[h].bytes) :
               arena[open_files[h].data + i] = open_files[h].bytes[i]
      BY <2>1, <2>4 DEF ExactOf
    <3>3. ~open_files[h].streaming
      BY <2>2, <2>4, RecordFacts DEF Mirrored
    <3>4. size(h) = Len(open_files[h].bytes)
      BY <3>3 DEF size
    <3>5. get_file_size(h) = size(h)
      BY <3>2, <3>4 DEF get_file_size, guest_get_file_size
    <3> QED
      BY <3>1, <3>2, <3>4, <3>5
  <2> QED
    BY <2>3, <2>4
<1> QED
  BY <1>1, FilesStaySound, PTL

\* guest_path_exists, stat_path, resolve_guest_file_bytes and list_dir agree on
\* every path, and list_dir has a name once, mounted names apart that a temporary
\* file or a host file also has.
THEOREM NamesAlwaysAgree == Spec => []NamespaceAgrees
<1>1. FileInv => NamespaceAgrees
  BY NamesAgree DEF FileInv
<1> QED
  BY <1>1, FilesStaySound, PTL

\* ReadFile on the console gives every byte that was typed, once and in order.
THEOREM InputStaysInOrder == Spec => []InputInOrder
<1>1. Init => InputInv
  BY InputInit
<1>2. InputInv /\ [Next]_vars => InputInv'
  BY NextInput
<1>3. InputInv => InputInOrder
  BY DEF InputInv
<1> QED
  BY <1>1, <1>2, <1>3, PTL DEF Spec
=============================================================================
