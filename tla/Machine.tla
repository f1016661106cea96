------------------------------- MODULE Machine -------------------------------
(***************************************************************************)
(* The register file, the flags and the guest bytes an instruction works   *)
(* on (regs.rs, the checked accesses of GuestMemory, the operand helpers   *)
(* of exec.rs).  The interpreter (Interp) and the compiled blocks (Lower)  *)
(* both act on this machine.                                               *)
(*                                                                         *)
(* Width is scaled: a guest byte has ByteBits bits, a word of n bytes has  *)
(* n * ByteBits, the auxiliary carry leaves the lower half of a byte, and  *)
(* a vector register is four lanes of four bytes.                          *)
(***************************************************************************)
EXTENDS Integers, FiniteSets, Sequences, Bitwise

CONSTANTS ByteBits,      \* bits of a guest byte
          Gprs,          \* names of the general registers, "rax", "rsp", ...
          Xmms,          \* vector registers
          MemBytes,      \* bytes of guest memory, addresses 0 .. MemBytes - 1
          PageBytes,     \* bytes of a page, the granule of access rights
          ArenaPages     \* pages backed by the one contiguous host arena

ASSUME MachineAssumption ==
  /\ ByteBits \in {2, 4} /\ PageBytes \in Nat \ {0} /\ MemBytes \in Nat
  /\ {"rax", "rcx", "rdx", "rsp", "rbp", "rsi", "rdi"} \subseteq Gprs
  /\ ArenaPages \subseteq Nat

\* Arithmetic at a width of n bytes.
Bits(n) == n * ByteBits

size_mask(v, n) == v % 2^Bits(n)

SignBit(v, n) == size_mask(v, n) >= 2^(Bits(n) - 1)

sign_extend(v, n) ==
  IF SignBit(v, n) THEN size_mask(v, n) - 2^Bits(n) ELSE size_mask(v, n)

BitAt(v, k) == (v \div 2^k) % 2

\* Flags are the set of those that are on.
Status == {"CF", "PF", "AF", "ZF", "SF", "OF"}
Flags  == Status \cup {"DF"}

On(name, cond) == IF cond THEN {name} ELSE {}

set_flag(f, name, cond) == (f \ {name}) \cup On(name, cond)

parity_even(v) == Cardinality({k \in 0..ByteBits - 1 : BitAt(v, k) = 1}) % 2 = 0

ZeroSignParity(v, n) ==
  On("ZF", size_mask(v, n) = 0) \cup On("SF", SignBit(v, n)) \cup On("PF", parity_even(v))

\* Carry across the middle of the low byte.
HalfCarry(d, s, r) ==
  LET k == ByteBits \div 2 IN (BitAt(d, k) + BitAt(s, k) + BitAt(r, k)) % 2 = 1

set_logic_flags(f, v, n) == (f \ (Status \ {"AF"})) \cup ZeroSignParity(v, n)

set_add_flags(f, dst, src, res, n) ==
  LET d == size_mask(dst, n)
      s == size_mask(src, n)
      r == size_mask(res, n)
  IN (f \ Status) \cup ZeroSignParity(r, n)
       \cup On("CF", d + s >= 2^Bits(n))
       \cup On("OF", SignBit(d, n) = SignBit(s, n) /\ SignBit(r, n) # SignBit(d, n))
       \cup On("AF", HalfCarry(d, s, r))

set_sub_flags(f, dst, src, res, n) ==
  LET d == size_mask(dst, n)
      s == size_mask(src, n)
      r == size_mask(res, n)
  IN (f \ Status) \cup ZeroSignParity(r, n)
       \cup On("CF", d < s)
       \cup On("OF", SignBit(d, n) # SignBit(s, n) /\ SignBit(r, n) # SignBit(d, n))
       \cup On("AF", HalfCarry(d, s, r))

\* The sixteen conditions of Jcc, CMOVcc and SETcc.
cond_from_jcc(c, f) ==
  CASE c = "e"  -> "ZF" \in f
    [] c = "ne" -> "ZF" \notin f
    [] c = "a"  -> f \cap {"CF", "ZF"} = {}
    [] c = "ae" -> "CF" \notin f
    [] c = "b"  -> "CF" \in f
    [] c = "be" -> f \cap {"CF", "ZF"} # {}
    [] c = "g"  -> "ZF" \notin f /\ ("SF" \in f <=> "OF" \in f)
    [] c = "ge" -> "SF" \in f <=> "OF" \in f
    [] c = "l"  -> ~("SF" \in f <=> "OF" \in f)
    [] c = "le" -> "ZF" \in f \/ ~("SF" \in f <=> "OF" \in f)
    [] c = "o"  -> "OF" \in f
    [] c = "no" -> "OF" \notin f
    [] c = "s"  -> "SF" \in f
    [] c = "ns" -> "SF" \notin f
    [] c = "p"  -> "PF" \in f
    [] c = "np" -> "PF" \notin f

-----------------------------------------------------------------------------
\* An outcome carries the machine as far as it got: a fault keeps what the
\* instruction already changed.
Ok(m, v)        == [m |-> m, v |-> v, err |-> "none", at |-> 0]
Fault(m, e, a)  == [m |-> m, v |-> 0, err |-> e, at |-> a]
Then(r, K(_))   == IF r.err = "none" THEN K(r) ELSE r

\* Rights are checked for the whole access before a byte moves.
PageOf(a)    == a \div PageBytes
Span(a, len) == {(a + k) % 2^Bits(8) : k \in 0..len - 1}
Rights(m, a) == IF a < MemBytes THEN m.prot[PageOf(a)] ELSE "none"
CanRead(m, a, len)  == \A x \in Span(a, len) : Rights(m, x) # "none"
CanWrite(m, a, len) == \A x \in Span(a, len) : Rights(m, x) = "rw"

\* A span the host may treat as one block: rights throughout, and one page
\* or the arena throughout.
host_span(m, a, len, write) ==
  /\ IF write THEN CanWrite(m, a, len) ELSE CanRead(m, a, len)
  /\ \/ PageOf(a) = PageOf(a + len - 1)
     \/ \A x \in Span(a, len) : PageOf(x) \in ArenaPages

Poke(m, a, bytes) ==
  [m EXCEPT !.mem = [x \in DOMAIN m.mem |->
     IF x \in a..a + Len(bytes) - 1 THEN bytes[x - a + 1] ELSE m.mem[x]]]

\* Little-endian bytes of a value.
ToBytes(v, n) == [k \in 1..n |-> (v \div 2^Bits(k - 1)) % 2^ByteBits]

FromBytes(b) ==
  LET V[k \in 0..Len(b)] == IF k = 0 THEN 0 ELSE V[k - 1] + b[k] * 2^Bits(k - 1)
  IN V[Len(b)]

PeekBytes(m, a, len) == [k \in 1..len |-> m.mem[a + k - 1]]

read_mem_value(m, a, n) ==
  IF CanRead(m, a, n) THEN Ok(m, FromBytes(PeekBytes(m, a, n))) ELSE Fault(m, "read", a)

write_mem_value(m, a, v, n) ==
  IF CanWrite(m, a, n) THEN Ok(Poke(m, a, ToBytes(v, n)), 0) ELSE Fault(m, "write", a)

-----------------------------------------------------------------------------
\* Operands: a register part, a memory operand, an immediate.
Reg(r, n)    == [k |-> "reg", r |-> r, n |-> n]
High(r)      == [k |-> "high", r |-> r, n |-> 1]
Mem(b, d, n) == [k |-> "mem", base |-> b, index |-> "none", scale |-> 1, disp |-> d, n |-> n]
Imm(v, n)    == [k |-> "imm", v |-> v, n |-> n]
Xmm(x)       == [k |-> "xmm", r |-> x, n |-> 16]
None         == [k |-> "none", n |-> 0]

read_reg(m, o) ==
  IF o.k = "high" THEN (m.gpr[o.r] \div 2^ByteBits) % 2^ByteBits
                  ELSE size_mask(m.gpr[o.r], o.n)

\* Narrow writes merge; four-byte writes clear the upper half.
write_reg(m, o, v) ==
  LET old == m.gpr[o.r]
      new == CASE o.k = "high"    -> old - read_reg(m, o) * 2^ByteBits
                                         + (v % 2^ByteBits) * 2^ByteBits
               [] o.k = "reg" /\ o.n \in {1, 2} -> old - size_mask(old, o.n) + size_mask(v, o.n)
               [] o.k = "reg" /\ o.n \in {4, 8} -> size_mask(v, o.n)
  IN [m EXCEPT !.gpr[o.r] = new]

effective_address(m, o) ==
  LET part(r) == IF r = "none" THEN 0 ELSE m.gpr[r]
  IN size_mask(o.disp + part(o.base) + part(o.index) * o.scale, 8)

read_op(m, o) ==
  CASE o.k \in {"reg", "high"} -> Ok(m, read_reg(m, o))
    [] o.k = "mem"             -> read_mem_value(m, effective_address(m, o), o.n)
    [] o.k = "imm"             -> Ok(m, size_mask(o.v, 8))

write_op(m, o, v) ==
  IF o.k = "mem" THEN write_mem_value(m, effective_address(m, o), v, o.n)
                 ELSE Ok(write_reg(m, o, v), 0)

set_gpr(m, r, v) == [m EXCEPT !.gpr[r] = size_mask(v, 8)]

with_flags(m, f) == [m EXCEPT !.flags = f]

\* The stack pointer moves only once the access succeeded.
push_n(m, v, n) ==
  LET sp == size_mask(m.gpr["rsp"] - n, 8)
  IN Then(write_mem_value(m, sp, v, n), LAMBDA r : Ok(set_gpr(r.m, "rsp", sp), 0))

pop_n(m, n) ==
  Then(read_mem_value(m, m.gpr["rsp"], n),
       LAMBDA r : Ok(set_gpr(r.m, "rsp", m.gpr["rsp"] + n), r.v))
=============================================================================
