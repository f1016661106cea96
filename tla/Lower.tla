------------------------------- MODULE Lower -------------------------------
(***************************************************************************)
(* What a compiled block does to the machine (jit/block.rs decides which   *)
(* instructions form one, jit/lower.rs emits its code).  The native code   *)
(* works on a copy of the registers it touches, defers the flags of the    *)
(* last arithmetic instruction, and stores registers back when it leaves.  *)
(* The record it works on is the machine of Interp with four more fields:  *)
(*   loaded  registers read into the copy       dirty   those written      *)
(*   pend    the deferred flag computation      ctx     the JitCtx image   *)
(* Registers outside `loaded` read as the constant 0.                      *)
(***************************************************************************)
EXTENDS Interp

CONSTANTS MaxBlock,      \* MAX_BLOCK_INSNS
          InlineBytes,   \* bytes of one inline vector copy (16)
          StringInline   \* WIE_STRING_INLINE, on by default

ASSUME LowerAssumption ==
  MaxBlock \in Nat \ {0} /\ InlineBytes \in Nat \ {0} /\ StringInline \in BOOLEAN

-----------------------------------------------------------------------------
\* Block formation.
ArithOps == {"add", "adc", "sub", "sbb", "xor", "or", "and", "cmp", "test"}
BitOps   == {"bt", "bts", "btr", "btc"}
UnaryOps == {"inc", "dec", "not", "neg"}
ShiftOps == {"shl", "shr", "sar", "rol", "ror"}
CarryRotates == {"rcl", "rcr"}   \* like bsr, only compiled code knows them
SseBitOps == {"pxor", "pand", "por", "pandn"}

is_lowerable(i) ==
  \/ i.op \in {"nop", "cwde", "cdqe", "cbw", "cwd", "cld", "std", "pushfq", "popfq", "leave",
               "lea", "mov", "movzx", "movsx", "xchg", "xadd", "cmpxchg", "bsr", "imul", "setcc"}
  \/ i.op \in ArithOps \cup BitOps \cup UnaryOps
  \/ i.op \in {"push", "pop"} /\ ~(\E o \in {i.dst, i.src} : o.k = "reg" /\ o.n = 2)
  \/ i.op = "bswap" /\ i.dst.n \in {4, 8}
  \/ i.op \in ShiftOps \cup CarryRotates /\ (i.src.k = "imm" \/ (i.src.k = "reg" /\ i.src.r = "rcx"))
  \/ i.op = "cmov" /\ i.dst.k = "reg"
  \/ i.op \in SseBitOps \cup {"ssemov", "movd", "fp"}
  \/ i.op \in StringOps

\* Writing AH .. DH is refused by the lowering, and with it the whole block.
compiles(i) == (i.dst.k = "high" => i.op \in {"cmp", "test", "bt"})
               /\ (i.op \in {"xchg", "xadd"} => i.src.k # "high")

classify_terminator(i) ==
  \/ i.op \in {"jmp", "call"} /\ i.src.k = "imm"
  \/ i.op = "jcc"
  \/ i.op = "ret" /\ i.src.v = 0

is_string_op(i) == i.op \in StringOps

\* A jump to the next instruction is no instruction of the block.
merges(i, next) == i.op = "jmp" /\ i.src.k = "imm" /\ i.src.v = next

\* The end of the block that starts at rip, 0 when nothing can be compiled: a
\* block that only falls through has at least two instructions.
decode_pure_gpr_block(prog, rip) ==
  LET term(k)  == classify_terminator(prog[k]) /\ ~merges(prog[k], k + 1)
      joins(k) == is_lowerable(prog[k]) \/ classify_terminator(prog[k])
      stop(k)  == term(k) \/ is_string_op(prog[k]) \/ k - rip + 1 = MaxBlock
      ends     == {k \in rip..Len(prog) : /\ \A j \in rip..k - 1 : joins(j) /\ ~stop(j)
                                          /\ joins(k)
                                          /\ stop(k) \/ k = Len(prog) \/ ~joins(k + 1)}
      end      == CHOOSE k \in ends : TRUE
      insns    == {k \in rip..end : ~merges(prog[k], k + 1)}
      least    == IF term(end) \/ is_string_op(prog[end]) THEN 1 ELSE 2
  IN IF ends = {} \/ Cardinality(insns) < least \/ ~(\A k \in insns : compiles(prog[k]))
     THEN 0 ELSE end

\* Registers an instruction names; a compare-exchange's accumulator is not
\* among them.
mark_insn_gprs(i) ==
  {o.r : o \in {x \in {i.dst, i.src} : x.k \in {"reg", "high"}}}
  \cup (UNION {{o.base, o.index} : o \in {x \in {i.dst, i.src} : x.k = "mem"}} \ {"none"})
  \cup (IF i.op \in {"push", "pop", "pushfq", "popfq", "leave", "call", "ret"} THEN {"rsp"} ELSE {})
  \cup (IF i.op = "leave" THEN {"rbp"} ELSE {})
  \cup (IF i.op \in {"cbw", "cwde", "cdqe", "cwd"} THEN {"rax"} ELSE {})
  \cup (IF i.op = "cwd" THEN {"rdx"} ELSE {})
  \cup (IF is_string_op(i) THEN {"rax", "rcx", "rsi", "rdi"} ELSE {})

block_needs_flags(insns) ==
  \E k \in DOMAIN insns :
    \/ insns[k].op \in ArithOps \cup BitOps \cup ShiftOps \cup StringOps
    \/ insns[k].op \in {"inc", "dec", "neg", "imul", "cld", "std", "pushfq", "popfq",
                        "cmov", "setcc", "jcc"}

-----------------------------------------------------------------------------
\* Operands.  A register operand reads as the whole register.
read_gpr(b, o) == b.gpr[o.r]

write_gpr(b, o, v) == [write_reg(b, o, v) EXCEPT !.dirty = @ \cup {o.r}]

put_gpr(b, r, v) == write_gpr(b, Reg(r, 8), size_mask(v, 8))

read_op_mem(b, o) ==
  CASE o.k \in {"reg", "high"} -> Ok(b, read_gpr(b, o))
    [] o.k = "mem"             -> read_mem_value(b, effective_address(b, o), o.n)
    [] o.k = "imm"             -> Ok(b, size_mask(o.v, 8))

write_op_mem(b, o, v) ==
  IF o.k = "mem" THEN write_mem_value(b, effective_address(b, o), v, o.n)
                 ELSE Ok(write_gpr(b, o, v), 0)

-----------------------------------------------------------------------------
\* Flag arithmetic of the emitted code.
flags_zs_pf(f, r, n) == (f \ {"ZF", "SF", "PF"}) \cup ZeroSignParity(size_mask(r, n), n)

flags_logic(f, r, n) == flags_zs_pf(f \ {"CF", "OF"}, r, n)

TopBit(v, n) == BitAt(v, Bits(n) - 1) = 1

flags_add(f, dst, src, res, n) ==
  LET d == size_mask(dst, n)
      s == size_mask(src, n)
      r == size_mask(res, n)
  IN flags_zs_pf(f \ Status, r, n)
       \cup On("CF", r < d)
       \cup On("OF", TopBit((d ^^ r) & (s ^^ r), n))
       \cup On("AF", BitAt((d ^^ s) ^^ r, ByteBits \div 2) = 1)

flags_sub(f, dst, src, res, n) ==
  LET d == size_mask(dst, n)
      s == size_mask(src, n)
      r == size_mask(res, n)
  IN flags_zs_pf(f \ Status, r, n)
       \cup On("CF", d < s)
       \cup On("OF", TopBit((d ^^ s) & (d ^^ r), n))
       \cup On("AF", BitAt((d ^^ s) ^^ r, ByteBits \div 2) = 1)

flags_adc(f, d, s, cf, res, n) ==
  set_flag(flags_add(f, d, size_mask(s + cf, n), res, n), "CF", d + s + cf >= 2^Bits(n))

flags_sbb(f, d, s, cf, res, n) == set_flag(flags_sub(f, d, s, res, n), "CF", d < s + cf)

\* A rotate through carry takes one bit of its result for the carry.
RotateFlags(f, p) ==
  LET top == TopBit(p.res, p.n)
      cf  == IF p.shift = "rcl" THEN BitAt(p.res, 0) = 1 ELSE top
      c1  == set_flag(flags_zs_pf(f, p.res, p.n), "CF", cf)
  IN IF p.count = 1 THEN set_flag(c1, "OF", cf # top) ELSE c1

materialize_shift_flags(f, p) ==
  CASE p.count = 0                              -> f
    [] p.count # 0 /\ p.shift \in CarryRotates  -> RotateFlags(f, p)
    [] p.count # 0 /\ p.shift \in ShiftOps      -> ShiftFlags(f, p.shift, p.a, p.count, p.n)

\* Deferred flags: computed from what the instruction recorded.
NoPend == [k |-> "none"]
Pend(kind, a, s, res, n) == [k |-> kind, a |-> a, s |-> s, res |-> res, n |-> n]

flush_pending_LosesCarry(b) ==
  IF b.pend.k \in {"inc", "dec"}
  THEN [b EXCEPT !.flags = flags_add(b.flags, b.pend.a, 1, b.pend.res, b.pend.n), !.pend = NoPend]
  ELSE b

flush_pending(b) ==
  LET p == b.pend
      keep(f) == set_flag(f, "CF", "CF" \in b.flags)
      f == CASE p.k = "none"  -> b.flags
             [] p.k = "add"   -> flags_add(b.flags, p.a, p.s, p.res, p.n)
             [] p.k = "sub"   -> flags_sub(b.flags, p.a, p.s, p.res, p.n)
             [] p.k = "logic" -> flags_logic(b.flags, p.res, p.n)
             [] p.k = "inc"   -> keep(flags_add(b.flags, p.a, 1, p.res, p.n))
             [] p.k = "dec"   -> keep(flags_sub(b.flags, p.a, 1, p.res, p.n))
             [] p.k = "shift" -> materialize_shift_flags(b.flags, p)
  IN [b EXCEPT !.flags = f, !.pend = NoPend]

defer(b, p) == [b EXCEPT !.pend = p]

-----------------------------------------------------------------------------
\* Instructions.
lower_mov(b, i) == Then(read_op_mem(b, i.src), LAMBDA r : write_op_mem(b, i.dst, r.v))

extend_value(v, n, signed) == IF signed THEN size_mask(sign_extend(v, n), 8) ELSE size_mask(v, n)

lower_movx(b, i) ==
  Then(read_op_mem(b, i.src), LAMBDA r :
    Ok(write_gpr(b, i.dst, extend_value(r.v, i.src.n, i.op = "movsx")), 0))

lower_cwde_cdqe(b, i) ==
  Ok(put_gpr(b, "rax", sign_extend(b.gpr["rax"], IF i.op = "cwde" THEN 2 ELSE 4)), 0)

lower_cbw(b) == Ok(write_gpr(b, Reg("rax", 2), size_mask(sign_extend(b.gpr["rax"], 1), 2)), 0)

lower_cwd(b) ==
  Ok(write_gpr(b, Reg("rdx", 2), IF SignBit(b.gpr["rax"], 2) THEN 2^Bits(2) - 1 ELSE 0), 0)

lower_bswap(b, i) ==
  LET x == ToBytes(read_gpr(b, i.dst), i.dst.n)
  IN Ok(write_gpr(b, i.dst, FromBytes([k \in DOMAIN x |-> x[Len(x) + 1 - k]])), 0)

lower_lea(b, i) == Ok(write_gpr(b, i.dst, effective_address(b, i.src)), 0)

StackStore(b, v) ==
  LET sp == size_mask(b.gpr["rsp"] - 8, 8)
  IN Then(write_mem_value(b, sp, v, 8), LAMBDA w : Ok(put_gpr(w.m, "rsp", sp), 0))

StackLoad(b) ==
  Then(read_mem_value(b, b.gpr["rsp"], 8), LAMBDA r :
    Ok(put_gpr(b, "rsp", b.gpr["rsp"] + 8), r.v))

lower_push(b, i) == Then(read_op_mem(b, i.src), LAMBDA r : StackStore(b, r.v))

lower_pop(b, i) == Then(StackLoad(b), LAMBDA r : write_op_mem(r.m, i.dst, r.v))

lower_leave(b) ==
  Then(StackLoad(put_gpr(b, "rsp", b.gpr["rbp"])), LAMBDA r : Ok(put_gpr(r.m, "rbp", r.v), 0))

lower_pushfq(b) == StackStore(b, FlagsWord(b.flags))

lower_popfq(b) ==
  Then(StackLoad(defer(b, NoPend)), LAMBDA r : Ok(with_flags(r.m, WordFlags(r.v)), 0))

\* Direction flag only: deferred flags stay deferred.
lower_direction(b, i) ==
  Ok(with_flags(b, set_flag(b.flags, "DF", i.op = "std")), 0)

\* Reads both operands at the destination's width.
BothOperands(b, i, K(_, _)) ==
  Then(read_op_mem(b, i.dst), LAMBDA x :
  Then(read_op_mem(b, i.src), LAMBDA y :
    K(size_mask(x.v, i.dst.n), size_mask(y.v, i.dst.n))))

lower_arith_lazy(b, i) ==
  BothOperands(b, i, LAMBDA x, y :
    LET n   == i.dst.n
        res == ArithResult(i.op, x, y, 0, n)
        p   == IF i.op \in {"add", "sub"} THEN Pend(i.op, x, y, res, n)
               ELSE Pend("logic", 0, 0, res, n)
    IN Then(write_op_mem(b, i.dst, res), LAMBDA w : Ok(defer(w.m, p), 0)))

lower_cmp_test_lazy(b, i) ==
  BothOperands(b, i, LAMBDA x, y :
    LET n == i.dst.n
    IN Ok(defer(b, IF i.op = "cmp" THEN Pend("sub", x, y, size_mask(x - y, n), n)
                   ELSE Pend("logic", 0, 0, x & y, n)), 0))

\* From here on to setcc: the flags are live, and lower_insn has flushed.
lower_arith(b, i) ==
  BothOperands(b, i, LAMBDA x, y :
    LET n   == i.dst.n
        cf  == IF "CF" \in b.flags THEN 1 ELSE 0
        res == ArithResult(i.op, x, y, cf, n)
        f   == IF i.op = "adc" THEN flags_adc(b.flags, x, y, cf, res, n)
                               ELSE flags_sbb(b.flags, x, y, cf, res, n)
    IN Then(write_op_mem(b, i.dst, res), LAMBDA w : Ok(with_flags(w.m, f), 0)))

lower_inc_dec_lazy(b, i) ==
  Then(read_op_mem(b, i.dst), LAMBDA r :
    LET n   == i.dst.n
        x   == size_mask(r.v, n)
        res == size_mask(IF i.op = "inc" THEN x + 1 ELSE x - 1, n)
    IN Then(write_op_mem(b, i.dst, res), LAMBDA w : Ok(defer(w.m, Pend(i.op, x, 1, res, n)), 0)))

lower_neg_lazy(b, i) ==
  Then(read_op_mem(b, i.dst), LAMBDA r :
    LET n   == i.dst.n
        x   == size_mask(r.v, n)
        res == size_mask(-x, n)
    IN Then(write_op_mem(b, i.dst, res), LAMBDA w : Ok(defer(w.m, Pend("sub", 0, x, res, n)), 0)))

lower_not(b, i) ==
  Then(read_op_mem(b, i.dst), LAMBDA r :
    write_op_mem(b, i.dst, 2^Bits(i.dst.n) - 1 - size_mask(r.v, i.dst.n)))

lower_imul(b, i) ==
  LET n     == i.dst.n
      three == "imm" \in DOMAIN i
      left  == IF three THEN i.imm ELSE i.dst
  IN Then(read_op_mem(b, left), LAMBDA x :
     Then(read_op_mem(b, i.src), LAMBDA y :
       LET p  == sign_extend(x.v, n) * sign_extend(y.v, n)
           ov == p # sign_extend(p, n)
       IN Then(write_op_mem(b, i.dst, size_mask(p, n)), LAMBDA w :
            Ok(with_flags(w.m, set_flag(set_flag(b.flags, "CF", ov), "OF", ov)), 0))))

\* As emitted, the carry goes in at the end the value is rotated out of.
RotateResult(op, d, cf, c, n) ==
  LET w == Bits(n)
  IN size_mask(IF op = "rcl" THEN (d * 2^c | d \div 2^(w - c)) | cf * 2^(w - c)
               ELSE (d \div 2^c | d * 2^(w - c)) | cf * 2^(w - c), n)

\* A zero count stores the value back and leaves the flags alone.  The count
\* bits the mask keeps all lie in CL.
lower_shift_lazy(b, i) ==
  LET n  == i.dst.n
      cf == IF "CF" \in b.flags THEN 1 ELSE 0
  IN Then(read_op_mem(b, i.dst), LAMBDA r :
     Then(read_op_mem(b, i.src), LAMBDA c :
       LET x     == size_mask(r.v, n)
           count == ShiftCount(size_mask(c.v, i.src.n), n)
           res   == CASE count = 0 -> x
                      [] count # 0 /\ i.op \in CarryRotates -> RotateResult(i.op, x, cf, count, n)
                      [] count # 0 /\ i.op \in ShiftOps -> ShiftResult(i.op, x, count, n)
           p     == [k |-> "shift", shift |-> i.op, a |-> x, res |-> res, count |-> count, n |-> n]
       IN Then(write_op_mem(b, i.dst, res), LAMBDA w : Ok(defer(w.m, p), 0))))

\* The leading zeros are those of a quadword, the width is the operand's.
lower_bsr(b, i) ==
  LET n == i.src.n
  IN Then(read_op_mem(b, i.src), LAMBDA r :
       LET v   == size_mask(r.v, n)
           top == CHOOSE k \in 0..Bits(n) - 1 : 2^k <= v /\ v < 2^(k + 1)
           res == IF v = 0 THEN 0
                  ELSE IF n = 8 THEN top ELSE size_mask(top - Bits(4), 8)
       IN Ok(with_flags(write_gpr(b, i.dst, res), set_flag(b.flags, "ZF", v = 0)), 0))

\* The index is taken modulo 64 or 32 whatever the operand, and a memory
\* operand is only the addressed word.
lower_bit_test_op(b, i) ==
  LET n == i.dst.n
  IN Then(read_op_mem(b, i.dst), LAMBDA x :
     Then(read_op_mem(b, i.src), LAMBDA y :
       LET k   == size_mask(y.v, 4) % (IF n = 8 THEN Bits(8) ELSE Bits(4))
           v   == size_mask(x.v, n)
           c   == with_flags(b, set_flag(b.flags, "CF", BitAt(v, k) = 1))
       IN IF i.op = "bt" THEN Ok(c, 0) ELSE write_op_mem(c, i.dst, BitResult(i.op, v, k))))

\* The sum is cut to four bytes and sign-extended.
lower_xadd(b, i) ==
  LET n == i.dst.n
      low == IF n < 4 THEN n ELSE 4
  IN BothOperands(b, i, LAMBDA x, y :
       LET sum == size_mask(sign_extend(x + y, low), 8)
       IN Then(write_op_mem(b, i.dst, sum), LAMBDA w :
            Ok(with_flags(write_gpr(w.m, i.src, x), flags_add(b.flags, x, y, sum, low)), 0)))

\* Stores in either case; only ZF is computed.
lower_cmpxchg(b, i) ==
  LET n == i.dst.n
  IN Then(read_op_mem(b, i.dst), LAMBDA x :
       LET v  == size_mask(x.v, n)
           eq == v = size_mask(b.gpr["rax"], n)
       IN Then(write_op_mem(b, i.dst, IF eq THEN read_gpr(b, i.src) ELSE v), LAMBDA w :
            Ok(with_flags(put_gpr(w.m, "rax", IF eq THEN b.gpr["rax"] ELSE sign_extend(v, n)),
                          set_flag(b.flags, "ZF", eq)), 0)))

\* Against memory the register is replaced before the store that may fault.
lower_xchg(b, i) ==
  LET reg == IF i.dst.k = "mem" THEN i.src ELSE i.dst
      other == IF i.dst.k = "mem" THEN i.dst ELSE i.src
  IN IF other.k = "mem"
     THEN LET a == effective_address(b, other)
          IN Then(read_mem_value(b, a, reg.n), LAMBDA x :
               write_mem_value(write_gpr(b, reg, x.v), a, read_gpr(b, reg), reg.n))
     ELSE LET x == read_gpr(b, i.dst)
              y == read_gpr(b, i.src)
          IN Ok(write_gpr(write_gpr(b, i.dst, y), i.src, x), 0)

\* The source is read whether or not the condition holds.
lower_cmov(b, i) ==
  Then(read_op_mem(b, i.src), LAMBDA r :
    Ok(IF cond_from_jcc(i.cc, b.flags) THEN write_gpr(b, i.dst, r.v)
       ELSE [b EXCEPT !.dirty = @ \cup {i.dst.r}], 0))

lower_setcc(b, i) ==
  write_op_mem(b, i.dst, IF cond_from_jcc(i.cc, b.flags) THEN 1 ELSE 0)

-----------------------------------------------------------------------------
\* Vector instructions; sixteen bytes move as two halves, and the second
\* half may fault after the first was stored.
load_sse_mem(b, a, k) ==
  LET bad(x, len) == ~CanRead(b, x, len)
  IN CASE k < 16 /\ bad(a, k)      -> Fault(b, "read", a)
       [] k = 16 /\ bad(a, 8)      -> Fault(b, "read", a)
       [] k = 16 /\ ~bad(a, 8) /\ bad(a + 8, 8) -> Fault(b, "read", a + 8)
       [] OTHER                    -> Ok(b, ReadLanes(b, a, k))

store_sse_mem(b, a, v, k) ==
  IF k < 16 THEN IF CanWrite(b, a, k) THEN Ok(Poke(b, a, LaneBytes(v, k)), 0)
                                      ELSE Fault(b, "write", a)
  ELSE IF ~CanWrite(b, a, 8) THEN Fault(b, "write", a)
  ELSE LET w == Poke(b, a, LaneBytes(v, 8))
       IN IF CanWrite(w, a + 8, 8) THEN Ok(Poke(b, a, LaneBytes(v, 16)), 0)
          ELSE Fault(w, "write", a + 8)

SseSource(b, o, k) ==
  IF o.k = "xmm" THEN Ok(b, b.xmm[o.r]) ELSE load_sse_mem(b, effective_address(b, o), k)

SseMerge(old, v, k) == [l \in Lanes |-> IF l \in Low(k) THEN v[l] ELSE old[l]]

lower_sse_mov(b, i) ==
  IF i.src.k = "reg"     \* movq xmm, r64
  THEN LET v == read_gpr(b, i.src)
       IN Ok(write_xmm(b, i.dst.r, [b.xmm[i.dst.r] EXCEPT ![0] = v % LaneMax, ![1] = v \div LaneMax]), 0)
  ELSE IF i.dst.k = "reg"     \* movq r64, xmm
  THEN Ok(write_gpr(b, i.dst, b.xmm[i.src.r][0] + b.xmm[i.src.r][1] * LaneMax), 0)
  ELSE Then(SseSource(b, i.src, i.k), LAMBDA r :
         IF i.dst.k = "xmm" THEN Ok(write_xmm(b, i.dst.r, SseMerge(b.xmm[i.dst.r], r.v, i.k)), 0)
         ELSE store_sse_mem(b, effective_address(b, i.dst), r.v, i.k))

lower_sse_bitwise(b, i) ==
  Then(SseSource(b, i.src, 16), LAMBDA r :
    Ok(write_xmm(b, i.dst.r, [l \in Lanes |-> SseBit(i.op, b.xmm[i.dst.r][l], r.v[l])]), 0))

lower_sse_fp(b, i) ==
  Then(SseSource(b, i.src, i.k), LAMBDA r :
    LET old == b.xmm[i.dst.r]
    IN Ok(write_xmm(b, i.dst.r, SseMerge(old, FpLanes(i.fp, i.w, old, r.v, i.k), i.k)), 0))

lower_sse_movd(b, i) ==
  IF i.dst.k = "xmm"
  THEN Then(read_op_mem(b, i.src), LAMBDA r :
         Ok(write_xmm(b, i.dst.r, [l \in Lanes |-> IF l = 0 THEN size_mask(r.v, 4) ELSE 0]), 0))
  ELSE write_op_mem(b, i.dst, b.xmm[i.src.r][0])

-----------------------------------------------------------------------------
\* A string instruction ends its block.  Small forward copies and fills are
\* done inline, in whole vectors of InlineBytes; everything else goes through
\* the interpreter's routine on the JitCtx image.  The value is the next rip.
InlineRep(b, i) ==
  LET len == b.gpr["rcx"] * i.n
  IN /\ StringInline /\ i.op \in {"stos", "movs"} /\ i.rep # "none" /\ "DF" \notin b.flags
     /\ len \in InlineBytes..4 * InlineBytes
     /\ host_span(b, b.gpr["rdi"], len, TRUE)
     /\ i.op = "movs" => host_span(b, b.gpr["rsi"], len, FALSE)

\* Vectors are copied in order, each read when its turn comes.
emit_inline_copy_chunks(b, i, len) ==
  LET chunk(m, c) ==
        LET off == c * InlineBytes
        IN Poke(m, m.gpr["rdi"] + off, BulkBytes(m, i, m.gpr["rsi"] + off, InlineBytes))
      after[c \in 0..4] == IF c = 0 THEN b
                           ELSE IF len >= c * InlineBytes THEN chunk(after[c - 1], c - 1)
                           ELSE after[c - 1]
  IN after[4]

\* The registers the inline path moves are not marked dirty.
try_lower_inline_rep(b, i) ==
  LET len == b.gpr["rcx"] * i.n
      w   == Bump(emit_inline_copy_chunks(b, i, len),
                  IF i.op = "movs" THEN {"rsi", "rdi"} ELSE {"rdi"}, len)
  IN Ok([w EXCEPT !.gpr["rcx"] = 0], b.rip)

Flushed(b) == [r \in Gprs |-> IF r \in b.loaded THEN b.gpr[r] ELSE b.ctx.gpr[r]]

FromString(b, r) ==
  LET g    == r.m.gpr
      back == [r.m EXCEPT !.ctx = [gpr |-> g, flags |-> r.m.flags],
                          !.gpr = [x \in Gprs |-> IF x \in {"rax", "rcx", "rsi", "rdi"} THEN g[x]
                                                  ELSE b.gpr[x]]]
  IN IF r.err = "none" THEN Ok(back, IF r.v THEN b.rip - 1 ELSE b.rip) ELSE [r EXCEPT !.m = back]

wie_jit_string(b, i) == FromString(b, run_string_op([b EXCEPT !.gpr = Flushed(b)], i))

lower_string(b, i) ==
  IF InlineRep(b, i) THEN try_lower_inline_rep(b, i) ELSE wie_jit_string(b, i)

-----------------------------------------------------------------------------
lower_insn(b, i) ==
  CASE i.op = "nop"                         -> Ok(b, 0)
    [] i.op = "mov"                         -> lower_mov(b, i)
    [] i.op \in {"movzx", "movsx"}          -> lower_movx(b, i)
    [] i.op \in {"cwde", "cdqe"}            -> lower_cwde_cdqe(b, i)
    [] i.op = "cbw"                         -> lower_cbw(b)
    [] i.op = "cwd"                         -> lower_cwd(b)
    [] i.op = "lea"                         -> lower_lea(b, i)
    [] i.op = "push"                        -> lower_push(b, i)
    [] i.op = "pop"                         -> lower_pop(b, i)
    [] i.op = "pushfq"                      -> lower_pushfq(flush_pending(b))
    [] i.op = "popfq"                       -> lower_popfq(b)
    [] i.op = "leave"                       -> lower_leave(b)
    [] i.op \in {"cld", "std"}              -> lower_direction(b, i)
    [] i.op = "bswap"                       -> lower_bswap(b, i)
    [] i.op = "xchg"                        -> lower_xchg(b, i)
    [] i.op = "not"                         -> lower_not(b, i)
    [] i.op \in BitOps                      -> lower_bit_test_op(flush_pending(b), i)
    [] i.op = "xadd"                        -> lower_xadd(flush_pending(b), i)
    [] i.op = "cmpxchg"                     -> lower_cmpxchg(flush_pending(b), i)
    [] i.op = "bsr"                         -> lower_bsr(flush_pending(b), i)
    [] i.op \in {"add", "sub", "xor", "or", "and"} -> lower_arith_lazy(b, i)
    [] i.op \in {"cmp", "test"}             -> lower_cmp_test_lazy(b, i)
    [] i.op \in {"adc", "sbb"}              -> lower_arith(flush_pending(b), i)
    [] i.op \in {"inc", "dec"}              -> lower_inc_dec_lazy(b, i)
    [] i.op = "neg"                         -> lower_neg_lazy(b, i)
    [] i.op = "imul"                        -> lower_imul(flush_pending(b), i)
    [] i.op \in ShiftOps \cup CarryRotates  -> lower_shift_lazy(flush_pending(b), i)
    [] i.op = "cmov"                        -> lower_cmov(flush_pending(b), i)
    [] i.op = "setcc"                       -> lower_setcc(flush_pending(b), i)
    [] i.op = "ssemov"                      -> lower_sse_mov(b, i)
    [] i.op = "movd"                        -> lower_sse_movd(b, i)
    [] i.op \in SseBitOps                   -> lower_sse_bitwise(b, i)
    [] i.op = "fp"                          -> lower_sse_fp(b, i)

\* The terminator's value is the rip the block leaves at.
lower_term(b, i) ==
  CASE i.op = "jmp"  -> Ok(b, i.src.v)
    [] i.op = "jcc"  -> Ok(b, IF cond_from_jcc(i.cc, b.flags) THEN i.src.v ELSE b.rip)
    [] i.op = "call" -> Then(StackStore(b, b.rip), LAMBDA w : Ok(w.m, i.src.v))
    [] i.op = "ret"  -> StackLoad(b)

-----------------------------------------------------------------------------
LowerOne(b, i) ==
  CASE merges(i, b.rip)                               -> Ok(b, b.rip)
    [] classify_terminator(i) /\ ~merges(i, b.rip)    -> lower_term(flush_pending(b), i)
    [] is_string_op(i)                                -> lower_string(flush_pending(b), i)
    [] ~classify_terminator(i) /\ ~is_string_op(i)    -> lower_insn(b, i)

\* The body in order, rip on the instruction being executed; a fault leaves
\* with the flags as last computed, deferred ones lost.
RECURSIVE emit_body_and_term(_, _, _)
emit_body_and_term(b, prog, end) ==
  Then(FaultAt(b.rip, LowerOne([b EXCEPT !.rip = @ + 1], prog[b.rip])), LAMBDA r :
    IF b.rip # end THEN emit_body_and_term(r.m, prog, end)
    ELSE LET t  == prog[end]
             at == IF classify_terminator(t) \/ is_string_op(t) THEN r.v ELSE end + 1
         IN Ok([flush_pending(r.m) EXCEPT !.rip = at], 0))

self_loop(prog, start, end) ==
  LET t == prog[end]
  IN t.op \in {"jmp", "jcc"} /\ (t.src.v = start \/ (t.op = "jcc" /\ end + 1 = start))

\* Entry: the named registers (all of them in a self-loop) and, when some
\* instruction needs them, the flags.
Enter(m, prog, end) ==
  LET insns == SubSeq(prog, m.rip, end)
      live  == IF self_loop(prog, m.rip, end) THEN Gprs
               ELSE UNION {mark_insn_gprs(insns[k]) : k \in DOMAIN insns}
      fl    == block_needs_flags(insns) \/ self_loop(prog, m.rip, end)
  IN [gpr |-> [r \in Gprs |-> IF r \in live THEN m.gpr[r] ELSE 0],
      xmm |-> m.xmm, flags |-> IF fl THEN m.flags ELSE {}, mem |-> m.mem, prot |-> m.prot,
      rip |-> m.rip, loaded |-> live, dirty |-> {}, pend |-> NoPend,
      ctx |-> [gpr |-> m.gpr, flags |-> m.flags]]

\* Leaving: through the exit block every loaded register is stored, towards
\* a chained successor only the dirty ones.
writeback_gprs(b, keep, storeflags) ==
  [gpr   |-> [r \in Gprs |-> IF r \in keep THEN b.gpr[r] ELSE b.ctx.gpr[r]],
   xmm   |-> b.xmm, mem |-> b.mem, prot |-> b.prot, rip |-> b.rip,
   flags |-> IF storeflags THEN b.flags ELSE b.ctx.flags]

emit_chain_or_exit(b, chained, storeflags) ==
  writeback_gprs(b, IF chained THEN b.dirty \cap b.loaded ELSE b.loaded, storeflags)

Left(r, end, chained, storeflags) ==
  [m |-> emit_chain_or_exit(r.m, chained /\ r.err = "none", storeflags), err |-> r.err, at |-> r.at,
   last |-> IF r.err = "none" THEN end ELSE r.m.rip, pend |-> r.m.pend]

\* One run of the block at m.rip.  A self-loop goes round without leaving;
\* one pass is one run here, its registers being the loaded set throughout.
run_block(m, prog, end, chained) ==
  Left(emit_body_and_term(Enter(m, prog, end), prog, end), end, chained,
       block_needs_flags(SubSeq(prog, m.rip, end)) \/ self_loop(prog, m.rip, end))
=============================================================================
