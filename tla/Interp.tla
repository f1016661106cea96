------------------------------- MODULE Interp -------------------------------
(***************************************************************************)
(* What the interpreter does with one decoded instruction (exec.rs).  An   *)
(* instruction is a record [op, dst, src, ...]; every exec_* operator maps *)
(* a machine to an outcome, which keeps whatever the code had already      *)
(* changed when an access faults.                                          *)
(***************************************************************************)
EXTENDS Machine

CONSTANTS Fp(_, _, _, _),    \* host floating point: operation, bytes, operands
          RepBulkMax,        \* REP_BULK_MAX: elements of one REP step
          RepHostMin,        \* REP_HOST_BULK_MIN_BYTES
          ChunkBytes         \* the copy buffer of the page-chunked path

ASSUME InterpAssumption ==
  RepBulkMax \in Nat \ {0} /\ RepHostMin \in Nat /\ ChunkBytes \in Nat \ {0}

-----------------------------------------------------------------------------
\* Data movement.
exec_mov(m, i) == Then(read_op(m, i.src), LAMBDA r : write_op(r.m, i.dst, r.v))

exec_movzx(m, i) ==
  Then(read_op(m, i.src), LAMBDA r :
    write_op(r.m, i.dst, IF i.op = "movsx" THEN size_mask(sign_extend(r.v, i.src.n), 8)
                                           ELSE size_mask(r.v, i.src.n)))

exec_lea(m, i) == Ok(write_reg(m, i.dst, effective_address(m, i.src)), 0)

StackSize(o) == IF o.k = "reg" /\ o.n = 2 THEN 2 ELSE 8

exec_push(m, i) == Then(read_op(m, i.src), LAMBDA r : push_n(r.m, r.v, StackSize(i.src)))

exec_pop(m, i) == Then(pop_n(m, StackSize(i.dst)), LAMBDA r : write_op(r.m, i.dst, r.v))

exec_xchg(m, i) ==
  Then(read_op(m, i.dst), LAMBDA a :
  Then(read_op(m, i.src), LAMBDA b :
  Then(write_op(m, i.dst, b.v), LAMBDA w : write_op(w.m, i.src, a.v))))

exec_bswap(m, i) ==
  LET b == ToBytes(read_reg(m, i.dst), i.dst.n)
  IN IF i.dst.n \in {4, 8}
     THEN Ok(write_reg(m, i.dst, FromBytes([k \in DOMAIN b |-> b[Len(b) + 1 - k]])), 0)
     ELSE Fault(m, "cpu", 0)

\* The conversions that extend the accumulator into itself or into rdx.
exec_convert(m, i) ==
  LET a == m.gpr["rax"]
      ext(n) == sign_extend(a, n)
      fill(n) == IF SignBit(a, n) THEN 2^Bits(n) - 1 ELSE 0
  IN Ok(CASE i.op = "cdqe" -> set_gpr(m, "rax", ext(4))
          [] i.op = "cwde" -> write_reg(m, Reg("rax", 4), ext(2))
          [] i.op = "cbw"  -> write_reg(m, Reg("rax", 2), ext(1))
          [] i.op = "cdq"  -> set_gpr(m, "rdx", fill(4))
          [] i.op = "cwd"  -> write_reg(m, Reg("rdx", 2), fill(2))
          [] i.op = "cqo"  -> set_gpr(m, "rdx", fill(8)), 0)

exec_flag_op(m, i) ==
  Ok(with_flags(m, CASE i.op = "cld" -> m.flags \ {"DF"}
                     [] i.op = "std" -> m.flags \cup {"DF"}
                     [] i.op = "clc" -> m.flags \ {"CF"}
                     [] i.op = "stc" -> m.flags \cup {"CF"}
                     [] i.op = "cmc" -> set_flag(m.flags, "CF", "CF" \notin m.flags)), 0)

\* Bit positions of the flags, and the bit that always reads as one.
FlagPos == [CF |-> 0, PF |-> 2, AF |-> 4, ZF |-> 6, SF |-> 7, DF |-> 10, OF |-> 11]

FlagsWord(f) ==
  LET V[k \in 0..12] == IF k = 0 THEN 2
                        ELSE V[k - 1] + (IF \E x \in f : FlagPos[x] = k - 1 THEN 2^(k - 1) ELSE 0)
  IN V[12]

WordFlags(v) == {x \in Flags : BitAt(v, FlagPos[x]) = 1}

exec_pushfq(m) == push_n(m, FlagsWord(m.flags), 8)

exec_popfq(m) == Then(pop_n(m, 8), LAMBDA r : Ok(with_flags(r.m, WordFlags(r.v)), 0))

\* rsp is replaced before the pop that may fault.
exec_leave(m) ==
  Then(pop_n(set_gpr(m, "rsp", m.gpr["rbp"]), 8), LAMBDA r : Ok(set_gpr(r.m, "rbp", r.v), 0))

\* No real ports and no real identification: constants.
exec_stub(m, i) ==
  Ok(CASE i.op = "cpuid" -> [m EXCEPT !.gpr = [r \in Gprs |->
                              IF r \in {"rax", "rbx", "rcx", "rdx"} THEN 0 ELSE m.gpr[r]]]
       [] i.op = "in"    -> set_gpr(m, "rax", 0)
       [] i.op = "ins"   -> IF i.rep THEN set_gpr(m, "rcx", 0) ELSE m
       [] i.op = "nop"   -> m, 0)

-----------------------------------------------------------------------------
\* Arithmetic.  Flags are set before the destination is written.
ArithResult(op, d, s, cf, n) ==
  size_mask(CASE op = "add"            -> d + s
              [] op = "adc"            -> d + s + cf
              [] op \in {"sub", "cmp"} -> d - s
              [] op = "sbb"            -> d - s - cf
              [] op = "xor"            -> d ^^ s
              [] op = "or"             -> d | s
              [] op = "and"            -> d & s, n)

ArithFlags(f, op, d, s, cf, n) ==
  LET r == ArithResult(op, d, s, cf, n)
  IN CASE op = "add" -> set_add_flags(f, d, s, r, n)
       [] op = "adc" -> set_flag(set_add_flags(f, d, s + cf, r, n), "CF", d + s + cf >= 2^Bits(n))
       [] op \in {"sub", "cmp"} -> set_sub_flags(f, d, s, r, n)
       [] op = "sbb" ->
            set_flag(set_flag(set_sub_flags(f, d, s, r, n), "CF", d < s + cf),
                     "OF", sign_extend(d, n) - sign_extend(s, n) - cf # sign_extend(r, n))
       [] op \in {"xor", "or", "and"} -> set_logic_flags(f, r, n)

exec_arith(m, i) ==
  Then(read_op(m, i.dst), LAMBDA a :
  Then(read_op(m, i.src), LAMBDA b :
    LET n  == i.dst.n
        d  == size_mask(a.v, n)
        s  == size_mask(b.v, n)
        cf == IF "CF" \in m.flags THEN 1 ELSE 0
        w  == with_flags(m, ArithFlags(m.flags, i.op, d, s, cf, n))
    IN IF i.op = "cmp" THEN Ok(w, 0) ELSE write_op(w, i.dst, ArithResult(i.op, d, s, cf, n))))

exec_test(m, i) ==
  Then(read_op(m, i.dst), LAMBDA a :
  Then(read_op(m, i.src), LAMBDA b :
    Ok(with_flags(m, set_logic_flags(m.flags, size_mask(a.v & b.v, i.dst.n), i.dst.n)), 0)))

exec_inc_dec(m, i) ==
  Then(read_op(m, i.dst), LAMBDA a :
    LET n   == i.dst.n
        res == IF i.op = "inc" THEN a.v + 1 ELSE a.v - 1
        f   == IF i.op = "inc" THEN set_add_flags(m.flags, a.v, 1, res, n)
                               ELSE set_sub_flags(m.flags, a.v, 1, res, n)
    IN write_op(with_flags(m, set_flag(f, "CF", "CF" \in m.flags)), i.dst, size_mask(res, n)))

exec_neg(m, i) ==
  Then(read_op(m, i.dst), LAMBDA a :
    LET f == set_sub_flags(m.flags, 0, a.v, -a.v, i.dst.n)
    IN write_op(with_flags(m, set_flag(f, "CF", a.v # 0)), i.dst, size_mask(-a.v, i.dst.n)))

exec_not(m, i) ==
  Then(read_op(m, i.dst), LAMBDA a : write_op(m, i.dst, 2^Bits(i.dst.n) - 1 - a.v))

\* A product as the high:low pair the one-operand forms leave.
write_product(m, p, n) ==
  IF n = 1 THEN write_reg(m, Reg("rax", 2), size_mask(p, 2))
  ELSE write_reg(write_reg(m, Reg("rax", n), size_mask(p, n)),
                 Reg("rdx", n), size_mask(p \div 2^Bits(n), n))

set_imul_flags(f, p, n) ==
  LET over == p < -(2^(Bits(n) - 1)) \/ p > 2^(Bits(n) - 1) - 1
  IN set_flag(set_flag(f, "CF", over), "OF", over)

exec_imul(m, i) ==
  LET n == i.dst.n
      three == "imm" \in DOMAIN i
      left  == IF three THEN i.imm ELSE i.dst
  IN Then(read_op(m, left), LAMBDA a :
     Then(read_op(m, i.src), LAMBDA b :
     LET p == sign_extend(a.v, n) * sign_extend(b.v, n)
     IN Then(write_op(m, i.dst, size_mask(p, n)), LAMBDA w :
          Ok(with_flags(w.m, set_imul_flags(w.m.flags, p, n)), 0))))

exec_imul1(m, i) ==
  Then(read_op(m, i.src), LAMBDA b :
    LET n == i.src.n
        p == sign_extend(m.gpr["rax"], n) * sign_extend(b.v, n)
        w == write_product(m, p, n)
    IN Ok(with_flags(w, set_imul_flags(w.flags, p, n)), 0))

exec_mul(m, i) ==
  Then(read_op(m, i.src), LAMBDA b :
    LET n  == i.src.n
        p  == size_mask(m.gpr["rax"], n) * b.v
        w  == write_product(m, p, n)
        hi == p >= 2^Bits(n)
    IN Ok(with_flags(w, set_flag(set_flag(w.flags, "CF", hi), "OF", hi)), 0))

\* Division truncates toward zero; the remainder takes the dividend's sign.
Quo(a, b) == LET abs(x) == IF x < 0 THEN -x ELSE x
                 q      == abs(a) \div abs(b)
             IN IF (a < 0) = (b < 0) THEN q ELSE -q

\* A byte division keeps both results in AX; the others use rdx:rax.  The
\* signed byte form does not check that the quotient fits.
exec_div(m, i) ==
  Then(read_op(m, i.src), LAMBDA r :
    LET n      == i.src.n
        signed == i.op = "idiv"
        low    == Reg("rax", IF n = 1 THEN 2 ELSE n)
        lo     == read_reg(m, low)
        hi     == IF n = 1 THEN 0 ELSE read_reg(m, Reg("rdx", n))
        num    == IF n = 1 THEN IF signed THEN sign_extend(lo, 2) ELSE lo
                  ELSE (IF signed THEN sign_extend(hi, n) ELSE hi) * 2^Bits(n) + lo
        den    == IF signed THEN sign_extend(r.v, n) ELSE r.v
        q      == Quo(num, den)
        rem    == num - q * den
        over   == IF signed
                  THEN IF n = 1 THEN q > 2^(Bits(2) - 1) - 1
                       ELSE q < -(2^(Bits(n) - 1)) \/ q > 2^(Bits(n) - 1) - 1
                  ELSE q >= 2^Bits(n)
    IN IF r.v = 0 \/ over THEN Fault(m, "cpu", 0)
       ELSE IF n = 1
       THEN Ok(write_reg(m, low, size_mask(rem, 1) * 2^ByteBits + size_mask(q, 1)), 0)
       ELSE Ok(write_reg(write_reg(m, low, size_mask(q, n)), Reg("rdx", n), size_mask(rem, n)), 0))

-----------------------------------------------------------------------------
\* Shifts and rotates.  The count is masked to six bits, then reduced to
\* the operand's width when that is below 64.
ShiftCount(c, n) == IF n = 8 THEN c % Bits(8) ELSE (c % Bits(8)) % Bits(n)

ShiftResult(op, d, c, n) ==
  LET w == Bits(n)
  IN size_mask(CASE op = "shl" -> (d % 2^(w - c)) * 2^c
                 [] op = "shr" -> d \div 2^c
                 [] op = "sar" -> sign_extend(d, n) \div 2^c
                 [] op = "rol" -> (d % 2^(w - c)) * 2^c + d \div 2^(w - c)
                 [] op = "ror" -> d \div 2^c + (d % 2^c) * 2^(w - c), n)

ShiftFlags(f, op, d, c, n) ==
  LET r   == ShiftResult(op, d, c, n)
      top == Bits(n) - 1
      cf  == CASE op = "shl" -> BitAt(d, Bits(n) - c) = 1
               [] op = "shr" -> BitAt(d, c - 1) = 1
               [] op = "sar" -> BitAt(sign_extend(d, n), c - 1) = 1
               [] op = "rol" -> BitAt(r, 0) = 1
               [] op = "ror" -> BitAt(r, top) = 1
      of  == CASE op = "shl" -> SignBit(r, n) # SignBit(d, n)
               [] op = "shr" -> SignBit(d, n)
               [] op = "sar" -> FALSE
               [] op = "rol" -> BitAt(r, top) # BitAt(r, 0)
               [] op = "ror" -> BitAt(r, top) # BitAt(r, top - 1)
      zsp == IF op \in {"shl", "shr", "sar"}
             THEN (f \ {"ZF", "SF", "PF"}) \cup ZeroSignParity(r, n) ELSE f
      c1  == set_flag(zsp, "CF", cf)
  IN IF c = 1 THEN set_flag(c1, "OF", of) ELSE c1

exec_shift(m, i) ==
  Then(read_op(m, i.dst), LAMBDA a :
  Then(read_op(m, i.src), LAMBDA b :
    LET n == i.dst.n
        c == ShiftCount(b.v, n)
    IN IF c = 0 THEN Ok(m, 0)
       ELSE write_op(with_flags(m, ShiftFlags(m.flags, i.op, a.v, c, n)), i.dst,
                     ShiftResult(i.op, a.v, c, n))))

\* Bit tests: a register takes the index modulo its width, memory is a bit
\* string around the effective address.
BitResult(op, v, k) ==
  LET on == BitAt(v, k) = 1
  IN CASE op = "bt"  -> v
       [] op = "bts" -> IF on THEN v ELSE v + 2^k
       [] op = "btr" -> IF on THEN v - 2^k ELSE v
       [] op = "btc" -> IF on THEN v - 2^k ELSE v + 2^k

exec_bit(m, i) ==
  Then(read_op(m, i.src), LAMBDA b :
    LET off == sign_extend(b.v, 8)
        cf(v, k) == with_flags(m, set_flag(m.flags, "CF", BitAt(v, k) = 1))
    IN IF i.dst.k = "mem"
       THEN LET a == size_mask(effective_address(m, i.dst) + (off \div ByteBits), 8)
                k == off % ByteBits
            IN Then(read_mem_value(m, a, 1), LAMBDA r :
                 IF i.op = "bt" THEN Ok(cf(r.v, k), 0)
                 ELSE write_mem_value(cf(r.v, k), a, BitResult(i.op, r.v, k), 1))
       ELSE LET k == b.v % Bits(i.dst.n)
                v == read_reg(m, i.dst)
            IN IF i.op = "bt" THEN Ok(cf(v, k), 0)
               ELSE write_op(cf(v, k), i.dst, BitResult(i.op, v, k)))

exec_xadd(m, i) ==
  Then(read_op(m, i.dst), LAMBDA a :
    LET n   == i.dst.n
        s   == size_mask(read_reg(m, i.src), n)
        sum == size_mask(a.v + s, n)
    IN Then(write_op(m, i.dst, sum), LAMBDA w :
         Ok(with_flags(write_reg(w.m, i.src, a.v), set_add_flags(m.flags, a.v, s, sum, n)), 0)))

exec_cmpxchg(m, i) ==
  Then(read_op(m, i.dst), LAMBDA a :
    LET n   == i.dst.n
        acc == size_mask(m.gpr["rax"], n)
        w   == with_flags(m, set_sub_flags(m.flags, acc, a.v, acc - a.v, n))
    IN IF acc = a.v THEN write_op(w, i.dst, read_reg(m, i.src))
                    ELSE Ok(write_reg(w, Reg("rax", n), a.v), 0))

exec_cmov(m, i) ==
  IF cond_from_jcc(i.cc, m.flags) THEN exec_mov(m, i) ELSE Ok(m, 0)

exec_setcc(m, i) == write_op(m, i.dst, IF cond_from_jcc(i.cc, m.flags) THEN 1 ELSE 0)

-----------------------------------------------------------------------------
\* Control transfer.  The target of a call is read before the push.
JumpTo(m, a) == [m EXCEPT !.rip = a]

exec_jmp(m, i) == Then(read_op(m, i.src), LAMBDA r : Ok(JumpTo(m, r.v), 0))

exec_jcc(m, i) == Ok(IF cond_from_jcc(i.cc, m.flags) THEN JumpTo(m, i.src.v) ELSE m, 0)

exec_call(m, i) ==
  Then(read_op(m, i.src), LAMBDA t :
  Then(push_n(m, m.rip, 8), LAMBDA r : Ok(JumpTo(r.m, t.v), 0)))

exec_ret(m, i) ==
  Then(pop_n(m, 8), LAMBDA r :
    Ok(JumpTo(set_gpr(r.m, "rsp", r.m.gpr["rsp"] + i.src.v), r.v), 0))

-----------------------------------------------------------------------------
\* Vector registers: a function from lane to four-byte value.
Lanes == 0..3
LaneMax == 2^Bits(4)
Low(k) == 0..(k \div 4) - 1     \* the lanes of the first k bytes

ReadLanes(m, a, k) ==
  [l \in Lanes |-> IF l \in Low(k) THEN FromBytes(PeekBytes(m, a + 4 * l, 4)) ELSE 0]

read_sse_op(m, o, k) ==
  CASE o.k = "xmm" -> Ok(m, [l \in Lanes |-> IF l \in Low(k) THEN m.xmm[o.r][l] ELSE 0])
    [] o.k = "mem" -> LET a == effective_address(m, o)
                      IN IF CanRead(m, a, k) THEN Ok(m, ReadLanes(m, a, k)) ELSE Fault(m, "read", a)
    [] o.k = "reg" -> LET v == read_reg(m, o)
                      IN Ok(m, [l \in Lanes |-> CASE l = 0 -> v % LaneMax
                                                   [] l = 1 -> v \div LaneMax
                                                   [] l > 1 -> 0])

LaneBytes(v, k) == [j \in 1..k |-> ToBytes(v[(j - 1) \div 4], 4)[((j - 1) % 4) + 1]]

write_xmm(m, x, v) == [m EXCEPT !.xmm[x] = v]

write_sse_op(m, o, v, k, merge) ==
  IF o.k = "xmm"
  THEN Ok(write_xmm(m, o.r, [l \in Lanes |-> IF l \in Low(k) THEN v[l]
                                             ELSE IF merge THEN m.xmm[o.r][l] ELSE 0]), 0)
  ELSE IF o.k = "mem"
  THEN LET a == effective_address(m, o)
       IN IF CanWrite(m, a, k) THEN Ok(Poke(m, a, LaneBytes(v, k)), 0) ELSE Fault(m, "write", a)
  ELSE Fault(m, "cpu", 0)

\* Full moves replace a register, scalar moves and movq keep its upper lanes.
exec_sse_mov(m, i) ==
  Then(read_sse_op(m, i.src, i.k), LAMBDA r : write_sse_op(m, i.dst, r.v, i.k, i.k < 16))

SseBit(op, a, b) ==
  CASE op = "pxor"  -> a ^^ b
    [] op = "pand"  -> a & b
    [] op = "por"   -> a | b
    [] op = "pandn" -> (LaneMax - 1 - a) & b

exec_sse_bitwise(m, i) ==
  Then(read_sse_op(m, i.src, 16), LAMBDA b :
    Ok(write_xmm(m, i.dst.r, [l \in Lanes |-> SseBit(i.op, m.xmm[i.dst.r][l], b.v[l])]), 0))

\* Floating point acts on lanes (4 bytes) or on lane pairs (8 bytes).
FpLanes(op, w, a, b, k) ==
  [l \in Lanes |->
     IF l \notin Low(k) THEN 0
     ELSE IF w = 4 THEN Fp(op, w, <<a[l]>>, <<b[l]>>)[1]
     ELSE LET p == 2 * (l \div 2)
          IN Fp(op, w, <<a[p], a[p + 1]>>, <<b[p], b[p + 1]>>)[l - p + 1]]

exec_sse_fp(m, i) ==
  Then(read_sse_op(m, i.src, i.k), LAMBDA b :
    write_sse_op(m, i.dst, FpLanes(i.fp, i.w, m.xmm[i.dst.r], b.v, i.k), i.k, i.k < 16))

\* movd clears the upper lanes, unlike the scalar moves.
exec_sse_movd(m, i) ==
  IF i.dst.k = "xmm"
  THEN Then(read_op(m, i.src), LAMBDA r :
         Ok(write_xmm(m, i.dst.r, [l \in Lanes |-> IF l = 0 THEN r.v % LaneMax ELSE 0]), 0))
  ELSE write_op(m, i.dst, m.xmm[i.src.r][0])

exec_sse_movhps(m, i) ==
  IF i.dst.k = "xmm"
  THEN Then(read_sse_op(m, i.src, 8), LAMBDA r :
         Ok(write_xmm(m, i.dst.r, [l \in Lanes |-> IF l < 2 THEN m.xmm[i.dst.r][l]
                                                   ELSE r.v[l - 2]]), 0))
  ELSE write_sse_op(m, i.dst, [l \in Lanes |-> m.xmm[i.src.r][(l + 2) % 4]], 8, FALSE)

\* movhlps, movlhps and the two quadword unpacks pick halves.
exec_sse_halves(m, i) ==
  LET a == m.xmm[i.dst.r]
      b == m.xmm[i.src.r]
  IN Ok(write_xmm(m, i.dst.r, [l \in Lanes |->
       CASE i.op = "movhlps" -> IF l < 2 THEN b[l + 2] ELSE a[l]
         [] i.op \in {"movlhps", "punpcklqdq"} -> IF l < 2 THEN a[l] ELSE b[l - 2]
         [] i.op = "punpckhqdq" -> IF l < 2 THEN a[l + 2] ELSE b[l]]), 0)

\* The selector comes from the displacement field, which is zero for a
\* register source; a memory source is not read.
exec_sse_pshufd(m, i) ==
  LET v   == IF i.src.k = "mem" THEN m.xmm[i.dst.r] ELSE m.xmm[i.src.r]
      sel == IF i.src.k = "mem" THEN i.src.disp ELSE 0
  IN Ok(write_xmm(m, i.dst.r, [l \in Lanes |-> v[(sel \div 4^l) % 4]]), 0)

-----------------------------------------------------------------------------
\* String instructions.  The value of an outcome says whether rip stays.
df_step(m, n) == IF "DF" \in m.flags THEN -n ELSE n

Bump(m, regs, d) ==
  [m EXCEPT !.gpr = [r \in Gprs |-> IF r \in regs THEN size_mask(m.gpr[r] + d, 8) ELSE m.gpr[r]]]

\* One element of each instruction, the source and destination advanced.
StringElement(m, op, n) ==
  LET d   == df_step(m, n)
      rsi == m.gpr["rsi"]
      rdi == m.gpr["rdi"]
      acc == size_mask(m.gpr["rax"], n)
      cmp(a, b) == with_flags(m, set_sub_flags(m.flags, a, b, a - b, n))
  IN CASE op = "stos" -> Then(write_mem_value(m, rdi, acc, n), LAMBDA w :
                           Ok(Bump(w.m, {"rdi"}, d), 0))
       [] op = "movs" -> Then(read_mem_value(m, rsi, n), LAMBDA r :
                         Then(write_mem_value(m, rdi, r.v, n), LAMBDA w :
                           Ok(Bump(w.m, {"rsi", "rdi"}, d), 0)))
       [] op = "lods" -> Then(read_mem_value(m, rsi, n), LAMBDA r :
                           Ok(Bump(write_reg(m, Reg("rax", n), r.v), {"rsi"}, d), 0))
       [] op = "scas" -> Then(read_mem_value(m, rdi, n), LAMBDA r :
                           Ok(Bump(cmp(acc, r.v), {"rdi"}, d), 0))
       [] op = "cmps" -> Then(read_mem_value(m, rsi, n), LAMBDA a :
                         Then(read_mem_value(m, rdi, n), LAMBDA b :
                           Ok(Bump(cmp(a.v, b.v), {"rsi", "rdi"}, d), 0)))

\* An early stop of REPE or REPNE lets rip advance.
ZfStop(m, i) == (i.rep = "repe" /\ "ZF" \notin m.flags) \/ (i.rep = "repne" /\ "ZF" \in m.flags)

RECURSIVE RepElements(_, _, _)
RepElements(m, i, count) ==
  IF count = 0 THEN Ok(m, TRUE)
  ELSE Then(StringElement(m, i.op, i.n), LAMBDA r :
         LET w == [r.m EXCEPT !.gpr["rcx"] = r.m.gpr["rcx"] - 1]
         IN IF i.op \in {"scas", "cmps"} /\ ZfStop(w, i) THEN Ok(w, FALSE)
            ELSE RepElements(w, i, count - 1))

ranges_overlap_Open(a, b, len) == len # 0 /\ a < b + len - 1 /\ b < a + len - 1

ranges_overlap(a, b, len) ==
  LET ea == size_mask(a + len - 1, 8)
      eb == size_mask(b + len - 1, 8)
  IN len # 0 /\ a <= eb /\ b <= ea

\* The bytes count elements write, forward or downward from the destination.
BulkBytes(m, i, lo, len) ==
  IF i.op = "stos"
  THEN [k \in 1..len |-> ToBytes(size_mask(m.gpr["rax"], i.n), i.n)[((k - 1) % i.n) + 1]]
  ELSE PeekBytes(m, lo, len)

\* After `done` elements: registers and count as the bulk paths leave them.
Advance(m, i, done) ==
  LET d == done * df_step(m, i.n)
      w == Bump(m, IF i.op = "stos" THEN {"rdi"} ELSE {"rsi", "rdi"}, d)
  IN [w EXCEPT !.gpr["rcx"] = m.gpr["rcx"] - done]

\* The page-chunked path.  When a chunk is refused the first element alone is
\* tried: if it goes through, the instruction is left with rip advanced.
RECURSIVE RepChunks(_, _, _, _)
RepChunks(m, i, count, done) ==
  LET left == (count - done) * i.n
      cap  == IF left < ChunkBytes THEN left ELSE ChunkBytes
      len  == cap - (cap % i.n)
      src  == m.gpr["rsi"]
      dst  == m.gpr["rdi"]
      one  == Then(IF i.op = "stos" THEN Ok(m, size_mask(m.gpr["rax"], i.n))
                   ELSE read_mem_value(m, src, i.n),
                   LAMBDA r : Then(write_mem_value(m, dst, r.v, i.n), LAMBDA w : Ok(w.m, FALSE)))
  IN IF len = 0 THEN Ok(m, done > 0)
     ELSE IF (i.op = "movs" /\ ~CanRead(m, src, len)) \/ ~CanWrite(m, dst, len) THEN one
     ELSE RepChunks(Advance(Poke(m, dst, BulkBytes(m, i, src, len)), i, len \div i.n),
                    i, count, done + len \div i.n)

\* Stores and copies: one host block, else chunks, else element by element.
RepBulk(m, i) ==
  LET rcx   == m.gpr["rcx"]
      count == IF rcx < RepBulkMax THEN rcx ELSE RepBulkMax
      len   == count * i.n
      back  == IF "DF" \in m.flags THEN (count - 1) * i.n ELSE 0
      dst   == IF i.op = "stos" THEN m.gpr["rdi"] - back ELSE size_mask(m.gpr["rdi"] - back, 8)
      src   == size_mask(m.gpr["rsi"] - back, 8)
      over  == i.op = "movs" /\ ranges_overlap(src, dst, len)
      host  == /\ count > 1 /\ len >= RepHostMin /\ dst >= 0 /\ ~over
               /\ host_span(m, dst, len, TRUE)
               /\ i.op = "movs" => host_span(m, src, len, FALSE)
  IN IF host THEN Ok(Advance(Poke(m, dst, BulkBytes(m, i, src, len)), i, count), TRUE)
     ELSE IF "DF" \notin m.flags /\ count > 1 /\ ~over THEN RepChunks(m, i, count, 0)
     ELSE RepElements(m, i, count)

run_string_op(m, i) ==
  LET rcx == m.gpr["rcx"]
  IN IF i.rep = "none" THEN Then(StringElement(m, i.op, i.n), LAMBDA r : Ok(r.m, FALSE))
     ELSE IF rcx = 0 THEN Ok(m, FALSE)
     ELSE IF i.op \in {"stos", "movs"} THEN RepBulk(m, i)
     ELSE RepElements(m, i, IF rcx < RepBulkMax THEN rcx ELSE RepBulkMax)

exec_string(m, i) ==
  Then(run_string_op(m, i), LAMBDA r : Ok(IF r.v THEN JumpTo(r.m, m.rip - 1) ELSE r.m, 0))

-----------------------------------------------------------------------------
StringOps == {"stos", "movs", "lods", "scas", "cmps"}

\* Dispatch; rip already points past the instruction.
execute_one(m, i) ==
  CASE i.op = "mov"                  -> exec_mov(m, i)
    [] i.op \in {"movzx", "movsx"}   -> exec_movzx(m, i)
    [] i.op = "lea"                  -> exec_lea(m, i)
    [] i.op = "push"                 -> exec_push(m, i)
    [] i.op = "pop"                  -> exec_pop(m, i)
    [] i.op \in {"add", "adc", "sub", "sbb", "xor", "or", "and", "cmp"} -> exec_arith(m, i)
    [] i.op = "test"                 -> exec_test(m, i)
    [] i.op \in {"inc", "dec"}       -> exec_inc_dec(m, i)
    [] i.op = "neg"                  -> exec_neg(m, i)
    [] i.op = "not"                  -> exec_not(m, i)
    [] i.op = "imul"                 -> exec_imul(m, i)
    [] i.op = "imul1"                -> exec_imul1(m, i)
    [] i.op = "mul"                  -> exec_mul(m, i)
    [] i.op \in {"div", "idiv"}      -> exec_div(m, i)
    [] i.op \in {"shl", "shr", "sar", "rol", "ror"} -> exec_shift(m, i)
    [] i.op = "jmp"                  -> exec_jmp(m, i)
    [] i.op = "jcc"                  -> exec_jcc(m, i)
    [] i.op = "call"                 -> exec_call(m, i)
    [] i.op = "ret"                  -> exec_ret(m, i)
    [] i.op = "cmov"                 -> exec_cmov(m, i)
    [] i.op = "setcc"                -> exec_setcc(m, i)
    [] i.op = "xchg"                 -> exec_xchg(m, i)
    [] i.op = "xadd"                 -> exec_xadd(m, i)
    [] i.op = "cmpxchg"              -> exec_cmpxchg(m, i)
    [] i.op = "bswap"                -> exec_bswap(m, i)
    [] i.op \in {"bt", "bts", "btr", "btc"} -> exec_bit(m, i)
    [] i.op \in {"cdqe", "cwde", "cbw", "cdq", "cwd", "cqo"} -> exec_convert(m, i)
    [] i.op \in {"cld", "std", "clc", "stc", "cmc"} -> exec_flag_op(m, i)
    [] i.op = "pushfq"               -> exec_pushfq(m)
    [] i.op = "popfq"                -> exec_popfq(m)
    [] i.op = "leave"                -> exec_leave(m)
    [] i.op \in {"cpuid", "in", "ins", "nop"} -> exec_stub(m, i)
    [] i.op \in StringOps /\ <<i.op, i.n>> # <<"lods", 2>> -> exec_string(m, i)
    [] i.op = "ssemov"               -> exec_sse_mov(m, i)
    [] i.op \in {"pxor", "pand", "por", "pandn"} -> exec_sse_bitwise(m, i)
    [] i.op = "fp"                   -> exec_sse_fp(m, i)
    [] i.op = "movd"                 -> exec_sse_movd(m, i)
    [] i.op = "movhps"               -> exec_sse_movhps(m, i)
    [] i.op \in {"movhlps", "movlhps", "punpcklqdq", "punpckhqdq"} -> exec_sse_halves(m, i)
    [] i.op = "pshufd"               -> exec_sse_pshufd(m, i)
    [] OTHER                         -> Fault(m, "cpu", 0)

\* One step at a program: a fault restores rip, whatever else changed.
FaultAt(rip, r) == IF r.err = "none" THEN r ELSE [r EXCEPT !.m = JumpTo(r.m, rip)]

step(m, i) == FaultAt(m.rip, execute_one(JumpTo(m, m.rip + 1), i))
=============================================================================
