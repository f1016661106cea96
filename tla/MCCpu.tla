------------------------------- MODULE MCCpu -------------------------------
(***************************************************************************)
(* Instances of Cpu: two-bit bytes, so a quadword has 16 bits, six pages   *)
(* of eight bytes, and programs of one to four instructions drawn from a  *)
(* pool that holds every form the two tiers are meant to agree on.  rsi    *)
(* points at page 1, whose rights vary; rdi at page 2; rsp and rbp at the  *)
(* boundary of pages 3 and 4.  The forms the tiers treat differently are   *)
(* not in the pool; README.md lists them.                                  *)
(***************************************************************************)
EXTENDS Cpu

MCGprs == {"rax", "rcx", "rdx", "rsp", "rbp", "rsi", "rdi"}

\* Host floating point as some function of both operands.
MCFp(op, w, a, b) ==
  [k \in DOMAIN a |-> (a[k] * (IF op = "add" THEN 3 ELSE 5) + b[k] + w) % LaneMax]

I(op, dst, src) == [op |-> op, dst |-> dst, src |-> src]
C(op, cc, dst, src) == [op |-> op, cc |-> cc, dst |-> dst, src |-> src]
S(op, n, rep) == [op |-> op, n |-> n, rep |-> rep, dst |-> None, src |-> None]
V(k, dst, src) == [op |-> "ssemov", k |-> k, dst |-> dst, src |-> src]
F(fp, w, k, dst, src) == [op |-> "fp", fp |-> fp, w |-> w, k |-> k, dst |-> dst, src |-> src]

rax(n) == Reg("rax", n)
rcx(n) == Reg("rcx", n)
rdx(n) == Reg("rdx", n)

\* Instructions that write flags, and the registers they work on.
Writers ==
  { I("add", rax(8), rdx(8)), I("sub", rax(4), rdx(4)), I("xor", rdx(4), Imm(5, 4)),
    I("cmp", rax(1), Mem("rsi", 0, 1)), I("cmp", rax(8), rdx(8)), I("test", rdx(2), rdx(2)),
    I("add", Mem("rsi", 1, 2), rdx(2)), I("adc", rax(8), rdx(8)), I("adc", rax(1), rdx(1)),
    I("sbb", rax(4), rdx(4)), I("neg", rdx(8), None), I("neg", rax(4), None),
    I("imul", rax(4), rdx(4)), I("shl", rax(8), Imm(1, 1)), I("sar", rdx(4), rcx(1)),
    I("shr", rax(2), Imm(1, 1)), I("rol", rdx(8), Imm(3, 1)), I("ror", rax(4), Imm(1, 1)),
    I("bt", rax(8), rdx(8)), I("bts", rdx(4), Imm(3, 1)) }

IncDecs == {I("inc", rax(8), None), I("dec", rdx(4), None), I("inc", Mem("rsi", 4, 4), None)}

\* Instructions that read flags.
Readers ==
  { C("setcc", "b", rdx(1), None), C("cmov", "le", rdx(4), rax(4)), C("setcc", "o", Mem("rsi", 2, 1), None),
    I("adc", rdx(4), Imm(0, 4)), I("sbb", rdx(8), rdx(8)), I("pushfq", None, None),
    C("jcc", "a", None, Imm(4, 8)), C("jcc", "ge", None, Imm(4, 8)), C("jcc", "p", None, Imm(4, 8)) }

\* Moves, stack, vector and string instructions.
Others ==
  { I("mov", rax(8), Mem("rsi", 0, 8)), I("mov", Mem("rsi", 6, 4), rdx(4)), I("mov", rax(2), Imm(9, 2)),
    I("movzx", rdx(4), rax(1)), I("movsx", rdx(8), Mem("rsi", 3, 2)),
    I("lea", rdx(8), [k |-> "mem", base |-> "rsi", index |-> "rcx", scale |-> 4, disp |-> 2, n |-> 8]),
    I("push", None, rdx(8)), I("push", None, Mem("rsi", 0, 8)), I("pop", rax(8), None),
    I("pop", Reg("rsp", 8), None), I("leave", None, None), I("popfq", None, None),
    I("cdqe", None, None), I("cbw", None, None), I("cwd", None, None), I("bswap", rdx(4), None),
    I("not", rax(2), None), I("xchg", rax(8), rdx(8)), I("xchg", rdx(1), Mem("rdi", 0, 1)),
    I("std", None, None),
    V(16, Xmm(1), Mem("rdi", -4, 16)), V(8, Mem("rsi", 2, 8), Xmm(0)), V(4, Xmm(1), Xmm(0)),
    V(8, Xmm(0), rax(8)), F("add", 4, 16, Xmm(0), Xmm(1)),
    F("mul", 8, 8, Xmm(1), Mem("rdi", 0, 8)), I("pxor", Xmm(0), Xmm(1)),
    I("pandn", Xmm(1), Mem("rdi", 0, 16)), I("movd", Xmm(0), rdx(4)), I("movd", Mem("rsi", 0, 4), Xmm(0)) }

\* String instructions that go element by element.
Strings ==
  { S("stos", 4, "none"), S("movs", 2, "none"), S("lods", 1, "rep"), S("scas", 1, "repne"),
    S("cmps", 1, "repe") }

\* Only the interpreter executes these.
Interpreted ==
  { I("mul", None, rdx(4)), I("imul1", None, rdx(2)), I("div", None, rcx(4)), I("idiv", None, rcx(2)),
    I("cdq", None, None), I("cqo", None, None), I("cmc", None, None), I("cpuid", None, None),
    I("mov", High("rax"), Imm(2, 1)), I("push", None, rdx(2)), I("movhlps", Xmm(0), Xmm(1)), I("movhps", Xmm(0), Mem("rsi", 0, 8)),
    I("call", None, rcx(8)), I("nop", None, None) }

\* Compiled only as part of a longer block, where the tiers differ.
Alone == {<<I("bts", Mem("rsi", 0, 8), rcx(8))>>, <<I("cmpxchg", Mem("rsi", 0, 2), rdx(2))>>,
          <<I("xadd", Mem("rsi", 0, 8), rdx(8))>>, <<I("rcl", rax(8), Imm(1, 1))>>,
          <<I("rcr", rdx(4), rcx(1))>>, <<I("bsr", rax(8), rdx(8))>>}

\* Jumps to the next instruction, which the block swallows.
Merged == {<<a, I("jmp", None, Imm(3, 8)), c>> : a \in Writers, c \in Readers}
          \cup {<<I("jmp", None, Imm(2, 8)), I("inc", rax(8), None), I("jmp", None, Imm(4, 8))>>}

Ends == { I("call", None, Imm(3, 8)), I("ret", None, Imm(0, 8)), I("jmp", None, Imm(4, 8)) }

\* Copies and fills on pages that are accessible.
Set(r, v) == I("mov", Reg(r, 8), Imm(v, 8))

Copies ==
  {<<Set("rsi", 16), Set("rdi", d), S("movs", n, "rep")>> : d \in {12, 17, 18, 24}, n \in {1, 2}}
  \cup {<<Set("rcx", c), S("stos", n, "rep"), I("inc", rcx(8), None)>> : c \in {1, 4}, n \in {1, 2}}

MCPrograms ==
  {<<a, b>> : a \in Writers, b \in (Writers \cup Readers \cup Others)}
  \cup {<<a, b>> : a \in Others \cup IncDecs, b \in (Others \cup Readers \cup Ends \cup IncDecs)}
  \cup {<<a, b, c>> : a \in {I("adc", rax(8), rdx(8)), I("popfq", None, None)}, b \in IncDecs, c \in Readers}
  \cup {<<a>> \o s : a \in {I("nop", None, None), I("std", None, None), I("add", rax(8), rdx(8))}, s \in Copies}
  \cup {<<a, b>> : a \in {I("cld", None, None), I("std", None, None), I("cmp", rax(8), rdx(8))}, b \in Strings}
  \cup {<<a, b>> : a \in Interpreted, b \in {I("xchg", rax(8), rdx(8)), C("setcc", "b", rdx(1), None)}}
  \cup Alone \cup Merged \cup {<<I("dec", rcx(8), None), C("jcc", "ne", None, Imm(1, 8))>>}

Pages == 0..5

MCMachine(a, c, d, f, p) ==
  [gpr   |-> [r \in MCGprs |-> CASE r = "rax" -> a [] r = "rcx" -> c [] r = "rdx" -> d
                                 [] r = "rsi" -> 8 [] r = "rdi" -> 20 [] r \in {"rsp", "rbp"} -> 32],
   xmm   |-> [x \in {0, 1} |-> [l \in Lanes |-> (x * 100 + l * 37 + 11) % LaneMax]],
   flags |-> f,
   mem   |-> [x \in 0..47 |-> IF x \in 32..47 THEN (IF x % 8 = 0 THEN 3 ELSE 0) ELSE (x * x + x \div 3) % 4],
   prot  |-> [q \in Pages |-> IF q = 1 THEN p ELSE "rw"],
   rip   |-> 1]

MCMachines ==
  { MCMachine(0, 2, 65535, {}, "rw"), MCMachine(40000, 3, 32768, {"CF", "OF"}, "ro"),
    MCMachine(127, 1, 129, {"ZF", "CF"}, "none"), MCMachine(65535, 1, 1, {"PF", "SF"}, "rw"),
    MCMachine(32768, 2, 127, {"CF", "DF"}, "ro") }

\* Inline copies.
RepPrograms ==
  {<<Set("rsi", 16), Set("rdi", d), Set("rcx", c), S("movs", 1, "rep"), I("mov", rax(8), Reg("rdi", 8))>>
     : d \in {18, 24}, c \in {4, 6, 8}}
=============================================================================
