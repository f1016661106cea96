-------------------------------- MODULE Cpu --------------------------------
(***************************************************************************)
(* Two execution tiers on one program.  Cold code is interpreted, hot code *)
(* runs as compiled blocks (jit/mod.rs picks one at every entry), a block  *)
(* leaves through its exit or chains to its successor, and a fault is      *)
(* retried once the guest's handler has made the page accessible.          *)
(*                                                                         *)
(* Beside the machine m two references run the same instructions:          *)
(*   pure   the interpreter alone, on the same pages                       *)
(*   ideal  every page accessible, repeats taken element by element        *)
(***************************************************************************)
EXTENDS Lower

CONSTANTS Programs,     \* sequences of instructions
          Machines      \* initial machines

VARIABLES prog, m, pure, ideal, fault, lost

vars == <<prog, m, pure, ideal, fault, lost>>

\* Accessible everywhere.
Open(x) == [x EXCEPT !.prot = [p \in DOMAIN x.prot |-> "rw"]]

\* One instruction of the ideal machine.
IdealStep(x, i) ==
  LET rcx   == x.gpr["rcx"]
      count == IF rcx < RepBulkMax THEN rcx ELSE RepBulkMax
      moved == JumpTo(x, x.rip + 1)
      r     == RepElements(moved, i, count)
  IN IF i.op \notin StringOps \/ i.rep = "none" \/ rcx = 0 THEN step(x, i).m
     ELSE IF r.v THEN JumpTo(r.m, x.rip) ELSE r.m

\* k instructions in straight line, stopping at a fault.
RECURSIVE PureRun(_, _)
PureRun(x, k) ==
  IF k = 0 THEN Ok(x, 0)
  ELSE Then(step(x, prog[x.rip]), LAMBDA r : PureRun(r.m, k - 1))

RECURSIVE IdealRun(_, _)
IdealRun(x, k) == IF k = 0 THEN x ELSE IdealRun(IdealStep(x, prog[x.rip]), k - 1)

-----------------------------------------------------------------------------
Init ==
  /\ prog \in Programs
  /\ m \in Machines
  /\ pure = m /\ ideal = Open(m)
  /\ fault = "none" /\ lost = FALSE

Running == fault \in {"none", "retry"} /\ m.rip \in DOMAIN prog

\* The interpreter takes one instruction.
Interpret ==
  /\ Running
  /\ \E r \in {step(m, prog[m.rip])} :
       /\ m' = r.m /\ fault' = r.err
       /\ ideal' = IF r.err = "none" THEN IdealRun(ideal, 1) ELSE ideal
  /\ pure' = PureRun(pure, 1).m
  /\ UNCHANGED <<prog, lost>>

\* A compiled block runs; `lost` notes flags deferred past a fault.
RunBlock(chained) ==
  LET end == decode_pure_gpr_block(prog, m.rip)
  IN /\ Running /\ end # 0
     /\ \E r \in {run_block(m, prog, end, chained)} :
          /\ m' = r.m /\ fault' = r.err
          /\ ideal' = IdealRun(ideal, r.last - m.rip + (IF r.err = "none" THEN 1 ELSE 0))
          /\ lost' = (lost \/ (r.err # "none" /\ r.pend # NoPend))
     /\ pure' = PureRun(pure, end - m.rip + 1).m
     /\ UNCHANGED prog

\* The guest's handler opens the page and resumes at the faulting rip.
Repair ==
  /\ fault \in {"read", "write"}
  /\ m' = Open(m) /\ pure' = Open(pure)
  /\ fault' = "retry"
  /\ UNCHANGED <<prog, ideal, lost>>

Halted ==
  /\ ~Running /\ fault \notin {"read", "write"}
  /\ UNCHANGED vars

Next == Interpret \/ RunBlock(TRUE) \/ RunBlock(FALSE) \/ Repair \/ Halted

Spec == Init /\ [][Next]_vars

-----------------------------------------------------------------------------
\* The auxiliary carry is left out: after a logical instruction it is whatever
\* the tier had before, and nothing but PUSHFQ reads it.
Seen(x) == [x EXCEPT !.flags = @ \ {"AF"}]

\* Both tiers execute a program to the same registers, vector registers,
\* memory, flags and rip, whatever mix of interpreted instructions, block
\* exits and chained blocks ran it; at a fault they stop at the same rip
\* with the same registers.  Deferred flags, the loaded and dirty register
\* sets and the block boundaries must never show.
TiersAgree ==
  ~lost => IF fault = "none" THEN Seen(m) = Seen(pure)
           ELSE m.gpr = pure.gpr /\ m.xmm = pure.xmm /\ m.rip = pure.rip

\* An instruction that faulted half-way, retried after the page was opened,
\* leaves what one undisturbed element-by-element execution leaves: no
\* partial effect survives into the retry, and the bulk REP paths (one host
\* block, page chunks) equal the element loop.
Restartable == fault = "none" /\ ~lost => pure = [ideal EXCEPT !.prot = pure.prot]

\* lower.rs 3543: small REP MOVS and STOS (16 to 64 bytes) are copied inline;
\* the copy must leave the memory and the registers of the slow path.
InlineCopyComplete == fault = "none" => m.mem = pure.mem /\ m.gpr = pure.gpr
=============================================================================
