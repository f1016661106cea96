------------------------------ MODULE MCJitCode ------------------------------
(* JitCode with two pages of two bytes and two blocks: one that goes on to the other, which spans *)
(* both pages and goes back.                                                                      *)
EXTENDS JitCode, TLC

CONSTANTS main, worker

MCRips == {2, 3}
MCEnd == (2 :> 3) @@ (3 :> 5)
MCSucc == (2 :> {3}) @@ (3 :> {2})
MCThr == (2 :> 0) @@ (3 :> 2)
MCRequests == {<<4, 5>>, <<2, 6>>}
MCThreads == {main, worker}
MCOne == {{main}, {worker}}
MCTwo == {{main, worker}}
MCCrews == MCOne \cup MCTwo
MCMaxFuncs == <<4, 2>>
MCMaxCalls == <<3, 1>>
MCSymmetry == Permutations(MCThreads)
=============================================================================
