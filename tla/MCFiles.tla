------------------------------ MODULE MCFiles ------------------------------
(***************************************************************************)
(* Drive C: is a bottle, drive E: is not mapped; each has a mounted file.  *)
(***************************************************************************)
EXTENDS Files

MCPaths == {<<"C", "f">>, <<"C", "d">>, <<"C", "d", "f">>, <<"E", "f">>, <<"E", "m">>,
            <<"C", "m">>, <<"C", "app">>}
Abs(p) == [form |-> "absolute", comps |-> p]
Rel(p) == [form |-> "relative", comps |-> p]
MCInputs == {Abs(p) : p \in MCPaths} \cup {Rel(<<"..", "f">>)}
MCPatterns == {Abs(<<"C", "*">>), Abs(<<"E", "*">>)}
MCMounted == {<<"C", "m">>, <<"E", "m">>}
MCMainPath == <<"C", "app">>
MCExecutable == <<2>>
MCData == {<<3>>}
MCInitDisk ==
  [k \in HostPaths |->
     CASE k \in {<<"C">>, <<"C", "d">>} -> Dir
       [] k = <<"C", "f">> -> File(<<1>>)
       [] k = <<"C", "d", "f">> -> File(<<1, 2, 1>>)
       [] k = <<"mount", "C", "m">> -> File(<<1, 2, 1>>)
       [] k = <<"mount", "E", "m">> -> File(<<2>>)
       [] OTHER -> None]
=============================================================================
