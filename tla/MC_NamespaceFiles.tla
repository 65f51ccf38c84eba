------------------------- MODULE MC_NamespaceFiles -------------------------
(* The paths of MC_Namespace, and the lseek calls: to the start, past the *)
(* end, one back (negative at the start), and to the end.                 *)
EXTENDS NamespaceFiles

MCPaths ==
    {[abs |-> b, cs |-> c] : b \in BOOLEAN,
                             c \in {<<"a">>, <<"b">>, <<"a", "b">>, <<"a", "a">>,
                                    <<"..", "a">>, <<"a", "..">>, <<".", "b">>}}
MCSeeks == {<<"SET", 0>>, <<"SET", 2>>, <<"CUR", -1>>, <<"END", 0>>}
====
