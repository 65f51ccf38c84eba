---------------------------- MODULE MC_Namespace ----------------------------
(* Paths of one or two components over two names, with "." and "..".     *)
EXTENDS Namespace

MCPaths ==
    {[abs |-> b, cs |-> c] : b \in BOOLEAN,
                             c \in {<<"a">>, <<"b">>, <<"a", "b">>, <<"a", "a">>,
                                    <<"..", "a">>, <<"a", "..">>, <<".", "b">>}}
====
