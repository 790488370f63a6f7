---------------------------- MODULE MCPodResolver ----------------------------
(* Model-checking instance of PodResolver.  "p" is both a pod of its own   *)
(* and a prefix of "pp" and "pq"; "q" matches alone; "qq" matches nothing; *)
(* the empty text matches everything.                                      *)
EXTENDS PodResolver

MCChars == <<"p", "q">>
MCNames == {<<"p">>, <<"p", "p">>, <<"p", "q">>, <<"q">>}
MCInputs == {<<>>, <<"p">>, <<"q">>, <<"p", "q">>, <<"q", "q">>}
MCMaxChanges == 2
=============================================================================
