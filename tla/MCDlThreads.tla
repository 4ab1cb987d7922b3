--------------------------- MODULE MCDlThreads ---------------------------
(***************************************************************************)
(* Two threads; a and b need c, c needs a: a cycle, and a library that two *)
(* calls have in common.  x is defined by a and c, y by c only.            *)
(***************************************************************************)
EXTENDS DlThreads

MCNeeded  == [a |-> <<"c">>, b |-> <<"c">>, c |-> <<"a">>]
MCRefers  == [a |-> {"y"}, b |-> {"x", "y"}, c |-> {"x"}]
MCDefines == [a |-> {"x"}, b |-> {}, c |-> {"x", "y"}]

=============================================================================
