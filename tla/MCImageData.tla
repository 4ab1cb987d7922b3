---------------------------- MODULE MCImageData ----------------------------
(***************************************************************************)
(* The program m copies x from a or b and refers to y, which only c, opened*)
(* later, defines; b refers to x; d, opened later, refers to y.  In e both *)
(* are undefined and weak.                                                 *)
(***************************************************************************)
EXTENDS ImageData

W(def, rel, sym) == [def |-> def, rel |-> rel, sym |-> sym]
Plain(s)  == W({s}, "none", {})
Ref(s)    == W({}, "GLOB_DAT", {s})

MCImage ==
  [m |-> <<W({"x"}, "COPY", {"x"}), Ref("y")>>,
   a |-> <<Plain("x"), W({}, "RELATIVE", {})>>,
   b |-> <<W({"x"}, "RELATIVE", {}), Ref("x")>>,
   c |-> <<Plain("y")>>,
   d |-> <<Ref("y")>>,
   e |-> <<Ref("y")>>]
MCWeak == [l \in Lib |-> IF l = "e" THEN {"x", "y"} ELSE {}]

\* One in which nothing can be copied, too.
MCMaps == {<<"m", "a", "b">>, <<"m", "b", "a">>, <<"m", "e">>, <<"m">>}
MCOpened == {"m", "a", "c", "d"}

=============================================================================
