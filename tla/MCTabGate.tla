----------------------------- MODULE MCTabGate ------------------------------
(***************************************************************************)
(* TabGate for TLC: two tabs.  A push meets a pass of its own tab, a pass  *)
(* or a push of the other tab, an answer to the question it raised, or a   *)
(* pass and a retry of what was refused, with one edit here and one        *)
(* elsewhere; and a push misses until it gives up, against four edits      *)
(* elsewhere.                                                              *)
(***************************************************************************)
EXTENDS TabGate

CONSTANTS a, b

Together(calls, failures) ==
  [calls |-> calls, typed |-> 1, there |-> 1, trouble |-> failures]

MCScenarios ==
  {Together(<<<<"push", a>>, <<"pass", a>>>>, 0),
   Together(<<<<"push", a>>, <<"pass", b>>>>, 0),
   Together(<<<<"push", a>>, <<"push", b>>>>, 0),
   Together(<<<<"push", a>>, <<"answer", a>>>>, 1),
   Together(<<<<"push", a>>, <<"pass", a>>, <<"retry", a>>>>, 1),
   [calls |-> <<<<"push", a>>>>, typed |-> 1, there |-> 4, trouble |-> 0]}
=============================================================================
