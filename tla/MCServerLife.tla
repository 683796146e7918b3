---------------------------- MODULE MCServerLife ----------------------------
(* Ticks of 2 s are drawn together: a grace of 2 and an orphan limit of 4  *)
(* keep their order.  Two tabs overlap, two updates race.                  *)
EXTENDS ServerLife

CONSTANTS tab1, tab2, update1, update2
=============================================================================
