----------------------------- MODULE MCAppState -----------------------------
(* A small instance of AppState: the two reader threads, each with a badge *)
(* of its own, and one tab.                                                *)
EXTENDS AppState

CONSTANTS console_tail, dice_link, tab1

MCOwner == [x \in Cells |->
              IF x \in {"console", "ports"} THEN console_tail ELSE dice_link]
MCMaxLen == [k \in Kinds |-> IF k = "status" THEN 1 ELSE 2]
MCSnapLen == [k \in Kinds |-> 1]
=============================================================================
