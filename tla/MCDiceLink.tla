----------------------------- MODULE MCDiceLink -----------------------------
(* One device whose firmware may be replaced, and one tab sending commands.*)
EXTENDS DiceLink
=============================================================================
