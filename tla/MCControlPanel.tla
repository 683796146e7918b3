--------------------------- MODULE MCControlPanel ---------------------------
(* Two channels, two frequencies, handlers that overlap.                   *)
EXTENDS ControlPanel

CONSTANTS ch1, ch2, push, button

MCDefault == [freq |-> 1, shape |-> "a"]
=============================================================================
