----------------------------- MODULE MCFwUpdate -----------------------------
(* Two threads and two releases: an update asked for while another one     *)
(* ends, of the same or of another release.                                *)
EXTENDS FwUpdate

CONSTANTS j1, j2, v1, v2
=============================================================================
