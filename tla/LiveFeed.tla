------------------------------ MODULE LiveFeed ------------------------------
(***************************************************************************)
(* What the dashboard promises to a browser tab that follows it over /ws,  *)
(* stated without locks, deques or cursors.                                *)
(*                                                                         *)
(* Items of each kind are published one after the other; a tab that joins  *)
(* gets the newest SnapLen[k] of them, and each time it catches up it gets *)
(* every item published since the last time - or only the newest           *)
(* MaxLen[k], if more than that were published meanwhile.                  *)
(*                                                                         *)
(* AppState.tla is shown to implement this specification.                  *)
(***************************************************************************)
EXTENDS Integers

CONSTANTS Kinds, Clients,
          MaxLen,   \* [Kinds -> Nat]: items of a kind that are retained
          SnapLen   \* [Kinds -> Nat]: items of a kind a joining tab is given

VARIABLES
  published,  \* published[k]: how many items of kind k there have been
  upto,       \* upto[c][k]: how many of them tab c has been brought up to
  has,        \* has[c][k]: the positions of the items tab c was given
  on          \* on[c]: tab c is connected

vars == <<published, upto, has, on>>

\* The positions in from+1 .. to that are among the newest n of 1 .. to.
Newest(n, from, to) == {i \in from + 1 .. to : i > to - n}

Init ==
  /\ published = [k \in Kinds |-> 0]
  /\ upto = [c \in Clients |-> [k \in Kinds |-> 0]]
  /\ has = [c \in Clients |-> [k \in Kinds |-> {}]]
  /\ on = [c \in Clients |-> FALSE]

Publish(k) ==
  /\ published' = [published EXCEPT ![k] = @ + 1]
  /\ UNCHANGED <<upto, has, on>>

Join(c) ==
  /\ ~on[c]
  /\ on' = [on EXCEPT ![c] = TRUE]
  /\ upto' = [upto EXCEPT ![c] = published]
  /\ has' = [has EXCEPT ![c] = [k \in Kinds |->
                                  Newest(SnapLen[k], 0, published[k])]]
  /\ UNCHANGED published

CatchUp(c) ==
  /\ on[c]
  /\ upto' = [upto EXCEPT ![c] = published]
  /\ has' = [has EXCEPT ![c] = [k \in Kinds |->
                @[k] \cup Newest(MaxLen[k], upto[c][k], published[k])]]
  /\ UNCHANGED <<published, on>>

Leave(c) ==
  /\ on[c]
  /\ on' = [on EXCEPT ![c] = FALSE]
  /\ UNCHANGED <<published, upto, has>>

Next ==
  \/ \E k \in Kinds : Publish(k)
  \/ \E c \in Clients : Join(c) \/ CatchUp(c) \/ Leave(c)

Spec == Init /\ [][Next]_vars
=============================================================================
