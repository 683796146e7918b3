------------------------- MODULE ConsoleTailProofs -------------------------
(***************************************************************************)
(* Proofs about ConsoleTail, for any set of ports and any enumeration.     *)
(***************************************************************************)
EXTENDS ConsoleTail, FiniteSetTheorems, TLAPS

\* A rotation index picks one of the candidates, and they come from S.
LEMMA ListingsFacts ==
  ASSUME NEW S, S \subseteq Ports
  PROVE  /\ Cardinality(S) \in Nat
         /\ \A s \in Listings(S) : s \in [1 .. Cardinality(S) -> S]
<1>1. IsFiniteSet(S)
  BY FS_Subset, PortAssumption
<1> QED
  BY <1>1, FS_CardinalityType DEF Listings

LEMMA Turn ==
  ASSUME NEW n \in Nat \ {0}, NEW i \in Nat
  PROVE  (i % n) + 1 \in 1 .. n
OBVIOUS

LEMMA NextIdxType == NextIdx \in 0 .. Wrap - 1 \/ idx \notin Nat
BY PortAssumption, SMT DEF NextIdx

LEMMA ZeroIdx == 0 \in 0 .. Wrap - 1
BY PortAssumption

LEMMA BadgeFacts ==
  ASSUME TypeOK, NEW s \in BadgeState, NEW p \in Ports \cup {None}
  PROVE  /\ Badge(s, p) \in [state : BadgeState, port : Ports \cup {None},
                             manual : Ports \cup {None}]
         /\ Badge(s, p).state = s /\ Badge(s, p).port = p /\ Badge(s, p).manual = manual
BY DEF Badge, TypeOK

LEMMA BadgeNames ==
  {"unknown", "absent", "busy", "error", "idle", "open", "disconnected"} = BadgeState
BY DEF BadgeState

\* candidates() hands the thread ports, as many as it says.
LEMMA ReturnCases ==
  ASSUME TypeOK, Scan \/ Reread
  PROVE  \/ /\ pc' = "reread" /\ manual # None
            /\ pc = "scan"
            /\ UNCHANGED <<world, ctl, why, idx, port, got, buf, torn, badge>>
         \/ \E n \in Nat : \E c \in [1 .. n -> Ports \cup {None}] :
              /\ pc \in {"scan", "reread"}
              /\ \A i \in 1 .. n : \/ c[i] = manual /\ (pc = "scan" => manual # None)
                                   \/ manual = None /\ RightPort(c[i])
              /\ pc = "reread" => \A i \in 1 .. n : c[i] = manual
              /\ Return(n, c)
<1>1. CASE Reread
  <2> DEFINE c == [i \in {1} |-> manual]
  <2>1. 1 .. 1 = {1}
    OBVIOUS
  <2>2. c \in [1 .. 1 -> Ports \cup {None}] /\ \A i \in 1 .. 1 : c[i] = manual
    BY <2>1 DEF TypeOK
  <2>3. Return(1, c) /\ pc = "reread"
    BY <1>1 DEF Reread
  <2> HIDE DEF c
  <2> QED
    BY <2>2, <2>3
<1>2. CASE Scan
  <2>1. CASE manual # None /\ pc' = "reread"
               /\ UNCHANGED <<world, ctl, why, idx, port, got, buf, torn, badge>>
    BY <1>2, <2>1 DEF Scan
  <2>2. CASE manual = None /\ ConfigPort # None /\ Return(1, [i \in {1} |-> ConfigPort])
    <3> DEFINE c == [i \in {1} |-> ConfigPort]
    <3>1. 1 .. 1 = {1}
      OBVIOUS
    <3>2. /\ c \in [1 .. 1 -> Ports \cup {None}]
          /\ \A i \in 1 .. 1 : RightPort(c[i])
      BY <3>1, <2>2, PortAssumption DEF RightPort
    <3>3. Return(1, c) /\ pc = "scan" /\ manual = None
      BY <1>2, <2>2 DEF Scan
    <3> HIDE DEF c
    <3> QED
      BY <3>2, <3>3
  <2>3. CASE manual = None /\ ConfigPort = None
    <3> DEFINE S == plugged \cap Segger
    <3>1. S \subseteq Ports
      BY DEF TypeOK
    <3>2. CASE \E s \in Listings(S) : Return(Cardinality(S), s)
      <4>1. PICK s \in Listings(S) : Return(Cardinality(S), s)
        BY <3>2
      <4>2. Cardinality(S) \in Nat /\ s \in [1 .. Cardinality(S) -> S]
        BY <3>1, <4>1, ListingsFacts
      <4>3. /\ s \in [1 .. Cardinality(S) -> Ports \cup {None}]
            /\ \A i \in 1 .. Cardinality(S) : RightPort(s[i])
        BY <3>1, <4>2, <2>3 DEF RightPort
      <4>4. pc = "scan"
        BY <1>2 DEF Scan
      <4> HIDE DEF S
      <4> QED
        BY <2>3, <4>1, <4>2, <4>3, <4>4
    <3> QED
      BY <1>2, <2>3, <3>2 DEF Scan
  <2> QED
    BY <1>2, <2>1, <2>2, <2>3 DEF Scan
<1> QED
  BY <1>1, <1>2

-----------------------------------------------------------------------------
(* The inductive invariant.                                                *)

\* Outside candidates() the thread is in no rescan, and it holds data only of
\* a port it has open.
Flow ==
  /\ pc \in {"top", "open", "check", "read"} => why = "start"
  /\ got => pc \in {"check", "read"}

\* Before the port is opened the choice is already bound to the selection:
\* if Ctl.manual changes under the thread's feet, force_gen tells.
Choice ==
  Settled => /\ pc = "reread" /\ why = "start" => manual # None
             /\ pc = "open" \/ Holding => RightPort(port)

SelInv == TypeOK /\ Flow /\ Choice /\ BadgeMatchesSession

LEMMA SelInit == Init => SelInv
<1> SUFFICES ASSUME Init PROVE SelInv
  OBVIOUS
<1>1. badge \in [state : BadgeState, port : Ports \cup {None}, manual : Ports \cup {None}]
  BY DEF Init, BadgeState
<1>2. TypeOK
  BY <1>1, ZeroIdx DEF Init, TypeOK
<1> QED
  BY <1>2 DEF Init, SelInv, Flow, Choice, BadgeMatchesSession, Holding, Settled

LEMMA SelReturn ==
  ASSUME SelInv, Scan \/ Reread PROVE SelInv'
<1> USE DEF SelInv
<1>1. CASE /\ pc' = "reread" /\ manual # None /\ pc = "scan"
           /\ UNCHANGED <<world, ctl, why, idx, port, got, buf, torn, badge>>
  BY <1>1 DEF TypeOK, Flow, Choice, BadgeMatchesSession, Holding, Settled, RightPort,
              world, ctl
<1>2. ASSUME NEW n \in Nat, NEW c \in [1 .. n -> Ports \cup {None}],
             pc \in {"scan", "reread"},
             \A i \in 1 .. n : \/ c[i] = manual /\ (pc = "scan" => manual # None)
                               \/ manual = None /\ RightPort(c[i]),
             pc = "reread" => \A i \in 1 .. n : c[i] = manual,
             Return(n, c)
      PROVE  SelInv'
  <2>0. idx \in Nat /\ NextIdx \in 0 .. Wrap - 1 /\ 0 \in 0 .. Wrap - 1
    BY NextIdxType, ZeroIdx DEF TypeOK
  <2>1. ASSUME why = "start", n = 0, Pick(n, c) PROVE SelInv'
    <3>1. /\ pc' = "top" /\ badge' = Badge("absent", None)
          /\ UNCHANGED <<world, ctl, why, idx, port, got, buf, torn>>
      BY <2>1 DEF Pick
    <3>2. /\ badge' \in [state : BadgeState, port : Ports \cup {None}, manual : Ports \cup {None}]
          /\ badge'.state = "absent"
      BY <3>1, BadgeFacts, BadgeNames
    <3>3. TypeOK'
      BY <3>1, <3>2 DEF TypeOK, world, ctl
    <3> QED
      BY <1>2, <2>1, <3>1, <3>2, <3>3
         DEF Flow, Choice, BadgeMatchesSession, Holding, Settled, world, ctl
  <2>2. ASSUME why = "start", n # 0, Pick(n, c) PROVE SelInv'
    <3>1. (idx % n) + 1 \in 1 .. n
      BY <2>0, <2>2, Turn
    <3>2. /\ pc' = "open" /\ port' = c[(idx % n) + 1]
          /\ UNCHANGED <<world, ctl, why, idx, got, buf, torn, badge>>
      BY <2>2 DEF Pick
    <3>3. port' \in Ports \cup {None}
      BY <3>1, <3>2
    <3>4. Settled => RightPort(port')
      BY <1>2, <2>2, <3>1, <3>2 DEF Choice, RightPort
    <3> QED
      BY <2>2, <3>2, <3>3, <3>4, <1>2
         DEF TypeOK, Flow, Choice, BadgeMatchesSession, Holding, Settled, RightPort, world, ctl
  <2>3. ASSUME why # "start", Judge(n, c) PROVE SelInv'
    <3>1. CASE n > 1 \/ \A i \in 1 .. n : c[i] # port
      BY <2>0, <2>3, <3>1 DEF Judge, Close, TypeOK, Flow, Choice, BadgeMatchesSession,
                              Holding, Settled, RightPort, world, ctl
    <3>2. CASE ~(n > 1 \/ \A i \in 1 .. n : c[i] # port)
      BY <1>2, <2>3, <3>2 DEF Judge, TypeOK, Flow, Choice, BadgeMatchesSession,
                              Holding, Settled, RightPort, world, ctl
    <3> QED
      BY <3>1, <3>2
  <2> QED
    BY <1>2, <2>1, <2>2, <2>3 DEF Return
<1> QED
  BY <1>1, <1>2, ReturnCases

LEMMA SelStep == SelInv /\ [Next]_vars => SelInv'
<1> SUFFICES ASSUME SelInv, [Next]_vars PROVE SelInv'
  OBVIOUS
<1> USE DEF SelInv, TypeOK, Flow, Choice, BadgeMatchesSession, Holding, Settled, RightPort,
            world, ctl
<1>0. idx \in Nat /\ NextIdx \in 0 .. Wrap - 1 /\ 0 \in 0 .. Wrap - 1
  BY NextIdxType, ZeroIdx
<1>1. CASE UNCHANGED vars
  BY <1>1 DEF vars
<1>2. CASE Bench
  <2>1. /\ plugged' \in SUBSET Ports /\ live' \in SUBSET Ports
        /\ UNCHANGED <<ctl, pc, why, idx, port, got, buf, torn, badge>>
    BY <1>2 DEF Bench, Replug, Power
  <2> QED
    BY <2>1
<1>3. CASE Handler
  <2>1. ASSUME NEW p \in Ports \cup {None}, Select(p) PROVE SelInv'
    BY <2>1 DEF Select
  <2>2. CASE SelectDone
    BY <2>2 DEF SelectDone
  <2>3. CASE Rescan
    BY <2>3 DEF Rescan
  <2> QED
    BY <1>3, <2>1, <2>2, <2>3 DEF Handler
<1>4. CASE Start
  BY <1>4 DEF Start
<1>5. CASE Scan \/ Reread
  BY <1>5, SelReturn
<1>6. CASE Opened
  <2>1. badge' = Badge("idle", port) /\ pc' = "check" /\ got' = FALSE /\ buf' = {}
        /\ pc = "open" /\ UNCHANGED <<world, ctl, why, idx, port, torn>>
    BY <1>6 DEF Opened
  <2>2. /\ badge' \in [state : BadgeState, port : Ports \cup {None},
                       manual : Ports \cup {None}]
        /\ badge'.state = "idle" /\ badge'.port = port /\ badge'.manual = manual
    BY <2>1, BadgeFacts, BadgeNames
  <2> QED
    BY <2>1, <2>2
<1>7. CASE OpenFails
  <2>1. PICK s \in {"busy", "error"} : badge' = Badge(s, port)
    BY <1>7 DEF OpenFails
  <2>2. badge' \in [state : BadgeState, port : Ports \cup {None}, manual : Ports \cup {None}]
    BY <2>1, BadgeFacts, BadgeNames
  <2>3. /\ pc' = "top" /\ why' = "start" /\ port' = None /\ got' = FALSE
        /\ buf' \in SUBSET {"now", "before"} /\ idx' = NextIdx
        /\ UNCHANGED <<world, ctl, torn>>
    BY <1>7 DEF OpenFails, Close
  <2>4. idx' \in 0 .. Wrap - 1
    BY <1>0, <2>3
  <2>5. TypeOK'
    BY <2>2, <2>3, <2>4
  <2>6. Flow' /\ Choice' /\ BadgeMatchesSession'
    BY <2>3
  <2> QED
    BY <2>5, <2>6
<1>8. CASE Forced
  BY <1>0, <1>8 DEF Forced, Close
<1>9. CASE Soft
  BY <1>9 DEF Soft
<1>10. CASE Proceed \/ Quiet
  <2>1. /\ pc \in {"check", "read"} /\ pc' \in {"check", "read"}
        /\ UNCHANGED <<world, ctl, why, idx, port, got, buf, torn, badge>>
    BY <1>10 DEF Proceed, Quiet
  <2>2. TypeOK' /\ Flow'
    BY <2>1
  <2>3. Choice' /\ BadgeMatchesSession'
    BY <2>1
  <2> QED
    BY <2>2, <2>3
<1>11. CASE Receive
  <2>1. /\ pc = "read" /\ pc' = "check" /\ got' = TRUE
        /\ buf' \in SUBSET {"now", "before"} /\ torn' \in BOOLEAN
        /\ UNCHANGED <<world, ctl, why, idx, port>>
    BY <1>11 DEF Receive
  <2>2. CASE badge' = Badge("open", port)
    <3>1. /\ badge' \in [state : BadgeState, port : Ports \cup {None},
                         manual : Ports \cup {None}]
          /\ badge'.state = "open" /\ badge'.port = port /\ badge'.manual = manual
      BY <2>2, BadgeFacts, BadgeNames
    <3> QED
      BY <2>1, <3>1
  <2>3. CASE got /\ UNCHANGED badge
    BY <2>1, <2>3
  <2> QED
    BY <1>11, <2>2, <2>3 DEF Receive
<1>12. CASE Tick
  BY <1>12 DEF Tick
<1>13. CASE ReadFails
  <2>1. badge' \in [state : BadgeState, port : Ports \cup {None}, manual : Ports \cup {None}]
    BY <1>13, BadgeFacts, BadgeNames DEF ReadFails
  <2> QED
    BY <1>13, <2>1 DEF ReadFails, Close
<1> QED
  BY <1>1, <1>2, <1>3, <1>4, <1>5, <1>6, <1>7, <1>8, <1>9, <1>10, <1>11, <1>12, <1>13
     DEF Next, Thread

-----------------------------------------------------------------------------
(* The theorems.                                                           *)

LEMMA SelInvariant == Spec => []SelInv
BY SelInit, SelStep, PTL DEF Spec

\* The open port is the selected one as soon as the selection is complete.
THEOREM SelectionTheorem == Spec => []SettledSelection
<1>1. SelInv => SettledSelection
  BY DEF SelInv, Choice, SettledSelection
<1> QED
  BY <1>1, SelInvariant, PTL

\* The badge shows the port, the mode and whether data came on this opening.
THEOREM BadgeTheorem == Spec => []BadgeMatchesSession
<1>1. SelInv => BadgeMatchesSession
  BY DEF SelInv
<1> QED
  BY <1>1, SelInvariant, PTL

\* A port that has delivered data is given up only for a selection or when it
\* is gone.
THEOREM FixedTheorem == Spec => FixedOnceHeard
<1>1. SelInv /\ [Next]_vars => [got /\ ~got' => forceNew \/ port \notin plugged]_vars
  <2> SUFFICES ASSUME SelInv, [Next]_vars, got, ~got'
               PROVE  forceNew \/ port \notin plugged
    OBVIOUS
  <2>1. pc \in {"check", "read"}
    BY DEF SelInv, Flow
  <2> QED
    BY <2>1 DEF Next, Bench, Handler, Thread, Replug, Power, Select, SelectDone, Rescan,
                Start, Scan, Reread, Opened, OpenFails, Forced, Soft, Proceed, Receive,
                Quiet, Tick, ReadFails, vars
<1> QED
  BY <1>1, SelInvariant, PTL DEF Spec, FixedOnceHeard

\* The thread, its badge and its line buffer have their values in every
\* reachable state; the rotation index stays below its modulus.
THEOREM ConsoleTypes == Spec => []TypeOK
<1>1. SelInv => TypeOK
  BY DEF SelInv
<1> QED
  BY <1>1, SelInvariant, PTL

-----------------------------------------------------------------------------
(* No torn line.  The buffer outlives a session, so the flag alone is not  *)
(* inductive: what is left of an earlier opening is gone once a port is    *)
(* held, because only Opened leads there.                                  *)

LineInv ==
  /\ NoTornLine
  /\ Holding => "before" \notin buf

\* candidates() leaves the buffer alone, and the thread begins to hold a port
\* only by opening it.
LEMMA LineReturn ==
  ASSUME SelInv, LineInv, Scan \/ Reread PROVE LineInv'
<1>1. CASE /\ pc' = "reread" /\ pc = "scan"
           /\ UNCHANGED <<why, buf, torn>>
  BY <1>1 DEF LineInv, NoTornLine, Holding
<1>2. ASSUME NEW n \in Nat, NEW c \in [1 .. n -> Ports \cup {None}],
             pc \in {"scan", "reread"}, Return(n, c)
      PROVE  LineInv'
  <2>1. CASE why = "start"
    <3>1. pc' \in {"top", "open"} /\ UNCHANGED <<why, buf, torn>>
      BY <1>2, <2>1 DEF Return, Pick
    <3> QED
      BY <3>1 DEF LineInv, NoTornLine, Holding
  <2>2. CASE why # "start"
    <3>1. Judge(n, c)
      BY <1>2, <2>2 DEF Return
    <3>2. \/ pc' = "top" /\ UNCHANGED torn
          \/ UNCHANGED <<buf, torn>>
      BY <3>1 DEF Judge, Close
    <3> QED
      BY <1>2, <2>2, <3>2 DEF LineInv, NoTornLine, Holding
  <2> QED
    BY <2>1, <2>2
<1> QED
  BY <1>1, <1>2, ReturnCases DEF SelInv

LEMMA LineStep == SelInv /\ LineInv /\ [Next]_vars => LineInv'
<1> SUFFICES ASSUME SelInv, LineInv, [Next]_vars PROVE LineInv'
  OBVIOUS
<1> USE DEF LineInv, NoTornLine, Holding
<1>1. CASE UNCHANGED <<pc, why, buf, torn>>
  BY <1>1
<1>2. CASE Bench \/ Handler \/ UNCHANGED vars
  BY <1>1, <1>2 DEF Bench, Replug, Power, Handler, Select, SelectDone, Rescan, vars
<1>3. CASE Start
  BY <1>3 DEF Start, SelInv, Flow
<1>4. CASE Scan \/ Reread
  BY <1>4, LineReturn
<1>5. CASE Opened
  BY <1>5 DEF Opened
<1>6. CASE OpenFails \/ Forced \/ ReadFails
  <2>1. pc' = "top" /\ UNCHANGED torn
    BY <1>6 DEF OpenFails, Forced, ReadFails, Close
  <2> QED
    BY <2>1
<1>7. CASE Soft \/ Proceed \/ Quiet \/ Tick
  <2>1. pc \in {"check", "read"} /\ UNCHANGED <<buf, torn>>
    BY <1>7 DEF Soft, Proceed, Quiet, Tick
  <2> QED
    BY <2>1
<1>8. CASE Receive
  <2>1. /\ pc = "read"
        /\ \/ buf' = buf \cup {"now"} /\ UNCHANGED torn
           \/ buf' \in {{}, {"now"}} /\ torn' = (torn \/ "before" \in buf)
    BY <1>8 DEF Receive
  <2>2. "before" \notin buf
    BY <2>1
  <2>3. ~torn'
    BY <2>1, <2>2, Zenon
  <2>4. "before" \notin buf'
    BY <2>1, <2>2, SMT
  <2> QED
    BY <2>3, <2>4
<1> QED
  BY <1>2, <1>3, <1>4, <1>5, <1>6, <1>7, <1>8 DEF Next, Thread

\* No recorded line has parts of two openings of a port, whatever the ports,
\* the selections and the moments at which data comes.
THEOREM NoTornTheorem == Spec => []NoTornLine
<1>1. Init => LineInv
  BY DEF Init, LineInv, NoTornLine, Holding
<1>2. LineInv => NoTornLine
  BY DEF LineInv
<1> QED
  BY <1>1, <1>2, LineStep, SelInvariant, PTL DEF Spec
=============================================================================
