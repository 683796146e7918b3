---------------------------- MODULE ConsoleTail ----------------------------
(***************************************************************************)
(* server/console_tail.py: the thread that tails the UART console, and the *)
(* Ctl object through which the event loop (POST /api/console/select and   *)
(* the /ws handler of server/app.py) asks it for another port.             *)
(*                                                                         *)
(* Ctl has no lock, so every read and write of it is a step of its own.    *)
(* The thread compares generation counters with the values it last saw;    *)
(* only "different" matters, so forceNew and softNew stand for             *)
(* force_gen # f_seen and soft_gen # s_seen.  Sleeps and timeouts are time *)
(* in which the others may run.                                            *)
(***************************************************************************)
EXTENDS Integers, FiniteSets

CONSTANTS
  Ports,       \* serial ports the PC may have
  Segger,      \* those with the probe's USB vendor id
  None,        \* no port: automatic selection, or no port at all
  ConfigPort,  \* console_port of config.json, or None
  Rank,        \* the order in which the ports are enumerated
  Wrap         \* idx is only used modulo a number of ports; it wraps here

ASSUME PortAssumption ==
  /\ IsFiniteSet(Ports) /\ Segger \subseteq Ports /\ None \notin Ports
  /\ ConfigPort \in Ports \cup {None}
  /\ Rank \in [Ports -> Nat]
  /\ \A p, q \in Ports : Rank[p] = Rank[q] => p = q
  /\ Wrap \in Nat \ {0}
  /\ \A n \in 1 .. Cardinality(Segger) : Wrap % n = 0

VARIABLES
  plugged,   \* the ports that exist now
  live,      \* the ports on which a board is sending
  manual,    \* Ctl.manual
  selecting, \* Ctl.select has set manual and not yet counted force_gen up
  forceNew,  \* Ctl.force_gen # f_seen
  softNew,   \* Ctl.soft_gen # s_seen
  pc,        \* where the thread is
  why,       \* what it calls candidates() for; "start" but in a rescan
  idx,       \* rotation over silent candidates
  port,      \* the port it opens or has open
  got,       \* got_data
  buf,       \* what the unfinished line was received in: this opening or before
  torn,      \* history: a line was recorded that two openings had parts of
  badge      \* AppState.badges["console"]

world == <<plugged, live>>
ctl == <<manual, selecting, forceNew, softNew>>
vars == <<world, ctl, pc, why, idx, port, got, buf, torn, badge>>

BadgeState ==
  {"unknown", "absent", "busy", "error", "idle", "open", "disconnected"}

Badge(s, p) == [state |-> s, port |-> p, manual |-> manual]

Init ==
  /\ plugged \in SUBSET Ports
  /\ live \in SUBSET Ports
  /\ manual = None
  /\ selecting = FALSE
  /\ forceNew = FALSE
  /\ softNew = FALSE
  /\ pc = "top"
  /\ why = "start"
  /\ idx = 0
  /\ port = None
  /\ got = FALSE
  /\ buf = {}
  /\ torn = FALSE
  /\ badge = [state |-> "unknown", port |-> None, manual |-> None]

-----------------------------------------------------------------------------
(* The bench: cables and boards.                                           *)

Replug(p) ==
  /\ plugged' = IF p \in plugged THEN plugged \ {p} ELSE plugged \cup {p}
  /\ UNCHANGED <<live, ctl, pc, why, idx, port, got, buf, torn, badge>>

Power(p) ==
  /\ live' = IF p \in live THEN live \ {p} ELSE live \cup {p}
  /\ UNCHANGED <<plugged, ctl, pc, why, idx, port, got, buf, torn, badge>>

-----------------------------------------------------------------------------
(* The event loop.  It runs one handler at a time.                         *)

\* Ctl.select: self.manual = port or None ...
Select(p) ==
  /\ ~selecting
  /\ manual' = p
  /\ selecting' = TRUE
  /\ UNCHANGED <<world, forceNew, softNew, pc, why, idx, port, got, buf, torn, badge>>

\* ... self.force_gen += 1
SelectDone ==
  /\ selecting
  /\ forceNew' = TRUE
  /\ selecting' = FALSE
  /\ UNCHANGED <<world, manual, softNew, pc, why, idx, port, got, buf, torn, badge>>

\* Ctl.rescan, called when a tab connects.
Rescan ==
  /\ ~selecting
  /\ manual = None
  /\ softNew' = TRUE
  /\ UNCHANGED <<world, manual, selecting, forceNew, pc, why, idx, port, got, buf,
                 torn, badge>>

-----------------------------------------------------------------------------
(* The thread.                                                             *)

\* Leaving the inner loop or giving up on a port: ser.close().
Close ==
  /\ pc' = "top"
  /\ port' = None
  /\ got' = FALSE
  /\ buf' = IF buf = {} THEN {} ELSE {"before"}
  /\ why' = "start"
  /\ UNCHANGED torn

NextIdx == (idx + 1) % Wrap

\* f_seen, s_seen = ctl.force_gen, ctl.soft_gen
Start ==
  /\ pc = "top"
  /\ forceNew' = FALSE
  /\ softNew' = FALSE
  /\ pc' = "scan"
  /\ UNCHANGED <<world, manual, selecting, why, idx, port, got, buf, torn, badge>>

\* The enumeration of the ports in S.
Listings(S) ==
  {s \in [1 .. Cardinality(S) -> S] :
     \A i, j \in DOMAIN s : i < j => Rank[s[i]] < Rank[s[j]]}

\* Faulty variant: f_seen is read after the candidates.
PickSeenLate(n, c) ==
  /\ IF n = 0
     THEN pc' = "top" /\ badge' = Badge("absent", None) /\ UNCHANGED port
     ELSE pc' = "open" /\ port' = c[(idx % n) + 1] /\ UNCHANGED badge
  /\ forceNew' = FALSE
  /\ UNCHANGED <<world, manual, selecting, softNew, why, idx, got, buf, torn>>

\* candidates() returned n ports, c: the first try of a new round.
Pick(n, c) ==
  /\ IF n = 0
     THEN pc' = "top" /\ badge' = Badge("absent", None) /\ UNCHANGED port
     ELSE pc' = "open" /\ port' = c[(idx % n) + 1] /\ UNCHANGED badge
  /\ UNCHANGED <<world, ctl, why, idx, got, buf, torn>>

\* Faulty variant of Judge: always starts over with the first candidate.
JudgeFromFirst(n, c) ==
  IF n > 1 \/ \A i \in 1 .. n : c[i] # port
  THEN Close /\ idx' = 0 /\ UNCHANGED <<world, ctl, badge>>
  ELSE /\ pc' = IF why = "soft" THEN "read" ELSE "check"
       /\ why' = "start"
       /\ UNCHANGED <<world, ctl, idx, port, got, buf, torn, badge>>

\* The same while the current port is silent: a request to rescan starts over
\* with the first candidate, the 5 s timer moves on to the next.
Judge(n, c) ==
  IF n > 1 \/ \A i \in 1 .. n : c[i] # port
  THEN /\ Close
       /\ idx' = IF why = "soft" THEN 0 ELSE NextIdx
       /\ UNCHANGED <<world, ctl, badge>>
  ELSE /\ pc' = IF why = "soft" THEN "read" ELSE "check"
       /\ why' = "start"
       /\ UNCHANGED <<world, ctl, idx, port, got, buf, torn, badge>>

Return(n, c) == IF why = "start" THEN Pick(n, c) ELSE Judge(n, c)

\* candidates(): `if ctl.manual` ...
Scan ==
  /\ pc = "scan"
  /\ \/ /\ manual # None
        /\ pc' = "reread"
        /\ UNCHANGED <<world, ctl, why, idx, port, got, buf, torn, badge>>
     \/ /\ manual = None /\ ConfigPort # None
        /\ Return(1, [i \in {1} |-> ConfigPort])
     \/ /\ manual = None /\ ConfigPort = None
        /\ LET S == plugged \cap Segger
           IN  \E s \in Listings(S) : Return(Cardinality(S), s)

\* ... `return [ctl.manual]` reads it again.
Reread == pc = "reread" /\ Return(1, [i \in {1} |-> manual])

\* Faulty variant: the line buffer is kept.
OpenedKeep ==
  /\ pc = "open"
  /\ port \in plugged \cup {None}
  /\ pc' = "check"
  /\ badge' = Badge("idle", port)
  /\ got' = FALSE
  /\ UNCHANGED <<world, ctl, why, idx, port, buf, torn>>

\* serial.Serial(None) makes an object that is not open and raises nothing.
Opened ==
  /\ pc = "open"
  /\ port \in plugged \cup {None}
  /\ pc' = "check"
  /\ badge' = Badge("idle", port)
  /\ buf' = {}
  /\ got' = FALSE
  /\ UNCHANGED <<world, ctl, why, idx, port, torn>>

\* Faulty variant: idx is counted up without end.
OpenFailsCount ==
  /\ pc = "open"
  /\ port # None
  /\ \E s \in {"busy", "error"} : badge' = Badge(s, port)
  /\ idx' = idx + 1
  /\ Close
  /\ UNCHANGED <<world, ctl>>

OpenFails ==
  /\ pc = "open"
  /\ port # None
  /\ \E s \in {"busy", "error"} : badge' = Badge(s, port)
  /\ idx' = NextIdx
  /\ Close
  /\ UNCHANGED <<world, ctl>>

\* Faulty variant: a port that delivers data is not given up.
ForcedIfSilent ==
  /\ pc = "check"
  /\ forceNew /\ ~got
  /\ idx' = 0
  /\ Close
  /\ UNCHANGED <<world, ctl, badge>>

Forced ==
  /\ pc = "check"
  /\ forceNew
  /\ idx' = 0
  /\ Close
  /\ UNCHANGED <<world, ctl, badge>>

\* Faulty variant: does not ask whether data has come.
SoftAlways ==
  /\ pc = "check"
  /\ ~forceNew
  /\ softNew
  /\ softNew' = FALSE
  /\ pc' = "scan"
  /\ why' = "soft"
  /\ UNCHANGED <<world, manual, selecting, forceNew, idx, port, got, buf, torn, badge>>

Soft ==
  /\ pc = "check"
  /\ ~forceNew
  /\ softNew /\ ~got
  /\ softNew' = FALSE
  /\ pc' = "scan"
  /\ why' = "soft"
  /\ UNCHANGED <<world, manual, selecting, forceNew, idx, port, got, buf, torn, badge>>

Proceed ==
  /\ pc = "check"
  /\ ~forceNew /\ (softNew => got)
  /\ pc' = "read"
  /\ UNCHANGED <<world, ctl, why, idx, port, got, buf, torn, badge>>

\* Faulty variant: the badge is throttled from the opening on.
ReceiveThrottled ==
  /\ pc = "read"
  /\ port \in plugged \cap live
  /\ got' = TRUE
  /\ badge' \in {badge, Badge("open", port)}
  /\ \/ buf' = buf \cup {"now"} /\ UNCHANGED torn
     \/ buf' \in {{}, {"now"}} /\ torn' = (torn \/ "before" \in buf)
  /\ pc' = "check"
  /\ UNCHANGED <<world, ctl, why, idx, port>>

\* ser.read returned data: it may end a line, and may begin another.
Receive ==
  /\ pc = "read"
  /\ port \in plugged \cap live
  /\ got' = TRUE
  /\ \/ badge' = Badge("open", port)
     \/ got /\ UNCHANGED badge              \* at most one update a second
  /\ \/ buf' = buf \cup {"now"} /\ UNCHANGED torn
     \/ buf' \in {{}, {"now"}} /\ torn' = (torn \/ "before" \in buf)
  /\ pc' = "check"
  /\ UNCHANGED <<world, ctl, why, idx, port>>

\* It returned nothing within 0.2 s.
Quiet ==
  /\ pc = "read"
  /\ port \in plugged
  /\ pc' = "check"
  /\ UNCHANGED <<world, ctl, why, idx, port, got, buf, torn, badge>>

\* Nothing for 5 s since the port was opened or last looked at.
Tick ==
  /\ pc = "read"
  /\ port \in plugged
  /\ ~got
  /\ pc' = "scan"
  /\ why' = "tick"
  /\ UNCHANGED <<world, ctl, idx, port, got, buf, torn, badge>>

\* It raised SerialException: the port is gone, or was never open.
ReadFails ==
  /\ pc = "read"
  /\ port \notin plugged
  /\ badge' = Badge("disconnected", port)
  /\ Close
  /\ UNCHANGED <<world, ctl, idx>>

-----------------------------------------------------------------------------
Bench == \E p \in Ports : Replug(p) \/ Power(p)

Handler == (\E p \in Ports \cup {None} : Select(p)) \/ SelectDone \/ Rescan

Thread ==
  \/ Start \/ Scan \/ Reread \/ Opened \/ OpenFails \/ Forced \/ Soft \/ Proceed
  \/ Receive \/ Quiet \/ Tick \/ ReadFails

Next == Bench \/ Handler \/ Thread

Spec == Init /\ [][Next]_vars

\* The thread and a handler that has begun go on.  Another program does not
\* hold a port for ever, a board that is on sends now and then, and a silent
\* port is silent for 5 s at a time.
Fairness ==
  /\ WF_vars(Thread)
  /\ WF_vars(SelectDone)
  /\ \A p \in Ports : SF_vars(port = p /\ Opened)
  /\ SF_vars(Receive)
  /\ SF_vars(Tick)

FairSpec == Spec /\ Fairness

-----------------------------------------------------------------------------
(* What the code promises.                                                 *)

TypeOK ==
  /\ plugged \in SUBSET Ports /\ live \in SUBSET Ports
  /\ manual \in Ports \cup {None}
  /\ selecting \in BOOLEAN /\ forceNew \in BOOLEAN /\ softNew \in BOOLEAN
  /\ got \in BOOLEAN /\ torn \in BOOLEAN
  /\ pc \in {"top", "scan", "reread", "open", "check", "read"}
  /\ why \in {"start", "soft", "tick"}
  /\ idx \in 0 .. Wrap - 1
  /\ port \in Ports \cup {None}
  /\ buf \in SUBSET {"now", "before"}
  /\ badge \in [state : BadgeState, port : Ports \cup {None},
                manual : Ports \cup {None}]

\* The thread has a port open.
Holding == pc \in {"check", "read"} \/ (pc \in {"scan", "reread"} /\ why # "start")

\* No selection is under way or waiting for the thread.
Settled == ~selecting /\ ~forceNew

\* The port rules of the module's header: the UI's choice, else config.json,
\* else a port with the probe's vendor id.
RightPort(p) ==
  IF manual # None THEN p = manual
  ELSE IF ConfigPort # None THEN p = ConfigPort ELSE p \in Segger

\* When the last selection has been taken notice of, the open port is the
\* selected one, though Ctl.manual is read without a lock and long before the
\* port is opened.
SettledSelection == Holding /\ Settled => RightPort(port)

\* The panel shows the session the thread is in: green only after data came on
\* this opening of this port, yellow until then, and the mode it was opened in.
BadgeMatchesSession ==
  Holding =>
    /\ badge.port = port
    /\ badge.state = IF got THEN "open" ELSE "idle"
    /\ Settled => badge.manual = manual

\* No console line is put together from two openings of a port.
NoTornLine == ~torn

\* Once a port has delivered data it is kept: only a selection or the loss of
\* the port ends the session, not a rescan and not the timer.
FixedOnceHeard ==
  [][got /\ ~got' => forceNew \/ port \notin plugged]_vars

\* A selected port that exists is opened in the end, and is not left again
\* until the next selection.
ManualHonoured ==
  \A p \in Ports :
    <>[](manual = p /\ ~selecting /\ p \in plugged) => <>[](Holding /\ port = p)

\* Automatic selection finds a port that delivers data, past the silent ones
\* and the busy ones, once nobody plugs or rescans any more.
AutoFindsData ==
  (/\ <>[](/\ manual = None /\ ~selecting /\ ~softNew
           /\ plugged \cap live \cap Segger # {})
   /\ <>[][UNCHANGED world]_vars)
    => <>[]got

\* README.md: the console badge is green only while data is being received.
GreenOnlyWhileReceiving ==
  <>[](live = {}) => []<>(badge.state # "open")
=============================================================================
