------------------------------ MODULE FwUpdate ------------------------------
(***************************************************************************)
(* server/fw_update.py: the thread that downloads a firmware release and   *)
(* flashes it with JLink.exe; the handler of POST /api/fw/apply that       *)
(* starts it; the J-Link badge that the handler looks at (jlink_watch.py). *)
(*                                                                         *)
(* The server may be ended at any time (os._exit in app.py and             *)
(* self_update.py).  The JLink.exe it started then runs on by itself.      *)
(***************************************************************************)
EXTENDS Integers

CONSTANTS
  Jobs,      \* threads
  Tags,      \* releases
  Attempts,  \* of _flash: 3 in the code
  MaxExits,  \* bound: how often the server is ended
  None

ASSUME FwAssumption ==
  /\ Attempts \in Nat \ {0} /\ MaxExits \in Nat
  /\ None \notin Jobs \cup Tags /\ "half" \notin Tags

VARIABLES
  probe,   \* the J-Link probe is connected
  other,   \* another program, an IDE, holds it
  badge,   \* the J-Link badge
  holder,  \* the thread whose JLink.exe holds the probe
  orphan,  \* the release that a JLink.exe without a server is flashing
  lock,    \* _lock
  job,     \* what each thread does
  phase,   \* AppState.fw_update["phase"]
  last,    \* the last fw-update event of the timeline, as in the log file
  board,   \* the release in flash, or "half"
  exits    \* how often the server has been ended

vars == <<probe, other, badge, holder, orphan, lock, job, phase, last, board, exits>>

NoJob == [stage |-> "none", tag |-> None, tries |-> 0]

Init ==
  /\ probe \in BOOLEAN
  /\ other = FALSE
  /\ badge = "unknown"
  /\ holder = None /\ orphan = None
  /\ lock = FALSE
  /\ job = [j \in Jobs |-> NoJob]
  /\ phase = "idle"
  /\ last = [kind |-> "none", tag |-> None]
  /\ board \in Tags
  /\ exits = 0

-----------------------------------------------------------------------------
(* Around the server.                                                      *)

\* A probe that is pulled takes the other program's session with it.
Plug ==
  /\ probe' = ~probe
  /\ other' = FALSE
  /\ UNCHANGED <<badge, holder, orphan, lock, job, phase, last, board, exits>>

\* "The probe is held by one process at a time."
Other ==
  /\ probe /\ holder = None /\ orphan = None
  /\ other' = ~other
  /\ UNCHANGED <<probe, badge, holder, orphan, lock, job, phase, last, board, exits>>

\* jlink_watch: looks at the USB ports every 3 s.
Watch ==
  /\ badge' = IF probe THEN "connected" ELSE "disconnected"
  /\ UNCHANGED <<probe, other, holder, orphan, lock, job, phase, last, board, exits>>

\* os._exit, and the next start.
Exit ==
  /\ exits < MaxExits
  /\ exits' = exits + 1
  /\ orphan' = IF holder = None THEN orphan ELSE job[holder].tag
  /\ badge' = "unknown"
  /\ holder' = None
  /\ lock' = FALSE
  /\ job' = [j \in Jobs |-> NoJob]
  /\ phase' = "idle"
  /\ UNCHANGED <<probe, other, last, board>>

OrphanEnds ==
  /\ orphan # None
  /\ orphan' = None
  /\ board' \in {board} \cup (IF probe THEN {orphan} ELSE {})
  /\ UNCHANGED <<probe, other, badge, holder, lock, job, phase, last, exits>>

-----------------------------------------------------------------------------
(* POST /api/fw/apply.  A request that is refused changes nothing.         *)

\* Faulty variant: the lock is not tried.
ApplyUnlocked(j, t) ==
  /\ badge = "connected"
  /\ job[j].stage = "none"
  /\ lock' = TRUE
  /\ job' = [job EXCEPT ![j] = [stage |-> "begin", tag |-> t, tries |-> 0]]
  /\ UNCHANGED <<probe, other, badge, holder, orphan, phase, last, board, exits>>

Apply(j, t) ==
  /\ badge = "connected"
  /\ ~lock
  /\ job[j].stage = "none"
  /\ lock' = TRUE
  /\ job' = [job EXCEPT ![j] = [stage |-> "begin", tag |-> t, tries |-> 0]]
  /\ UNCHANGED <<probe, other, badge, holder, orphan, phase, last, board, exits>>

-----------------------------------------------------------------------------
(* The thread.                                                             *)

Go(j, from, to) ==
  /\ job[j].stage = from
  /\ job' = [job EXCEPT ![j].stage = to]

Event(j, kind) == last' = [kind |-> kind, tag |-> job[j].tag]

PhaseDownload(j) ==
  /\ Go(j, "begin", "phased")
  /\ phase' = "download"
  /\ UNCHANGED <<probe, other, badge, holder, orphan, lock, last, board, exits>>

EventDownload(j) ==
  /\ Go(j, "phased", "download")
  /\ Event(j, "download")
  /\ UNCHANGED <<probe, other, badge, holder, orphan, lock, phase, board, exits>>

\* The network answers, or not within its 60 s.
Download(j) ==
  /\ Go(j, "download", "downloaded") \/ Go(j, "download", "exception")
  /\ UNCHANGED <<probe, other, badge, holder, orphan, lock, phase, last, board, exits>>

PhaseFlash(j) ==
  /\ Go(j, "downloaded", "phased2")
  /\ phase' = "flash"
  /\ UNCHANGED <<probe, other, badge, holder, orphan, lock, last, board, exits>>

\* Faulty variant: flashes before it says so.
QuietFlash(j) ==
  /\ Go(j, "phased2", "attempt")
  /\ UNCHANGED <<probe, other, badge, holder, orphan, lock, phase, last, board, exits>>

EventFlash(j) ==
  /\ Go(j, "phased2", "attempt")
  /\ Event(j, "flash")
  /\ UNCHANGED <<probe, other, badge, holder, orphan, lock, phase, board, exits>>

\* JLink.exe connects and begins to write, or cannot connect.
JLink(j) ==
  /\ job[j].stage = "attempt"
  /\ IF probe /\ ~other /\ orphan = None
     THEN /\ job' = [job EXCEPT ![j].stage = "jlink", ![j].tries = @ + 1]
          /\ holder' = j
          /\ board' = "half"
     ELSE /\ job' = [job EXCEPT ![j].stage = "bad", ![j].tries = @ + 1]
          /\ UNCHANGED <<holder, board>>
  /\ UNCHANGED <<probe, other, badge, orphan, lock, phase, last, exits>>

\* Faulty variant: JLink.exe ends with 0 also when it printed an error.
PassedByCode(rc, errors) == rc = 0

\* r.returncode == 0 and not bad
Passed(rc, errors) == rc = 0 /\ ~errors

\* JLink.exe ends.  A write that failed is told by the code or the output.
JLinkEnds(j) ==
  /\ job[j].stage = "jlink"
  /\ \E rc \in {0, 1}, errors \in BOOLEAN :
       /\ rc = 0 /\ ~errors => probe
       /\ board' = IF rc = 0 /\ ~errors THEN job[j].tag ELSE board
       /\ job' = [job EXCEPT ![j].stage = IF Passed(rc, errors) THEN "good" ELSE "bad"]
  /\ holder' = None
  /\ UNCHANGED <<probe, other, badge, orphan, lock, phase, last, exits>>

\* subprocess.TimeoutExpired, after 300 s: JLink.exe is killed.
JLinkTimeout(j) ==
  /\ Go(j, "jlink", "exception")
  /\ holder' = None
  /\ UNCHANGED <<probe, other, badge, orphan, lock, phase, last, board, exits>>

\* Faulty variant: as often as it takes.
RetryOn(j) ==
  /\ job[j].tries <= Attempts
  /\ Go(j, "bad", "attempt")
  /\ UNCHANGED <<probe, other, badge, holder, orphan, lock, phase, last, board, exits>>

Retry(j) ==
  /\ job[j].tries < Attempts
  /\ Go(j, "bad", "attempt")
  /\ UNCHANGED <<probe, other, badge, holder, orphan, lock, phase, last, board, exits>>

Done(j) ==
  /\ Go(j, "good", "finally")
  /\ Event(j, "done")
  /\ UNCHANGED <<probe, other, badge, holder, orphan, lock, phase, board, exits>>

Failed(j) ==
  /\ job[j].tries = Attempts
  /\ Go(j, "bad", "finally")
  /\ Event(j, "failed")
  /\ UNCHANGED <<probe, other, badge, holder, orphan, lock, phase, board, exits>>

\* Faulty variant: an exception ends the thread, with no finally.
ExceptionEnds(j) ==
  /\ job[j].stage = "exception"
  /\ job' = [job EXCEPT ![j] = NoJob]
  /\ Event(j, "failed")
  /\ UNCHANGED <<probe, other, badge, holder, orphan, lock, phase, board, exits>>

Exception(j) ==
  /\ Go(j, "exception", "finally")
  /\ Event(j, "failed")
  /\ UNCHANGED <<probe, other, badge, holder, orphan, lock, phase, board, exits>>

PhaseIdle(j) ==
  /\ Go(j, "finally", "release")
  /\ phase' = "idle"
  /\ UNCHANGED <<probe, other, badge, holder, orphan, lock, last, board, exits>>

Release(j) ==
  /\ job[j].stage = "release"
  /\ job' = [job EXCEPT ![j] = NoJob]
  /\ lock' = FALSE
  /\ UNCHANGED <<probe, other, badge, holder, orphan, phase, last, board, exits>>

-----------------------------------------------------------------------------
Thread(j) ==
  \/ PhaseDownload(j) \/ EventDownload(j) \/ Download(j)
  \/ PhaseFlash(j) \/ EventFlash(j)
  \/ JLink(j) \/ JLinkEnds(j) \/ JLinkTimeout(j) \/ Retry(j)
  \/ Done(j) \/ Failed(j) \/ Exception(j) \/ PhaseIdle(j) \/ Release(j)

Next ==
  \/ Plug \/ Other \/ Watch \/ Exit \/ OrphanEnds
  \/ \E j \in Jobs : Thread(j)
  \/ \E j \in Jobs, t \in Tags : Apply(j, t)

Spec == Init /\ [][Next]_vars

\* The network and JLink.exe answer or run into their timeouts.
FairSpec == Spec /\ \A j \in Jobs : WF_vars(Thread(j))

-----------------------------------------------------------------------------
(* What the code promises.                                                 *)

Stages == {"none", "begin", "phased", "download", "downloaded", "phased2", "attempt",
           "jlink", "good", "bad", "exception", "finally", "release"}

TypeOK ==
  /\ probe \in BOOLEAN /\ other \in BOOLEAN /\ lock \in BOOLEAN
  /\ badge \in {"unknown", "connected", "disconnected"}
  /\ holder \in Jobs \cup {None} /\ orphan \in Tags \cup {None}
  /\ job \in [Jobs -> [stage : Stages, tag : Tags \cup {None}, tries : 0 .. Attempts]]
  /\ phase \in {"idle", "download", "flash"}
  /\ last \in [kind : {"none", "download", "flash", "done", "failed"}, tag : Tags \cup {None}]
  /\ board \in Tags \cup {"half"}
  /\ exits \in 0 .. MaxExits

Working(j) == job[j].stage # "none"

\* The panel's phase is the thread's, whatever other updates were asked for,
\* began or ended meanwhile: idle when there is none.
PhaseTells ==
  /\ phase = "idle" => \A j \in Jobs : job[j].stage \in {"none", "begin", "release"}
  /\ phase = "download" => \E j \in Jobs :
       job[j].stage \in {"phased", "download", "downloaded", "exception", "finally"}
  /\ phase = "flash" => \E j \in Jobs :
       job[j].stage \in {"phased2", "attempt", "jlink", "good", "bad", "exception", "finally"}

\* When the timeline's last word on an update is success, that release is what
\* the board runs: also after failures, retries, timeouts and exits.
SuccessTells == last.kind = "done" => board = last.tag

\* One JLink.exe of this server at a time, and it is the holder's.
OneJLink == \A j \in Jobs : job[j].stage = "jlink" => holder = j

\* The board is never written without the timeline (its file survives an exit)
\* naming the release first.
WritesAnnounced ==
  [][board' # board /\ orphan = None =>
       last.kind = "flash" /\ board' \in {last.tag, "half"}]_vars

\* Every update ends, whatever fails in it, and the next one can be started.
UpdatesEnd == lock ~> ~lock
=============================================================================
