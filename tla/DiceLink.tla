------------------------------ MODULE DiceLink ------------------------------
(***************************************************************************)
(* server/dice_link.py: the thread that owns the USB CDC link to the       *)
(* device, and the event loop that sends commands through it (POST         *)
(* /api/cmd of server/app.py).                                             *)
(*                                                                         *)
(* DiceLink.lock covers a send; nothing covers self.ser, which run()       *)
(* opens, closes and sets to None while a send may be under way.  Frames   *)
(* are abstracted to their kind; the order of the device's answers is      *)
(* left open.  STATUS and EVENT frames only record items (AppState.tla).   *)
(***************************************************************************)
EXTENDS Integers, Sequences

CONSTANTS
  Versions,   \* of the firmware
  Modulus,    \* of the frame number: 256 in the code
  FixedPort,  \* dice_port is set in config.json
  None

ASSUME LinkAssumption ==
  /\ Modulus \in Nat /\ Modulus > 1
  /\ FixedPort \in BOOLEAN
  /\ None \notin Versions

VARIABLES
  plugged,   \* the device's port exists
  alive,     \* its firmware answers
  fw,        \* the firmware it runs
  rx,        \* its answers that have not been read
  ser,       \* self.ser: None, open, dead (its port is gone) or closed
  locked,    \* self.lock is held by the event loop
  seq,       \* self.seq
  wire,      \* history: the numbers of the last two frames written
  pong,      \* now - self.last_pong < 2
  pc,        \* where run() is
  dice, mcu, \* badges
  selftest,  \* AppState.selftest: None, or there is a result
  fw_info,   \* AppState.fw_info
  api        \* where api_cmd is

device == <<plugged, alive, fw>>
panel == <<dice, mcu, selftest, fw_info>>
handler == <<api, locked>>
vars == <<device, rx, ser, seq, wire, pong, pc, panel, handler>>

Answers == [kind : {"pong", "info", "selftest"}, fw : Versions]

Init ==
  /\ plugged \in BOOLEAN
  /\ alive \in BOOLEAN
  /\ fw \in Versions
  /\ rx = {}
  /\ ser = "none"
  /\ locked = FALSE
  /\ seq = 0
  /\ wire = <<>>
  /\ pong = FALSE
  /\ pc = "top"
  /\ dice = "unknown"
  /\ mcu = "unknown"
  /\ selftest = "none"
  /\ fw_info = None
  /\ api = "idle"

-----------------------------------------------------------------------------
(* The device.                                                             *)

\* A reboot or the cable: an open handle does not survive it.
Replug ==
  /\ plugged' = ~plugged
  /\ rx' = {}
  /\ ser' = IF ser = "open" /\ plugged THEN "dead" ELSE ser
  /\ UNCHANGED <<alive, fw, seq, wire, pong, pc, panel, handler>>

Flash ==
  /\ ~plugged
  /\ fw' \in Versions
  /\ UNCHANGED <<plugged, alive, rx, ser, seq, wire, pong, pc, panel, handler>>

\* The firmware hangs, or has come up.
Respond ==
  /\ alive' = ~alive
  /\ UNCHANGED <<plugged, fw, rx, ser, seq, wire, pong, pc, panel, handler>>

\* 2 s without a PONG; a firmware that answers a PING every 0.5 s is faster.
Age ==
  /\ pong
  /\ ~(plugged /\ alive)
  /\ pong' = FALSE
  /\ UNCHANGED <<device, rx, ser, seq, wire, pc, panel, handler>>

\* A command on the wire is answered, or lost on a firmware that is not up.
Heard(kind) == rx' = IF alive THEN rx \cup {[kind |-> kind, fw |-> fw]} ELSE rx

\* Frame number n is written.
Put(n) == wire' = IF wire = <<>> THEN <<n>> ELSE <<wire[Len(wire)], n>>

-----------------------------------------------------------------------------
(* run().  Its own sends are one step each: they wait for the lock, find   *)
(* self.ser as run() left it, and nobody else writes meanwhile.            *)

Go(from, to) == pc = from /\ pc' = to

\* self.send(...): False on a handle that is dead.
Send(kind) ==
  /\ ~locked
  /\ IF ser = "open"
     THEN Heard(kind) /\ Put(seq) /\ seq' = (seq + 1) % Modulus
     ELSE UNCHANGED <<rx, wire, seq>>

\* ports.autodetect: the port that is configured, there or not, or else the
\* first with the device's vendor id.
Found == FixedPort \/ plugged

NoPort ==
  /\ Go("top", "noport")
  /\ ~Found
  /\ dice' = "absent"
  /\ UNCHANGED <<device, rx, ser, seq, wire, pong, mcu, selftest, fw_info, handler>>

NoPortMcu ==
  /\ Go("noport", "top")
  /\ mcu' = "absent"
  /\ UNCHANGED <<device, rx, ser, seq, wire, pong, dice, selftest, fw_info, handler>>

Open ==
  /\ Go("top", "opened")
  /\ plugged
  /\ ser' = "open"
  /\ rx' = {}
  /\ UNCHANGED <<device, seq, wire, pong, panel, handler>>

OpenFails ==
  /\ Go("top", "top")
  /\ Found
  /\ dice' \in {"busy", "error"}
  /\ ser' = "none"
  /\ UNCHANGED <<device, rx, seq, wire, pong, mcu, selftest, fw_info, handler>>

Opened ==
  /\ Go("opened", "hello")
  /\ dice' = "open"
  /\ UNCHANGED <<device, rx, ser, seq, wire, pong, mcu, selftest, fw_info, handler>>

\* Faulty variant: not when a version is on display already.
GetInfoOnce ==
  /\ Go("hello", "hello2")
  /\ IF fw_info = None THEN Send("info") ELSE UNCHANGED <<rx, wire, seq>>
  /\ UNCHANGED <<device, ser, pong, panel, handler>>

GetInfo ==
  /\ Go("hello", "hello2")
  /\ Send("info")
  /\ UNCHANGED <<device, ser, pong, panel, handler>>

Selftest ==
  /\ Go("hello2", "ping")
  /\ Send("selftest")
  /\ pong' = FALSE                                 \* self.last_pong = 0.0
  /\ UNCHANGED <<device, ser, panel, handler>>

PingDue ==
  /\ Go("ping", "beat")
  /\ UNCHANGED <<device, rx, ser, seq, wire, pong, panel, handler>>

\* The heartbeat; an answer of False raises SerialException.
Ping ==
  /\ pc = "beat"
  /\ Send("pong")
  /\ pc' = IF ser = "open" THEN "mcu" ELSE "broken"
  /\ UNCHANGED <<device, ser, pong, panel, handler>>

NoPingYet ==
  /\ Go("ping", "mcu")
  /\ UNCHANGED <<device, rx, ser, seq, wire, pong, panel, handler>>

\* Faulty variant: the badge is not taken back.
McuBadgeUp ==
  /\ Go("mcu", "read")
  /\ mcu' = IF pong THEN "connected" ELSE mcu
  /\ UNCHANGED <<device, rx, ser, seq, wire, pong, dice, selftest, fw_info, handler>>

McuBadge ==
  /\ Go("mcu", "read")
  /\ mcu' = IF pong THEN "connected" ELSE "no_pong"
  /\ UNCHANGED <<device, rx, ser, seq, wire, pong, dice, selftest, fw_info, handler>>

NoBadgeYet ==
  /\ Go("mcu", "read")
  /\ UNCHANGED <<device, rx, ser, seq, wire, pong, panel, handler>>

\* _on_frame for the answers that one read brings: run() is the only writer of
\* what they change.
OnFrames(got) ==
  /\ Go("read", "ping")
  /\ ser = "open"
  /\ rx' = rx \ got
  /\ pong' = (pong \/ \E r \in got : r.kind = "pong")
  /\ selftest' = IF \E r \in got : r.kind = "selftest" THEN "result" ELSE selftest
  /\ \/ \E r \in got : r.kind = "info" /\ fw_info' = r.fw
     \/ (\A r \in got : r.kind # "info") /\ UNCHANGED fw_info
  /\ UNCHANGED <<device, ser, seq, wire, dice, mcu, handler>>

Read == \E got \in SUBSET rx : OnFrames(got)

ReadFails ==
  /\ Go("read", "broken")
  /\ ser # "open"
  /\ UNCHANGED <<device, rx, ser, seq, wire, pong, panel, handler>>

\* except serial.SerialException: five statements, five steps.
Broken ==
  /\ Go("broken", "broken2")
  /\ dice' = "disconnected"
  /\ UNCHANGED <<device, rx, ser, seq, wire, pong, mcu, selftest, fw_info, handler>>

BrokenMcu ==
  /\ Go("broken2", "broken3")
  /\ mcu' = "absent"
  /\ UNCHANGED <<device, rx, ser, seq, wire, pong, dice, selftest, fw_info, handler>>

\* Faulty variant: the self-test result stays on display.
KeepSelftest ==
  /\ Go("broken3", "broken4")
  /\ UNCHANGED <<device, rx, ser, seq, wire, pong, panel, handler>>

ForgetSelftest ==
  /\ Go("broken3", "broken4")
  /\ selftest' = "none"
  /\ UNCHANGED <<device, rx, ser, seq, wire, pong, dice, mcu, fw_info, handler>>

CloseSer ==
  /\ Go("broken4", "broken5")
  /\ ser' = "closed"
  /\ UNCHANGED <<device, rx, seq, wire, pong, panel, handler>>

\* Faulty variant: the thread ends instead of waiting and trying again.
GiveUp ==
  /\ Go("broken5", "over")
  /\ ser' = "none"
  /\ UNCHANGED <<device, rx, seq, wire, pong, panel, handler>>

DropSer ==
  /\ Go("broken5", "top")
  /\ ser' = "none"
  /\ UNCHANGED <<device, rx, seq, wire, pong, panel, handler>>

-----------------------------------------------------------------------------
(* api_cmd, on the event loop: one command at a time.                      *)

\* link.ser is looked at once before the command is built: without it the
\* command is refused and nothing changes.
Command ==
  /\ api = "idle"
  /\ ser # "none"
  /\ api' = "lock"
  /\ UNCHANGED <<device, rx, ser, seq, wire, pong, pc, panel, locked>>

Lock ==
  /\ api = "lock" /\ ~locked
  /\ api' = "check"
  /\ locked' = TRUE
  /\ UNCHANGED <<device, rx, ser, seq, wire, pong, pc, panel>>

\* Leaving the `with` block: the command was answered, or an exception is on
\* its way to FastAPI.
Leave(to) == api' = to /\ locked' = FALSE

\* Faulty variant: returns with the lock held.
CheckKeepsLock ==
  /\ api = "check"
  /\ IF ser = "none" THEN api' = "idle" ELSE api' = "write"
  /\ UNCHANGED <<device, rx, ser, seq, wire, pong, pc, panel, locked>>

\* if not self.ser: return False
Check ==
  /\ api = "check"
  /\ IF ser = "none" THEN Leave("idle")
     ELSE api' = "write" /\ UNCHANGED locked
  /\ UNCHANGED <<device, rx, ser, seq, wire, pong, pc, panel>>

\* Faulty variant: a frame that was not written is counted.
WriteFailsCounted ==
  /\ api = "write"
  /\ ser \in {"dead", "closed"}
  /\ seq' = (seq + 1) % Modulus
  /\ Leave("idle")
  /\ UNCHANGED <<device, rx, ser, wire, pong, pc, panel>>

\* self.ser.write raises SerialException: return False
WriteFails ==
  /\ api = "write"
  /\ ser \in {"dead", "closed"}
  /\ Leave("idle")
  /\ UNCHANGED <<device, rx, ser, seq, wire, pong, pc, panel>>

\* self.ser is None by now, and AttributeError is not caught.
WriteNone ==
  /\ api = "write"
  /\ ser = "none"
  /\ Leave("crash")
  /\ UNCHANGED <<device, rx, ser, seq, wire, pong, pc, panel>>

\* The answer 500.
Crashed ==
  /\ api = "crash"
  /\ api' = "idle"
  /\ UNCHANGED <<device, rx, ser, seq, wire, pong, pc, panel, locked>>

\* The device's answer to a control command is only recorded as an event.
Write ==
  /\ api = "write"
  /\ ser = "open"
  /\ Put(seq)
  /\ api' = "count"
  /\ UNCHANGED <<device, rx, ser, seq, pong, pc, panel, locked>>

\* Faulty variant: the frame number does not wrap.
CountOn ==
  /\ api = "count"
  /\ seq' = seq + 1
  /\ Leave("idle")
  /\ UNCHANGED <<device, rx, ser, wire, pong, pc, panel>>

Count ==
  /\ api = "count"
  /\ seq' = (seq + 1) % Modulus
  /\ Leave("idle")
  /\ UNCHANGED <<device, rx, ser, wire, pong, pc, panel>>

-----------------------------------------------------------------------------
Device == Replug \/ Flash \/ Respond \/ Age

Run ==
  \/ NoPort \/ NoPortMcu \/ Open \/ OpenFails \/ Opened \/ GetInfo \/ Selftest
  \/ PingDue \/ Ping \/ NoPingYet \/ McuBadge \/ NoBadgeYet \/ Read \/ ReadFails
  \/ Broken \/ BrokenMcu \/ ForgetSelftest \/ CloseSer \/ DropSer

Sending == Lock \/ Check \/ WriteFails \/ WriteNone \/ Crashed \/ Write \/ Count

Next == Device \/ Run \/ Command \/ Sending

Spec == Init /\ [][Next]_vars

\* Both threads go on, run() gets a lock that is free again and again, and no
\* write blocks for ever.  No other program holds the port for ever, the
\* 0.5 s and 1 s of the loop pass, an answer that has arrived is read, and 2 s
\* of silence are 2 s of silence.
Fairness ==
  /\ WF_vars(Run)
  /\ WF_vars(Sending)
  /\ SF_vars(GetInfo \/ Selftest \/ Ping)
  /\ SF_vars(Open)
  /\ SF_vars(PingDue)
  /\ SF_vars(McuBadge)
  /\ SF_vars(OnFrames(rx))
  /\ WF_vars(Age)

FairSpec == Spec /\ Fairness

-----------------------------------------------------------------------------
(* What the code promises.                                                 *)

Badges == {"unknown", "absent", "busy", "error", "open", "disconnected"}

TypeOK ==
  /\ plugged \in BOOLEAN /\ alive \in BOOLEAN /\ pong \in BOOLEAN /\ locked \in BOOLEAN
  /\ fw \in Versions /\ fw_info \in Versions \cup {None}
  /\ rx \in SUBSET Answers
  /\ ser \in {"none", "open", "dead", "closed"}
  /\ seq \in 0 .. Modulus - 1
  /\ wire \in Seq(0 .. Modulus - 1)
  /\ pc \in {"top", "noport", "opened", "hello", "hello2", "ping", "beat", "mcu", "read",
             "broken", "broken2", "broken3", "broken4", "broken5"}
  /\ dice \in Badges /\ mcu \in {"unknown", "absent", "connected", "no_pong"}
  /\ selftest \in {"none", "result"}
  /\ api \in {"idle", "lock", "check", "write", "count", "crash"}

\* Heartbeats and commands of two threads share one numbering: the frames the
\* device gets are numbered one after the other, modulo 256.
FramesNumbered ==
  Len(wire) = 2 => wire[2] = (wire[1] + 1) % Modulus

\* While ser is None, from the end of a loss to the next opening and as long as
\* nothing can be opened, the panel shows no link, no self-test result and no
\* firmware that answers.  Not so the version: nothing resets fw_info.
NoLinkNoNews ==
  ser = "none" =>
    /\ dice # "open"
    /\ mcu \in {"unknown", "absent"}
    /\ selftest = "none"

\* A device that is there gets its link back after any number of losses, and
\* the MCU badge then tells what the firmware does.
LinkComesBack ==
  <>[]plugged => <>[](dice = "open" /\ ser = "open")

McuBadgeTells ==
  /\ <>[](plugged /\ alive) => <>[](mcu = "connected")
  /\ <>[](plugged /\ ~alive) => <>[](mcu = "no_pong")

\* Every command is answered, also while the link breaks down.
CommandsAnswered == []<>(api = "idle")

\* dice_link.py: send returns a bool, False if there is no link, and app.py
\* records every command that got as far as send in the timeline.
SendReturns == api # "crash"

\* README.md: after the update and the reboot the firmware badge shows the new
\* version; here of a firmware that answers whenever its port is there, since
\* GET_INFO is sent once per opening.
NewVersionShown ==
  []alive => \A v \in Versions : <>[](plugged /\ fw = v) => <>[](fw_info = v)
=============================================================================
