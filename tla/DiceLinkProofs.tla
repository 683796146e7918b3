-------------------------- MODULE DiceLinkProofs --------------------------
(***************************************************************************)
(* Proofs about DiceLink, for any frame-number modulus and any firmware    *)
(* versions, with the port configured or searched for.                     *)
(***************************************************************************)
EXTENDS DiceLink, TLAPS

Numbers == 0 .. Modulus - 1

\* The lock is held exactly where api_cmd is inside send's `with` block.
Holds == locked <=> api \in {"check", "write", "count"}

\* self.seq is the number after that of the last frame written, but between
\* the write and the count of the event loop's send.
Numbering ==
  /\ Len(wire) <= 2
  /\ api = "count" => Len(wire) > 0 /\ wire[Len(wire)] = seq
  /\ api # "count" /\ Len(wire) > 0 => seq = (wire[Len(wire)] + 1) % Modulus

\* What the panel shows of the device, along run(): nothing before an opening,
\* and taken back statement by statement after a loss.
Showing ==
  /\ ser = "none" => pc \in {"top", "noport"}
  /\ pc \in {"top", "noport", "opened"} => dice # "open"
  /\ pc \in {"top", "noport", "opened"} => selftest = "none" /\ mcu \in {"unknown", "absent"}
  /\ pc \in {"hello", "hello2", "ping", "beat", "mcu", "read", "broken"} => dice = "open"
  /\ pc \in {"broken2", "broken3", "broken4", "broken5"} => dice = "disconnected"
  /\ pc \in {"broken3", "broken4", "broken5"} => mcu = "absent"
  /\ pc \in {"broken4", "broken5"} => selftest = "none"

NumberInv == TypeOK /\ Holds /\ Numbering /\ FramesNumbered

ShowInv == Showing /\ NoLinkNoNews

LinkInv == NumberInv /\ ShowInv

-----------------------------------------------------------------------------
(* The history of two frame numbers.                                       *)

\* The number after a number is a number.
LEMMA NextNumber ==
  ASSUME NEW n \in Numbers PROVE (n + 1) % Modulus \in Numbers
BY LinkAssumption DEF Numbers

\* A frame is appended, and the older of two is dropped.
LEMMA PutFacts ==
  ASSUME wire \in Seq(Numbers), NEW n \in Numbers, Put(n)
  PROVE  /\ wire' \in Seq(Numbers)
         /\ Len(wire') \in {1, 2}
         /\ wire'[Len(wire')] = n
         /\ Len(wire') = 2 => Len(wire) > 0 /\ wire'[1] = wire[Len(wire)] /\ wire'[2] = n
<1>1. CASE wire = <<>>
  <2>1. wire' = <<n>>
    BY <1>1 DEF Put
  <2> QED
    BY <2>1
<1>2. CASE wire # <<>>
  <2>1. Len(wire) \in 1 .. Len(wire) /\ wire[Len(wire)] \in Numbers
    BY <1>2
  <2>2. wire' = <<wire[Len(wire)], n>>
    BY <1>2 DEF Put
  <2> QED
    BY <2>1, <2>2
<1> QED
  BY <1>1, <1>2

\* A frame numbered seq follows the last one, unless that has not been counted.
LEMMA PutNumbered ==
  ASSUME NumberInv, api # "count", Put(seq)
  PROVE  /\ wire' \in Seq(Numbers) /\ Len(wire') \in {1, 2}
         /\ wire'[Len(wire')] = seq
         /\ Len(wire') = 2 => wire'[2] = (wire'[1] + 1) % Modulus
<1>1. wire \in Seq(Numbers) /\ seq \in Numbers
  BY DEF NumberInv, TypeOK, Numbers
<1> QED
  BY <1>1, PutFacts DEF NumberInv, Numbering

-----------------------------------------------------------------------------
(* The numbering is inductive.                                             *)

LEMMA NumberInit == Init => NumberInv
<1> SUFFICES ASSUME Init PROVE NumberInv
  OBVIOUS
<1>1. wire = <<>> /\ Len(wire) = 0 /\ wire \in Seq(0 .. Modulus - 1)
  BY DEF Init
<1>2. 0 \in 0 .. Modulus - 1
  BY LinkAssumption
<1>3. TypeOK
  BY <1>1, <1>2 DEF Init, TypeOK, Badges
<1>4. Holds
  BY DEF Init, Holds
<1>5. Numbering /\ FramesNumbered
  BY <1>1 DEF Init, Numbering, FramesNumbered
<1> QED
  BY <1>3, <1>4, <1>5 DEF NumberInv

\* What one send of run() does to the link.
LEMMA SendFacts ==
  ASSUME NumberInv, NEW k \in {"pong", "info", "selftest"}, Send(k),
         UNCHANGED <<handler, fw>>
  PROVE  /\ rx' \in SUBSET Answers /\ seq' \in Numbers /\ wire' \in Seq(Numbers)
         /\ Numbering' /\ FramesNumbered'
<1>0. api # "count" /\ api' = api
  BY DEF NumberInv, Holds, Send, handler
<1>1. CASE ser = "open"
  <2>1. Heard(k) /\ Put(seq) /\ seq' = (seq + 1) % Modulus
    BY <1>1 DEF Send
  <2>2. /\ wire' \in Seq(Numbers) /\ Len(wire') \in {1, 2} /\ wire'[Len(wire')] = seq
        /\ Len(wire') = 2 => wire'[2] = (wire'[1] + 1) % Modulus
    BY <1>0, <2>1, PutNumbered
  <2>3. rx' \in SUBSET Answers
    BY <2>1 DEF Heard, Answers, NumberInv, TypeOK
  <2>4. seq \in Numbers /\ seq' \in Numbers
    BY <2>1, NextNumber DEF NumberInv, TypeOK, Numbers
  <2> QED
    BY <1>0, <2>1, <2>2, <2>3, <2>4 DEF Numbering, FramesNumbered
<1>2. CASE ser # "open"
  <2>1. UNCHANGED <<rx, wire, seq>>
    BY <1>2 DEF Send
  <2> QED
    BY <1>0, <2>1 DEF NumberInv, TypeOK, Numbers, Numbering, FramesNumbered
<1> QED
  BY <1>1, <1>2

\* The device and the statements of run() that do not send.
LEMMA QuietStep ==
  ASSUME NumberInv,
         \/ Device \/ NoPort \/ NoPortMcu \/ Open \/ OpenFails \/ Opened \/ PingDue
         \/ NoPingYet \/ McuBadge \/ NoBadgeYet \/ ReadFails \/ Broken \/ BrokenMcu
         \/ ForgetSelftest \/ CloseSer \/ DropSer \/ UNCHANGED vars
  PROVE  NumberInv'
<1>1. UNCHANGED <<seq, wire, handler>>
  BY DEF Device, Replug, Flash, Respond, Age, NoPort, NoPortMcu, Open, OpenFails, Opened,
         PingDue, NoPingYet, McuBadge, NoBadgeYet, ReadFails, Broken, BrokenMcu,
         ForgetSelftest, CloseSer, DropSer, vars, handler
<1>2. Holds' /\ Numbering' /\ FramesNumbered'
  BY <1>1 DEF NumberInv, Holds, Numbering, FramesNumbered, handler
<1>3. TypeOK'
  <2> USE DEF NumberInv, TypeOK, device, panel, handler, Go
  <2>1. CASE Device
    <3>1. CASE Replug
      BY <3>1 DEF Replug
    <3>2. CASE Flash
      BY <3>2 DEF Flash
    <3>3. CASE Respond
      BY <3>3 DEF Respond
    <3>4. CASE Age
      <4>1. /\ pong' = FALSE
            /\ UNCHANGED <<device, rx, ser, seq, wire, pc, panel, handler>>
        BY <3>4 DEF Age
      <4>2. pong' \in BOOLEAN
        BY <4>1
      <4>3. UNCHANGED <<plugged, alive, fw, rx, ser, seq, wire, pc, dice, mcu, selftest,
                        fw_info, api, locked>>
        BY <4>1
      <4> QED
        BY <4>2, <4>3
    <3> QED
      BY <2>1, <3>1, <3>2, <3>3, <3>4 DEF Device
  <2>2. CASE NoPort \/ NoPortMcu \/ Open \/ OpenFails \/ Opened
    BY <2>2 DEF NoPort, NoPortMcu, Open, OpenFails, Opened, Badges
  <2>3. CASE PingDue \/ NoPingYet \/ McuBadge \/ NoBadgeYet \/ ReadFails
    BY <2>3 DEF PingDue, NoPingYet, McuBadge, NoBadgeYet, ReadFails
  <2>4. CASE Broken \/ BrokenMcu \/ ForgetSelftest \/ CloseSer \/ DropSer
    BY <2>4 DEF Broken, BrokenMcu, ForgetSelftest, CloseSer, DropSer, Badges
  <2>5. CASE UNCHANGED vars
    BY <2>5 DEF vars
  <2> QED
    BY <2>1, <2>2, <2>3, <2>4, <2>5
<1> QED
  BY <1>2, <1>3 DEF NumberInv

\* GET_INFO, SELFTEST and the heartbeat.
LEMMA SendStep ==
  ASSUME NumberInv, GetInfo \/ Selftest \/ Ping PROVE NumberInv'
<1>1. PICK k \in {"pong", "info", "selftest"} :
        /\ Send(k)
        /\ pc' \in {"hello2", "ping", "mcu", "broken"}
        /\ pong' = FALSE \/ UNCHANGED pong
        /\ UNCHANGED <<device, ser, panel, handler>>
  BY DEF GetInfo, Selftest, Ping, Go
<1>2. /\ rx' \in SUBSET Answers /\ seq' \in Numbers /\ wire' \in Seq(Numbers)
      /\ Numbering' /\ FramesNumbered'
  BY <1>1, SendFacts DEF device
<1>3. TypeOK'
  <2>1. pong' \in BOOLEAN
    BY <1>1 DEF NumberInv, TypeOK
  <2> QED
    BY <1>1, <1>2, <2>1 DEF NumberInv, TypeOK, Numbers, device, panel, handler
<1>4. Holds'
  BY <1>1 DEF NumberInv, Holds, handler
<1> QED
  BY <1>2, <1>3, <1>4 DEF NumberInv

\* Answers only change what run() shows.
LEMMA ReadStep ==
  ASSUME NumberInv, Read PROVE NumberInv'
<1>1. PICK got \in SUBSET rx : OnFrames(got)
  BY DEF Read
<1>2. fw_info' \in Versions \cup {None}
  <2>1. CASE \E r \in got : r.kind = "info" /\ fw_info' = r.fw
    BY <2>1 DEF NumberInv, TypeOK, Answers
  <2>2. CASE UNCHANGED fw_info
    BY <2>2 DEF NumberInv, TypeOK
  <2> QED
    BY <1>1, <2>1, <2>2 DEF OnFrames
<1>3. pong' \in BOOLEAN
  BY <1>1 DEF OnFrames, NumberInv, TypeOK
<1>4. selftest' \in {"none", "result"}
  BY <1>1 DEF OnFrames, NumberInv, TypeOK
<1>5. /\ rx' = rx \ got /\ pc' = "ping"
      /\ UNCHANGED <<device, ser, seq, wire, dice, mcu, handler>>
  BY <1>1 DEF OnFrames, Go
<1>6. TypeOK'
  BY <1>2, <1>3, <1>4, <1>5 DEF NumberInv, TypeOK, device, handler
<1> QED
  BY <1>5, <1>6 DEF NumberInv, Holds, Numbering, FramesNumbered, handler

\* /api/cmd and the send it makes.
LEMMA CommandStep ==
  ASSUME NumberInv, Command \/ Sending PROVE NumberInv'
<1>1. CASE Command \/ Lock \/ Check \/ WriteFails \/ WriteNone \/ Crashed
  <2>1. /\ UNCHANGED <<device, rx, ser, seq, wire, pong, pc, panel>>
        /\ api' \in {"idle", "lock", "check", "write", "crash"}
        /\ api \in {"idle", "lock", "check", "write", "crash"}
        /\ \/ UNCHANGED locked /\ (api \in {"check", "write"} <=> api' \in {"check", "write"})
           \/ locked' = TRUE /\ api' = "check"
           \/ locked' = FALSE /\ api' \in {"idle", "crash"}
    BY <1>1 DEF Command, Lock, Check, WriteFails, WriteNone, Crashed, Leave
  <2>2. Holds' /\ locked' \in BOOLEAN
    <3>1. CASE UNCHANGED locked /\ (api \in {"check", "write"} <=> api' \in {"check", "write"})
      BY <2>1, <3>1 DEF NumberInv, TypeOK, Holds
    <3>2. CASE locked' = TRUE /\ api' = "check"
      BY <3>2 DEF Holds
    <3>3. CASE locked' = FALSE /\ api' \in {"idle", "crash"}
      BY <3>3 DEF Holds
    <3> QED
      BY <2>1, <3>1, <3>2, <3>3
  <2> QED
    BY <2>1, <2>2 DEF NumberInv, TypeOK, Numbering, FramesNumbered, device, panel
<1>2. CASE Write
  <2>1. /\ Put(seq) /\ api = "write" /\ api' = "count"
        /\ UNCHANGED <<device, rx, ser, seq, pong, pc, panel, locked>>
    BY <1>2 DEF Write
  <2>2. /\ wire' \in Seq(Numbers) /\ Len(wire') \in {1, 2} /\ wire'[Len(wire')] = seq
        /\ Len(wire') = 2 => wire'[2] = (wire'[1] + 1) % Modulus
    BY <2>1, PutNumbered
  <2>3. TypeOK'
    BY <2>1, <2>2 DEF NumberInv, TypeOK, Numbers, device, panel
  <2>4. Holds'
    <3>1. locked
      BY <2>1 DEF NumberInv, Holds
    <3>2. locked' /\ api' = "count"
      BY <2>1, <3>1
    <3> QED
      BY <3>2 DEF Holds
  <2>5. Numbering'
    <3>1. api' = "count" /\ seq' = seq
      BY <2>1
    <3>2. \A n \in {1, 2} : n <= 2 /\ n > 0
      OBVIOUS
    <3>3. Len(wire') <= 2 /\ Len(wire') > 0
      BY <2>2, <3>2
    <3>4. wire'[Len(wire')] = seq'
      BY <2>2, <3>1
    <3> QED
      BY <3>1, <3>3, <3>4 DEF Numbering
  <2>6. FramesNumbered'
    BY <2>2 DEF FramesNumbered
  <2> QED
    BY <2>3, <2>4, <2>5, <2>6 DEF NumberInv
<1>3. CASE Count
  <2>1. /\ api = "count" /\ api' = "idle" /\ locked' = FALSE /\ seq' = (seq + 1) % Modulus
        /\ UNCHANGED <<device, rx, ser, wire, pong, pc, panel>>
    BY <1>3 DEF Count, Leave
  <2>2. seq' \in 0 .. Modulus - 1
    BY <2>1, NextNumber DEF NumberInv, TypeOK, Numbers
  <2>3. UNCHANGED <<plugged, alive, fw, rx, ser, wire, pong, pc, dice, mcu, selftest, fw_info>>
    BY <2>1 DEF device, panel
  <2>4. locked' \in BOOLEAN
    BY <2>1
  <2>5. TypeOK'
    BY <2>1, <2>2, <2>3, <2>4 DEF NumberInv, TypeOK
  <2> QED
    BY <2>1, <2>5 DEF NumberInv, Holds, Numbering, FramesNumbered
<1> QED
  BY <1>1, <1>2, <1>3 DEF Sending

LEMMA NumberStep == NumberInv /\ [Next]_vars => NumberInv'
BY QuietStep, SendStep, ReadStep, CommandStep DEF Next, Run

-----------------------------------------------------------------------------
(* What the panel shows is inductive.                                      *)

LEMMA ShowInit == Init => ShowInv
BY DEF Init, ShowInv, Showing, NoLinkNoNews

LEMMA ShowStep == ShowInv /\ [Next]_vars => ShowInv'
<1> SUFFICES ASSUME ShowInv, [Next]_vars PROVE ShowInv'
  OBVIOUS
<1> USE DEF ShowInv, Showing, NoLinkNoNews
<1>1. CASE Device \/ Command \/ Sending \/ UNCHANGED vars
  <2>1. UNCHANGED <<pc, dice, mcu, selftest>> /\ (ser' = "none" => ser = "none")
    BY <1>1 DEF Device, Replug, Flash, Respond, Age, Command, Sending, Lock, Check,
                WriteFails, WriteNone, Crashed, Write, Count, panel, vars
  <2> QED
    BY <2>1
<1>2. CASE NoPort \/ NoPortMcu \/ Open \/ OpenFails \/ Opened
  BY <1>2 DEF NoPort, NoPortMcu, Open, OpenFails, Opened, Go, panel
<1>3. CASE GetInfo \/ Selftest \/ PingDue \/ Ping \/ NoPingYet \/ ReadFails \/ NoBadgeYet
  <2>1. /\ pc \in {"hello", "hello2", "ping", "beat", "mcu", "read"}
        /\ pc' \in {"hello2", "ping", "beat", "mcu", "read", "broken"}
        /\ UNCHANGED <<ser, dice, mcu, selftest>>
    BY <1>3 DEF GetInfo, Selftest, PingDue, Ping, NoPingYet, ReadFails, NoBadgeYet, Go, panel
  <2> QED
    BY <2>1
<1>4. CASE McuBadge
  BY <1>4 DEF McuBadge, Go
<1>5. CASE Read
  <2>1. pc = "read" /\ pc' = "ping" /\ UNCHANGED <<ser, dice>>
    BY <1>5 DEF Read, OnFrames, Go
  <2> QED
    BY <2>1
<1>6. CASE Broken \/ BrokenMcu \/ ForgetSelftest \/ CloseSer \/ DropSer
  BY <1>6 DEF Broken, BrokenMcu, ForgetSelftest, CloseSer, DropSer, Go, panel
<1> QED
  BY <1>1, <1>2, <1>3, <1>4, <1>5, <1>6 DEF Next, Run

-----------------------------------------------------------------------------
(* The theorems.                                                           *)

LEMMA LinkInvariant == Spec => []LinkInv
<1>1. Init => LinkInv
  BY NumberInit, ShowInit DEF LinkInv
<1>2. LinkInv /\ [Next]_vars => LinkInv'
  BY NumberStep, ShowStep DEF LinkInv
<1> QED
  BY <1>1, <1>2, PTL DEF Spec

\* The link, its badges and the command under way are well typed; the frame
\* number stays below its modulus.
THEOREM LinkTypes == Spec => []TypeOK
<1>1. LinkInv => TypeOK
  BY DEF LinkInv, NumberInv
<1> QED
  BY <1>1, LinkInvariant, PTL

\* The frames of the two threads that send are numbered one after the other.
THEOREM NumberedTheorem == Spec => []FramesNumbered
<1>1. LinkInv => FramesNumbered
  BY DEF LinkInv, NumberInv
<1> QED
  BY <1>1, LinkInvariant, PTL

\* While ser is None the panel shows no open link, no self-test result and no MCU
\* that answers, after any losses (run(), the exception branch).
THEOREM NoNewsTheorem == Spec => []NoLinkNoNews
<1>1. LinkInv => NoLinkNoNews
  BY DEF LinkInv, ShowInv
<1> QED
  BY <1>1, LinkInvariant, PTL
=============================================================================
