----------------------------- MODULE FrameParser -----------------------------
(***************************************************************************)
(* server/dice_protocol.py: the frames of the DICE link, and FrameParser,  *)
(* which finds them in the bytes that ser.read returns, however these are  *)
(* cut into chunks and whatever lies between (run of server/dice_link.py). *)
(*                                                                         *)
(* A frame is SOF, type, seq, length (two bytes, low byte first), payload  *)
(* and two bytes of CRC over all but the SOF.  One iteration of the loop   *)
(* in feed is one step.                                                    *)
(***************************************************************************)
EXTENDS Integers, Sequences

CONSTANTS
  Base,    \* 256: how many values a byte has
  SOF,     \* D1 CE
  MaxLen,  \* 512: longest payload
  Crc(_),  \* crc16_ccitt
  Streams, \* byte strings that the device may send
  Reads    \* how many bytes ser.read may return: 0 .. 4096

Byte == 0 .. Base - 1

ASSUME FrameAssumption ==
  /\ Base \in Nat \ {0} /\ MaxLen \in Nat /\ Reads \subseteq Nat
  /\ SOF \in Byte \X Byte /\ SOF[1] # SOF[2]
  /\ Streams \subseteq Seq(Byte)

VARIABLES
  stream, \* what the device sends
  upto,   \* how many bytes of it have gone by
  from,   \* how many of them before this parser was made
  rx,     \* self.rx
  out,    \* history: the frames that feed has returned, and where they began
  pc      \* run() is about to read, or in the loop of feed

vars == <<stream, upto, from, rx, out, pc>>

Init ==
  /\ stream \in Streams
  /\ upto = 0 /\ from = 0
  /\ rx = <<>>
  /\ out = <<>>
  /\ pc = "run"

-----------------------------------------------------------------------------
(* Frames.                                                                 *)

\* encode_cmd, for any type.
Encode(type, seq, payload) ==
  LET n    == Len(payload)
      body == <<type, seq, n % Base, n \div Base>> \o payload
  IN  SOF \o body \o Crc(body)

Overhead == 8

\* A start of frame at place i of s; its length field; the bytes from there on.
SofAt(s, i) == i + 1 \in DOMAIN s /\ s[i] = SOF[1] /\ s[i + 1] = SOF[2]
LenAt(s, i) == s[i + 4] + Base * s[i + 5]
TotalAt(s, i) == Overhead + LenAt(s, i)
Left(s, i) == Len(s) - i + 1

TooLong(s, i) == Left(s, i) >= Overhead /\ LenAt(s, i) > MaxLen

Whole(s, i) ==
  /\ Left(s, i) >= Overhead
  /\ LenAt(s, i) <= MaxLen
  /\ Left(s, i) >= TotalAt(s, i)

CrcOk(s, i) ==
  Crc(SubSeq(s, i + 2, i + 5 + LenAt(s, i)))
    = SubSeq(s, i + 6 + LenAt(s, i), i + 7 + LenAt(s, i))

Frame(s, i, place) ==
  [type |-> s[i + 2], seq |-> s[i + 3],
   payload |-> SubSeq(s, i + 6, i + 5 + LenAt(s, i)), at |-> place]

-----------------------------------------------------------------------------
(* run().                                                                  *)

\* ser.read returns what has come within 50 ms, perhaps nothing, and feed
\* appends it.
Feed ==
  /\ pc = "run"
  /\ \E n \in Reads :
       /\ upto + n <= Len(stream)
       /\ rx' = rx \o SubSeq(stream, upto + 1, upto + n)
       /\ upto' = upto + n
  /\ pc' = "feed"
  /\ UNCHANGED <<stream, from, out>>

\* Faulty variant: the parser outlives the opening.
ReopenKeeps ==
  /\ pc = "run"
  /\ upto' \in upto .. Len(stream)
  /\ from' = upto'
  /\ out' = <<>>
  /\ UNCHANGED <<stream, rx, pc>>

\* The link is lost and opened again: a new parser; what the device sent
\* meanwhile is lost.
Reopen ==
  /\ pc = "run"
  /\ upto' \in upto .. Len(stream)
  /\ from' = upto'
  /\ rx' = <<>>
  /\ out' = <<>>
  /\ UNCHANGED <<stream, pc>>

-----------------------------------------------------------------------------
(* The loop of feed.                                                       *)

\* self.rx.find(SOF) = i; del self.rx[:n].
Find(i) == SofAt(rx, i) /\ \A j \in 1 .. i - 1 : ~SofAt(rx, j)
Drop(n) == SubSeq(rx, n + 1, Len(rx))

\* Faulty variant: keeps nothing.
NoSofClears ==
  /\ pc = "feed"
  /\ \A i \in DOMAIN rx : ~SofAt(rx, i)
  /\ rx' = <<>>
  /\ pc' = "run"
  /\ UNCHANGED <<stream, upto, from, out>>

\* The last byte may be the first of a SOF.
NoSof ==
  /\ pc = "feed"
  /\ \A i \in DOMAIN rx : ~SofAt(rx, i)
  /\ rx' = IF Len(rx) > 1 THEN Drop(Len(rx) - 1) ELSE rx
  /\ pc' = "run"
  /\ UNCHANGED <<stream, upto, from, out>>

\* Faulty variant: the length is not limited.
WaitAnyLength ==
  /\ pc = "feed"
  /\ \E i \in DOMAIN rx :
       /\ Find(i) /\ ~Whole(rx, i)
       /\ rx' = Drop(i - 1)
  /\ pc' = "run"
  /\ UNCHANGED <<stream, upto, from, out>>

Wait ==
  /\ pc = "feed"
  /\ \E i \in DOMAIN rx :
       /\ Find(i) /\ ~TooLong(rx, i) /\ ~Whole(rx, i)
       /\ rx' = Drop(i - 1)
  /\ pc' = "run"
  /\ UNCHANGED <<stream, upto, from, out>>

\* Faulty variant: a damaged frame is dropped as a whole.
SkipFrame ==
  /\ pc = "feed"
  /\ \E i \in DOMAIN rx :
       /\ Find(i)
       /\ \/ TooLong(rx, i) /\ rx' = Drop(i)
          \/ Whole(rx, i) /\ ~CrcOk(rx, i) /\ rx' = Drop(i - 1 + TotalAt(rx, i))
  /\ UNCHANGED <<stream, upto, from, out, pc>>

\* No frame begins here: only one byte is dropped.
Skip ==
  /\ pc = "feed"
  /\ \E i \in DOMAIN rx :
       /\ Find(i)
       /\ TooLong(rx, i) \/ (Whole(rx, i) /\ ~CrcOk(rx, i))
       /\ rx' = Drop(i)
  /\ UNCHANGED <<stream, upto, from, out, pc>>

Accept ==
  /\ pc = "feed"
  /\ \E i \in DOMAIN rx :
       /\ Find(i) /\ Whole(rx, i) /\ CrcOk(rx, i)
       /\ out' = Append(out, Frame(rx, i, upto - Len(rx) + i))
       /\ rx' = Drop(i - 1 + TotalAt(rx, i))
  /\ UNCHANGED <<stream, upto, from, pc>>

Loop == NoSof \/ Wait \/ Skip \/ Accept

Next == Feed \/ Reopen \/ Loop

Spec == Init /\ [][Next]_vars

-----------------------------------------------------------------------------
(* What the code promises.                                                 *)

\* With a bound on what the parser keeps between two reads: less than the
\* longest frame.
TypeOK ==
  /\ stream \in Streams
  /\ upto \in 0 .. Len(stream) /\ from \in 0 .. upto
  /\ rx \in Seq(Byte)
  /\ pc = "run" => Len(rx) < Overhead + MaxLen
  /\ out \in Seq([type : Byte, seq : Byte, payload : Seq(Byte), at : Nat])
  /\ pc \in {"run", "feed"}

\* The reference: what is found in s, and from each place of s on, if all of it
\* comes at once.  A start that is not whole yet hides what follows.
Found(s, place) ==
  LET found[i \in 1 .. Len(s) + 1] ==
        IF i > Len(s) THEN <<>>
        ELSE IF ~SofAt(s, i) \/ TooLong(s, i) THEN found[i + 1]
        ELSE IF ~Whole(s, i) THEN <<>>
        ELSE IF ~CrcOk(s, i) THEN found[i + 1]
        ELSE <<Frame(s, i, place + i)>> \o found[i + TotalAt(s, i)]
  IN  found

Decode(s, place) == Found(s, place)[1]

\* The frames found since the link was opened are those of the bytes read
\* since then, however these were cut into chunks.
ChunksDoNotMatter == pc = "run" => out = Decode(SubSeq(stream, from + 1, upto), from)

\* Noise that looks like the start of a frame delays an intact frame behind it
\* but does not lose it: once the longest frame that begins there would
\* have ended it has been returned, unless bytes of it were part of another
\* frame with a good CRC.
IntactFramesFound ==
  pc = "run" =>
    \A k \in from + 1 .. upto - Overhead - MaxLen + 1 :
      SofAt(stream, k) /\ Whole(stream, k) /\ CrcOk(stream, k) =>
        \E j \in DOMAIN out :
          k \in out[j].at .. out[j].at + Overhead + Len(out[j].payload) - 1
=============================================================================
