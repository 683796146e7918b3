------------------------- MODULE FrameParserProofs -------------------------
(***************************************************************************)
(* Proofs about FrameParser, for any checksum, any longest payload and any *)
(* stream of bytes.                                                        *)
(***************************************************************************)
EXTENDS FrameParser, SequenceTheorems, WellFoundedInduction, TLAPS

\* The bytes from place a to place b of a stream.
LEMMA SliceFacts ==
  ASSUME NEW s \in Seq(Byte), NEW a \in Nat \ {0}, NEW b \in Nat, b <= Len(s)
  PROVE  /\ SubSeq(s, a, b) \in Seq(Byte)
         /\ Len(SubSeq(s, a, b)) = IF a <= b THEN b - a + 1 ELSE 0
         /\ \A i \in 1 .. b - a + 1 : SubSeq(s, a, b)[i] = s[a + i - 1]
<1>1. \A i \in a .. b : s[i] \in Byte
  BY ElementOfSeq, LenProperties
<1> QED
  BY <1>1, SubSeqProperties

LEMMA DropFacts ==
  ASSUME rx \in Seq(Byte), NEW n \in 0 .. Len(rx)
  PROVE  /\ Drop(n) \in Seq(Byte)
         /\ Len(Drop(n)) = Len(rx) - n
         /\ \A i \in 1 .. Len(rx) - n : Drop(n)[i] = rx[n + i]
<1>1. Len(rx) \in Nat /\ n + 1 \in Nat \ {0}
  BY LenProperties
<1>2. /\ SubSeq(rx, n + 1, Len(rx)) \in Seq(Byte)
      /\ Len(SubSeq(rx, n + 1, Len(rx))) = IF n + 1 <= Len(rx) THEN Len(rx) - (n + 1) + 1 ELSE 0
      /\ \A i \in 1 .. Len(rx) - (n + 1) + 1 :
           SubSeq(rx, n + 1, Len(rx))[i] = rx[n + 1 + i - 1]
  BY <1>1, SliceFacts
<1> QED
  BY <1>1, <1>2 DEF Drop

\* The length field of a frame that is there as far as that field.
LEMMA LenNat ==
  ASSUME NEW s \in Seq(Byte), NEW i \in Nat \ {0}, Left(s, i) >= Overhead
  PROVE  LenAt(s, i) \in Nat
<1>1. Base \in Nat /\ Len(s) \in Nat
  BY FrameAssumption, LenProperties
<1>2. i + 4 \in 1 .. Len(s) /\ i + 5 \in 1 .. Len(s)
  BY <1>1 DEF Left, Overhead
<1>3. s[i + 4] \in Byte /\ s[i + 5] \in Byte
  BY <1>2, ElementOfSeq
<1>4. s[i + 4] \in Nat /\ s[i + 5] \in Nat
  BY <1>1, <1>3 DEF Byte
<1>5. \A b, x \in Nat : b * x \in Nat
  OBVIOUS
<1> QED
  BY <1>1, <1>4, <1>5 DEF LenAt

LEMMA FrameType ==
  ASSUME NEW s \in Seq(Byte), NEW i \in Nat \ {0}, Whole(s, i), NEW place \in Nat
  PROVE  /\ Frame(s, i, place) \in [type : Byte, seq : Byte, payload : Seq(Byte), at : Nat]
         /\ Frame(s, i, place).at = place
<1>1. Len(s) \in Nat /\ LenAt(s, i) \in Nat
  BY LenProperties, LenNat DEF Whole
<1>2. i + 2 \in 1 .. Len(s) /\ i + 3 \in 1 .. Len(s) /\ i + 5 + LenAt(s, i) <= Len(s)
  BY <1>1 DEF Whole, TotalAt, Left, Overhead
<1>3. s[i + 2] \in Byte /\ s[i + 3] \in Byte
  BY <1>2, ElementOfSeq
<1>4. SubSeq(s, i + 6, i + 5 + LenAt(s, i)) \in Seq(Byte)
  BY <1>1, <1>2, SliceFacts
<1> QED
  BY <1>3, <1>4 DEF Frame

\* Slices of r, which are the bytes of s from off + 1 on.
LEMMA SliceShift ==
  ASSUME NEW r \in Seq(Byte), NEW s \in Seq(Byte), NEW off \in Nat,
         off + Len(r) <= Len(s),
         \A i \in 1 .. Len(r) : r[i] = s[off + i],
         NEW a \in Nat \ {0}, NEW b \in Nat, b <= Len(r)
  PROVE  SubSeq(r, a, b) = SubSeq(s, off + a, off + b)
<1>1. Len(r) \in Nat /\ Len(s) \in Nat
  BY LenProperties
<1>2. /\ SubSeq(r, a, b) \in Seq(Byte)
      /\ Len(SubSeq(r, a, b)) = IF a <= b THEN b - a + 1 ELSE 0
      /\ \A i \in 1 .. b - a + 1 : SubSeq(r, a, b)[i] = r[a + i - 1]
  BY SliceFacts
<1>3. off + a \in Nat \ {0} /\ off + b \in Nat /\ off + b <= Len(s)
  BY <1>1
<1>4. /\ SubSeq(s, off + a, off + b) \in Seq(Byte)
      /\ Len(SubSeq(s, off + a, off + b)) =
           IF off + a <= off + b THEN (off + b) - (off + a) + 1 ELSE 0
      /\ \A i \in 1 .. (off + b) - (off + a) + 1 :
           SubSeq(s, off + a, off + b)[i] = s[(off + a) + i - 1]
  BY <1>3, SliceFacts
<1>5. Len(SubSeq(r, a, b)) = Len(SubSeq(s, off + a, off + b))
  BY <1>2, <1>4
<1>6. ASSUME NEW i \in 1 .. Len(SubSeq(r, a, b))
      PROVE  SubSeq(r, a, b)[i] = SubSeq(s, off + a, off + b)[i]
  <2>1. i \in 1 .. b - a + 1 /\ a + i - 1 \in 1 .. Len(r)
    BY <1>1, <1>2
  <2>2. SubSeq(r, a, b)[i] = s[off + (a + i - 1)]
    BY <1>2, <2>1
  <2>3. i \in 1 .. (off + b) - (off + a) + 1 /\ off + (a + i - 1) = (off + a) + i - 1
    BY <2>1
  <2>4. SubSeq(s, off + a, off + b)[i] = s[(off + a) + i - 1]
    BY <1>4, <2>3
  <2> QED
    BY <2>2, <2>3, <2>4
<1> QED
  BY <1>2, <1>4, <1>5, <1>6, SeqEqual

\* A start of frame in r is one in s.
LEMMA SofShift ==
  ASSUME NEW r \in Seq(Byte), NEW s \in Seq(Byte), NEW off \in Nat,
         off + Len(r) <= Len(s),
         \A i \in 1 .. Len(r) : r[i] = s[off + i],
         NEW i \in 1 .. Len(r), i + 1 <= Len(r)
  PROVE  SofAt(r, i) <=> SofAt(s, off + i)
<1>1. /\ Len(r) \in Nat /\ Len(s) \in Nat
      /\ DOMAIN r = 1 .. Len(r) /\ DOMAIN s = 1 .. Len(s)
  BY LenProperties
<1>2. i + 1 \in 1 .. Len(r) /\ off + (i + 1) = (off + i) + 1 /\ (off + i) + 1 \in 1 .. Len(s)
  BY <1>1
<1>3. r[i] = s[off + i] /\ r[i + 1] = s[(off + i) + 1]
  BY <1>2
<1> QED
  BY <1>1, <1>2, <1>3 DEF SofAt

\* So is a length field.
LEMMA LenShift ==
  ASSUME NEW r \in Seq(Byte), NEW s \in Seq(Byte), NEW off \in Nat,
         off + Len(r) <= Len(s),
         \A i \in 1 .. Len(r) : r[i] = s[off + i],
         NEW i \in 1 .. Len(r), Left(r, i) >= Overhead
  PROVE  LenAt(s, off + i) = LenAt(r, i)
<1>1. Len(r) \in Nat
  BY LenProperties
<1>2. /\ i + 4 \in 1 .. Len(r) /\ off + (i + 4) = (off + i) + 4
      /\ i + 5 \in 1 .. Len(r) /\ off + (i + 5) = (off + i) + 5
  BY <1>1 DEF Left, Overhead
<1>3. r[i + 4] = s[(off + i) + 4] /\ r[i + 5] = s[(off + i) + 5]
  BY <1>2
<1> QED
  BY <1>3 DEF LenAt

\* What looks like a whole frame in r looks like one in s, and has the same CRC.
LEMMA FrameShift ==
  ASSUME NEW r \in Seq(Byte), NEW s \in Seq(Byte), NEW off \in Nat,
         off + Len(r) <= Len(s),
         \A i \in 1 .. Len(r) : r[i] = s[off + i],
         NEW i \in 1 .. Len(r), SofAt(r, i), Whole(r, i)
  PROVE  /\ SofAt(s, off + i) /\ Whole(s, off + i) /\ (CrcOk(s, off + i) <=> CrcOk(r, i))
         /\ LenAt(r, i) \in Nat /\ TotalAt(s, off + i) = TotalAt(r, i)
         /\ Frame(r, i, off + i) = Frame(s, off + i, off + i)
<1> DEFINE L == LenAt(r, i)
           k == off + i
<1>1. /\ Len(r) \in Nat /\ Len(s) \in Nat /\ L \in Nat
      /\ DOMAIN r = 1 .. Len(r) /\ DOMAIN s = 1 .. Len(s)
  BY LenProperties, LenNat DEF Whole
<1>2. i + 7 + L <= Len(r)
  BY <1>1 DEF Whole, TotalAt, Left, Overhead
<1>3. \A d \in 0 .. 7 + L : i + d \in 1 .. Len(r) /\ r[i + d] = s[k + d]
  <2> SUFFICES ASSUME NEW d \in 0 .. 7 + L
               PROVE  i + d \in 1 .. Len(r) /\ r[i + d] = s[k + d]
    OBVIOUS
  <2>1. i + d \in 1 .. Len(r)
    BY <1>1, <1>2
  <2>2. off + (i + d) = k + d
    BY <1>1
  <2> QED
    BY <2>1, <2>2
<1>4. /\ r[i] = s[k] /\ r[i + 1] = s[k + 1] /\ r[i + 2] = s[k + 2]
      /\ r[i + 3] = s[k + 3] /\ r[i + 4] = s[k + 4] /\ r[i + 5] = s[k + 5]
  <2>1. i + 0 = i /\ k + 0 = k /\ 0 .. 5 \subseteq 0 .. 7 + L
    BY <1>1
  <2>2. \A d \in 0 .. 5 : r[i + d] = s[k + d]
    BY <1>3, <2>1
  <2> HIDE DEF k
  <2> QED
    BY <2>1, <2>2
<1>5. LenAt(s, k) = L
  BY <1>4 DEF LenAt
<1>6. SofAt(s, k)
  BY <1>1, <1>2, <1>4 DEF SofAt
<1>7. Whole(s, k) /\ TotalAt(s, k) = TotalAt(r, i)
  BY <1>1, <1>2, <1>5 DEF Whole, TotalAt, Left, Overhead
<1>8. \A a \in Nat \ {0}, b \in Nat :
        b <= Len(r) => SubSeq(r, a, b) = SubSeq(s, off + a, off + b)
  BY SliceShift
<1>9. CrcOk(s, k) <=> CrcOk(r, i)
  <2>1. /\ i + 2 \in Nat \ {0} /\ i + 5 + L \in Nat /\ i + 5 + L <= Len(r)
        /\ i + 6 + L \in Nat \ {0} /\ i + 7 + L \in Nat
    BY <1>1, <1>2
  <2>2. SubSeq(r, i + 2, i + 5 + L) = SubSeq(s, off + (i + 2), off + (i + 5 + L))
    BY <1>8, <2>1
  <2>3. SubSeq(r, i + 6 + L, i + 7 + L) = SubSeq(s, off + (i + 6 + L), off + (i + 7 + L))
    BY <1>2, <1>8, <2>1
  <2>4. /\ off + (i + 2) = k + 2 /\ off + (i + 5 + L) = k + 5 + L
        /\ off + (i + 6 + L) = k + 6 + L /\ off + (i + 7 + L) = k + 7 + L
    BY <1>1
  <2>5. /\ SubSeq(r, i + 2, i + 5 + L) = SubSeq(s, k + 2, k + 5 + L)
        /\ SubSeq(r, i + 6 + L, i + 7 + L) = SubSeq(s, k + 6 + L, k + 7 + L)
    BY <2>2, <2>3, <2>4
  <2> QED
    BY <1>5, <2>5 DEF CrcOk
<1>10. Frame(r, i, k) = Frame(s, k, k)
  <2>1. i + 6 \in Nat \ {0} /\ i + 5 + L \in Nat /\ i + 5 + L <= Len(r)
    BY <1>1, <1>2
  <2>2. SubSeq(r, i + 6, i + 5 + L) = SubSeq(s, off + (i + 6), off + (i + 5 + L))
    BY <1>8, <2>1
  <2>3. off + (i + 6) = k + 6 /\ off + (i + 5 + L) = k + 5 + LenAt(s, k)
    BY <1>1, <1>5
  <2> QED
    BY <1>4, <2>2, <2>3 DEF Frame
<1> QED
  BY <1>1, <1>6, <1>7, <1>9, <1>10

-----------------------------------------------------------------------------
(* The inductive invariant.                                                *)

\* rx is the end of what was read since the link was opened.
Suffix ==
  /\ Len(rx) <= upto - from
  /\ \A i \in 1 .. Len(rx) : rx[i] = stream[upto - Len(rx) + i]

\* f is a frame with a good CRC among the bytes lo + 1 to hi of s.
FrameIn(f, s, lo, hi) ==
  /\ f.at \in lo + 1 .. hi
  /\ SofAt(s, f.at) /\ Whole(s, f.at) /\ CrcOk(s, f.at)
  /\ f = Frame(s, f.at, f.at)
  /\ f.at + TotalAt(s, f.at) - 1 <= hi

\* Every frame returned lies in the bytes that are read and gone from rx.
AllGenuine == \A j \in 1 .. Len(out) : FrameIn(out[j], stream, from, upto - Len(rx))

\* Each frame ends before the next one begins.
Apart ==
  \A j \in 1 .. Len(out) - 1 :
    out[j].at + TotalAt(stream, out[j].at) <= out[j + 1].at

ParserInv == TypeOK /\ Suffix /\ AllGenuine /\ Apart

LEMMA Counts ==
  ASSUME TypeOK
  PROVE  /\ stream \in Seq(Byte) /\ Len(stream) \in Nat
         /\ upto \in Nat /\ from \in Nat /\ from <= upto /\ upto <= Len(stream)
         /\ rx \in Seq(Byte) /\ Len(rx) \in Nat /\ DOMAIN rx = 1 .. Len(rx)
         /\ Len(out) \in Nat
         /\ MaxLen \in Nat
<1>1. stream \in Seq(Byte)
  BY FrameAssumption DEF TypeOK
<1>2. Len(stream) \in Nat
  BY <1>1, LenProperties
<1> QED
  BY <1>1, <1>2, FrameAssumption, LenProperties DEF TypeOK

\* A frame found once stays found.
LEMMA Wider ==
  ASSUME NEW s \in Seq(Byte), NEW lo \in Nat, NEW hi \in Int, NEW hi2 \in Int, hi <= hi2,
         NEW f, FrameIn(f, s, lo, hi)
  PROVE  FrameIn(f, s, lo, hi2)
<1>1. f.at \in Nat \ {0} /\ f.at \in lo + 1 .. hi2
  BY DEF FrameIn
<1>2. TotalAt(s, f.at) \in Nat
  BY <1>1, LenNat DEF FrameIn, Whole, TotalAt, Overhead
<1> QED
  BY <1>1, <1>2 DEF FrameIn

\* What dropping n bytes does to Suffix and to the frames found before.
LEMMA DropStep ==
  ASSUME ParserInv, NEW n \in 0 .. Len(rx), rx' = Drop(n), UNCHANGED <<stream, upto, from>>
  PROVE  /\ rx' \in Seq(Byte) /\ Len(rx') = Len(rx) - n /\ Suffix'
         /\ \A j \in 1 .. Len(out) : FrameIn(out[j], stream, from, upto - Len(rx'))
<1>1. /\ rx' \in Seq(Byte) /\ Len(rx') = Len(rx) - n
      /\ \A i \in 1 .. Len(rx) - n : rx'[i] = rx[n + i]
  BY DropFacts DEF ParserInv, TypeOK
<1>2. Suffix'
  <2>1. Len(rx') <= upto' - from'
    BY <1>1, Counts DEF ParserInv, Suffix
  <2>2. ASSUME NEW i \in 1 .. Len(rx') PROVE rx'[i] = stream'[upto' - Len(rx') + i]
    <3>1. n + i \in 1 .. Len(rx) /\ rx'[i] = rx[n + i]
      BY <1>1, Counts DEF ParserInv
    <3>2. rx[n + i] = stream[upto - Len(rx) + (n + i)]
      BY <3>1 DEF ParserInv, Suffix
    <3>3. upto - Len(rx) + (n + i) = upto' - Len(rx') + i
      BY <1>1, Counts DEF ParserInv
    <3> QED
      BY <3>1, <3>2, <3>3
  <2> QED
    BY <2>1, <2>2 DEF Suffix
<1>3. ASSUME NEW j \in 1 .. Len(out) PROVE FrameIn(out[j], stream, from, upto - Len(rx'))
  <2>1. /\ upto - Len(rx) \in Int /\ upto - Len(rx') \in Int
        /\ upto - Len(rx) <= upto - Len(rx')
    BY <1>1, Counts DEF ParserInv
  <2>2. FrameIn(out[j], stream, from, upto - Len(rx))
    BY DEF ParserInv, AllGenuine
  <2> QED
    BY <2>1, <2>2, Counts, Wider DEF ParserInv
<1> QED
  BY <1>1, <1>2, <1>3

\* An iteration that returns no frame.
LEMMA NoFrameStep ==
  ASSUME ParserInv, NEW n \in 0 .. Len(rx), rx' = Drop(n),
         UNCHANGED <<stream, upto, from, out>>, pc' \in {"run", "feed"},
         pc' = "run" => Len(rx) - n < Overhead + MaxLen
  PROVE  ParserInv'
<1>1. /\ rx' \in Seq(Byte) /\ Len(rx') = Len(rx) - n /\ Suffix'
      /\ \A j \in 1 .. Len(out) : FrameIn(out[j], stream, from, upto - Len(rx'))
  BY DropStep
<1>2. TypeOK'
  BY <1>1 DEF ParserInv, TypeOK
<1>3. AllGenuine' /\ Apart'
  BY <1>1 DEF ParserInv, AllGenuine, Apart
<1> QED
  BY <1>1, <1>2, <1>3 DEF ParserInv

LEMMA FeedStep ==
  ASSUME ParserInv, Feed
  PROVE  ParserInv' /\ upto' - Len(rx') = upto - Len(rx)
<1>0. /\ TypeOK /\ stream \in Seq(Byte) /\ Len(stream) \in Nat
      /\ upto \in Nat /\ from \in Nat /\ from <= upto /\ upto <= Len(stream)
      /\ rx \in Seq(Byte) /\ Len(rx) \in Nat /\ DOMAIN rx = 1 .. Len(rx)
      /\ Len(out) \in Nat /\ MaxLen \in Nat
  BY Counts DEF ParserInv
<1>1. PICK n \in Reads : /\ upto + n <= Len(stream)
                        /\ rx' = rx \o SubSeq(stream, upto + 1, upto + n)
                        /\ upto' = upto + n
  BY DEF Feed
<1> DEFINE more == SubSeq(stream, upto + 1, upto + n)
<1>2. n \in Nat
  BY <1>0, FrameAssumption
<1>3. /\ more \in Seq(Byte) /\ Len(more) = n
      /\ \A i \in 1 .. n : more[i] = stream[upto + i]
  <2>1. upto + 1 \in Nat \ {0} /\ upto + n \in Nat
    BY <1>0, <1>2
  <2>2. /\ more \in Seq(Byte)
        /\ Len(more) = IF upto + 1 <= upto + n THEN (upto + n) - (upto + 1) + 1 ELSE 0
        /\ \A i \in 1 .. (upto + n) - (upto + 1) + 1 : more[i] = stream[upto + 1 + i - 1]
    BY <1>0, <1>1, <2>1, SliceFacts
  <2>3. \A i \in 1 .. n : upto + 1 + i - 1 = upto + i
    BY <1>0, Counts
  <2>4. (upto + n) - (upto + 1) + 1 = n /\ (upto + 1 <= upto + n \/ n = 0)
    BY <1>0, <1>2
  <2>5. Len(more) = n
    BY <2>2, <2>4
  <2>6. \A i \in 1 .. n : more[i] = stream[upto + i]
    <3> HIDE DEF more
    <3> QED
      BY <2>2, <2>3, <2>4
  <2> QED
    BY <2>2, <2>5, <2>6
<1> HIDE DEF more
<1>4. /\ rx' \in Seq(Byte) /\ Len(rx') = Len(rx) + n
      /\ \A i \in 1 .. Len(rx) + n :
           rx'[i] = IF i <= Len(rx) THEN rx[i] ELSE more[i - Len(rx)]
  <2>1. rx' = rx \o more
    BY <1>0, <1>1 DEF more
  <2> QED
    BY <1>0, <1>3, <2>1, ConcatProperties
<1>5. TypeOK'
  BY <1>0, <1>1, <1>2, <1>4 DEF ParserInv, TypeOK, Feed
<1>6. Suffix'
  <2>1. Len(rx') <= upto' - from'
    BY <1>0, <1>1, <1>2, <1>4 DEF ParserInv, Suffix, Feed
  <2>2. ASSUME NEW i \in 1 .. Len(rx') PROVE rx'[i] = stream'[upto' - Len(rx') + i]
    <3>1. upto' - Len(rx') + i = upto - Len(rx) + i
      <4>1. /\ upto' = upto + n /\ Len(rx') = Len(rx) + n
            /\ upto \in Int /\ n \in Int /\ Len(rx) \in Int /\ i \in Int
        BY <1>0, <1>1, <1>2, <1>4
      <4>2. \A u, m, l, x \in Int : (u + m) - (l + m) + x = u - l + x
        OBVIOUS
      <4> QED
        BY <4>1, <4>2
    <3>2. CASE i <= Len(rx)
      <4>1. i \in 1 .. Len(rx) /\ i \in 1 .. Len(rx) + n
        BY <1>0, <1>2, <1>4, <3>2
      <4>2. rx'[i] = rx[i]
        BY <1>4, <3>2, <4>1
      <4>3. rx[i] = stream[upto - Len(rx) + i]
        BY <4>1 DEF ParserInv, Suffix
      <4>4. stream' = stream
        BY DEF Feed
      <4> QED
        BY <3>1, <4>2, <4>3, <4>4
    <3>3. CASE i > Len(rx)
      <4>1. i - Len(rx) \in 1 .. n /\ upto + (i - Len(rx)) = upto - Len(rx) + i
        BY <1>0, <1>2, <1>4, <3>3
      <4>2. rx'[i] = more[i - Len(rx)] /\ stream' = stream
        BY <1>0, <1>4, <3>3 DEF ParserInv, Feed
      <4> QED
        BY <1>0, <1>3, <3>1, <4>1, <4>2
    <3> QED
      BY <1>0, <1>2, <1>4, <3>2, <3>3
  <2> QED
    BY <1>0, <2>1, <2>2 DEF Suffix
<1>7. upto' - Len(rx') = upto - Len(rx)
  BY <1>0, <1>1, <1>2, <1>4
<1>8. AllGenuine' /\ Apart'
  BY <1>0, <1>7 DEF ParserInv, AllGenuine, Apart, Feed
<1> QED
  BY <1>5, <1>6, <1>7, <1>8 DEF ParserInv

LEMMA ReopenStep ==
  ASSUME ParserInv, Reopen
  PROVE  ParserInv'
<1>0. /\ TypeOK /\ stream \in Seq(Byte) /\ Len(stream) \in Nat
      /\ upto \in Nat /\ from \in Nat /\ from <= upto /\ upto <= Len(stream)
      /\ rx \in Seq(Byte) /\ Len(rx) \in Nat /\ DOMAIN rx = 1 .. Len(rx)
      /\ Len(out) \in Nat /\ MaxLen \in Nat
  BY Counts DEF ParserInv
<1>1. /\ upto' \in upto .. Len(stream) /\ from' = upto' /\ rx' = <<>> /\ out' = <<>>
      /\ stream' = stream /\ pc' = pc
  BY DEF Reopen
<1>2. Len(rx') = 0 /\ Len(out') = 0 /\ rx' \in Seq(Byte)
      /\ out' \in Seq([type : Byte, seq : Byte, payload : Seq(Byte), at : Nat])
  BY <1>0, <1>1, EmptySeq
<1>3. TypeOK'
  BY <1>0, <1>1, <1>2 DEF ParserInv, TypeOK, Overhead
<1>4. Suffix'
  <2>1. upto' \in Nat /\ from' = upto'
    BY <1>0, <1>1
  <2>2. upto' - from' = 0
    <3>1. \A n \in Nat : n - n = 0
      OBVIOUS
    <3> QED
      BY <2>1, <3>1
  <2>3. 1 .. Len(rx') = {}
    BY <1>2
  <2> QED
    BY <1>2, <2>2, <2>3 DEF Suffix
<1>5. AllGenuine' /\ Apart'
  BY <1>0, <1>1, <1>2 DEF AllGenuine, Apart
<1> QED
  BY <1>3, <1>4, <1>5 DEF ParserInv

\* A frame is returned.
LEMMA AcceptStep ==
  ASSUME ParserInv, Accept
  PROVE  ParserInv'
<1>0. /\ TypeOK /\ stream \in Seq(Byte) /\ Len(stream) \in Nat
      /\ upto \in Nat /\ from \in Nat /\ from <= upto /\ upto <= Len(stream)
      /\ rx \in Seq(Byte) /\ Len(rx) \in Nat /\ DOMAIN rx = 1 .. Len(rx)
      /\ Len(out) \in Nat /\ MaxLen \in Nat
  BY Counts DEF ParserInv
<1> DEFINE off == upto - Len(rx)
<1>1. PICK i \in DOMAIN rx :
        /\ Find(i) /\ Whole(rx, i) /\ CrcOk(rx, i)
        /\ out' = Append(out, Frame(rx, i, off + i))
        /\ rx' = Drop(i - 1 + TotalAt(rx, i))
  BY DEF Accept
<1> DEFINE k == off + i
           f == Frame(rx, i, off + i)
<1>2. /\ i \in 1 .. Len(rx) /\ SofAt(rx, i)
      /\ off \in Nat /\ off >= from /\ off + Len(rx) <= Len(stream)
      /\ \A m \in 1 .. Len(rx) : rx[m] = stream[off + m]
  BY <1>0, <1>1 DEF ParserInv, Suffix, Find
<1>3. /\ SofAt(stream, k) /\ Whole(stream, k) /\ CrcOk(stream, k)
      /\ LenAt(rx, i) \in Nat /\ TotalAt(stream, k) = TotalAt(rx, i)
      /\ f = Frame(stream, k, k)
  <2> HIDE DEF off
  <2> QED
    BY <1>0, <1>1, <1>2, FrameShift
<1>4. i - 1 + TotalAt(rx, i) \in 0 .. Len(rx) /\ TotalAt(rx, i) \in Nat
  BY <1>0, <1>1, <1>2, <1>3 DEF ParserInv, Whole, TotalAt, Left, Overhead
<1>5. /\ rx' \in Seq(Byte) /\ Len(rx') = Len(rx) - (i - 1 + TotalAt(rx, i)) /\ Suffix'
      /\ \A j \in 1 .. Len(out) : FrameIn(out[j], stream, from, upto - Len(rx'))
  BY <1>0, <1>1, <1>4, DropStep DEF Accept
<1>6. f \in [type : Byte, seq : Byte, payload : Seq(Byte), at : Nat] /\ f.at = k
  BY <1>0, <1>1, <1>2, FrameType
<1>7. FrameIn(f, stream, from, upto - Len(rx'))
  <2>1. k + TotalAt(stream, k) - 1 = upto - Len(rx')
    BY <1>0, <1>2, <1>3, <1>4, <1>5
  <2>2. k \in from + 1 .. upto - Len(rx')
    <3>1. k \in Nat /\ k >= from + 1
      BY <1>0, <1>2
    <3>2. TotalAt(stream, k) \in Nat \ {0}
      BY <1>3 DEF TotalAt, Overhead
    <3>3. upto - Len(rx') \in Int
      BY <1>0, <2>1, <3>1, <3>2
    <3>4. k <= upto - Len(rx')
      BY <2>1, <3>1, <3>2, <3>3
    <3> QED
      BY <1>0, <3>1, <3>3, <3>4
  <2> QED
    BY <1>0, <1>3, <1>6, <2>1, <2>2 DEF FrameIn
<1> HIDE DEF f
<1>8. /\ out' = Append(out, f) /\ Len(out') = Len(out) + 1 /\ out'[Len(out) + 1] = f
      /\ \A j \in 1 .. Len(out) : out'[j] = out[j]
      /\ out' \in Seq([type : Byte, seq : Byte, payload : Seq(Byte), at : Nat])
  BY <1>0, <1>1, <1>6, AppendProperties DEF f, ParserInv, TypeOK
<1>9. TypeOK'
  BY <1>0, <1>5, <1>8 DEF ParserInv, TypeOK, Accept
<1>10. AllGenuine'
  <2>1. ASSUME NEW j \in 1 .. Len(out') PROVE FrameIn(out'[j], stream, from, upto - Len(rx'))
    <3>1. j \in 1 .. Len(out) \/ j = Len(out) + 1
      BY <1>0, <1>8
    <3> QED
      BY <1>0, <1>5, <1>7, <1>8, <3>1
  <2> QED
    BY <1>0, <2>1 DEF AllGenuine, Accept
<1>11. Apart'
  <2>1. ASSUME NEW j \in 1 .. Len(out') - 1
        PROVE  out'[j].at + TotalAt(stream, out'[j].at) <= out'[j + 1].at
    <3>1. j \in 1 .. Len(out) /\ (j \in 1 .. Len(out) - 1 \/ j = Len(out))
      BY <1>0, <1>8
    <3>2. CASE j \in 1 .. Len(out) - 1
      <4>1. j + 1 \in 1 .. Len(out)
        BY <1>0, <3>2
      <4> QED
        BY <1>0, <1>8, <3>1, <3>2, <4>1 DEF ParserInv, Apart
    <3>3. CASE j = Len(out)
      <4>1. FrameIn(out[j], stream, from, off)
        BY <1>0, <3>1 DEF ParserInv, AllGenuine
      <4>2. out[j].at \in Nat \ {0} /\ TotalAt(stream, out[j].at) \in Nat
        <5>1. out[j].at \in Nat \ {0}
          BY <1>0, <1>2, <4>1 DEF FrameIn
        <5>2. Left(stream, out[j].at) >= Overhead
          BY <4>1 DEF FrameIn, Whole
        <5>3. LenAt(stream, out[j].at) \in Nat
          BY <1>0, <5>1, <5>2, LenNat
        <5> QED
          BY <5>1, <5>3 DEF TotalAt, Overhead
      <4>3. out[j].at + TotalAt(stream, out[j].at) <= off + 1 /\ off + 1 <= k
        BY <1>0, <1>2, <4>1, <4>2 DEF FrameIn
      <4>4. out'[j] = out[j] /\ out'[j + 1].at = k
        BY <1>0, <1>6, <1>8, <3>1, <3>3
      <4> QED
        BY <1>0, <1>2, <4>2, <4>3, <4>4
    <3> QED
      BY <1>0, <3>1, <3>2, <3>3
  <2> QED
    BY <1>0, <2>1 DEF Apart, Accept
<1> QED
  BY <1>5, <1>9, <1>10, <1>11 DEF ParserInv

LEMMA ParserInit == Init => ParserInv
<1> SUFFICES ASSUME Init PROVE ParserInv
  OBVIOUS
<1>1. Len(rx) = 0 /\ Len(out) = 0 /\ rx \in Seq(Byte)
      /\ out \in Seq([type : Byte, seq : Byte, payload : Seq(Byte), at : Nat])
  BY EmptySeq DEF Init
<1>2. stream \in Seq(Byte) /\ Len(stream) \in Nat /\ MaxLen \in Nat
  BY FrameAssumption, LenProperties DEF Init
<1> QED
  BY <1>1, <1>2 DEF Init, ParserInv, TypeOK, Suffix, AllGenuine, Apart, Overhead

LEMMA ParserStep == ParserInv /\ [Next]_vars => ParserInv'
<1> SUFFICES ASSUME ParserInv, [Next]_vars PROVE ParserInv'
  OBVIOUS
<1>0. Len(rx) \in Nat /\ DOMAIN rx = 1 .. Len(rx) /\ MaxLen \in Nat
  BY Counts DEF ParserInv
<1>1. CASE Feed
  BY <1>1, FeedStep
<1>2. CASE Reopen
  BY <1>2, ReopenStep
<1>3. CASE NoSof
  <2> DEFINE n == IF Len(rx) > 1 THEN Len(rx) - 1 ELSE 0
  <2>1. n \in 0 .. Len(rx) /\ Len(rx) - n < Overhead + MaxLen
    BY <1>0 DEF Overhead
  <2>2. rx' = Drop(n)
    <3>1. Drop(0) = rx
      BY SubSeqFull DEF Drop, ParserInv, TypeOK
    <3> QED
      BY <1>3, <3>1 DEF NoSof
  <2> HIDE DEF n
  <2> QED
    BY <1>3, <2>1, <2>2, NoFrameStep DEF NoSof
<1>4. CASE Wait
  <2>1. PICK i \in DOMAIN rx : ~TooLong(rx, i) /\ ~Whole(rx, i) /\ rx' = Drop(i - 1)
    BY <1>4 DEF Wait
  <2>2. i - 1 \in 0 .. Len(rx)
    BY <1>0, <2>1
  <2>3. Len(rx) - (i - 1) < Overhead + MaxLen
    <3>1. CASE Left(rx, i) < Overhead
      BY <1>0, <3>1 DEF Left, Overhead
    <3>2. CASE Left(rx, i) >= Overhead
      <4>1. LenAt(rx, i) \in Nat
        BY <1>0, <3>2, LenNat DEF ParserInv, TypeOK
      <4> QED
        BY <1>0, <2>1, <3>2, <4>1 DEF TooLong, Whole, TotalAt, Left, Overhead
    <3> QED
      BY <1>0, <3>1, <3>2 DEF Left, Overhead
  <2> QED
    BY <1>4, <2>1, <2>2, <2>3, NoFrameStep DEF Wait
<1>5. CASE Skip
  <2>1. PICK i \in DOMAIN rx : rx' = Drop(i)
    BY <1>5 DEF Skip
  <2>2. i \in 0 .. Len(rx)
    BY <1>0, <2>1
  <2>3. pc' = "feed"
    BY <1>5 DEF Skip
  <2> QED
    BY <1>5, <2>1, <2>2, <2>3, NoFrameStep DEF Skip
<1>6. CASE Accept
  BY <1>6, AcceptStep
<1>7. CASE UNCHANGED vars
  BY <1>7 DEF vars, ParserInv, TypeOK, Suffix, AllGenuine, Apart
<1> QED
  BY <1>1, <1>2, <1>3, <1>4, <1>5, <1>6, <1>7 DEF Next, Loop

LEMMA ParserInvariant == Spec => []ParserInv
BY ParserInit, ParserStep, PTL DEF Spec

-----------------------------------------------------------------------------
(* No intact frame is lost.                                                *)

Intact(s, k) == SofAt(s, k) /\ Whole(s, k) /\ CrcOk(s, k)

\* Byte k is one of frame f's.
Covers(f, k) == k \in f.at .. f.at + Overhead + Len(f.payload) - 1

\* An intact frame whose first byte is gone from rx has been returned, or that
\* byte was part of another frame that has.
NoneLost ==
  \A k \in from + 1 .. upto - Len(rx) :
    Intact(stream, k) => \E j \in DOMAIN out : Covers(out[j], k)

\* The first n bytes of rx are dropped, and no intact frame begins there that
\* is not covered by a frame returned.
LEMMA DropLosesNone ==
  ASSUME ParserInv, NoneLost, NEW n \in 0 .. Len(rx), rx' = Drop(n),
         UNCHANGED <<stream, upto, from>>,
         \A j \in DOMAIN out : j \in DOMAIN out' /\ out'[j] = out[j],
         \A i \in 1 .. n : Intact(stream, upto - Len(rx) + i)
                             => \E j \in DOMAIN out' : Covers(out'[j], upto - Len(rx) + i)
  PROVE  NoneLost'
<1>0. upto \in Nat /\ from \in Nat /\ Len(rx) \in Nat /\ rx \in Seq(Byte)
  BY Counts DEF ParserInv
<1>1. Len(rx') = Len(rx) - n
  BY <1>0, DropFacts
<1>2. ASSUME NEW k \in from' + 1 .. upto' - Len(rx'), Intact(stream', k)
      PROVE  \E j \in DOMAIN out' : Covers(out'[j], k)
  <2>1. CASE k <= upto - Len(rx)
    <3>1. k \in from + 1 .. upto - Len(rx) /\ Intact(stream, k)
      BY <1>0, <1>2, <2>1
    <3>2. PICK j \in DOMAIN out : Covers(out[j], k)
      BY <3>1 DEF NoneLost
    <3> QED
      BY <3>2
  <2>2. CASE k > upto - Len(rx)
    <3>1. PICK i \in 1 .. n : k = upto - Len(rx) + i
      <4>1. k - (upto - Len(rx)) \in 1 .. n
            /\ k = upto - Len(rx) + (k - (upto - Len(rx)))
        BY <1>0, <1>1, <1>2, <2>2
      <4> QED
        BY <4>1
    <3> QED
      BY <1>2, <3>1
  <2> QED
    BY <1>0, <2>1, <2>2
<1> QED
  BY <1>2 DEF NoneLost

\* The bytes of rx before the last one that begin no frame begin none in stream.
LEMMA NoSofThere ==
  ASSUME ParserInv, NEW i \in 1 .. Len(rx), i + 1 <= Len(rx), ~SofAt(rx, i)
  PROVE  ~Intact(stream, upto - Len(rx) + i)
<1> DEFINE off == upto - Len(rx)
<1>1. /\ off \in Nat /\ off + Len(rx) <= Len(stream)
      /\ rx \in Seq(Byte) /\ stream \in Seq(Byte)
      /\ \A m \in 1 .. Len(rx) : rx[m] = stream[off + m]
  BY Counts DEF ParserInv, Suffix
<1> HIDE DEF off
<1>2. ~SofAt(stream, off + i)
  BY <1>1, SofShift
<1> QED
  BY <1>2 DEF Intact, off

LEMMA SkipLosesNone ==
  ASSUME ParserInv, NoneLost, Skip
  PROVE  NoneLost'
<1> DEFINE off == upto - Len(rx)
<1>1. /\ off \in Nat /\ off + Len(rx) <= Len(stream) /\ Len(rx) \in Nat
      /\ rx \in Seq(Byte) /\ stream \in Seq(Byte) /\ DOMAIN rx = 1 .. Len(rx)
      /\ \A m \in 1 .. Len(rx) : rx[m] = stream[off + m]
      /\ MaxLen \in Nat
  BY Counts DEF ParserInv, Suffix
<1>2. PICK i \in DOMAIN rx :
        /\ Find(i) /\ rx' = Drop(i)
        /\ TooLong(rx, i) \/ (Whole(rx, i) /\ ~CrcOk(rx, i))
  BY DEF Skip
<1> HIDE DEF off
<1>3. ~Intact(stream, off + i)
  <2>1. CASE TooLong(rx, i)
    <3>1. LenAt(stream, off + i) = LenAt(rx, i) /\ LenAt(rx, i) \in Nat
      BY <1>1, <2>1, LenShift, LenNat DEF TooLong
    <3> QED
      BY <1>1, <2>1, <3>1 DEF TooLong, Intact, Whole
  <2>2. CASE Whole(rx, i) /\ ~CrcOk(rx, i)
    <3>1. ~CrcOk(stream, off + i)
      BY <1>1, <1>2, <2>2, FrameShift DEF Find
    <3> QED
      BY <3>1 DEF Intact
  <2> QED
    BY <1>2, <2>1, <2>2
<1>4. ASSUME NEW m \in 1 .. i PROVE ~Intact(stream, off + m)
  <2>1. CASE m = i
    BY <1>3, <2>1
  <2>2. CASE m # i
    <3>1. m \in 1 .. Len(rx) /\ m + 1 <= Len(rx) /\ ~SofAt(rx, m)
      BY <1>1, <1>2, <2>2 DEF Find
    <3> QED
      BY <3>1, NoSofThere DEF off
  <2> QED
    BY <2>1, <2>2
<1>5. i \in 0 .. Len(rx) /\ UNCHANGED <<stream, upto, from, out>>
  BY <1>1 DEF Skip
<1> QED
  BY <1>2, <1>4, <1>5, DropLosesNone DEF off

LEMMA AcceptLosesNone ==
  ASSUME ParserInv, NoneLost, Accept
  PROVE  NoneLost'
<1> DEFINE off == upto - Len(rx)
<1>1. /\ off \in Nat /\ off + Len(rx) <= Len(stream) /\ Len(rx) \in Nat
      /\ rx \in Seq(Byte) /\ stream \in Seq(Byte) /\ DOMAIN rx = 1 .. Len(rx)
      /\ Len(out) \in Nat
      /\ out \in Seq([type : Byte, seq : Byte, payload : Seq(Byte), at : Nat])
  BY Counts DEF ParserInv, Suffix, TypeOK
<1>2. PICK i \in DOMAIN rx :
        /\ Find(i) /\ Whole(rx, i) /\ CrcOk(rx, i)
        /\ out' = Append(out, Frame(rx, i, off + i))
        /\ rx' = Drop(i - 1 + TotalAt(rx, i))
  BY DEF Accept
<1> DEFINE f == Frame(rx, i, off + i)
           n == i - 1 + TotalAt(rx, i)
<1> HIDE DEF off
<1>3. i \in Nat \ {0} /\ LenAt(rx, i) \in Nat
  BY <1>1, <1>2, LenNat DEF Whole
<1>4. n \in 0 .. Len(rx)
  BY <1>1, <1>2, <1>3 DEF Whole, TotalAt, Left, Overhead
<1>5. f.at = off + i /\ Len(f.payload) = LenAt(rx, i)
  <2>1. i + 6 \in Nat \ {0} /\ i + 5 + LenAt(rx, i) \in Nat /\ i + 5 + LenAt(rx, i) <= Len(rx)
    BY <1>1, <1>2, <1>3 DEF Whole, TotalAt, Left, Overhead
  <2>2. Len(SubSeq(rx, i + 6, i + 5 + LenAt(rx, i)))
          = IF i + 6 <= i + 5 + LenAt(rx, i)
            THEN (i + 5 + LenAt(rx, i)) - (i + 6) + 1 ELSE 0
    BY <1>1, <2>1, SliceFacts
  <2>3. Len(SubSeq(rx, i + 6, i + 5 + LenAt(rx, i))) = LenAt(rx, i)
    BY <1>3, <2>2
  <2> QED
    BY <2>3 DEF Frame
<1>6. f \in [type : Byte, seq : Byte, payload : Seq(Byte), at : Nat]
  <2>1. off + i \in Nat
    BY <1>1, <1>3
  <2> QED
    BY <1>1, <1>2, <1>3, <2>1, FrameType
<1> HIDE DEF f
<1>7. /\ DOMAIN out' = 1 .. Len(out) + 1 /\ out'[Len(out) + 1] = f
      /\ \A j \in DOMAIN out : j \in DOMAIN out' /\ out'[j] = out[j]
  <2>1. out' = Append(out, f)
    BY <1>2 DEF f
  <2> QED
    BY <1>1, <1>6, <2>1, AppendProperties, LenProperties
<1>8. ASSUME NEW m \in 1 .. n, Intact(stream, off + m)
      PROVE  \E j \in DOMAIN out' : Covers(out'[j], off + m)
  <2>1. CASE m < i
    <3>1. m \in 1 .. Len(rx) /\ m + 1 <= Len(rx) /\ ~SofAt(rx, m)
      BY <1>1, <1>2, <2>1 DEF Find
    <3> QED
      BY <1>8, <3>1, NoSofThere DEF off
  <2>2. CASE m >= i
    <3>1. off + m \in off + i .. off + i + Overhead + LenAt(rx, i) - 1
      BY <1>1, <1>3, <2>2 DEF TotalAt, Overhead
    <3>2. Covers(f, off + m)
      BY <1>5, <3>1 DEF Covers
    <3>3. Len(out) + 1 \in DOMAIN out'
      BY <1>1, <1>7
    <3> QED
      BY <1>7, <3>2, <3>3
  <2> QED
    BY <1>3, <2>1, <2>2
<1>9. UNCHANGED <<stream, upto, from>>
  BY DEF Accept
<1> HIDE DEF n
<1> QED
  BY <1>2, <1>4, <1>7, <1>8, <1>9, DropLosesNone DEF off, n

LEMMA NoneLostStep == ParserInv /\ NoneLost /\ [Next]_vars => NoneLost'
<1> SUFFICES ASSUME ParserInv, NoneLost, [Next]_vars PROVE NoneLost'
  OBVIOUS
<1>0. /\ upto \in Nat /\ from \in Nat /\ Len(rx) \in Nat /\ DOMAIN rx = 1 .. Len(rx)
      /\ Len(stream) \in Nat
  BY Counts DEF ParserInv
<1>1. CASE Feed
  <2>1. upto' - Len(rx') = upto - Len(rx) /\ UNCHANGED <<stream, from, out>>
    BY <1>1, FeedStep DEF Feed
  <2> QED
    BY <2>1 DEF NoneLost
<1>2. CASE Reopen
  <2>1. upto' \in Nat /\ from' = upto' /\ Len(rx') = 0
    BY <1>0, <1>2, EmptySeq DEF Reopen
  <2>2. \A n \in Nat : n + 1 .. n - 0 = {}
    OBVIOUS
  <2>3. from' + 1 .. upto' - Len(rx') = {}
    BY <2>1, <2>2
  <2> QED
    BY <2>3 DEF NoneLost
<1>3. CASE NoSof
  <2> DEFINE n == IF Len(rx) > 1 THEN Len(rx) - 1 ELSE 0
  <2>1. n \in 0 .. Len(rx) /\ \A i \in 1 .. n : i \in 1 .. Len(rx) /\ i + 1 <= Len(rx)
    BY <1>0
  <2>2. rx' = Drop(n)
    <3>1. Drop(0) = rx
      BY SubSeqFull DEF Drop, ParserInv, TypeOK
    <3> QED
      BY <1>3, <3>1 DEF NoSof
  <2> HIDE DEF n
  <2>3. \A i \in 1 .. n : ~Intact(stream, upto - Len(rx) + i)
    BY <1>0, <1>3, <2>1, NoSofThere DEF NoSof
  <2>4. UNCHANGED <<stream, upto, from, out>>
    BY <1>3 DEF NoSof
  <2> QED
    BY <2>1, <2>2, <2>3, <2>4, DropLosesNone
<1>4. CASE Wait
  <2>1. PICK i \in DOMAIN rx : Find(i) /\ rx' = Drop(i - 1)
    BY <1>4 DEF Wait
  <2>2. /\ i - 1 \in 0 .. Len(rx)
        /\ \A m \in 1 .. i - 1 : m \in 1 .. Len(rx) /\ m + 1 <= Len(rx)
    BY <1>0, <2>1
  <2>3. \A m \in 1 .. i - 1 : ~Intact(stream, upto - Len(rx) + m)
    BY <2>1, <2>2, NoSofThere DEF Find
  <2>4. UNCHANGED <<stream, upto, from, out>>
    BY <1>4 DEF Wait
  <2> QED
    BY <2>1, <2>2, <2>3, <2>4, DropLosesNone
<1>5. CASE Skip
  BY <1>5, SkipLosesNone
<1>6. CASE Accept
  BY <1>6, AcceptLosesNone
<1>7. CASE UNCHANGED vars
  BY <1>7 DEF vars, NoneLost
<1> QED
  BY <1>1, <1>2, <1>3, <1>4, <1>5, <1>6, <1>7 DEF Next, Loop

-----------------------------------------------------------------------------
(* The reference decoder.  Induction over places is by the greatest place  *)
(* of a set of counterexamples.                                            *)

LEMMA Least ==
  ASSUME NEW T \in SUBSET Nat, T # {}
  PROVE  \E x \in T : \A y \in T : x <= y
<1> DEFINE R == OpToRel(<, Nat)
<1>1. IsWellFoundedOn(R, Nat)
  BY NatLessThanWellFounded
<1>2. \A x, y \in Nat : <<y, x>> \in R <=> y < x
  BY DEF OpToRel
<1> HIDE DEF R
<1>3. PICK x \in T : \A y \in T : ~(<<y, x>> \in R)
  BY <1>1, WFMin
<1>4. ASSUME NEW y \in T PROVE x <= y
  <2>1. x \in Nat /\ y \in Nat /\ ~(y < x)
    BY <1>2, <1>3
  <2> QED
    BY <2>1
<1> QED
  BY <1>3, <1>4

LEMMA Greatest ==
  ASSUME NEW n \in Nat, NEW T \in SUBSET (1 .. n), T # {}
  PROVE  \E x \in T : \A y \in T : y <= x
<1> DEFINE U == {u \in 0 .. n : n - u \in T}
<1>1. ASSUME NEW x \in T PROVE n - x \in U /\ x \in 1 .. n
  <2>1. x \in 1 .. n
    OBVIOUS
  <2>2. n - x \in 0 .. n /\ n - (n - x) = x
    BY <2>1
  <2> QED
    BY <2>1, <2>2
<1>2. U \in SUBSET Nat /\ U # {}
  <2>1. PICK x \in T : TRUE
    OBVIOUS
  <2>2. n - x \in U
    BY <1>1
  <2>3. 0 .. n \subseteq Nat
    OBVIOUS
  <2> QED
    BY <2>2, <2>3
<1>3. PICK u \in U : \A v \in U : u <= v
  BY <1>2, Least
<1>4. u \in 0 .. n /\ n - u \in T
  OBVIOUS
<1> HIDE DEF U
<1>5. ASSUME NEW y \in T PROVE y <= n - u
  <2>1. y \in 1 .. n /\ u <= n - y
    BY <1>1, <1>3
  <2> QED
    BY <1>4, <2>1
<1> QED
  BY <1>4, <1>5

\* What Found says of place i when it says f of the places after i.
Here(s, place, f, i) ==
  IF i > Len(s) THEN <<>>
  ELSE IF ~SofAt(s, i) \/ TooLong(s, i) THEN f[i + 1]
  ELSE IF ~Whole(s, i) THEN <<>>
  ELSE IF ~CrcOk(s, i) THEN f[i + 1]
  ELSE <<Frame(s, i, place + i)>> \o f[i + TotalAt(s, i)]

\* A whole frame ends at or before the end.
LEMMA TotalFits ==
  ASSUME NEW s \in Seq(Byte), NEW i \in Nat \ {0}, Whole(s, i)
  PROVE  i + TotalAt(s, i) \in i + 1 .. Len(s) + 1
<1>1. Len(s) \in Nat /\ LenAt(s, i) \in Nat
  BY LenProperties, LenNat DEF Whole
<1> QED
  BY <1>1 DEF Whole, TotalAt, Left, Overhead

LEMMA HereDepends ==
  ASSUME NEW s \in Seq(Byte), NEW place, NEW f, NEW g, NEW i \in 1 .. Len(s) + 1,
         \A j \in i + 1 .. Len(s) + 1 : f[j] = g[j]
  PROVE  Here(s, place, f, i) = Here(s, place, g, i)
<1>1. Len(s) \in Nat
  BY LenProperties
<1>2. CASE i > Len(s)
  BY <1>2 DEF Here
<1>3. CASE ~(i > Len(s))
  <2>1. f[i + 1] = g[i + 1]
    BY <1>1, <1>3
  <2>2. Whole(s, i) => f[i + TotalAt(s, i)] = g[i + TotalAt(s, i)]
    BY <1>1, TotalFits
  <2> QED
    BY <1>3, <2>1, <2>2 DEF Here
<1> QED
  BY <1>2, <1>3

\* The recursion is well-founded: there is a function that it describes.
LEMMA FoundExists ==
  ASSUME NEW s \in Seq(Byte), NEW place
  PROVE  \E g : g = [i \in 1 .. Len(s) + 1 |-> Here(s, place, g, i)]
<1> DEFINE n == Len(s) + 1
           Solves(g, m) == g = [i \in m .. n |-> Here(s, place, g, i)]
           T == {m \in 1 .. n : ~ \E g : Solves(g, m)}
<1>1. n \in Nat /\ Len(s) \in Nat /\ n = Len(s) + 1
  BY LenProperties
<1>2. \E g : Solves(g, n)
  <2> DEFINE g == [i \in n .. n |-> <<>>]
  <2>1. \A i \in n .. n : Here(s, place, g, i) = <<>>
    BY <1>1 DEF Here
  <2>2. Solves(g, n)
    BY <2>1
  <2> QED
    BY <2>2
<1>3. ASSUME NEW m \in 1 .. n, m # n, NEW g, Solves(g, m + 1)
      PROVE  \E h : Solves(h, m)
  <2> DEFINE h == [i \in m .. n |-> IF i = m THEN Here(s, place, g, m) ELSE g[i]]
  <2>1. /\ m \in 1 .. Len(s) + 1 /\ m + 1 \in 1 .. n
        /\ \A i \in m .. n : i = m \/ i \in m + 1 .. n
    BY <1>1, <1>3
  <2>2. \A j \in m + 1 .. n : h[j] = g[j]
    BY <1>1, <1>3
  <2>3. h[m] = Here(s, place, g, m)
    BY <1>1, <1>3
  <2>4. \A i \in m + 1 .. n : g[i] = Here(s, place, g, i)
    BY <1>3
  <2> HIDE DEF h
  <2>5. ASSUME NEW i \in m .. n PROVE Here(s, place, h, i) = Here(s, place, g, i)
    <3>1. i \in 1 .. Len(s) + 1 /\ \A j \in i + 1 .. Len(s) + 1 : h[j] = g[j]
      BY <1>1, <2>1, <2>2
    <3> QED
      BY <3>1, HereDepends
  <2>6. \A i \in m .. n : h[i] = Here(s, place, h, i)
    BY <2>1, <2>2, <2>3, <2>4, <2>5
  <2>7. Solves(h, m)
    BY <2>6 DEF h
  <2> QED
    BY <2>7
<1> HIDE DEF Solves
<1>4. T = {}
  <2> SUFFICES ASSUME T # {} PROVE FALSE
    OBVIOUS
  <2>1. PICK m \in T : \A y \in T : y <= m
    BY <1>1, Greatest
  <2>2. m \in 1 .. n /\ m # n
    BY <1>2, <2>1
  <2>3. m + 1 \in 1 .. n /\ m + 1 \notin T
    BY <1>1, <2>1, <2>2
  <2>4. \E g : Solves(g, m + 1)
    BY <2>3
  <2> QED
    BY <1>3, <2>1, <2>2, <2>4
<1>5. \E g : Solves(g, 1)
  <2>1. 1 \in 1 .. n /\ 1 \notin T
    BY <1>1, <1>4
  <2> QED
    BY <2>1
<1> QED
  BY <1>5 DEF Solves

LEMMA FoundIs ==
  ASSUME NEW s \in Seq(Byte), NEW place, NEW i \in 1 .. Len(s) + 1
  PROVE  Found(s, place)[i] = Here(s, place, Found(s, place), i)
<1>1. PICK g : g = [k \in 1 .. Len(s) + 1 |-> Here(s, place, g, k)]
  BY FoundExists
<1>2. Found(s, place) = [k \in 1 .. Len(s) + 1 |-> Here(s, place, Found(s, place), k)]
  BY <1>1 DEF Found, Here
<1> QED
  BY <1>2

Frames == [type : Byte, seq : Byte, payload : Seq(Byte), at : Nat]

LEMMA FoundType ==
  ASSUME NEW s \in Seq(Byte), NEW place \in Nat, NEW k \in 1 .. Len(s) + 1
  PROVE  Found(s, place)[k] \in Seq(Frames)
<1> DEFINE n == Len(s) + 1
           F == Found(s, place)
           T == {m \in 1 .. n : F[m] \notin Seq(Frames)}
<1>1. n \in Nat /\ Len(s) \in Nat /\ n = Len(s) + 1
  BY LenProperties
<1>2. ASSUME NEW m \in 1 .. n, \A j \in m + 1 .. n : F[j] \in Seq(Frames)
      PROVE  F[m] \in Seq(Frames)
  <2>1. F[m] = Here(s, place, F, m)
    BY FoundIs
  <2>2. CASE m > Len(s)
    BY <2>1, <2>2, EmptySeq DEF Here
  <2>3. CASE ~(m > Len(s))
    <3>1. F[m + 1] \in Seq(Frames)
      BY <1>1, <1>2, <2>3
    <3>2. ASSUME Whole(s, m)
          PROVE  <<Frame(s, m, place + m)>> \o F[m + TotalAt(s, m)] \in Seq(Frames)
      <4>1. Frame(s, m, place + m) \in Frames
        <5>1. m \in Nat \ {0} /\ place + m \in Nat
          BY <1>1
        <5> QED
          BY <3>2, <5>1, FrameType DEF Frames
      <4>2. F[m + TotalAt(s, m)] \in Seq(Frames)
        BY <1>1, <1>2, <3>2, TotalFits
      <4> HIDE DEF F
      <4> QED
        BY <4>1, <4>2, ConcatProperties
    <3> HIDE DEF F
    <3> QED
      BY <2>1, <2>3, <3>1, <3>2, EmptySeq DEF Here
  <2> QED
    BY <2>2, <2>3
<1> HIDE DEF F
<1>3. T = {}
  <2> SUFFICES ASSUME T # {} PROVE FALSE
    OBVIOUS
  <2>1. PICK m \in T : \A y \in T : y <= m
    BY <1>1, Greatest
  <2>2. ASSUME NEW j \in m + 1 .. n PROVE F[j] \in Seq(Frames)
    <3>1. j \in 1 .. n /\ j > m /\ m \in Nat
      BY <1>1, <2>1
    <3> QED
      BY <2>1, <3>1
  <2> QED
    BY <1>2, <2>1, <2>2
<1> QED
  BY <1>3 DEF F

\* Places where no SOF is may be skipped.
LEMMA FoundSkip ==
  ASSUME NEW s \in Seq(Byte), NEW place, NEW l \in 1 .. Len(s) + 1, NEW k \in 1 .. l,
         \A i \in k .. l - 1 : ~SofAt(s, i)
  PROVE  Found(s, place)[k] = Found(s, place)[l]
<1> DEFINE F == Found(s, place)
           T == {m \in 1 .. l : m >= k /\ F[m] # F[l]}
<1>1. Len(s) \in Nat /\ l \in Nat /\ k \in Nat /\ k <= l /\ l <= Len(s) + 1
  BY LenProperties
<1>2. ASSUME NEW m \in 1 .. l, m >= k, m # l PROVE F[m] = F[m + 1]
  <2>1. m \in 1 .. Len(s) + 1 /\ ~(m > Len(s)) /\ ~SofAt(s, m)
    BY <1>1, <1>2
  <2> QED
    BY <2>1, FoundIs DEF Here
<1> HIDE DEF F
<1>3. T = {}
  <2> SUFFICES ASSUME T # {} PROVE FALSE
    OBVIOUS
  <2>1. PICK m \in T : \A y \in T : y <= m
    BY <1>1, Greatest
  <2>2. m \in 1 .. l /\ m >= k /\ m # l /\ F[m] # F[l]
    BY <2>1
  <2>3. m + 1 \in 1 .. l /\ m + 1 >= k /\ F[m + 1] # F[l] /\ ~(m + 1 <= m)
    BY <1>1, <1>2, <2>2
  <2> QED
    BY <2>1, <2>3
<1> QED
  BY <1>1, <1>3 DEF F

\* Where r is the end of s from place off + 1 on, the same is found in both.
LEMMA HereSame ==
  ASSUME NEW r \in Seq(Byte), NEW s \in Seq(Byte), NEW off \in Nat,
         off + Len(r) = Len(s),
         \A i \in 1 .. Len(r) : r[i] = s[off + i],
         NEW i \in 1 .. Len(r)
  PROVE  /\ SofAt(r, i) <=> SofAt(s, off + i)
         /\ TooLong(r, i) <=> TooLong(s, off + i)
         /\ Whole(r, i) <=> Whole(s, off + i)
<1>1. /\ Len(r) \in Nat /\ Len(s) \in Nat /\ off + i \in Nat \ {0}
      /\ DOMAIN r = 1 .. Len(r) /\ DOMAIN s = 1 .. Len(s) /\ off + Len(r) <= Len(s)
  BY LenProperties
<1>2. Left(s, off + i) = Left(r, i)
  BY <1>1 DEF Left
<1>3. Left(r, i) >= Overhead => LenAt(s, off + i) = LenAt(r, i)
  BY <1>1, LenShift
<1>4. SofAt(r, i) <=> SofAt(s, off + i)
  <2>1. CASE i + 1 <= Len(r)
    BY <1>1, <2>1, SofShift
  <2>2. CASE ~(i + 1 <= Len(r))
    BY <1>1, <2>2 DEF SofAt
  <2> QED
    BY <2>1, <2>2
<1> QED
  BY <1>2, <1>3, <1>4 DEF TooLong, Whole, TotalAt

LEMMA FoundShift ==
  ASSUME NEW r \in Seq(Byte), NEW s \in Seq(Byte), NEW off \in Nat,
         off + Len(r) = Len(s),
         \A i \in 1 .. Len(r) : r[i] = s[off + i],
         NEW k \in 1 .. Len(r) + 1
  PROVE  Found(r, off)[k] = Found(s, 0)[off + k]
<1> DEFINE n == Len(r) + 1
           F == Found(r, off)
           G == Found(s, 0)
           T == {m \in 1 .. n : F[m] # G[off + m]}
<1>1. /\ n \in Nat /\ Len(r) \in Nat /\ Len(s) \in Nat /\ n = Len(r) + 1
      /\ off + Len(r) <= Len(s)
  BY LenProperties
<1>2. ASSUME NEW m \in 1 .. n, \A j \in m + 1 .. n : F[j] = G[off + j]
      PROVE  F[m] = G[off + m]
  <2>1. off + m \in 1 .. Len(s) + 1 /\ (off + m > Len(s) <=> m > Len(r))
    BY <1>1
  <2>2. F[m] = Here(r, off, F, m) /\ G[off + m] = Here(s, 0, G, off + m)
    BY <2>1, FoundIs
  <2> HIDE DEF F, G
  <2>3. CASE m > Len(r)
    BY <2>1, <2>2, <2>3 DEF Here
  <2>4. CASE ~(m > Len(r))
    <3>1. m \in 1 .. Len(r)
      BY <1>1, <2>4
    <3>2. /\ SofAt(r, m) <=> SofAt(s, off + m)
          /\ TooLong(r, m) <=> TooLong(s, off + m)
          /\ Whole(r, m) <=> Whole(s, off + m)
      BY <3>1, HereSame
    <3>3. F[m + 1] = G[(off + m) + 1]
      BY <1>1, <1>2, <3>1
    <3>4. ASSUME SofAt(r, m), Whole(r, m)
          PROVE  /\ CrcOk(s, off + m) <=> CrcOk(r, m)
                 /\ <<Frame(r, m, off + m)>> \o F[m + TotalAt(r, m)]
                      = <<Frame(s, off + m, 0 + (off + m))>>
                          \o G[(off + m) + TotalAt(s, off + m)]
      <4>1. /\ CrcOk(s, off + m) <=> CrcOk(r, m)
            /\ LenAt(r, m) \in Nat /\ TotalAt(s, off + m) = TotalAt(r, m)
            /\ Frame(r, m, off + m) = Frame(s, off + m, off + m)
        BY <1>1, <3>1, <3>4, FrameShift
      <4>2. m + TotalAt(r, m) \in m + 1 .. n /\ TotalAt(r, m) \in Nat
        BY <1>1, <3>1, <3>4, <4>1, TotalFits DEF TotalAt, Overhead
      <4>3. F[m + TotalAt(r, m)] = G[off + (m + TotalAt(r, m))]
        BY <1>2, <4>2
      <4>4. off + (m + TotalAt(r, m)) = (off + m) + TotalAt(r, m) /\ 0 + (off + m) = off + m
        BY <1>1, <3>1, <4>2
      <4> QED
        BY <4>1, <4>3, <4>4
    <3> HIDE DEF n
    <3>5. CASE ~SofAt(r, m) \/ TooLong(r, m)
      BY <2>1, <2>2, <2>4, <3>2, <3>3, <3>5 DEF Here
    <3>6. CASE SofAt(r, m) /\ ~TooLong(r, m) /\ ~Whole(r, m)
      BY <2>1, <2>2, <2>4, <3>2, <3>6 DEF Here
    <3>7. CASE SofAt(r, m) /\ ~TooLong(r, m) /\ Whole(r, m)
      <4>1. CrcOk(s, off + m) <=> CrcOk(r, m)
        BY <3>4, <3>7
      <4>2. CASE ~CrcOk(r, m)
        BY <2>1, <2>2, <2>4, <3>2, <3>3, <3>7, <4>1, <4>2 DEF Here
      <4>3. CASE CrcOk(r, m)
        <5>1. F[m] = <<Frame(r, m, off + m)>> \o F[m + TotalAt(r, m)]
          BY <2>2, <2>4, <3>7, <4>3 DEF Here
        <5>2. G[off + m] = <<Frame(s, off + m, 0 + (off + m))>>
                             \o G[(off + m) + TotalAt(s, off + m)]
          BY <2>1, <2>2, <2>4, <3>2, <3>7, <4>1, <4>3 DEF Here
        <5> QED
          BY <3>4, <3>7, <5>1, <5>2
      <4> QED
        BY <4>2, <4>3
    <3> QED
      BY <3>5, <3>6, <3>7
  <2> QED
    BY <2>3, <2>4
<1> HIDE DEF F, G
<1>3. T = {}
  <2> SUFFICES ASSUME T # {} PROVE FALSE
    OBVIOUS
  <2>1. PICK m \in T : \A y \in T : y <= m
    BY <1>1, Greatest
  <2>2. ASSUME NEW j \in m + 1 .. n PROVE F[j] = G[off + j]
    <3>1. j \in 1 .. n /\ j > m /\ m \in Nat
      BY <1>1, <2>1
    <3> QED
      BY <2>1, <3>1
  <2> QED
    BY <1>2, <2>1, <2>2
<1> QED
  BY <1>3 DEF F, G

-----------------------------------------------------------------------------
(* However the bytes are cut into chunks, the same frames are found.       *)

Gone == upto - Len(rx)
Prefix(m) == SubSeq(stream, 1, m)

\* What the reference finds, in the first m bytes, from place k on.
Rest(k, m) == Found(Prefix(m), 0)[k]

\* Whatever follows, the frames returned and those of what is still in rx are
\* together those found since the link was opened.  Between two reads rx has none.
DecodeInv ==
  /\ \A m \in upto .. Len(stream) : out \o Rest(Gone + 1, m) = Rest(from + 1, m)
  /\ pc = "run" => Rest(Gone + 1, upto) = <<>>

LEMMA PrefixFacts ==
  ASSUME ParserInv, NEW m \in upto .. Len(stream)
  PROVE  /\ Prefix(m) \in Seq(Byte) /\ Len(Prefix(m)) = m /\ m \in Nat
         /\ Gone \in Nat /\ Gone >= from /\ Gone + Len(rx) = upto /\ Gone + Len(rx) <= m
         /\ \A i \in 1 .. Len(rx) : rx[i] = Prefix(m)[Gone + i]
<1>1. /\ stream \in Seq(Byte) /\ Len(stream) \in Nat
      /\ upto \in Nat /\ from \in Nat /\ upto <= Len(stream) /\ Len(rx) \in Nat
      /\ Len(rx) <= upto - from
  BY Counts DEF ParserInv, Suffix
<1>2. Gone \in Nat /\ Gone >= from /\ Gone + Len(rx) = upto /\ Gone + Len(rx) <= m /\ m \in Nat
  BY <1>1 DEF Gone
<1>3. /\ Prefix(m) \in Seq(Byte)
      /\ Len(Prefix(m)) = IF 1 <= m THEN m - 1 + 1 ELSE 0
      /\ \A i \in 1 .. m - 1 + 1 : Prefix(m)[i] = stream[1 + i - 1]
  BY <1>1, <1>2, SliceFacts DEF Prefix
<1>4. ASSUME NEW i \in 1 .. Len(rx) PROVE rx[i] = Prefix(m)[Gone + i]
  <2>1. Gone + i \in 1 .. m - 1 + 1 /\ 1 + (Gone + i) - 1 = Gone + i
    BY <1>1, <1>2
  <2>2. rx[i] = stream[Gone + i]
    BY DEF ParserInv, Suffix, Gone
  <2> QED
    BY <1>3, <2>1, <2>2
<1> QED
  BY <1>2, <1>3, <1>4

\* The bytes of rx before the first start of frame may be skipped.
LEMMA RestFind ==
  ASSUME ParserInv, NEW m \in upto .. Len(stream), NEW i \in 1 .. Len(rx),
         \A j \in 1 .. i - 1 : ~SofAt(rx, j)
  PROVE  Rest(Gone + 1, m) = Rest(Gone + i, m)
<1> DEFINE s == Prefix(m)
<1>1. /\ s \in Seq(Byte) /\ Len(s) = m /\ m \in Nat
      /\ Gone \in Nat /\ Gone + Len(rx) <= Len(s)
      /\ \A j \in 1 .. Len(rx) : rx[j] = s[Gone + j]
      /\ rx \in Seq(Byte) /\ Len(rx) \in Nat
  BY PrefixFacts, Counts DEF ParserInv
<1> HIDE DEF s
<1>2. ASSUME NEW k \in Gone + 1 .. Gone + i - 1 PROVE ~SofAt(s, k)
  <2>1. /\ k - Gone \in 1 .. i - 1 /\ k - Gone \in 1 .. Len(rx)
        /\ (k - Gone) + 1 <= Len(rx) /\ Gone + (k - Gone) = k
    BY <1>1
  <2>2. SofAt(rx, k - Gone) <=> SofAt(s, Gone + (k - Gone))
    BY <1>1, <2>1, SofShift
  <2> QED
    BY <2>1, <2>2
<1>3. Gone + i \in 1 .. Len(s) + 1 /\ Gone + 1 \in 1 .. Gone + i
  BY <1>1
<1>4. Found(s, 0)[Gone + 1] = Found(s, 0)[Gone + i]
  <2> DEFINE k == Gone + 1
             l == Gone + i
  <2>1. l \in 1 .. Len(s) + 1 /\ k \in 1 .. l
    BY <1>3
  <2>2. ASSUME NEW j \in k .. l - 1 PROVE ~SofAt(s, j)
    <3>1. j \in Gone + 1 .. Gone + i - 1
      BY <1>1
    <3> QED
      BY <1>2, <3>1
  <2> HIDE DEF k, l
  <2>3. Found(s, 0)[k] = Found(s, 0)[l]
    BY <1>1, <2>1, <2>2, FoundSkip
  <2> QED
    BY <2>3 DEF k, l
<1> QED
  BY <1>4 DEF Rest, s

\* The first n bytes of rx are dropped and hold no frame.
LEMMA DropFindsNone ==
  ASSUME ParserInv, DecodeInv, NEW n \in 0 .. Len(rx), rx' = Drop(n),
         UNCHANGED <<stream, upto, from, out>>,
         \A m \in upto .. Len(stream) : Rest(Gone + 1, m) = Rest(Gone + n + 1, m),
         pc' = "run" => Rest(Gone + n + 1, upto) = <<>>
  PROVE  DecodeInv'
<1>1. upto \in Nat /\ Len(rx) \in Nat /\ rx \in Seq(Byte)
  BY Counts DEF ParserInv
<1>2. Len(rx') = Len(rx) - n
  BY <1>1, DropFacts
<1>3. Gone' + 1 = Gone + n + 1
  BY <1>1, <1>2 DEF Gone
<1>4. \A k, m : Rest(k, m)' = Rest(k, m)
  BY DEF Rest, Prefix
<1>5. ASSUME NEW m \in upto .. Len(stream) PROVE out \o Rest(Gone' + 1, m) = Rest(from + 1, m)
  BY <1>3 DEF DecodeInv
<1> QED
  BY <1>3, <1>4, <1>5 DEF DecodeInv

LEMMA NoSofKeepsDecode ==
  ASSUME ParserInv, DecodeInv, NoSof
  PROVE  DecodeInv'
<1> DEFINE n == IF Len(rx) > 1 THEN Len(rx) - 1 ELSE 0
           s == Prefix(upto)
<1>1. /\ rx \in Seq(Byte) /\ Len(rx) \in Nat /\ DOMAIN rx = 1 .. Len(rx)
      /\ upto \in Nat /\ upto \in upto .. Len(stream)
  BY Counts DEF ParserInv
<1>2. /\ s \in Seq(Byte) /\ Len(s) = upto /\ Gone \in Nat /\ Gone + Len(rx) = Len(s)
      /\ \A i \in 1 .. Len(rx) : rx[i] = s[Gone + i]
  BY <1>1, PrefixFacts
<1>3. n \in 0 .. Len(rx) /\ (Len(rx) = 0 => n = 0) /\ (Len(rx) # 0 => n + 1 = Len(rx))
  BY <1>1
<1>4. rx' = Drop(n)
  <2>1. Drop(0) = rx
    BY <1>1, SubSeqFull DEF Drop
  <2> QED
    BY <2>1 DEF NoSof
<1> HIDE DEF n, s
<1>5. ASSUME NEW m \in upto .. Len(stream) PROVE Rest(Gone + 1, m) = Rest(Gone + n + 1, m)
  <2>1. CASE Len(rx) = 0
    BY <1>2, <1>3, <2>1
  <2>2. CASE Len(rx) # 0
    <3>1. Gone + n + 1 = Gone + Len(rx) /\ Len(rx) \in 1 .. Len(rx)
      BY <1>1, <1>2, <1>3, <2>2
    <3>2. \A j \in 1 .. Len(rx) - 1 : ~SofAt(rx, j)
      BY <1>1 DEF NoSof
    <3> QED
      BY <3>1, <3>2, RestFind
  <2> QED
    BY <2>1, <2>2
<1>6. Rest(Gone + n + 1, upto) = <<>>
  <2>1. Found(s, 0)[upto + 1] = <<>>
    <3>1. upto + 1 \in 1 .. Len(s) + 1 /\ upto + 1 > Len(s)
      BY <1>1, <1>2
    <3> QED
      BY <1>2, <3>1, FoundIs DEF Here
  <2>2. CASE Len(rx) = 0
    <3>1. Gone + n + 1 = upto + 1
      BY <1>2, <1>3, <2>2
    <3> QED
      BY <2>1, <3>1 DEF Rest, s
  <2>3. CASE Len(rx) # 0
    <3>1. Gone + n + 1 = upto /\ upto \in 1 .. Len(s) + 1 /\ ~(upto > Len(s))
      BY <1>1, <1>2, <1>3, <2>3
    <3>2. ~SofAt(s, upto)
      <4>1. Len(rx) \in 1 .. Len(rx) /\ ~SofAt(rx, Len(rx)) /\ Gone + Len(rx) = upto
        BY <1>1, <1>2, <2>3 DEF NoSof
      <4> QED
        BY <1>1, <1>2, <4>1, HereSame
    <3>3. Found(s, 0)[upto] = Found(s, 0)[upto + 1]
      BY <1>2, <3>1, <3>2, FoundIs DEF Here
    <3> QED
      BY <2>1, <3>1, <3>3 DEF Rest, s
  <2> QED
    BY <2>2, <2>3
<1> QED
  BY <1>3, <1>4, <1>5, <1>6, DropFindsNone DEF NoSof

\* What has begun and is not whole hides what follows.
LEMMA WaitKeepsDecode ==
  ASSUME ParserInv, DecodeInv, Wait
  PROVE  DecodeInv'
<1> DEFINE s == Prefix(upto)
<1>1. /\ rx \in Seq(Byte) /\ Len(rx) \in Nat /\ DOMAIN rx = 1 .. Len(rx)
      /\ upto \in Nat /\ upto \in upto .. Len(stream)
  BY Counts DEF ParserInv
<1>2. /\ s \in Seq(Byte) /\ Len(s) = upto /\ Gone \in Nat /\ Gone + Len(rx) = Len(s)
      /\ \A i \in 1 .. Len(rx) : rx[i] = s[Gone + i]
  BY <1>1, PrefixFacts
<1>3. PICK i \in DOMAIN rx :
        Find(i) /\ ~TooLong(rx, i) /\ ~Whole(rx, i) /\ rx' = Drop(i - 1)
  BY DEF Wait
<1> HIDE DEF s
<1>4. i \in 1 .. Len(rx) /\ i - 1 \in 0 .. Len(rx) /\ Gone + (i - 1) + 1 = Gone + i
  BY <1>1, <1>2, <1>3
<1>5. \A m \in upto .. Len(stream) : Rest(Gone + 1, m) = Rest(Gone + (i - 1) + 1, m)
  BY <1>3, <1>4, RestFind DEF Find
<1>6. Rest(Gone + (i - 1) + 1, upto) = <<>>
  <2>1. Gone + i \in 1 .. Len(s) + 1 /\ ~(Gone + i > Len(s))
    BY <1>1, <1>2, <1>4
  <2>2. SofAt(s, Gone + i) /\ ~TooLong(s, Gone + i) /\ ~Whole(s, Gone + i)
    BY <1>1, <1>2, <1>3, <1>4, HereSame DEF Find
  <2>3. Found(s, 0)[Gone + i] = <<>>
    BY <1>2, <2>1, <2>2, FoundIs DEF Here
  <2> QED
    BY <1>4, <2>3 DEF Rest, s
<1> QED
  BY <1>3, <1>4, <1>5, <1>6, DropFindsNone DEF Wait

LEMMA SkipKeepsDecode ==
  ASSUME ParserInv, DecodeInv, Skip
  PROVE  DecodeInv'
<1>1. /\ rx \in Seq(Byte) /\ Len(rx) \in Nat /\ DOMAIN rx = 1 .. Len(rx)
      /\ Gone \in Nat /\ MaxLen \in Nat /\ upto \in Nat
  <2>1. upto \in upto .. Len(stream)
    BY Counts DEF ParserInv
  <2> QED
    BY <2>1, Counts, PrefixFacts DEF ParserInv
<1>2. PICK i \in DOMAIN rx :
        /\ Find(i) /\ rx' = Drop(i)
        /\ TooLong(rx, i) \/ (Whole(rx, i) /\ ~CrcOk(rx, i))
  BY DEF Skip
<1>3. i \in 1 .. Len(rx) /\ i \in 0 .. Len(rx)
  BY <1>1, <1>2
<1>4. ASSUME NEW m \in upto .. Len(stream) PROVE Rest(Gone + 1, m) = Rest(Gone + i + 1, m)
  <2> DEFINE s == Prefix(m)
  <2>1. /\ s \in Seq(Byte) /\ Len(s) = m /\ m \in Nat /\ Gone + Len(rx) <= Len(s)
        /\ \A j \in 1 .. Len(rx) : rx[j] = s[Gone + j]
    BY PrefixFacts
  <2>2. Rest(Gone + 1, m) = Rest(Gone + i, m)
    BY <1>2, <1>3, RestFind DEF Find
  <2> HIDE DEF s
  <2>3. Gone + i \in 1 .. Len(s) + 1 /\ ~(Gone + i > Len(s))
    BY <1>1, <1>3, <2>1
  <2>4. TooLong(s, Gone + i) \/ (~TooLong(s, Gone + i) /\ Whole(s, Gone + i) /\ ~CrcOk(s, Gone + i))
    <3>1. CASE TooLong(rx, i)
      <4>1. LenAt(s, Gone + i) = LenAt(rx, i)
        BY <1>1, <1>3, <2>1, <3>1, LenShift DEF TooLong
      <4>2. Left(s, Gone + i) >= Overhead
        BY <1>1, <1>3, <2>1, <3>1 DEF TooLong, Left, Overhead
      <4> QED
        BY <3>1, <4>1, <4>2 DEF TooLong
    <3>2. CASE Whole(rx, i) /\ ~CrcOk(rx, i)
      <4>1. Whole(s, Gone + i) /\ ~CrcOk(s, Gone + i)
        BY <1>1, <1>2, <1>3, <2>1, <3>2, FrameShift DEF Find
      <4>2. LenAt(s, Gone + i) \in Nat
        <5>1. Gone + i \in Nat \ {0}
          BY <2>3
        <5> QED
          BY <2>1, <4>1, <5>1, LenNat DEF Whole
      <4>3. ~TooLong(s, Gone + i)
        BY <1>1, <4>1, <4>2 DEF TooLong, Whole
      <4> QED
        BY <4>1, <4>3
    <3> QED
      BY <1>2, <3>1, <3>2
  <2>5. Found(s, 0)[Gone + i] = Found(s, 0)[Gone + i + 1]
    BY <2>1, <2>3, <2>4, FoundIs DEF Here
  <2> QED
    BY <2>2, <2>5 DEF Rest, s
<1>5. pc' # "run"
  BY DEF Skip
<1>6. UNCHANGED <<stream, upto, from, out>>
  BY DEF Skip
<1> QED
  BY <1>2, <1>3, <1>4, <1>5, <1>6, DropFindsNone

\* The frame that is returned is the one that the reference finds next.
LEMMA AcceptKeepsDecode ==
  ASSUME ParserInv, DecodeInv, Accept
  PROVE  DecodeInv'
<1>1. /\ rx \in Seq(Byte) /\ Len(rx) \in Nat /\ DOMAIN rx = 1 .. Len(rx)
      /\ Gone \in Nat /\ Gone >= from /\ Gone + Len(rx) = upto /\ from \in Nat
      /\ MaxLen \in Nat /\ upto \in Nat /\ out \in Seq(Frames)
  <2>1. upto \in upto .. Len(stream)
    BY Counts DEF ParserInv
  <2> QED
    BY <2>1, Counts, PrefixFacts DEF ParserInv, TypeOK, Frames
<1>2. PICK i \in DOMAIN rx :
        /\ Find(i) /\ Whole(rx, i) /\ CrcOk(rx, i)
        /\ out' = Append(out, Frame(rx, i, Gone + i))
        /\ rx' = Drop(i - 1 + TotalAt(rx, i))
  BY DEF Accept, Gone
<1> DEFINE T == TotalAt(rx, i)
           f == Frame(rx, i, Gone + i)
<1>3. i \in 1 .. Len(rx) /\ i \in Nat \ {0} /\ SofAt(rx, i)
  BY <1>1, <1>2 DEF Find
<1>4. T \in Nat /\ i - 1 + T \in 0 .. Len(rx)
  <2>1. LenAt(rx, i) \in Nat
    BY <1>1, <1>2, <1>3, LenNat DEF Whole
  <2> QED
    BY <1>1, <1>2, <1>3, <2>1 DEF Whole, TotalAt, Left, Overhead
<1>5. f \in Frames
  <2>1. Gone + i \in Nat
    BY <1>1, <1>3
  <2> QED
    BY <1>1, <1>2, <1>3, <2>1, FrameType DEF Frames
<1>6. out' = Append(out, f) /\ rx' = Drop(i - 1 + T)
  BY <1>2
<1> HIDE DEF T, f
<1>7. Gone' + 1 = Gone + i + T
  <2>1. Len(rx') = Len(rx) - (i - 1 + T)
    BY <1>1, <1>4, <1>6, DropFacts
  <2>2. upto' = upto
    BY DEF Accept
  <2> QED
    BY <1>1, <1>3, <1>4, <2>1, <2>2 DEF Gone
<1>8. ASSUME NEW m \in upto .. Len(stream)
      PROVE  out' \o Rest(Gone + i + T, m) = Rest(from + 1, m)
  <2> DEFINE s == Prefix(m)
             X == Found(s, 0)[Gone + i + T]
  <2>1. /\ s \in Seq(Byte) /\ Len(s) = m /\ m \in Nat /\ Gone + Len(rx) <= Len(s)
        /\ \A j \in 1 .. Len(rx) : rx[j] = s[Gone + j]
    BY PrefixFacts
  <2>2. Rest(Gone + 1, m) = Rest(Gone + i, m)
    BY <1>2, <1>3, RestFind DEF Find
  <2> HIDE DEF s
  <2>3. Gone + i \in 1 .. Len(s) + 1 /\ ~(Gone + i > Len(s)) /\ Gone + i \in Nat \ {0}
    BY <1>1, <1>3, <2>1
  <2>4. /\ SofAt(s, Gone + i) /\ Whole(s, Gone + i) /\ CrcOk(s, Gone + i)
        /\ TotalAt(s, Gone + i) = T /\ f = Frame(s, Gone + i, Gone + i)
    BY <1>1, <1>2, <1>3, <2>1, FrameShift DEF T, f
  <2>5. ~TooLong(s, Gone + i)
    <3>1. LenAt(s, Gone + i) \in Nat
      BY <2>1, <2>3, <2>4, LenNat DEF Whole
    <3> QED
      BY <1>1, <2>4, <3>1 DEF TooLong, Whole
  <2>6. Found(s, 0)[Gone + i] = <<f>> \o X
    <3>1. Found(s, 0)[Gone + i] = <<Frame(s, Gone + i, 0 + (Gone + i))>>
                                    \o Found(s, 0)[Gone + i + TotalAt(s, Gone + i)]
      BY <2>1, <2>3, <2>4, <2>5, FoundIs DEF Here
    <3>2. 0 + (Gone + i) = Gone + i
      BY <2>3
    <3> QED
      BY <2>4, <3>1, <3>2
  <2>7. X \in Seq(Frames)
    <3>1. Gone + i + T \in 1 .. Len(s) + 1
      BY <1>1, <1>3, <1>4, <2>1
    <3> QED
      BY <2>1, <3>1, FoundType
  <2>8. out \o (<<f>> \o X) = Append(out, f) \o X
    <3> HIDE DEF X
    <3>1. Append(out, f) = out \o <<f>>
      BY <1>1, <1>5, AppendIsConcat
    <3>2. <<f>> \in Seq(Frames)
      BY <1>5
    <3>3. (out \o <<f>>) \o X = out \o (<<f>> \o X)
      BY <1>1, <2>7, <3>2, ConcatAssociative
    <3> QED
      BY <3>1, <3>3
  <2>9. out \o Rest(Gone + 1, m) = Rest(from + 1, m)
    BY DEF DecodeInv
  <2> QED
    BY <1>6, <2>2, <2>6, <2>8, <2>9 DEF Rest, s
<1>9. \A k, m : Rest(k, m)' = Rest(k, m)
  BY DEF Rest, Prefix, Accept
<1>10. upto' = upto /\ stream' = stream /\ from' = from /\ pc' # "run"
  BY DEF Accept
<1> QED
  BY <1>7, <1>8, <1>9, <1>10 DEF DecodeInv

\* What is read next adds to rx and changes neither what was returned nor
\* where rx begins.
LEMMA FeedKeepsDecode ==
  ASSUME ParserInv, DecodeInv, Feed
  PROVE  DecodeInv'
<1>1. Gone' = Gone /\ UNCHANGED <<stream, from, out>> /\ pc' # "run"
  BY FeedStep DEF Feed, Gone
<1>2. \A m \in upto' .. Len(stream) : m \in upto .. Len(stream)
  <2>1. PICK n \in Reads : upto' = upto + n
    BY DEF Feed
  <2>2. n \in Nat /\ upto \in Nat /\ Len(stream) \in Nat
    BY FrameAssumption, Counts DEF ParserInv
  <2> QED
    BY <2>1, <2>2
<1>3. \A k, m : Rest(k, m)' = Rest(k, m)
  BY <1>1 DEF Rest, Prefix
<1> QED
  BY <1>1, <1>2, <1>3 DEF DecodeInv

\* A new parser has found nothing in nothing.
LEMMA NewParser ==
  ASSUME TypeOK, from = upto, rx = <<>>, out = <<>>
  PROVE  DecodeInv
<1>1. /\ stream \in Seq(Byte) /\ Len(stream) \in Nat
      /\ upto \in Nat /\ upto <= Len(stream)
  BY Counts
<1>2. Gone + 1 = from + 1
  <2>1. Len(rx) = 0
    BY EmptySeq
  <2> QED
    BY <1>1, <2>1 DEF Gone
<1>3. ASSUME NEW m \in upto .. Len(stream)
      PROVE  /\ m \in Nat /\ Prefix(m) \in Seq(Byte) /\ Len(Prefix(m)) = m
             /\ upto + 1 \in 1 .. Len(Prefix(m)) + 1
  <2>1. m \in Nat /\ m <= Len(stream)
    BY <1>1
  <2>2. /\ Prefix(m) \in Seq(Byte)
        /\ Len(Prefix(m)) = IF 1 <= m THEN m - 1 + 1 ELSE 0
    BY <1>1, <2>1, SliceFacts DEF Prefix
  <2> QED
    BY <1>1, <2>1, <2>2
<1>4. ASSUME NEW m \in upto .. Len(stream)
      PROVE  out \o Rest(from + 1, m) = Rest(from + 1, m)
  <2>1. Rest(upto + 1, m) \in Seq(Frames)
    BY <1>3, FoundType DEF Rest
  <2> QED
    BY <2>1, ConcatEmptySeq
<1>5. Rest(from + 1, upto) = <<>>
  <2>1. upto \in upto .. Len(stream)
    BY <1>1
  <2>2. upto + 1 \in 1 .. Len(Prefix(upto)) + 1 /\ upto + 1 > Len(Prefix(upto))
    BY <1>1, <1>3, <2>1
  <2>3. Found(Prefix(upto), 0)[upto + 1] = <<>>
    BY <1>3, <2>1, <2>2, FoundIs DEF Here
  <2> QED
    BY <2>3 DEF Rest
<1> QED
  BY <1>2, <1>4, <1>5 DEF DecodeInv

LEMMA DecodeStep == ParserInv /\ DecodeInv /\ [Next]_vars => DecodeInv'
<1> SUFFICES ASSUME ParserInv, DecodeInv, [Next]_vars PROVE DecodeInv'
  OBVIOUS
<1>1. CASE Reopen
  <2>1. TypeOK'
    BY <1>1, ReopenStep DEF ParserInv
  <2>2. (from = upto /\ rx = <<>> /\ out = <<>>)'
    BY <1>1 DEF Reopen
  <2>3. (TypeOK /\ from = upto /\ rx = <<>> /\ out = <<>> => DecodeInv)'
    BY NewParser, PTL
  <2> QED
    BY <2>1, <2>2, <2>3
<1>2. CASE UNCHANGED vars
  BY <1>2 DEF vars, DecodeInv, Rest, Prefix, Gone
<1> QED
  BY <1>1, <1>2, FeedKeepsDecode, NoSofKeepsDecode, WaitKeepsDecode, SkipKeepsDecode,
     AcceptKeepsDecode DEF Next, Loop

-----------------------------------------------------------------------------
\* Between two reads the parser keeps less than the longest frame, whatever
\* length a damaged frame claims (feed of server/dice_protocol.py).
THEOREM ParserTypes == Spec => []TypeOK
<1>1. ParserInv => TypeOK
  BY DEF ParserInv
<1> QED
  BY <1>1, ParserInvariant, PTL

\* feed invents nothing: each frame it has returned since the link was opened
\* lies in the bytes read since then, with a good CRC, and no two of them share
\* a byte.
THEOREM FramesAreReal == Spec => [](AllGenuine /\ Apart)
<1>1. ParserInv => AllGenuine /\ Apart
  BY DEF ParserInv
<1> QED
  BY <1>1, ParserInvariant, PTL

\* Noise that looks like a start of frame delays an intact frame but does not
\* lose it: at the latest when the longest frame that begins there would have
\* ended, it has been returned, or bytes of it were part of a frame that was.
THEOREM NoIntactFrameLost == Spec => []IntactFramesFound
<1>1. Init => NoneLost
  <2> SUFFICES ASSUME Init PROVE NoneLost
    OBVIOUS
  <2>1. from + 1 .. upto - Len(rx) = {}
    BY EmptySeq DEF Init
  <2> QED
    BY <2>1 DEF NoneLost
<1>2. ParserInv /\ NoneLost => IntactFramesFound
  <2> SUFFICES ASSUME ParserInv, NoneLost, pc = "run",
                      NEW k \in from + 1 .. upto - Overhead - MaxLen + 1, Intact(stream, k)
               PROVE  \E j \in DOMAIN out : Covers(out[j], k)
    BY DEF IntactFramesFound, Covers, Intact
  <2>1. Len(rx) < Overhead + MaxLen
    BY DEF ParserInv, TypeOK
  <2>2. k \in from + 1 .. upto - Len(rx)
    BY <2>1, Counts DEF ParserInv, Overhead
  <2> QED
    BY <2>2 DEF NoneLost
<1> QED
  BY <1>1, <1>2, NoneLostStep, ParserInvariant, PTL DEF Spec

\* Between two reads the frames returned since the link was opened are those
\* that the reference finds in the bytes read since then, if it gets them all
\* at once: however ser.read cuts them into chunks, and whatever lies between.
THEOREM ChunksTheorem == Spec => []ChunksDoNotMatter
<1>1. Init => DecodeInv
  <2> SUFFICES ASSUME Init PROVE DecodeInv
    OBVIOUS
  <2>1. TypeOK
    BY ParserInit DEF ParserInv
  <2> QED
    BY <2>1, NewParser DEF Init
<1>2. ParserInv /\ DecodeInv => ChunksDoNotMatter
  <2> SUFFICES ASSUME ParserInv, DecodeInv, pc = "run"
               PROVE  out = Decode(SubSeq(stream, from + 1, upto), from)
    BY DEF ChunksDoNotMatter
  <2> DEFINE r == SubSeq(stream, from + 1, upto)
             s == Prefix(upto)
  <2>1. /\ stream \in Seq(Byte) /\ Len(stream) \in Nat /\ upto \in Nat /\ from \in Nat
        /\ from <= upto /\ upto <= Len(stream) /\ upto \in upto .. Len(stream)
        /\ out \in Seq(Frames)
    BY Counts DEF ParserInv, TypeOK, Frames
  <2>2. s \in Seq(Byte) /\ Len(s) = upto
    BY <2>1, PrefixFacts
  <2>3. /\ r \in Seq(Byte) /\ from + Len(r) = Len(s) /\ Len(r) \in Nat
        /\ \A i \in 1 .. Len(r) : r[i] = s[from + i]
    <3>1. /\ r \in Seq(Byte)
          /\ Len(r) = IF from + 1 <= upto THEN upto - (from + 1) + 1 ELSE 0
          /\ \A i \in 1 .. upto - (from + 1) + 1 : r[i] = stream[from + 1 + i - 1]
      BY <2>1, SliceFacts
    <3>2. \A i \in 1 .. upto - 1 + 1 : s[i] = stream[1 + i - 1]
      BY <2>1, SliceFacts DEF Prefix
    <3> HIDE DEF r, s
    <3>3. Len(r) = upto - from
      BY <2>1, <3>1
    <3>4. ASSUME NEW i \in 1 .. Len(r) PROVE r[i] = s[from + i]
      <4>1. /\ i \in 1 .. upto - (from + 1) + 1 /\ from + i \in 1 .. upto - 1 + 1
            /\ from + 1 + i - 1 = from + i /\ 1 + (from + i) - 1 = from + i
        BY <2>1, <3>3
      <4> QED
        BY <3>1, <3>2, <4>1
    <3> QED
      BY <2>1, <2>2, <3>1, <3>3, <3>4
  <2> HIDE DEF r, s
  <2>4. Found(r, from)[1] = Found(s, 0)[from + 1]
    <3>1. 1 \in 1 .. Len(r) + 1
      BY <2>3
    <3> QED
      BY <2>1, <2>2, <2>3, <3>1, FoundShift
  <2>5. out \o Rest(Gone + 1, upto) = Rest(from + 1, upto) /\ Rest(Gone + 1, upto) = <<>>
    BY <2>1 DEF DecodeInv
  <2>6. out \o <<>> = out
    BY <2>1, ConcatEmptySeq
  <2> QED
    BY <2>4, <2>5, <2>6 DEF Decode, Rest, r, s
<1> QED
  BY <1>1, <1>2, DecodeStep, ParserInvariant, PTL DEF Spec
=============================================================================
