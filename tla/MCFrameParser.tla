---------------------------- MODULE MCFrameParser ----------------------------
(* Bytes of four values, two of which are the SOF, so that types, numbers, *)
(* lengths, payloads and checksums contain it; payloads of at most 2.      *)
EXTENDS FrameParser

MCSOF == <<2, 3>>

\* A checksum that tells where the bytes stand, and that noise may hit.
MCCrc(s) ==
  LET place[i \in 0 .. Len(s)] == IF i = 0 THEN 1 ELSE (2 * place[i - 1] + s[i]) % 4
      sum[i \in 0 .. Len(s)] == IF i = 0 THEN 3 ELSE (sum[i - 1] + s[i]) % 4
  IN  <<place[Len(s)], sum[Len(s)]>>

Intact == {Encode(1, 0, <<>>), Encode(0, 2, <<2, 3>>), Encode(3, 1, <<0>>)}

\* Frames that were cut off, or have a byte changed; a few bytes of noise.
CutOff == UNION {{SubSeq(f, 1, n) : n \in 1 .. Len(f) - 1} : f \in Intact}
Changed == {[f EXCEPT ![i] = b] : f \in Intact, i \in {2, 5, 6, 8}, b \in Byte}
Noise == {<<>>} \cup {<<b>> : b \in Byte} \cup {<<2, 2>>, <<2, 3>>, <<3, 2>>}

MCStreams == {a \o b \o c : a \in Noise \cup CutOff \cup Changed, b \in Intact,
                            c \in {<<>>, <<2>>, <<2, 3>>, <<0, 2>>}}
=============================================================================
