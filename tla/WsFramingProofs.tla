--------------------------- MODULE WsFramingProofs ---------------------------
(***************************************************************************)
(* Theorems about WsFraming, for replies of any bytes and any number of    *)
(* chunks, any limit, and messages and frames of any size.                 *)
(***************************************************************************)
EXTENDS WsFraming, SequenceTheorems, WellFoundedInduction, TLAPS

-----------------------------------------------------------------------------
(* Cutting bytes *)

LEMMA LeastType ==
  ASSUME NEW a \in Int, NEW b \in Int
  PROVE  Least(a, b) \in Int /\ Least(a, b) <= a /\ Least(a, b) <= b /\ Least(a, b) \in {a, b}
BY DEF Least

LEMMA FirstType ==
  ASSUME NEW s \in Seq(Bytes), NEW n \in 0 .. Len(s)
  PROVE  First(s, n) \in Seq(Bytes) /\ Len(First(s, n)) = n
<1>1. Len(s) \in Nat /\ \A i \in 1 .. Len(s) : s[i] \in Bytes
  BY LenProperties
<1>2. \A i \in 1 .. n : s[i] \in Bytes
  BY <1>1
<1> QED BY <1>1, <1>2, SubSeqProperties DEF First

LEMMA FromType ==
  ASSUME NEW s \in Seq(Bytes), NEW n \in Nat \ {0}
  PROVE  From(s, n) \in Seq(Bytes)
<1>1. Len(s) \in Nat /\ \A i \in 1 .. Len(s) : s[i] \in Bytes
  BY LenProperties
<1>2. \A i \in n .. Len(s) : s[i] \in Bytes
  BY <1>1
<1> QED BY <1>1, <1>2, SubSeqProperties DEF From

(* Where there is a line end there is a first one. *)
LEMMA LineEndType ==
  ASSUME NEW s \in Seq(Bytes), Ends(s) # {}
  PROVE  /\ LineEnd(s) \in Ends(s) /\ LineEnd(s) \in 1 .. Len(s)
         /\ \A j \in Ends(s) : LineEnd(s) <= j
<1> DEFINE R == OpToRel(<, Nat)
<1>1. Len(s) \in Nat
  BY LenProperties
<1>2. Ends(s) \subseteq Nat /\ Ends(s) \subseteq 1 .. Len(s)
  BY <1>1 DEF Ends
<1>3. IsWellFoundedOn(R, Nat)
  BY NatLessThanWellFounded
<1>4. \A x, y \in Nat : y < x => <<y, x>> \in R
  BY DEF OpToRel
<1> HIDE DEF R
<1>5. PICK x \in Ends(s) : \A y \in Ends(s) : ~ (<<y, x>> \in R)
  BY <1>2, <1>3, WFMin
<1>6. \A y \in Ends(s) : x <= y
  <2>1. SUFFICES ASSUME NEW y \in Ends(s), y < x PROVE FALSE
    BY <1>2
  <2> QED BY <2>1, <1>2, <1>4, <1>5
<1> QED BY <1>2, <1>6 DEF LineEnd

LEMMA BehindType ==
  ASSUME NEW s \in Seq(Bytes), ChunkSize(s) # -1
  PROVE  Behind(s) \in Seq(Bytes)
<1>1. Ends(s) # {}
  BY DEF ChunkSize
<1>2. LineEnd(s) + 2 \in Nat \ {0}
  BY <1>1, LineEndType, LenProperties
<1> QED BY <1>2, FromType DEF Behind

LEMMA ChunkSizeType == \A s \in Seq(Bytes) : ChunkSize(s) \in -1 .. 2
BY DEF ChunkSize, SizeIn

-----------------------------------------------------------------------------
(* The invariant: types, and a body within the limit.  Each needs the      *)
(* other, since limit - Len(decoded) is how much more may be taken.        *)

(* Bytes are only cut off the capture, a message is framed to its length.  *)
Inv == TypeOK /\ Bounded /\ (verdict = "none" => decoded = <<>>)

LEMMA InvInit == Init => Inv
<1> SUFFICES ASSUME Init PROVE Inv
  OBVIOUS
<1>1. reply \in Reply
  <2>1. NoReply \in Reply
    BY EmptySeq DEF NoReply, Reply
  <2> QED BY <2>1, FramingAssumption DEF Init
<1>2. decoded \in Seq(Bytes) /\ Len(decoded) = 0 /\ frames \in Seq(Frame)
  BY EmptySeq DEF Init
<1>5. remaining \in Seq(Bytes)
  BY <1>1 DEF Init, Reply
<1>3. CASE verdict = "running"
  <2>1. limit \in Limits /\ length = 0 /\ size = 1
    BY <1>3 DEF Init
  <2>2. limit \in Nat
    BY <2>1, FramingAssumption
  <2> QED BY <1>1, <1>2, <1>3, <2>1, <2>2, <1>5 DEF Inv, TypeOK, Bounded, Init
<1>4. CASE verdict = "none"
  <2>1. limit = 0 /\ length \in Lengths /\ size \in FrameSizes
    BY <1>4 DEF Init
  <2>2. length \in Nat /\ size \in Nat \ {0}
    BY <2>1, FramingAssumption
  <2> QED BY <1>1, <1>2, <1>4, <2>1, <2>2, <1>5 DEF Inv, TypeOK, Bounded, Init
<1> QED BY <1>3, <1>4 DEF Init

(* What a step on a reply leaves as it was. *)
LEMMA AtKeeps ==
  ASSUME Inv, NEW f, At(f), decoded' \in Seq(Bytes), Len(decoded') <= limit,
         remaining' \in Seq(Bytes), verdict' \in {"running", "complete", "truncated"}
  PROVE  Inv'
BY DEF Inv, TypeOK, Bounded, At, messageVars

LEMMA PlainKeeps == ASSUME Inv, Plain PROVE Inv'
<1> DEFINE announced == IF reply.framing = "length" THEN reply.expected ELSE Len(remaining)
           take == Least(Least(Len(remaining), announced), limit)
<1>1. remaining \in Seq(Bytes) /\ limit \in Nat /\ announced \in Nat /\ Len(remaining) \in Nat
  BY LenProperties, FramingAssumption DEF Inv, TypeOK, Reply
<1>2. take \in 0 .. Len(remaining) /\ take <= limit
  BY <1>1 DEF Least
<1>3. decoded' = First(remaining, take) /\ remaining' = remaining
  BY DEF Plain
<1>4. decoded' \in Seq(Bytes) /\ Len(decoded') <= limit
  BY <1>1, <1>2, <1>3, FirstType
<1>5. verdict' \in {"complete", "truncated"}
  BY DEF Plain, Complete, Conclude
<1>6. PICK f \in {"none", "length"} : At(f)
  BY DEF Plain
<1> QED BY <1>1, <1>3, <1>4, <1>5, <1>6, AtKeeps

LEMMA ChunkKeeps == ASSUME Inv, Chunk PROVE Inv'
<1> DEFINE n == ChunkSize(remaining)
           s == Behind(remaining)
           take == Take(n, s)
<1>1. /\ remaining \in Seq(Bytes) /\ decoded \in Seq(Bytes) /\ limit \in Nat
      /\ Len(decoded) \in Nat /\ Len(decoded) <= limit
  BY LenProperties, FramingAssumption DEF Inv, TypeOK, Bounded
<1>2. n \in Nat /\ n # -1
  BY <1>1, ChunkSizeType DEF Chunk
<1>3. s \in Seq(Bytes) /\ Len(s) \in Nat
  BY <1>1, <1>2, BehindType, LenProperties
<1>4. At("chunked") /\ decoded' = decoded \o First(s, take)
  BY DEF Chunk
<1>5. verdict' \in {"running", "truncated"} /\ remaining' \in {s, From(s, n + 3)}
  BY DEF Chunk, Conclude, At
<1> HIDE DEF n, s
<1>6. take \in 0 .. Len(s) /\ take <= limit - Len(decoded)
  BY <1>1, <1>2, <1>3 DEF Take, Least
<1> HIDE DEF take
<1>7. First(s, take) \in Seq(Bytes) /\ Len(First(s, take)) = take
  BY <1>3, <1>6, FirstType
<1>8. decoded' \in Seq(Bytes) /\ Len(decoded') = Len(decoded) + take
  BY <1>1, <1>4, <1>7, ConcatProperties
<1>9. Len(decoded') <= limit
  BY <1>1, <1>6, <1>8
<1>10. remaining' \in Seq(Bytes)
  <2>1. n + 3 \in Nat \ {0}
    BY <1>2
  <2> QED BY <1>3, <1>5, <2>1, FromType
<1> QED BY <1>4, <1>5, <1>8, <1>9, <1>10, AtKeeps

LEMMA SendFrameKeeps == ASSUME Inv, SendFrame PROVE Inv'
<1> DEFINE end == Least(offset + size, length)
           frame == [from |-> offset, to |-> end, fin |-> EndsMessage(end),
                     opcode |-> IF offset > 0 THEN "continue" ELSE "first"]
<1>1. offset \in 0 .. length /\ length \in Nat /\ size \in Nat \ {0} /\ frames \in Seq(Frame)
  BY DEF Inv, TypeOK
<1>2. end \in 0 .. length
  BY <1>1 DEF Least
<1>3. offset' = end /\ frames' = Append(frames, frame)
  BY DEF SendFrame
<1>4. frame \in Frame
  BY <1>1, <1>2 DEF Frame, EndsMessage
<1> HIDE DEF end, frame
<1>5. frames' \in Seq(Frame)
  BY <1>1, <1>3, <1>4
<1>6. UNCHANGED <<replyVars, length, size>>
  BY DEF SendFrame
<1> QED BY <1>1, <1>2, <1>3, <1>5, <1>6 DEF Inv, TypeOK, Bounded, replyVars

LEMMA InvNext == Inv /\ [Next]_vars => Inv'
<1> SUFFICES ASSUME Inv, [Next]_vars PROVE Inv'
  OBVIOUS
<1>1. CASE NoBody
  BY <1>1, AtKeeps DEF NoBody, Conclude, Inv, TypeOK, Bounded
<1>2. CASE Plain
  BY <1>2, PlainKeeps
<1>3. CASE NoChunk
  BY <1>3, AtKeeps DEF NoChunk, Conclude, Inv, TypeOK, Bounded
<1>4. CASE LastChunk
  <2>1. remaining' \in Seq(Bytes)
    BY <1>4, BehindType DEF LastChunk, Inv, TypeOK
  <2>2. verdict' \in {"complete", "truncated"} /\ At("chunked") /\ decoded' = decoded
    BY <1>4 DEF LastChunk, Complete, Conclude
  <2> QED BY <2>1, <2>2, AtKeeps DEF Inv, TypeOK, Bounded
<1>5. CASE Chunk
  BY <1>5, ChunkKeeps
<1>6. CASE SendFrame
  BY <1>6, SendFrameKeeps
<1>7. CASE UNCHANGED vars
  BY <1>7 DEF vars, replyVars, messageVars, Inv, TypeOK, Bounded
<1> QED BY <1>1, <1>2, <1>3, <1>4, <1>5, <1>6, <1>7 DEF Next

(* The types of both loops, whatever bytes come. *)
THEOREM TypeCorrect == Spec => []TypeOK
<1>1. Inv => TypeOK
  BY DEF Inv
<1> QED BY <1>1, InvInit, InvNext, PTL DEF Spec

(* No body of a rejected upgrade is longer than the limit, so the unsigned *)
(* limit - decoded.len() never wraps, whatever chunks are announced.       *)
THEOREM BodyBounded == Spec => []Bounded
<1>1. Inv => Bounded
  BY DEF Inv
<1> QED BY <1>1, InvInit, InvNext, PTL DEF Spec

-----------------------------------------------------------------------------
(* Frames *)

LEMMA TilesInit == Init => FramesTile
BY DEF Init, FramesTile

(* Each frame begins where the last one ended, and only a message that is  *)
(* empty has room for an empty frame.                                      *)
LEMMA TilesNext == Inv /\ FramesTile /\ [Next]_vars => FramesTile'
<1> SUFFICES ASSUME Inv, FramesTile, [Next]_vars PROVE FramesTile'
  OBVIOUS
<1>1. CASE UNCHANGED messageVars
  BY <1>1 DEF messageVars, FramesTile
<1>2. CASE SendFrame
  <2> DEFINE end == Least(offset + size, length)
             frame == [from |-> offset, to |-> end, fin |-> EndsMessage(end),
                       opcode |-> IF offset > 0 THEN "continue" ELSE "first"]
             n == Len(frames)
  <2>1. offset \in 0 .. length /\ length \in Nat /\ size \in Nat \ {0} /\ frames \in Seq(Frame)
    BY DEF Inv, TypeOK
  <2>2. n \in Nat /\ DOMAIN frames = 1 .. n /\ (frames = <<>> <=> n = 0)
    BY <2>1, LenProperties, EmptySeq
  <2>3. /\ frames' = Append(frames, frame) /\ offset' = end
        /\ length' = length /\ size' = size
        /\ ~Sent
    BY <1>2 DEF SendFrame
  <2>4. \A i \in 1 .. n : frames[i] \in Frame
    BY <2>1, <2>2, LenProperties
  <2>5. /\ end \in 0 .. length /\ offset <= end /\ end - offset <= size
        /\ end # length => end - offset = size
        /\ end = offset => offset = length
    BY <2>1 DEF Least
  <2>6. /\ frame.from = offset /\ frame.to = end /\ frame.fin = (end = length)
        /\ frame.opcode = IF offset > 0 THEN "continue" ELSE "first"
    BY DEF EndsMessage
  <2> HIDE DEF frame, end, n
  <2>7. /\ DOMAIN frames' = 1 .. n + 1
        /\ Len(frames') = n + 1
        /\ \A i \in 1 .. n : frames'[i] = frames[i]
        /\ frames'[n + 1] = frame
    BY <2>1, <2>2, <2>3 DEF n
  <2>8. offset = IF n = 0 THEN 0 ELSE frames[n].to
    BY <2>2 DEF FramesTile, n
  <2>9. n # 0 => frames[n].fin = FALSE
    BY <2>2, <2>3, <2>4 DEF Sent, n, Frame
  <2>10. /\ n # 0 => offset > 0
         /\ n # 0 => offset # length
    <3>1. SUFFICES ASSUME n # 0 PROVE offset > 0 /\ offset # length
      OBVIOUS
    <3>2. n \in DOMAIN frames /\ frames[n] \in Frame
      BY <3>1, <2>2, <2>4
    <3>3. /\ frames[n].fin = (frames[n].to = length)
          /\ frames[n].fin \/ frames[n].to - frames[n].from = size
      BY <3>2 DEF FramesTile
    <3>4. frames[n].to \in Nat /\ frames[n].from \in Nat /\ frames[n].to = offset
      BY <3>1, <3>2, <2>8 DEF Frame
    <3>5. offset # length /\ frames[n].to - frames[n].from = size
      BY <3>1, <3>3, <3>4, <2>9, Zenon
    <3> QED BY <3>4, <3>5, <2>1
  <2> DEFINE Fits(i) ==
        LET f == frames'[i] IN
        /\ f.from = IF i = 1 THEN 0 ELSE frames'[i - 1].to
        /\ f.opcode = IF i = 1 THEN "first" ELSE "continue"
        /\ f.fin = (f.to = length)
        /\ f.to - f.from <= size
        /\ f.to = f.from => length = 0
        /\ f.fin \/ f.to - f.from = size
        /\ f.fin => i = n + 1
  <2>11. ASSUME NEW i \in 1 .. n PROVE Fits(i)
    <3>1. frames'[i] = frames[i] /\ i # n + 1
      BY <2>2, <2>7
    <3>2. i # 1 => frames'[i - 1] = frames[i - 1]
      BY <2>2, <2>7
    <3>3. frames[i].fin => i = n
      BY <2>2 DEF FramesTile, n
    <3>4. ~frames[i].fin
      BY <3>3, <2>9, <2>2
    <3> QED BY <3>1, <3>2, <3>4, <2>2 DEF FramesTile
  <2>12. Fits(n + 1)
    <3>1. n # 0 => frames'[n] = frames[n] /\ n + 1 # 1
      BY <2>2, <2>7
    <3>2. CASE n = 0
      <4>1. n + 1 = 1 /\ frame.from = 0 /\ frame.opcode = "first"
        BY <3>2, <2>6, <2>8
      <4>2. /\ frame.to - frame.from <= size
            /\ frame.to = frame.from => length = 0
            /\ frame.to # length => frame.to - frame.from = size
        BY <4>1, <2>1, <2>5, <2>6
      <4>3. frame.fin = (frame.to = length)
        BY <2>6, Zenon
      <4>4. frame.fin \/ frame.to - frame.from = size
        BY <4>2, <4>3, Zenon
      <4> QED BY <4>1, <4>2, <4>3, <4>4, <2>7
    <3>3. CASE n # 0
      <4>1. /\ offset = frames'[n].to /\ frame.opcode = "continue"
            /\ n + 1 # 1 /\ (n + 1) - 1 = n
        BY <3>1, <3>3, <2>2, <2>6, <2>8, <2>10
      <4> QED BY <3>3, <4>1, <2>1, <2>5, <2>6, <2>7, <2>10
    <3> QED BY <3>2, <3>3
  <2>13. \A i \in 1 .. n + 1 : Fits(i)
    BY <2>2, <2>11, <2>12
  <2>14. offset' = frames'[n + 1].to /\ frames' # <<>>
    BY <2>2, <2>3, <2>6, <2>7, EmptySeq
  <2> HIDE DEF Fits
  <2> QED BY <2>3, <2>7, <2>13, <2>14 DEF FramesTile, Fits
<1> QED BY <1>1, <1>2 DEF Next, NoBody, Plain, NoChunk, LastChunk, Chunk, At, vars

(* The frames of a message are its bytes, in order and each once, for any  *)
(* length and frame size.                                                  *)
THEOREM MessageTiled == Spec => []FramesTile
BY InvInit, InvNext, TilesInit, TilesNext, PTL DEF Spec

-----------------------------------------------------------------------------
(* Lines, as they are on the wire and as the capture shows them            *)

LEMMA FirstAt ==
  ASSUME NEW s \in Seq(Bytes), NEW n \in 0 .. Len(s)
  PROVE  /\ First(s, n) \in Seq(Bytes) /\ Len(First(s, n)) = n
         /\ \A j \in 1 .. n : First(s, n)[j] = s[j]
<1>1. Len(s) \in Nat /\ \A i \in 1 .. Len(s) : s[i] \in Bytes
  BY LenProperties
<1>2. \A i \in 1 .. n : s[i] \in Bytes
  BY <1>1
<1>3. \A j \in 1 .. n - 1 + 1 : First(s, n)[j] = s[1 + j - 1]
  BY <1>1, <1>2, SubSeqProperties DEF First
<1>4. n - 1 + 1 = n /\ \A j \in 1 .. n : 1 + j - 1 = j
  BY <1>1
<1> QED BY <1>1, <1>3, <1>4, FirstType

LEMMA FromAt ==
  ASSUME NEW s \in Seq(Bytes), NEW p \in Nat \ {0}
  PROVE  /\ From(s, p) \in Seq(Bytes)
         /\ Len(From(s, p)) = IF p <= Len(s) THEN Len(s) - p + 1 ELSE 0
         /\ \A j \in 1 .. Len(s) - p + 1 : From(s, p)[j] = s[p + j - 1]
<1>1. Len(s) \in Nat /\ \A i \in 1 .. Len(s) : s[i] \in Bytes
  BY LenProperties
<1>2. \A i \in p .. Len(s) : s[i] \in Bytes
  BY <1>1
<1> QED BY <1>1, <1>2, SubSeqProperties DEF From

(* Cutting twice is cutting once. *)
LEMMA FromFrom ==
  ASSUME NEW s \in Seq(Bytes), NEW p \in Nat \ {0}, NEW q \in Nat \ {0}
  PROVE  From(From(s, p), q) = From(s, p + q - 1)
<1> DEFINE a == From(From(s, p), q)
           b == From(s, p + q - 1)
<1>1. Len(s) \in Nat /\ p + q - 1 \in Nat \ {0}
  BY LenProperties
<1>2. /\ From(s, p) \in Seq(Bytes)
      /\ Len(From(s, p)) = IF p <= Len(s) THEN Len(s) - p + 1 ELSE 0
      /\ \A j \in 1 .. Len(s) - p + 1 : From(s, p)[j] = s[p + j - 1]
  BY FromAt
<1>3. /\ a \in Seq(Bytes)
      /\ Len(a) = IF q <= Len(From(s, p)) THEN Len(From(s, p)) - q + 1 ELSE 0
      /\ \A j \in 1 .. Len(From(s, p)) - q + 1 : a[j] = From(s, p)[q + j - 1]
  BY <1>2, FromAt
<1>4. /\ b \in Seq(Bytes)
      /\ Len(b) = IF p + q - 1 <= Len(s) THEN Len(s) - (p + q - 1) + 1 ELSE 0
      /\ \A j \in 1 .. Len(s) - (p + q - 1) + 1 : b[j] = s[(p + q - 1) + j - 1]
  BY <1>1, FromAt
<1> HIDE DEF a, b
<1>5. Len(a) = Len(b)
  BY <1>1, <1>2, <1>3, <1>4
<1>6. ASSUME NEW j \in 1 .. Len(a) PROVE a[j] = b[j]
  <2>1. /\ j \in Nat /\ j >= 1 /\ Len(From(s, p)) = Len(s) - p + 1
        /\ j <= Len(s) - p + 1 - q + 1
    <3> DEFINE k == Len(From(s, p))
               m == Len(s)
    <3>1. /\ m \in Nat /\ k = IF p <= m THEN m - p + 1 ELSE 0
          /\ Len(a) = IF q <= k THEN k - q + 1 ELSE 0
      BY <1>1, <1>2, <1>3
    <3> HIDE DEF k, m
    <3>2. k \in Nat
      BY <3>1
    <3>3. q <= k /\ j \in 1 .. k - q + 1
      BY <3>1, <3>2, <1>6
    <3>4. k = m - p + 1
      BY <3>1, <3>2, <3>3
    <3> QED BY <3>1, <3>3, <3>4 DEF k, m
  <2>2. a[j] = From(s, p)[q + j - 1]
    BY <2>1, <1>1, <1>3
  <2>3. From(s, p)[q + j - 1] = s[p + (q + j - 1) - 1]
    BY <2>1, <1>1, <1>2
  <2>4. b[j] = s[(p + q - 1) + j - 1]
    BY <2>1, <1>1, <1>4
  <2>5. p + (q + j - 1) - 1 = (p + q - 1) + j - 1
    BY <2>1
  <2> QED BY <2>2, <2>3, <2>4, <2>5
<1>7. a = b
  BY <1>3, <1>4, <1>5, <1>6, SeqEqual
<1> QED BY <1>7 DEF a, b

LEMMA LineEndBytes ==
  /\ CRLF \in Seq(Bytes) /\ Len(CRLF) = 2 /\ CRLF[1] = "CR" /\ CRLF[2] = "LF"
  /\ CRLF \o CRLF \in Seq(Bytes) /\ Len(CRLF \o CRLF) = 4
  /\ \A j \in 1 .. 4 : (CRLF \o CRLF)[j] = IF j \in {1, 3} THEN "CR" ELSE "LF"
<1>1. "CR" \in Bytes /\ "LF" \in Bytes
  BY DEF Bytes
<1> HIDE DEF Bytes
<1>2. CRLF \in Seq(Bytes) /\ Len(CRLF) = 2 /\ CRLF[1] = "CR" /\ CRLF[2] = "LF"
  BY <1>1 DEF CRLF
<1> HIDE DEF CRLF
<1>3. /\ CRLF \o CRLF \in Seq(Bytes) /\ Len(CRLF \o CRLF) = 4
      /\ \A j \in 1 .. 4 : (CRLF \o CRLF)[j] = IF j <= 2 THEN CRLF[j] ELSE CRLF[j - 2]
  <2>1. /\ CRLF \o CRLF \in Seq(Bytes) /\ Len(CRLF \o CRLF) = Len(CRLF) + Len(CRLF)
        /\ \A j \in 1 .. Len(CRLF) + Len(CRLF) :
             (CRLF \o CRLF)[j] = IF j <= Len(CRLF) THEN CRLF[j] ELSE CRLF[j - Len(CRLF)]
    BY <1>2, ConcatProperties, Zenon
  <2> QED BY <1>2, <2>1
<1>4. ASSUME NEW j \in 1 .. 4
      PROVE  (CRLF \o CRLF)[j] = IF j \in {1, 3} THEN "CR" ELSE "LF"
  <2>1. j = 1 \/ j = 2 \/ j = 3 \/ j = 4
    BY <1>4
  <2> QED BY <2>1, <1>2, <1>3
<1> QED BY <1>2, <1>3, <1>4

LEMMA IsNewLine ==
  ASSUME NEW s \in Seq(Bytes), NEW j \in Nat \ {0}
  PROVE  Is(s, j, CRLF) <=> NewLine(s, j)
<1> DEFINE two == SubSeq(s, j, j + 1)
<1>1. Len(s) \in Nat /\ (\A i \in 1 .. Len(s) : s[i] \in Bytes)
  BY LenProperties
<1>2. Len(CRLF) = 2 /\ CRLF[1] = "CR" /\ CRLF[2] = "LF" /\ CRLF \in Seq(Bytes)
  BY LineEndBytes
<1>3. j + Len(CRLF) - 1 = j + 1
  BY <1>2
<1>4. Is(s, j, CRLF) <=> j + 1 <= Len(s) /\ two = CRLF
  BY <1>3 DEF Is
<1>5. ASSUME j + 1 <= Len(s) PROVE two = CRLF <=> s[j] = "CR" /\ s[j + 1] = "LF"
  <2>1. \A i \in j .. j + 1 : s[i] \in Bytes
    BY <1>1, <1>5
  <2>2. /\ two \in Seq(Bytes) /\ Len(two) = 2
        /\ \A i \in 1 .. (j + 1) - j + 1 : two[i] = s[j + i - 1]
    BY <2>1, SubSeqProperties
  <2>3. two[1] = s[j] /\ two[2] = s[j + 1]
    <3>1. (j + 1) - j + 1 = 2 /\ j + 1 - 1 = j /\ j + 2 - 1 = j + 1
      OBVIOUS
    <3> HIDE DEF two
    <3> QED BY <2>2, <3>1
  <2> HIDE DEF two
  <2>4. two = CRLF => s[j] = "CR" /\ s[j + 1] = "LF"
    BY <1>2, <2>3
  <2>5. ASSUME s[j] = "CR", s[j + 1] = "LF" PROVE two = CRLF
    <3>1. \A i \in 1 .. Len(two) : two[i] = CRLF[i]
      BY <1>2, <2>2, <2>3, <2>5
    <3> QED BY <3>1, <1>2, <2>2, SeqEqual
  <2> QED BY <2>4, <2>5
<1> HIDE DEF two
<1>6. NewLine(s, j) <=> j + 1 <= Len(s) /\ s[j] = "CR" /\ s[j + 1] = "LF"
  BY <1>1 DEF NewLine
<1> QED BY <1>4, <1>5, <1>6

LEMMA IsBlank ==
  ASSUME NEW s \in Seq(Bytes), NEW j \in Nat \ {0}
  PROVE  Is(s, j, CRLF \o CRLF) <=> NewLine(s, j) /\ NewLine(s, j + 2)
<1> DEFINE four == SubSeq(s, j, j + 3)
           blank == CRLF \o CRLF
<1>1. Len(s) \in Nat /\ (\A i \in 1 .. Len(s) : s[i] \in Bytes)
  BY LenProperties
<1>2. /\ blank \in Seq(Bytes) /\ Len(blank) = 4
      /\ blank[1] = "CR" /\ blank[2] = "LF" /\ blank[3] = "CR" /\ blank[4] = "LF"
  BY LineEndBytes
<1> HIDE DEF blank
<1>3. j + Len(blank) - 1 = j + 3
  BY <1>2
<1>4. Is(s, j, blank) <=> j + 3 <= Len(s) /\ four = blank
  BY <1>3 DEF Is
<1>5. ASSUME j + 3 <= Len(s)
      PROVE  four = blank <=> /\ s[j] = "CR" /\ s[j + 1] = "LF"
                              /\ s[j + 2] = "CR" /\ s[j + 3] = "LF"
  <2>1. \A i \in j .. j + 3 : s[i] \in Bytes
    BY <1>1, <1>5
  <2>2. /\ four \in Seq(Bytes) /\ Len(four) = 4
        /\ \A i \in 1 .. (j + 3) - j + 1 : four[i] = s[j + i - 1]
    BY <2>1, SubSeqProperties
  <2>3. four[1] = s[j] /\ four[2] = s[j + 1] /\ four[3] = s[j + 2] /\ four[4] = s[j + 3]
    <3>1. /\ (j + 3) - j + 1 = 4 /\ j + 1 - 1 = j
          /\ j + 2 - 1 = j + 1 /\ j + 3 - 1 = j + 2 /\ j + 4 - 1 = j + 3
      OBVIOUS
    <3> HIDE DEF four
    <3> QED BY <2>2, <3>1
  <2> HIDE DEF four
  <2>4. four = blank => s[j] = "CR" /\ s[j + 1] = "LF" /\ s[j + 2] = "CR" /\ s[j + 3] = "LF"
    BY <1>2, <2>3
  <2>5. ASSUME s[j] = "CR", s[j + 1] = "LF", s[j + 2] = "CR", s[j + 3] = "LF"
        PROVE  four = blank
    <3>1. \A i \in 1 .. Len(four) : four[i] = blank[i]
      BY <1>2, <2>2, <2>3, <2>5
    <3> QED BY <3>1, <1>2, <2>2, SeqEqual
  <2> QED BY <2>4, <2>5
<1> HIDE DEF four
<1>6. NewLine(s, j) <=> j + 1 <= Len(s) /\ s[j] = "CR" /\ s[j + 1] = "LF"
  BY <1>1 DEF NewLine
<1>7. NewLine(s, j + 2) <=> j + 3 <= Len(s) /\ s[j + 2] = "CR" /\ s[j + 3] = "LF"
  <2>1. (j + 2) + 1 = j + 3
    OBVIOUS
  <2> QED BY <2>1, <1>1 DEF NewLine
<1>8. j + 3 <= Len(s) => j + 1 <= Len(s)
  BY <1>1
<1>9. Is(s, j, blank) <=> NewLine(s, j) /\ NewLine(s, j + 2)
  BY <1>4, <1>5, <1>6, <1>7, <1>8
<1> QED BY <1>9 DEF blank

(* What is captured from a place on, byte by byte. *)
LEMMA Seen ==
  ASSUME NEW w \in Seq(Bytes), NEW c \in Seq(Bytes), Begins(c, w), NEW p \in Nat \ {0}
  PROVE  /\ \A j \in 1 .. Len(c) - p + 1 : From(c, p)[j] = w[p + j - 1]
         /\ \A j \in Nat \ {0} :
              NewLine(From(c, p), j) <=> p + j <= Len(c) /\ NewLine(w, p + j - 1)
<1>1. Len(c) \in Nat /\ Len(w) \in Nat /\ Len(c) <= Len(w)
  BY LenProperties DEF Begins
<1>2. /\ Len(From(c, p)) = IF p <= Len(c) THEN Len(c) - p + 1 ELSE 0
      /\ \A j \in 1 .. Len(c) - p + 1 : From(c, p)[j] = c[p + j - 1]
  BY FromAt
<1>3. ASSUME NEW j \in 1 .. Len(c) - p + 1 PROVE From(c, p)[j] = w[p + j - 1]
  <2>1. p + j - 1 \in 1 .. Len(c)
    BY <1>1, <1>3
  <2>2. c[p + j - 1] = w[p + j - 1]
    BY <2>1 DEF Begins
  <2> QED BY <2>2, <1>2
<1>4. ASSUME NEW j \in Nat \ {0}
      PROVE  NewLine(From(c, p), j) <=> p + j <= Len(c) /\ NewLine(w, p + j - 1)
  <2>1. j \in 1 .. Len(From(c, p)) - 1 <=> p + j <= Len(c)
    BY <1>1, <1>2
  <2>2. ASSUME p + j <= Len(c)
        PROVE  /\ p + j - 1 \in 1 .. Len(w) - 1
               /\ From(c, p)[j] = w[p + j - 1] /\ From(c, p)[j + 1] = w[(p + j - 1) + 1]
    <3>1. j \in 1 .. Len(c) - p + 1 /\ j + 1 \in 1 .. Len(c) - p + 1
      BY <1>1, <2>2
    <3>2. p + (j + 1) - 1 = (p + j - 1) + 1
      OBVIOUS
    <3>3. p + j - 1 \in 1 .. Len(w) - 1
      BY <1>1, <2>2
    <3>4. From(c, p)[j] = w[p + j - 1]
      BY <3>1, <1>3
    <3>5. From(c, p)[j + 1] = w[p + (j + 1) - 1]
      BY <3>1, <1>3
    <3> QED BY <3>2, <3>3, <3>4, <3>5
  <2> QED BY <2>1, <2>2 DEF NewLine
<1> QED BY <1>3, <1>4

LEMMA EndsAreLines ==
  ASSUME NEW s \in Seq(Bytes), NEW j \in Nat \ {0}
  PROVE  j \in Ends(s) <=> NewLine(s, j)
<1>1. Len(s) \in Nat
  BY LenProperties
<1>2. NewLine(s, j) => j \in 1 .. Len(s)
  BY <1>1 DEF NewLine
<1> QED BY <1>2, IsNewLine DEF Ends

LEMMA LineUnique ==
  ASSUME NEW w, NEW p \in Int, NEW e \in Int, NEW f \in Int, Line(w, p, e), Line(w, p, f)
  PROVE  e = f
<1>1. ~(e < f)
  <2>1. SUFFICES ASSUME e < f PROVE FALSE
    OBVIOUS
  <2>2. e \in p .. f - 1
    BY <2>1 DEF Line
  <2> QED BY <2>2 DEF Line
<1>2. ~(f < e)
  <2>1. SUFFICES ASSUME f < e PROVE FALSE
    OBVIOUS
  <2>2. f \in p .. e - 1
    BY <2>1 DEF Line
  <2> QED BY <2>2 DEF Line
<1> QED BY <1>1, <1>2

(* The line the code finds is the line there is. *)
LEMMA LineFound ==
  ASSUME NEW w \in Seq(Bytes), NEW c \in Seq(Bytes), Begins(c, w), NEW p \in Nat \ {0},
         Ends(From(c, p)) # {}
  PROVE  \E e \in p .. Len(c) - 1 :
           /\ Line(w, p, e)
           /\ ChunkSize(From(c, p)) = SizeAt(w, p, e)
           /\ Behind(From(c, p)) = From(c, e + 2)
<1> DEFINE s == From(c, p)
           k == LineEnd(s)
           e == p + k - 1
<1>1. Len(c) \in Nat /\ Len(w) \in Nat /\ Len(c) <= Len(w)
  BY LenProperties DEF Begins
<1>2. s \in Seq(Bytes) /\ Len(s) \in Nat /\ Len(s) = IF p <= Len(c) THEN Len(c) - p + 1 ELSE 0
  BY <1>1, FromAt
<1> HIDE DEF s
<1>3. k \in Ends(s) /\ k \in 1 .. Len(s) /\ \A j \in Ends(s) : k <= j
  BY <1>2, LineEndType DEF s
<1> HIDE DEF k
<1>4. \A j \in Nat \ {0} : NewLine(s, j) <=> p + j <= Len(c) /\ NewLine(w, p + j - 1)
  BY Seen DEF s
<1>5. k \in Nat \ {0} /\ NewLine(s, k)
  BY <1>2, <1>3, EndsAreLines
<1>6. e \in p .. Len(c) - 1 /\ NewLine(w, e)
  BY <1>1, <1>4, <1>5
<1>7. ASSUME NEW j \in p .. e - 1 PROVE ~NewLine(w, j)
  <2>1. j - p + 1 \in Nat \ {0} /\ j - p + 1 < k /\ p + (j - p + 1) - 1 = j
    BY <1>5, <1>7
  <2>2. p + (j - p + 1) <= Len(c)
    BY <1>6, <1>7
  <2>3. ~NewLine(s, j - p + 1)
    BY <1>2, <1>3, <1>5, <2>1, EndsAreLines
  <2> QED BY <1>4, <2>1, <2>2, <2>3
<1>8. Line(w, p, e)
  BY <1>6, <1>7 DEF Line
<1>9. First(s, k - 1) = SubSeq(w, p, e - 1)
  <2> DEFINE a == First(s, k - 1)
             b == SubSeq(w, p, e - 1)
  <2>1. k - 1 \in 0 .. Len(s)
    BY <1>2, <1>3
  <2>2. a \in Seq(Bytes) /\ Len(a) = k - 1 /\ \A j \in 1 .. k - 1 : a[j] = s[j]
    BY <1>2, <2>1, FirstAt
  <2>3. \A i \in p .. e - 1 : w[i] \in Bytes
    <3>1. \A i \in 1 .. Len(w) : w[i] \in Bytes
      BY LenProperties
    <3> QED BY <3>1, <1>1, <1>6
  <2>4. /\ b \in Seq(Bytes) /\ Len(b) = IF p <= e - 1 THEN (e - 1) - p + 1 ELSE 0
        /\ \A j \in 1 .. (e - 1) - p + 1 : b[j] = w[p + j - 1]
    <3>1. e - 1 \in Int /\ p \in Int
      BY <1>5
    <3> QED BY <2>3, <3>1, SubSeqProperties
  <2> HIDE DEF a, b
  <2>5. Len(a) = Len(b)
    BY <1>5, <2>2, <2>4
  <2>6. ASSUME NEW j \in 1 .. Len(a) PROVE a[j] = b[j]
    <3>1. j \in 1 .. k - 1 /\ j \in 1 .. (e - 1) - p + 1 /\ j \in 1 .. Len(c) - p + 1
      BY <1>1, <1>5, <1>6, <2>2
    <3>2. s[j] = w[p + j - 1]
      BY <3>1, Seen DEF s
    <3> QED BY <3>1, <3>2, <2>2, <2>4
  <2>7. a = b
    BY <2>2, <2>4, <2>5, <2>6, SeqEqual
  <2> QED BY <2>7 DEF a, b
<1>10. ChunkSize(s) = SizeAt(w, p, e)
  BY <1>3, <1>9 DEF ChunkSize, SizeAt, k
<1>11. Behind(s) = From(c, e + 2)
  <2>1. k + 2 \in Nat \ {0} /\ p + (k + 2) - 1 = e + 2
    BY <1>5
  <2>2. From(s, k + 2) = From(c, p + (k + 2) - 1)
    BY <2>1, FromFrom DEF s
  <2> QED BY <2>1, <2>2 DEF Behind, k
<1> QED BY <1>6, <1>8, <1>10, <1>11 DEF s

(* The code finds the line there is, unless the capture ends before it. *)
LEMMA LineSeen ==
  ASSUME NEW w \in Seq(Bytes), NEW c \in Seq(Bytes), Begins(c, w), NEW p \in Nat \ {0},
         NEW e \in Int, Line(w, p, e), e < Len(c)
  PROVE  /\ ChunkSize(From(c, p)) = SizeAt(w, p, e)
         /\ Behind(From(c, p)) = From(c, e + 2)
<1>1. Len(c) \in Nat /\ From(c, p) \in Seq(Bytes) /\ p <= e
  BY LenProperties, FromAt DEF Line
<1>2. NewLine(From(c, p), e - p + 1)
  <2>1. e - p + 1 \in Nat \ {0} /\ p + (e - p + 1) <= Len(c) /\ p + (e - p + 1) - 1 = e
    BY <1>1
  <2> QED BY <2>1, Seen DEF Line
<1>3. Ends(From(c, p)) # {}
  <2>1. e - p + 1 \in Nat \ {0}
    BY <1>1
  <2> QED BY <1>1, <1>2, <2>1, EndsAreLines
<1>4. PICK f \in p .. Len(c) - 1 :
           /\ Line(w, p, f)
           /\ ChunkSize(From(c, p)) = SizeAt(w, p, f)
           /\ Behind(From(c, p)) = From(c, f + 2)
  BY <1>3, LineFound
<1>5. f = e
  BY <1>1, <1>4, LineUnique
<1> QED BY <1>4, <1>5

LEMMA TrailersSeen ==
  ASSUME NEW w \in Seq(Bytes), NEW c \in Seq(Bytes), Begins(c, w), NEW p \in Nat \ {0}
  PROVE  TrailerEnds(From(c, p)) <=> \E t \in p .. Len(c) - 1 : EmptyLine(w, p, t)
<1> DEFINE s == From(c, p)
<1>1. Len(c) \in Nat
  BY LenProperties
<1>2. s \in Seq(Bytes) /\ Len(s) \in Nat /\ Len(s) = IF p <= Len(c) THEN Len(c) - p + 1 ELSE 0
  BY <1>1, FromAt
<1>3. \A j \in Nat \ {0} : NewLine(s, j) <=> p + j <= Len(c) /\ NewLine(w, p + j - 1)
  BY Seen
<1> HIDE DEF s
<1>4. ASSUME Is(s, 1, CRLF) PROVE \E t \in p .. Len(c) - 1 : EmptyLine(w, p, t)
  <2>1. NewLine(s, 1)
    BY <1>2, <1>4, IsNewLine
  <2>2. p + 1 <= Len(c) /\ p + 1 - 1 = p /\ NewLine(w, p)
    BY <1>3, <2>1
  <2> QED BY <2>2, <1>1 DEF EmptyLine
<1>5. ASSUME NEW i \in 1 .. Len(s), Is(s, i, CRLF \o CRLF)
      PROVE  \E t \in p .. Len(c) - 1 : EmptyLine(w, p, t)
  <2>1. NewLine(s, i) /\ NewLine(s, i + 2)
    BY <1>2, <1>5, IsBlank
  <2>2. /\ NewLine(w, p + i - 1) /\ p + (i + 2) <= Len(c) /\ NewLine(w, p + (i + 2) - 1)
        /\ p + (i + 2) - 1 = p + i + 1 /\ (p + i + 1) - 2 = p + i - 1
    BY <1>2, <1>3, <2>1
  <2>3. p + i + 1 \in p .. Len(c) - 1 /\ (p + i + 1) - 2 >= p
    BY <1>1, <1>2, <2>2
  <2> QED BY <2>2, <2>3 DEF EmptyLine
<1>6. ASSUME NEW t \in p .. Len(c) - 1, EmptyLine(w, p, t) PROVE TrailerEnds(s)
  <2>1. NewLine(w, t)
    BY <1>6 DEF EmptyLine
  <2>2. CASE t = p
    <3>1. p + 1 <= Len(c) /\ p + 1 - 1 = t
      BY <2>2, <1>1
    <3>2. NewLine(s, 1)
      BY <1>3, <2>1, <3>1
    <3> QED BY <1>2, <3>2, IsNewLine DEF TrailerEnds
  <2>3. CASE t - 2 >= p /\ NewLine(w, t - 2)
    <3> DEFINE i == t - p - 1
    <3>1. /\ i \in Nat \ {0} /\ i + 2 \in Nat \ {0} /\ i \in 1 .. Len(s)
          /\ p + i - 1 = t - 2 /\ p + (i + 2) - 1 = t
          /\ p + i <= Len(c) /\ p + (i + 2) <= Len(c)
      BY <2>3, <1>1, <1>2
    <3> HIDE DEF i
    <3>2. NewLine(s, i) /\ NewLine(s, i + 2)
      BY <1>3, <2>1, <2>3, <3>1
    <3> QED BY <1>2, <3>1, <3>2, IsBlank DEF TrailerEnds
  <2> QED BY <1>6, <2>2, <2>3 DEF EmptyLine
<1>7. TrailerEnds(s) <=> \E t \in p .. Len(c) - 1 : EmptyLine(w, p, t)
  BY <1>4, <1>5, <1>6 DEF TrailerEnds
<1> QED BY <1>7 DEF s

-----------------------------------------------------------------------------
(* Chunks, as they were meant                                              *)

LEMMA ReplyType ==
  ASSUME NEW r \in Reply, Meant(r), r.framing = "chunked"
  PROVE  /\ r.wire \in Seq(Bytes) /\ r.captured \in Seq(Bytes) /\ r.entity \in Seq(Bytes)
         /\ Begins(r.captured, r.wire)
         /\ Len(r.captured) \in Nat /\ Len(r.wire) \in Nat /\ Len(r.entity) \in Nat
         /\ Len(r.captured) <= Len(r.wire)
         /\ Len(r.cuts) \in Nat \ {0} /\ r.whole \in BOOLEAN
         /\ \A i \in 1 .. Len(r.cuts) : r.cuts[i].at \in Nat /\ r.cuts[i].body \in Nat
<1>1. /\ r.wire \in Seq(Bytes) /\ r.captured \in Seq(Bytes) /\ r.entity \in Seq(Bytes)
      /\ r.cuts \in Seq([at : Nat, body : Nat]) /\ r.whole \in BOOLEAN
  BY DEF Reply
<1>2. Begins(r.captured, r.wire) /\ InChunks(r)
  BY DEF Meant
<1>3. Len(r.captured) \in Nat /\ Len(r.wire) \in Nat /\ Len(r.entity) \in Nat /\ Len(r.cuts) \in Nat
  BY <1>1, LenProperties
<1>4. \A i \in 1 .. Len(r.cuts) : r.cuts[i] \in [at : Nat, body : Nat]
  BY <1>1, ElementOfSeq
<1>5. \A i \in 1 .. Len(r.cuts) : r.cuts[i].at \in Nat /\ r.cuts[i].body \in Nat
  BY <1>4
<1>6. Len(r.cuts) > 0
  BY <1>2 DEF InChunks
<1> QED BY <1>1, <1>2, <1>3, <1>5, <1>6 DEF Begins

(* A chunk is before the next one and within the body. *)
LEMMA ChunkMeant ==
  ASSUME NEW r \in Reply, Meant(r), r.framing = "chunked", NEW i \in 1 .. Len(r.cuts) - 1
  PROVE  LET n == r.cuts[i + 1].body - r.cuts[i].body IN
         /\ n \in Nat \ {0} /\ r.cuts[i].body + n <= Len(r.entity)
         /\ \E e \in Nat :
              /\ Line(r.wire, r.cuts[i].at, e) /\ SizeAt(r.wire, r.cuts[i].at, e) = n
              /\ \A j \in 1 .. n : r.wire[e + 1 + j] = r.entity[r.cuts[i].body + j]
              /\ NewLine(r.wire, e + 2 + n) /\ r.cuts[i + 1].at = e + 4 + n
              /\ r.cuts[i].at <= e
<1> DEFINE c == r.cuts[i]
           d == r.cuts[i + 1]
           n == d.body - c.body
<1>1. /\ Len(r.cuts) \in Nat /\ Len(r.entity) \in Nat /\ Len(r.wire) \in Nat
      /\ i \in 1 .. Len(r.cuts) /\ i + 1 \in 1 .. Len(r.cuts)
      /\ \A k \in 1 .. Len(r.cuts) : r.cuts[k].at \in Nat /\ r.cuts[k].body \in Nat
  BY ReplyType
<1>2. c.at \in Nat /\ c.body \in Nat /\ d.at \in Nat /\ d.body \in Nat
  BY <1>1
<1>3. HasChunk(r, i)
  BY DEF Meant, InChunks
<1>4. n > 0 /\ d.body <= Len(r.entity)
  BY <1>3 DEF HasChunk
<1>5. PICK e \in c.at .. Len(r.wire) :
        /\ Line(r.wire, c.at, e) /\ SizeAt(r.wire, c.at, e) = n
        /\ \A j \in 1 .. n : r.wire[e + 1 + j] = r.entity[c.body + j]
        /\ NewLine(r.wire, e + 2 + n) /\ d.at = e + 4 + n
  BY <1>3 DEF HasChunk
<1> HIDE DEF c, d
<1>6. n \in Nat \ {0} /\ c.body + n <= Len(r.entity)
  BY <1>1, <1>2, <1>4
<1>7. e \in Nat /\ c.at <= e
  <2>1. e \in c.at .. Len(r.wire)
    OBVIOUS
  <2> QED BY <1>1, <1>2, <2>1
<1> QED BY <1>5, <1>6, <1>7 DEF c, d

LEMMA CutsPositive ==
  ASSUME NEW r \in Reply, Meant(r), r.framing = "chunked", NEW i \in 1 .. Len(r.cuts)
  PROVE  r.cuts[i].at \in Nat \ {0} /\ r.cuts[i].body \in 0 .. Len(r.entity)
<1>1. /\ Len(r.cuts) \in Nat /\ Len(r.entity) \in Nat
      /\ \A k \in 1 .. Len(r.cuts) : r.cuts[k].at \in Nat /\ r.cuts[k].body \in Nat
  BY ReplyType
<1>2. CASE i = 1
  <2>1. r.cuts[1] = [at |-> 1, body |-> 0]
    BY DEF Meant, InChunks
  <2> QED BY <1>1, <1>2, <2>1
<1>3. CASE i # 1
  <2>1. i - 1 \in 1 .. Len(r.cuts) - 1 /\ (i - 1) + 1 = i /\ i - 1 \in 1 .. Len(r.cuts)
    BY <1>1, <1>3
  <2> DEFINE n == r.cuts[i].body - r.cuts[i - 1].body
  <2>2. /\ n \in Nat \ {0} /\ r.cuts[i - 1].body + n <= Len(r.entity)
        /\ \E e \in Nat : r.cuts[i].at = e + 4 + n
    BY <2>1, ChunkMeant
  <2>3. r.cuts[i - 1].body \in Nat /\ r.cuts[i].body \in Nat
    BY <1>1, <2>1
  <2>4. r.cuts[i].body <= Len(r.entity)
    <3> DEFINE x == r.cuts[i].body
               y == r.cuts[i - 1].body
               l == Len(r.entity)
    <3>1. x \in Nat /\ y \in Nat /\ l \in Nat
      BY <1>1, <2>3
    <3>2. y + (x - y) <= l
      BY <2>2
    <3> HIDE DEF x, y, l
    <3>3. x <= l
      BY <3>1, <3>2
    <3> QED BY <3>3 DEF x, l
  <2>5. r.cuts[i].at # 0 /\ r.cuts[i].at \in Nat
    <3>1. PICK e \in Nat : r.cuts[i].at = e + 4 + n
      BY <2>2
    <3> HIDE DEF n
    <3>2. n \in Nat
      BY <2>2 DEF n
    <3> QED BY <3>1, <3>2
  <2> QED BY <1>1, <2>3, <2>4, <2>5
<1> QED BY <1>2, <1>3

(* Chunks are in order, so the least one out of it is none. *)
LEMMA CutsGrow ==
  ASSUME NEW r \in Reply, Meant(r), r.framing = "chunked",
         NEW i \in 1 .. Len(r.cuts), NEW j \in i .. Len(r.cuts)
  PROVE  r.cuts[i].at <= r.cuts[j].at
<1> DEFINE Before == {k \in i .. Len(r.cuts) : r.cuts[k].at < r.cuts[i].at}
           R == OpToRel(<, Nat)
<1>1. /\ Len(r.cuts) \in Nat /\ i \in Nat /\ i >= 1
      /\ \A k \in 1 .. Len(r.cuts) : r.cuts[k].at \in Nat /\ r.cuts[k].body \in Nat
  BY ReplyType
<1>2. Before \subseteq Nat
  BY <1>1
<1>3. IsWellFoundedOn(R, Nat)
  BY NatLessThanWellFounded
<1>4. \A x, y \in Nat : y < x => <<y, x>> \in R
  BY DEF OpToRel
<1> HIDE DEF R
<1>5. SUFFICES ASSUME Before # {} PROVE FALSE
  BY <1>1
<1> HIDE DEF Before
<1>6. PICK k \in Before : \A y \in Before : ~ (<<y, k>> \in R)
  BY <1>2, <1>3, <1>5, WFMin
<1>7. k \in i .. Len(r.cuts) /\ r.cuts[k].at < r.cuts[i].at
  BY DEF Before
<1>8. k # i /\ k - 1 \in i .. Len(r.cuts) /\ k - 1 \in Nat /\ k - 1 < k /\ k \in Nat
  BY <1>1, <1>7
<1>9. k - 1 \notin Before
  BY <1>4, <1>6, <1>8
<1> DEFINE x == r.cuts[i].at
           y == r.cuts[k - 1].at
           z == r.cuts[k].at
<1>10. x \in Nat /\ y \in Nat /\ z \in Nat
  <2>1. k - 1 \in 1 .. Len(r.cuts) /\ k \in 1 .. Len(r.cuts)
    BY <1>1, <1>7, <1>8
  <2> QED BY <1>1, <2>1
<1>11. x <= y
  <2>1. ~(y < x)
    BY <1>8, <1>9 DEF Before
  <2> HIDE DEF x, y
  <2> QED BY <1>10, <2>1
<1>12. k - 1 \in 1 .. Len(r.cuts) - 1 /\ (k - 1) + 1 = k
  BY <1>1, <1>7, <1>8
<1>13. /\ r.cuts[k].body - r.cuts[k - 1].body \in Nat \ {0}
       /\ \E e \in Nat : /\ r.cuts[k].at = e + 4 + (r.cuts[k].body - r.cuts[k - 1].body)
                         /\ r.cuts[k - 1].at <= e
  BY <1>12, ChunkMeant
<1>14. y < z
  <2> DEFINE n == r.cuts[k].body - r.cuts[k - 1].body
  <2>1. PICK e \in Nat : z = e + 4 + n /\ y <= e
    BY <1>13
  <2>2. n \in Nat
    BY <1>13
  <2> HIDE DEF n, y, z
  <2> QED BY <1>10, <2>1, <2>2
<1>15. z < x
  BY <1>7
<1> HIDE DEF x, y, z
<1> QED BY <1>11, <1>14, <1>10, <1>15

(* Where the next chunk is not yet captured the reply is not whole. *)
LEMMA MoreToCome ==
  ASSUME NEW r \in Reply, Meant(r), r.framing = "chunked",
         NEW i \in 1 .. Len(r.cuts), Len(r.captured) < r.cuts[i].at
  PROVE  ~r.whole
<1> DEFINE last == Len(r.cuts)
           q == r.cuts[last].at
<1>1. last \in Nat \ {0} /\ Len(r.captured) \in Nat
  BY ReplyType
<1>2. r.cuts[i].at <= q /\ q \in Nat /\ r.cuts[i].at \in Nat
  <2>1. last \in i .. Len(r.cuts) /\ last \in 1 .. Len(r.cuts)
    BY <1>1
  <2> QED BY <2>1, CutsGrow, CutsPositive
<1>3. EndsAt(r, q)
  BY DEF Meant, InChunks
<1> HIDE DEF q
<1>4. SUFFICES ASSUME NEW e \in q .. Len(r.wire),
                      NEW t \in e + 2 .. Len(r.captured) - 1
               PROVE  FALSE
  BY <1>3 DEF EndsAt
<1> QED BY <1>1, <1>2, <1>4

-----------------------------------------------------------------------------
(* The verdict on a reply.  While chunks are decoded, what remains begins  *)
(* where one of the chunks that were meant does, and what is decoded is    *)
(* the body in front of it.                                                *)

StandsAt(i) ==
  /\ remaining = From(reply.captured, reply.cuts[i].at)
  /\ decoded = First(reply.entity, reply.cuts[i].body)

OnTrack ==
  verdict = "running" =>
    IF reply.framing = "chunked" THEN \E i \in 1 .. Len(reply.cuts) : StandsAt(i)
    ELSE remaining = reply.captured /\ decoded = <<>>

Judged == Inv /\ JudgedRight /\ OnTrack /\ (verdict # "none" => reply \in Replies)

LEMMA JudgedInit == Init => Judged
<1> SUFFICES ASSUME Init PROVE Judged
  OBVIOUS
<1>1. Inv
  BY InvInit
<1>2. decoded = <<>> /\ remaining = reply.captured
  BY DEF Init
<1>3. reply \in Reply /\ reply.entity \in Seq(Bytes)
  BY <1>1 DEF Inv, TypeOK, Reply
<1>4. First(reply.entity, 0) = <<>> /\ Len(reply.entity) \in Nat
  <2>1. Len(reply.entity) \in Nat
    BY <1>3, LenProperties
  <2>2. First(reply.entity, 0) \in Seq(Bytes) /\ Len(First(reply.entity, 0)) = 0
    BY <1>3, <2>1, FirstType
  <2> QED BY <2>1, <2>2, EmptySeq
<1>5. JudgedRight
  <2>1. Len(decoded) = 0
    BY <1>2
  <2>2. verdict \notin {"complete", "truncated"}
    BY DEF Init
  <2> QED BY <1>2, <1>4, <2>1, <2>2 DEF JudgedRight
<1>6. verdict # "none" => reply \in Replies
  BY DEF Init
<1>7. OnTrack
  <2>1. ASSUME verdict = "running", reply.framing = "chunked" PROVE StandsAt(1) /\ Len(reply.cuts) >= 1
    <3>1. Meant(reply)
      BY <1>6, <2>1, MeaningAssumption
    <3>2. reply.cuts[1] = [at |-> 1, body |-> 0]
      BY <2>1, <3>1 DEF Meant, InChunks
    <3>3. Len(reply.cuts) \in Nat \ {0} /\ reply.captured \in Seq(Bytes)
      BY <1>3, <2>1, <3>1, ReplyType
    <3>4. From(reply.captured, 1) = reply.captured
      BY <3>3, SubSeqFull DEF From
    <3> QED BY <1>2, <1>4, <3>2, <3>3, <3>4 DEF StandsAt
  <2>2. ASSUME verdict = "running", reply.framing = "chunked"
        PROVE  \E i \in 1 .. Len(reply.cuts) : StandsAt(i)
    <3>1. Len(reply.cuts) \in Nat
      BY <1>6, <1>3, <2>2, ReplyType, MeaningAssumption
    <3> QED BY <2>1, <2>2, <3>1
  <2> QED BY <1>2, <2>2 DEF OnTrack
<1> QED BY <1>1, <1>5, <1>6, <1>7 DEF Judged

(* What a step on a reply leaves as it was, again. *)
LEMMA AtJudges ==
  ASSUME Judged, Inv', NEW f, At(f), JudgedRight',
         \/ verdict' \in {"complete", "truncated"}
         \/ OnTrack'
  PROVE  Judged'
<1>1. reply' = reply /\ verdict # "none" /\ verdict' # "running" => OnTrack'
  BY DEF At, OnTrack
<1> QED BY <1>1 DEF Judged, At, OnTrack

(* Where the code stands, and the bytes it stands on. *)
LEMMA Standing ==
  ASSUME Judged, At("chunked")
  PROVE  /\ reply \in Reply /\ Meant(reply) /\ reply.framing = "chunked"
         /\ limit \in Nat /\ Len(decoded) <= limit
         /\ \E i \in 1 .. Len(reply.cuts) : StandsAt(i)
<1>1. verdict = "running" /\ reply.framing = "chunked"
  BY DEF At
<1>2. reply \in Replies /\ Meant(reply)
  BY <1>1, MeaningAssumption DEF Judged
<1>3. reply \in Reply /\ limit \in Nat
  BY FramingAssumption DEF Judged, Inv, TypeOK
<1> QED BY <1>1, <1>2, <1>3 DEF Judged, OnTrack, Inv, Bounded

(* No further byte is decoded: the verdict has to be right for what is. *)
LEMMA VerdictEnough ==
  ASSUME Judged, reply' = reply, limit' = limit, decoded' = decoded,
         (verdict' = "complete") =
           (reply.whole /\ reply.framing # "none" /\ Len(reply.entity) <= limit)
  PROVE  JudgedRight'
BY DEF Judged, JudgedRight

LEMMA NoChunkJudged == ASSUME Judged, NoChunk, Inv' PROVE Judged'
<1> DEFINE c == reply.captured
           last == Len(reply.cuts)
<1>1. At("chunked") /\ ChunkSize(remaining) = -1 /\ verdict' = "truncated" /\ decoded' = decoded
  BY DEF NoChunk, Conclude
<1>2. reply \in Reply /\ Meant(reply) /\ reply.framing = "chunked"
  BY <1>1, Standing
<1>3. PICK i \in 1 .. last : StandsAt(i)
  BY <1>1, Standing
<1> DEFINE p == reply.cuts[i].at
<1>4. /\ reply.wire \in Seq(Bytes) /\ c \in Seq(Bytes) /\ Begins(c, reply.wire)
      /\ Len(c) \in Nat /\ last \in Nat \ {0}
  BY <1>2, ReplyType
<1>5. p \in Nat \ {0} /\ remaining = From(c, p)
  BY <1>2, <1>3, CutsPositive DEF StandsAt
<1> HIDE DEF p
<1>6. ASSUME NEW e \in Int, Line(reply.wire, p, e), SizeAt(reply.wire, p, e) # -1
      PROVE  e + 1 > Len(c)
  <2>1. SUFFICES ASSUME e < Len(c) PROVE FALSE
    BY <1>4
  <2> QED BY <1>1, <1>4, <1>5, <1>6, <2>1, LineSeen
<1>7. ~reply.whole
  <2>1. CASE i = last
    <3>1. EndsAt(reply, p)
      BY <1>2, <2>1 DEF Meant, InChunks, p
    <3>2. SUFFICES ASSUME NEW e \in p .. Len(reply.wire), Line(reply.wire, p, e),
                          SizeAt(reply.wire, p, e) = 0, NEW t \in e + 2 .. Len(c) - 1
                   PROVE  FALSE
      BY <3>1 DEF EndsAt
    <3>3. e \in Int /\ e + 1 > Len(c)
      BY <1>5, <1>6, <3>2
    <3> QED BY <1>4, <3>2, <3>3
  <2>2. CASE i # last
    <3>1. i \in 1 .. Len(reply.cuts) - 1 /\ i + 1 \in 1 .. Len(reply.cuts)
      BY <1>4, <2>2
    <3> DEFINE n == reply.cuts[i + 1].body - reply.cuts[i].body
    <3>2. n \in Nat \ {0} /\ (\E e \in Nat : /\ Line(reply.wire, p, e)
                                             /\ SizeAt(reply.wire, p, e) = n
                                             /\ reply.cuts[i + 1].at = e + 4 + n)
      BY <1>2, <3>1, ChunkMeant DEF p
    <3> HIDE DEF n
    <3>3. PICK e \in Nat : /\ Line(reply.wire, p, e) /\ SizeAt(reply.wire, p, e) = n
                           /\ reply.cuts[i + 1].at = e + 4 + n
      BY <3>2
    <3>4. e + 1 > Len(c)
      BY <1>6, <3>2, <3>3
    <3>5. Len(c) < reply.cuts[i + 1].at
      BY <1>4, <3>2, <3>3, <3>4
    <3> QED BY <1>2, <3>1, <3>5, MoreToCome
  <2> QED BY <2>1, <2>2
<1>8. reply' = reply /\ limit' = limit
  BY <1>1 DEF At
<1>9. JudgedRight'
  BY <1>1, <1>7, <1>8, VerdictEnough
<1> QED BY <1>1, <1>9, AtJudges

LEMMA LastChunkJudged == ASSUME Judged, LastChunk, Inv' PROVE Judged'
<1> DEFINE c == reply.captured
           w == reply.wire
           last == Len(reply.cuts)
<1>1. /\ At("chunked") /\ ChunkSize(remaining) = 0 /\ decoded' = decoded
      /\ verdict' = IF TrailerEnds(Behind(remaining)) THEN "complete" ELSE "truncated"
  BY DEF LastChunk, Complete, Conclude
<1>2. reply \in Reply /\ Meant(reply) /\ reply.framing = "chunked" /\ Len(decoded) <= limit
  BY <1>1, Standing
<1>3. PICK i \in 1 .. last : StandsAt(i)
  BY <1>1, Standing
<1> DEFINE p == reply.cuts[i].at
<1>4. /\ w \in Seq(Bytes) /\ c \in Seq(Bytes) /\ Begins(c, w) /\ reply.entity \in Seq(Bytes)
      /\ Len(c) \in Nat /\ last \in Nat \ {0} /\ Len(c) <= Len(w) /\ Len(w) \in Nat
      /\ Len(reply.entity) \in Nat /\ reply.whole \in BOOLEAN
  BY <1>2, ReplyType
<1>5. p \in Nat \ {0} /\ remaining = From(c, p)
  BY <1>2, <1>3, CutsPositive DEF StandsAt
<1> HIDE DEF p
<1>6. Ends(remaining) # {}
  BY <1>1 DEF ChunkSize
<1>7. PICK e \in p .. Len(c) - 1 : /\ Line(w, p, e) /\ SizeAt(w, p, e) = 0
                                   /\ Behind(remaining) = From(c, e + 2)
  <2>1. Ends(From(c, p)) # {}
    BY <1>5, <1>6
  <2>2. \E e \in p .. Len(c) - 1 :
          /\ Line(w, p, e)
          /\ ChunkSize(From(c, p)) = SizeAt(w, p, e)
          /\ Behind(From(c, p)) = From(c, e + 2)
    BY <1>4, <1>5, <2>1, LineFound
  <2> QED BY <1>1, <1>5, <2>2, Zenon
<1>8. e \in Nat /\ e + 2 \in Nat \ {0} /\ e \in p .. Len(w)
  BY <1>4, <1>5, <1>7
<1>9. i = last
  <2>1. SUFFICES ASSUME i # last PROVE FALSE
    OBVIOUS
  <2>2. i \in 1 .. Len(reply.cuts) - 1
    BY <1>4, <2>1
  <2> DEFINE n == reply.cuts[i + 1].body - reply.cuts[i].body
  <2>3. n \in Nat \ {0} /\ (\E f \in Nat : Line(w, p, f) /\ SizeAt(w, p, f) = n)
    BY <1>2, <2>2, ChunkMeant DEF p
  <2> HIDE DEF n
  <2>4. PICK f \in Nat : Line(w, p, f) /\ SizeAt(w, p, f) = n
    BY <2>3
  <2>5. f = e
    BY <1>5, <1>7, <1>8, <2>4, LineUnique
  <2> QED BY <1>7, <2>3, <2>4, <2>5
<1>10. reply.whole <=> TrailerEnds(Behind(remaining))
  <2>1. EndsAt(reply, p)
    BY <1>2, <1>9 DEF Meant, InChunks, p
  <2>2. TrailerEnds(Behind(remaining)) <=> \E t \in e + 2 .. Len(c) - 1 : EmptyLine(w, e + 2, t)
    BY <1>4, <1>7, <1>8, TrailersSeen
  <2>3. \A f \in p .. Len(w) : Line(w, p, f) => f = e
    BY <1>5, <1>7, <1>8, LineUnique
  <2>4. reply.whole <=> \E t \in e + 2 .. Len(c) - 1 : EmptyLine(w, e + 2, t)
    BY <1>7, <1>8, <2>1, <2>3, Zenon DEF EndsAt
  <2> QED BY <2>2, <2>4
<1>11. Len(reply.entity) <= limit
  <2>1. decoded = First(reply.entity, Len(reply.entity))
    BY <1>2, <1>3, <1>9 DEF Meant, InChunks, StandsAt
  <2>2. Len(decoded) = Len(reply.entity)
    BY <1>4, <2>1, FirstType
  <2> QED BY <1>2, <2>2
<1>12. reply' = reply /\ limit' = limit
  BY <1>1 DEF At
<1>13. JudgedRight'
  BY <1>1, <1>2, <1>4, <1>10, <1>11, <1>12, VerdictEnough
<1>14. verdict' \in {"complete", "truncated"}
  BY <1>1
<1> QED BY <1>1, <1>13, <1>14, AtJudges

(* A chunk is decoded as far as it is captured and allowed; the next one   *)
(* is come to only if all of it was.                                       *)
LEMMA ChunkJudged == ASSUME Judged, Chunk, Inv' PROVE Judged'
<1> DEFINE c == reply.captured
           w == reply.wire
           last == Len(reply.cuts)
           n == ChunkSize(remaining)
           s == Behind(remaining)
           take == Take(n, s)
<1>1. /\ At("chunked") /\ n > 0 /\ decoded' = decoded \o First(s, take)
      /\ IF CutShort(take, n, s) \/ ~Is(s, n + 1, CRLF)
           THEN verdict' = "truncated"
           ELSE remaining' = From(s, n + 3)
  BY DEF Chunk, Conclude
<1>2. /\ reply \in Reply /\ Meant(reply) /\ reply.framing = "chunked"
      /\ limit \in Nat /\ Len(decoded) <= limit
  BY <1>1, Standing
<1>3. PICK i \in 1 .. last : StandsAt(i)
  BY <1>1, Standing
<1> DEFINE p == reply.cuts[i].at
           b == reply.cuts[i].body
<1>4. /\ w \in Seq(Bytes) /\ c \in Seq(Bytes) /\ Begins(c, w) /\ reply.entity \in Seq(Bytes)
      /\ Len(c) \in Nat /\ last \in Nat \ {0} /\ Len(c) <= Len(w) /\ Len(w) \in Nat
      /\ Len(reply.entity) \in Nat /\ reply.whole \in BOOLEAN
  BY <1>2, ReplyType
<1>5. /\ p \in Nat \ {0} /\ b \in 0 .. Len(reply.entity)
      /\ remaining = From(c, p) /\ decoded = First(reply.entity, b)
  BY <1>2, <1>3, CutsPositive DEF StandsAt
<1> HIDE DEF p, b, n, s, take
<1>6. PICK e \in p .. Len(c) - 1 : Line(w, p, e) /\ SizeAt(w, p, e) = n /\ s = From(c, e + 2)
  <2>1. Ends(From(c, p)) # {}
    BY <1>1, <1>5 DEF ChunkSize, n
  <2>2. \E e \in p .. Len(c) - 1 :
          /\ Line(w, p, e)
          /\ ChunkSize(From(c, p)) = SizeAt(w, p, e)
          /\ Behind(From(c, p)) = From(c, e + 2)
    BY <1>4, <1>5, <2>1, LineFound
  <2> QED BY <1>5, <2>2, Zenon DEF n, s
<1>7. e \in Nat /\ e + 2 \in Nat \ {0} /\ e \in p .. Len(w)
  BY <1>4, <1>5, <1>6
<1>8. i # last
  <2>1. SUFFICES ASSUME i = last PROVE FALSE
    OBVIOUS
  <2>2. EndsAt(reply, p)
    BY <1>2, <2>1 DEF Meant, InChunks, p
  <2>3. SizeAt(w, p, e) \in {-1, 0}
    BY <1>6, <1>7, <2>2 DEF EndsAt
  <2> QED BY <1>1, <1>6, <2>3
<1>9. i \in 1 .. Len(reply.cuts) - 1 /\ i + 1 \in 1 .. Len(reply.cuts)
  BY <1>4, <1>8
<1> DEFINE q == reply.cuts[i + 1].at
<1>10. /\ n = reply.cuts[i + 1].body - b /\ n \in Nat \ {0} /\ b + n <= Len(reply.entity)
       /\ \A j \in 1 .. n : w[e + 1 + j] = reply.entity[b + j]
       /\ NewLine(w, e + 2 + n) /\ q = e + 4 + n
  <2> DEFINE m == reply.cuts[i + 1].body - reply.cuts[i].body
  <2>1. /\ m \in Nat \ {0} /\ b + m <= Len(reply.entity)
        /\ \E f \in Nat :
             /\ Line(w, p, f) /\ SizeAt(w, p, f) = m
             /\ \A j \in 1 .. m : w[f + 1 + j] = reply.entity[b + j]
             /\ NewLine(w, f + 2 + m) /\ q = f + 4 + m
    BY <1>2, <1>9, ChunkMeant DEF p, b
  <2> HIDE DEF m, q
  <2>2. PICK f \in Nat :
             /\ Line(w, p, f) /\ SizeAt(w, p, f) = m
             /\ \A j \in 1 .. m : w[f + 1 + j] = reply.entity[b + j]
             /\ NewLine(w, f + 2 + m) /\ q = f + 4 + m
    BY <2>1
  <2>3. f = e
    BY <1>5, <1>6, <1>7, <2>2, LineUnique
  <2>4. m = n
    BY <1>6, <2>2, <2>3
  <2> QED BY <2>1, <2>2, <2>3, <2>4 DEF m, b
<1> DEFINE d == reply.cuts[i + 1].body
<1>11. q \in Nat \ {0} /\ d \in 0 .. Len(reply.entity)
  BY <1>2, <1>9, CutsPositive
<1>12. n = d - b
  BY <1>10
<1>13. n \in Nat \ {0}
  BY <1>10
<1>14. b + n <= Len(reply.entity)
  BY <1>10
<1>15. q = e + 4 + n
  BY <1>10
<1>16. NewLine(w, e + 2 + n)
  BY <1>10
<1> HIDE DEF d
<1>17. b \in Nat /\ b + n = d
  BY <1>4, <1>5, <1>11, <1>12
<1> HIDE DEF q
<1>18. /\ s \in Seq(Bytes) /\ Len(s) \in Nat
       /\ Len(s) = IF e + 2 <= Len(c) THEN Len(c) - (e + 2) + 1 ELSE 0
       /\ \A j \in 1 .. Len(c) - (e + 2) + 1 : s[j] = w[(e + 2) + j - 1]
  <2>1. /\ s \in Seq(Bytes)
        /\ Len(s) = IF e + 2 <= Len(c) THEN Len(c) - (e + 2) + 1 ELSE 0
    BY <1>4, <1>6, <1>7, FromAt
  <2>2. \A j \in 1 .. Len(c) - (e + 2) + 1 : s[j] = w[(e + 2) + j - 1]
    BY <1>4, <1>6, <1>7, Seen
  <2>3. Len(s) \in Nat
    BY <2>1, LenProperties
  <2> QED BY <2>1, <2>2, <2>3
<1>19. Len(s) \in Nat /\ Len(s) = IF e + 2 <= Len(c) THEN Len(c) - (e + 2) + 1 ELSE 0
  BY <1>18
<1>20. Len(decoded) = b /\ b \in Nat /\ decoded \in Seq(Bytes)
  BY <1>4, <1>5, FirstType
<1>21. /\ take \in Nat /\ take <= n /\ take <= Len(s) /\ take <= limit - b
       /\ take \in {n, Len(s), limit - b}
  <2>1. limit - Len(decoded) = limit - b /\ limit - b \in Nat
    BY <1>2, <1>20
  <2>2. take = Least(Least(n, Len(s)), limit - b)
    BY <2>1 DEF take, Take
  <2> QED BY <2>1, <2>2, <1>13, <1>19 DEF Least
<1>22. decoded' = First(reply.entity, b + take)
  <2> DEFINE entity == reply.entity
             a == decoded'
             z == First(entity, b + take)
  <2>1. /\ First(s, take) \in Seq(Bytes) /\ Len(First(s, take)) = take
        /\ \A j \in 1 .. take : First(s, take)[j] = s[j]
    BY <1>18, <1>21, FirstAt
  <2>2. /\ a \in Seq(Bytes) /\ Len(a) = b + take
        /\ \A j \in 1 .. b + take : a[j] = IF j <= b THEN decoded[j] ELSE First(s, take)[j - b]
    <3> DEFINE f == First(s, take)
    <3>1. f \in Seq(Bytes) /\ Len(f) = take /\ decoded' = decoded \o f
      BY <1>1, <2>1
    <3> HIDE DEF f
    <3>2. /\ decoded \o f \in Seq(Bytes) /\ Len(decoded \o f) = Len(decoded) + Len(f)
          /\ \A j \in 1 .. Len(decoded) + Len(f) :
               (decoded \o f)[j] = IF j <= Len(decoded) THEN decoded[j] ELSE f[j - Len(decoded)]
      BY <1>20, <3>1, ConcatProperties
    <3>3. /\ decoded' \in Seq(Bytes) /\ Len(decoded') = b + take
          /\ \A j \in 1 .. b + take : decoded'[j] = IF j <= b THEN decoded[j] ELSE f[j - b]
      BY <1>20, <3>1, <3>2
    <3> QED BY <3>3 DEF f
  <2>3. b + take \in 0 .. Len(entity)
    BY <1>4, <1>13, <1>14, <1>20, <1>21
  <2>4. z \in Seq(Bytes) /\ Len(z) = b + take /\ \A j \in 1 .. b + take : z[j] = entity[j]
    BY <1>4, <2>3, FirstAt
  <2>5. \A j \in 1 .. b : decoded[j] = entity[j]
    BY <1>4, <1>5, FirstAt
  <2> HIDE DEF a, z, entity
  <2>6. ASSUME NEW j \in 1 .. b + take PROVE a[j] = z[j]
    <3>1. CASE j <= b
      BY <1>20, <2>2, <2>4, <2>5, <3>1
    <3>2. CASE j > b
      <4>1. j - b \in 1 .. take /\ j - b \in 1 .. n /\ j \in Nat
        BY <1>13, <1>17, <1>21, <3>2
      <4>2. j - b \in 1 .. Len(c) - (e + 2) + 1
        BY <1>4, <1>7, <1>19, <1>21, <4>1
      <4>3. a[j] = s[j - b]
        BY <1>20, <2>1, <2>2, <3>2, <4>1
      <4>4. s[j - b] = w[(e + 2) + (j - b) - 1]
        BY <1>18, <4>2
      <4>5. w[e + 1 + (j - b)] = entity[b + (j - b)]
        BY <1>10, <4>1 DEF entity
      <4>6. (e + 2) + (j - b) - 1 = e + 1 + (j - b) /\ b + (j - b) = j
        BY <1>7, <1>20, <4>1
      <4> QED BY <2>4, <4>3, <4>4, <4>5, <4>6
    <3> QED BY <1>20, <3>1, <3>2
  <2>7. a = z
    BY <2>2, <2>4, <2>6, SeqEqual
  <2> QED BY <2>7 DEF a, z, entity
<1>23. Len(decoded') = b + take /\ b + take <= Len(reply.entity)
  <2>1. b + take \in 0 .. Len(reply.entity)
    BY <1>4, <1>13, <1>14, <1>20, <1>21
  <2> QED BY <1>4, <1>22, <2>1, FirstType
<1>24. reply' = reply /\ limit' = limit
  BY <1>1 DEF At
<1>25. CASE CutShort(take, n, s) \/ ~Is(s, n + 1, CRLF)
  <2>1. ~(reply.whole /\ Len(reply.entity) <= limit)
    <3>1. CASE limit - b < n
      BY <1>2, <1>4, <1>13, <1>14, <1>17, <3>1
    <3>2. CASE n <= limit - b
      <4>1. Len(c) < q
        <5>1. CASE CutShort(take, n, s)
          <6>1. Len(s) < n
            BY <1>2, <1>13, <1>19, <1>17, <1>21, <3>2, <5>1 DEF CutShort
          <6> QED BY <1>4, <1>7, <1>13, <1>15, <1>19, <6>1
        <5>2. CASE ~Is(s, n + 1, CRLF)
          <6>1. n + 1 \in Nat \ {0} /\ (e + 2) + (n + 1) - 1 = e + 2 + n
            BY <1>7, <1>13
          <6>2. ~NewLine(s, n + 1)
            BY <1>18, <5>2, <6>1, IsNewLine
          <6>3. ~((e + 2) + (n + 1) <= Len(c))
            BY <1>4, <1>6, <1>7, <1>16, <6>1, <6>2, Seen
          <6> QED BY <1>4, <1>7, <1>13, <1>15, <6>3
        <5> QED BY <1>25, <5>1, <5>2
      <4> QED BY <1>2, <1>9, <4>1, MoreToCome DEF q
    <3> QED BY <1>2, <1>13, <1>17, <3>1, <3>2
  <2>2. verdict' = "truncated"
    BY <1>1, <1>25
  <2>3. JudgedRight'
    BY <1>22, <1>23, <1>24, <2>1, <2>2 DEF JudgedRight
  <2> QED BY <1>1, <2>2, <2>3, AtJudges
<1>26. CASE ~CutShort(take, n, s) /\ Is(s, n + 1, CRLF)
  <2>1. remaining' = From(s, n + 3) /\ verdict' = verdict
    BY <1>26 DEF Chunk, n, s, take
  <2>2. take = n
    BY <1>13, <1>21, <1>26 DEF CutShort
  <2>3. remaining' = From(c, q)
    <3>1. n + 3 \in Nat \ {0} /\ (e + 2) + (n + 3) - 1 = e + 4 + n
      BY <1>7, <1>13
    <3>2. From(From(c, e + 2), n + 3) = From(c, (e + 2) + (n + 3) - 1)
      BY <1>4, <1>7, <3>1, FromFrom
    <3> QED BY <1>6, <1>15, <2>1, <3>1, <3>2
  <2>4. decoded' = First(reply.entity, reply.cuts[i + 1].body)
    BY <1>17, <1>22, <2>2 DEF d
  <2>5. StandsAt(i + 1)'
    BY <1>24, <2>3, <2>4 DEF StandsAt, q
  <2>6. OnTrack'
    BY <1>2, <1>9, <1>24, <2>5 DEF OnTrack
  <2>7. JudgedRight'
    <3>1. verdict' = "running"
      BY <1>1, <2>1 DEF At
    <3> QED BY <1>22, <1>23, <1>24, <3>1 DEF JudgedRight
  <2> QED BY <1>1, <2>6, <2>7, AtJudges
<1> QED BY <1>25, <1>26

(* Where nothing is chunked the one step takes all it will. *)
LEMMA PlainJudged == ASSUME Judged, Plain, Inv' PROVE Judged'
<1> DEFINE c == reply.captured
           entity == reply.entity
           announced == IF reply.framing = "length" THEN reply.expected ELSE Len(remaining)
           take == Least(Least(Len(remaining), announced), limit)
<1>1. PICK f \in {"none", "length"} : At(f)
  BY DEF Plain
<1>2. /\ reply.framing = f /\ verdict = "running" /\ reply' = reply /\ limit' = limit
      /\ decoded' = First(remaining, take)
      /\ verdict' = IF reply.framing = "length" /\ ~CutShort(take, announced, remaining)
                      THEN "complete" ELSE "truncated"
  BY <1>1 DEF At, Plain, Complete, Conclude
<1>3. remaining = c
  BY <1>2 DEF Judged, OnTrack
<1>4. reply \in Reply /\ Meant(reply) /\ limit \in Nat
  BY <1>2, MeaningAssumption, FramingAssumption DEF Judged, Inv, TypeOK
<1>5. /\ c \in Seq(Bytes) /\ entity \in Seq(Bytes) /\ reply.wire \in Seq(Bytes)
      /\ Len(c) \in Nat /\ Len(entity) \in Nat /\ Len(reply.wire) \in Nat
      /\ reply.expected \in Nat /\ Begins(c, reply.wire) /\ reply.whole \in BOOLEAN
  BY <1>4, LenProperties DEF Reply, Meant
<1>6. /\ reply.framing = "none" => entity = reply.wire
      /\ reply.framing = "length" =>
           /\ Begins(entity, reply.wire) /\ Len(entity) = reply.expected
           /\ reply.whole = (Len(c) >= reply.expected)
  BY <1>4 DEF Meant
<1>7. /\ take \in 0 .. Len(c) /\ take <= announced /\ announced \in Nat /\ take <= limit
      /\ take \in {Len(c), announced, limit}
  BY <1>3, <1>4, <1>5 DEF Least
<1>8. take \in 0 .. Len(entity)
  BY <1>2, <1>3, <1>5, <1>6, <1>7 DEF Begins
<1> HIDE DEF take
<1>9. First(c, take) = First(entity, take)
  <2>1. /\ First(c, take) \in Seq(Bytes) /\ Len(First(c, take)) = take
        /\ \A j \in 1 .. take : First(c, take)[j] = c[j]
    BY <1>5, <1>7, FirstAt
  <2>2. /\ First(entity, take) \in Seq(Bytes) /\ Len(First(entity, take)) = take
        /\ \A j \in 1 .. take : First(entity, take)[j] = entity[j]
    BY <1>5, <1>8, FirstAt
  <2>3. \A j \in 1 .. take : c[j] = entity[j]
    <3>1. \A j \in 1 .. take : c[j] = reply.wire[j]
      BY <1>5, <1>7 DEF Begins
    <3>2. \A j \in 1 .. take : entity[j] = reply.wire[j]
      BY <1>2, <1>5, <1>6, <1>8 DEF Begins
    <3> QED BY <3>1, <3>2
  <2> QED BY <2>1, <2>2, <2>3, SeqEqual
<1>10. decoded' = First(entity, take) /\ Len(decoded') = take
  BY <1>2, <1>3, <1>5, <1>7, <1>9, FirstType
<1>11. CASE reply.framing = "none"
  <2>1. verdict' = "truncated"
    BY <1>2, <1>11
  <2>2. JudgedRight'
    BY <1>2, <1>8, <1>10, <1>11, <2>1 DEF JudgedRight
  <2> QED BY <1>1, <2>1, <2>2, AtJudges
<1>12. CASE reply.framing = "length"
  <2>1. announced = Len(entity) /\ (CutShort(take, announced, remaining) <=> take < Len(entity))
    BY <1>6, <1>12 DEF CutShort
  <2>2. take = Len(entity) <=> Len(c) >= Len(entity) /\ Len(entity) <= limit
    BY <1>4, <1>5, <1>7, <2>1
  <2>3. (verdict' = "complete") <=> take = Len(entity)
    BY <1>2, <1>5, <1>8, <1>12, <2>1
  <2>4. reply.whole <=> Len(c) >= Len(entity)
    BY <1>5, <1>6, <1>12
  <2>5. (verdict' = "complete") <=>
          (reply.whole /\ reply.framing # "none" /\ Len(reply.entity) <= limit)
    BY <1>12, <2>2, <2>3, <2>4
  <2>6. JudgedRight'
    BY <1>2, <1>8, <1>10, <2>5 DEF JudgedRight
  <2>7. verdict' \in {"complete", "truncated"}
    BY <1>2
  <2> QED BY <1>1, <2>6, <2>7, AtJudges
<1> QED BY <1>2, <1>11, <1>12

LEMMA JudgedNext == Judged /\ [Next]_vars => Judged'
<1> SUFFICES ASSUME Judged, [Next]_vars PROVE Judged'
  OBVIOUS
<1>1. Inv'
  BY InvNext DEF Judged
<1>2. CASE NoBody
  <2>1. /\ At("bodiless") /\ verdict' = "complete" /\ decoded' = decoded
        /\ reply' = reply /\ limit' = limit
    BY <1>2 DEF NoBody, Conclude, At
  <2>2. reply.framing = "bodiless" /\ Meant(reply) /\ limit \in Nat
    BY <2>1, MeaningAssumption, FramingAssumption DEF At, Judged, Inv, TypeOK
  <2>3. reply.entity = <<>> /\ reply.whole
    BY <2>2 DEF Meant
  <2>4. (verdict' = "complete") =
          (reply.whole /\ reply.framing # "none" /\ Len(reply.entity) <= limit)
    BY <2>1, <2>2, <2>3
  <2>5. JudgedRight'
    BY <2>1, <2>4, VerdictEnough
  <2> QED BY <1>1, <2>1, <2>5, AtJudges
<1>3. CASE Plain
  BY <1>1, <1>3, PlainJudged
<1>4. CASE NoChunk
  BY <1>1, <1>4, NoChunkJudged
<1>5. CASE LastChunk
  BY <1>1, <1>5, LastChunkJudged
<1>6. CASE Chunk
  BY <1>1, <1>6, ChunkJudged
<1>7. CASE SendFrame
  BY <1>1, <1>7 DEF SendFrame, replyVars, Judged, JudgedRight, OnTrack
<1>8. CASE UNCHANGED vars
  BY <1>1, <1>8 DEF vars, replyVars, Judged, JudgedRight, OnTrack, StandsAt
<1> QED BY <1>2, <1>3, <1>4, <1>5, <1>6, <1>7, <1>8 DEF Next

(* What a rejected upgrade is said to have answered begins what the peer   *)
(* meant, and is called complete exactly if it is all of it and the reply  *)
(* was read to its end: for any bytes and any number of chunks, wherever   *)
(* the capture breaks off and whatever the limit.                          *)
THEOREM RejectionsJudgedRight == Spec => []JudgedRight
<1>1. Judged => JudgedRight
  BY DEF Judged
<1> QED BY <1>1, JudgedInit, JudgedNext, PTL DEF Spec
=============================================================================
