------------------------------ MODULE WsFraming ------------------------------
(***************************************************************************)
(* The two loops over bytes in rust/src/websocket_client.rs: what a        *)
(* rejected upgrade is said to have answered (handshake_body), from the    *)
(* bytes tungstenite happened to read behind the headers, and the frames   *)
(* that write makes of a data message.                                     *)
(*                                                                         *)
(* Bytes are classes: "CR" and "LF", "x" for any other, and digits where a *)
(* chunk's size is written.  A call is in one loop or the other, and a     *)
(* step is one iteration.                                                  *)
(***************************************************************************)
EXTENDS Integers, Sequences

CONSTANTS Replies,    \* rejected upgrades: what came and what was meant
          Limits,     \* max_handshake_body_bytes
          Lengths,    \* of data messages
          FrameSizes  \* write_frame_size

Bytes == {"CR", "LF", "x", ";", "0", "1", "2"}

(* A reply announces its body's length or chunks, nothing, or has no body. *)
Reply == [framing : {"none", "length", "chunked", "bodiless"},
          expected : Nat,      \* Content-Length
          captured : Seq(Bytes),
          wire : Seq(Bytes),   \* all the peer would send, captured or not
          entity : Seq(Bytes), \* the body that was meant
          cuts : Seq([at : Nat, body : Nat]), \* where its chunks begin on the wire, and
                                              \* what of entity is in front of them
          whole : BOOLEAN]     \* captured has the reply to its end

ASSUME FramingAssumption ==
  /\ Replies \subseteq Reply
  /\ Limits \subseteq Nat
  /\ Lengths \subseteq Nat
  /\ FrameSizes \subseteq Nat \ {0}

VARIABLES
  reply,      \* the reply being looked at
  limit,
  remaining,  \* bytes still to be decoded
  decoded,    \* the body so far
  verdict,    \* "running", "complete" or "truncated"; "none" while writing
  length,     \* of the message being written
  size,
  offset,     \* bytes of it already framed
  frames      \* the frames sent

replyVars == <<reply, limit, remaining, decoded, verdict>>
messageVars == <<length, size, offset, frames>>
vars == <<replyVars, messageVars>>

Frame == [from : Nat, to : Nat, opcode : {"first", "continue"}, fin : BOOLEAN]

TypeOK ==
  /\ reply \in Reply
  /\ limit \in Limits \union {0}
  /\ remaining \in Seq(Bytes)
  /\ decoded \in Seq(Bytes)
  /\ verdict \in {"running", "complete", "truncated", "none"}
  /\ length \in Nat
  /\ size \in Nat \ {0}
  /\ offset \in 0 .. length
  /\ frames \in Seq(Frame)

NoReply == [framing |-> "none", expected |-> 0, captured |-> <<>>, wire |-> <<>>, entity |-> <<>>,
            cuts |-> <<>>, whole |-> FALSE]

Init ==
  /\ \/ reply \in Replies /\ limit \in Limits /\ verdict = "running" /\ length = 0 /\ size = 1
     \/ reply = NoReply /\ limit = 0 /\ verdict = "none" /\ length \in Lengths /\ size \in FrameSizes
  /\ remaining = reply.captured
  /\ decoded = <<>>
  /\ offset = 0
  /\ frames = <<>>

-----------------------------------------------------------------------------
Least(a, b) == IF a <= b THEN a ELSE b
First(s, n) == SubSeq(s, 1, n)
From(s, n) == SubSeq(s, n, Len(s))

Is(s, i, word) == i + Len(word) - 1 <= Len(s) /\ SubSeq(s, i, i + Len(word) - 1) = word
CRLF == <<"CR", "LF">>
Ends(s) == {i \in 1 .. Len(s) : Is(s, i, CRLF)}
LineEnd(s) == CHOOSE i \in Ends(s) : \A j \in Ends(s) : i <= j

(* A size, possibly with an extension behind it; -1 for neither. *)
SizeIn(line) ==
  IF Len(line) = 0 \/ (Len(line) > 1 /\ line[2] # ";") THEN -1
  ELSE CASE line[1] = "0" -> 0 [] line[1] = "1" -> 1 [] line[1] = "2" -> 2 [] OTHER -> -1

(* The size of the chunk that s begins with, -1 if it begins with none. *)
ChunkSize(s) == IF Ends(s) = {} THEN -1 ELSE SizeIn(First(s, LineEnd(s) - 1))
Behind(s) == From(s, LineEnd(s) + 2)

Conclude(v) == verdict' = v
Complete(c) == Conclude(IF c THEN "complete" ELSE "truncated")

At(framing) ==
  /\ verdict = "running"
  /\ reply.framing = framing
  /\ UNCHANGED <<reply, limit, messageVars>>

(* 1xx, 204 and 304 answer with an empty body, whatever was read. *)
NoBody ==
  /\ At("bodiless")
  /\ Conclude("complete")
  /\ UNCHANGED <<remaining, decoded>>

(* Slip: the limit is not asked. *)
CutShortOfCapture(take, n, s) == Len(s) < n

CutShort(take, n, s) == take < n

(* Otherwise as many bytes as were announced, captured and are allowed.    *)
Plain ==
  /\ At("none") \/ At("length")
  /\ LET announced == IF reply.framing = "length" THEN reply.expected ELSE Len(remaining)
         take == Least(Least(Len(remaining), announced), limit)
     IN /\ decoded' = First(remaining, take)
        /\ Complete(reply.framing = "length" /\ ~CutShort(take, announced, remaining))
  /\ UNCHANGED remaining

(* No line, or no size in it. *)
NoChunk ==
  /\ At("chunked")
  /\ ChunkSize(remaining) = -1
  /\ Conclude("truncated")
  /\ UNCHANGED <<remaining, decoded>>

(* An empty line, at once or behind trailers. *)
TrailerEnds(s) == Is(s, 1, CRLF) \/ \E i \in 1 .. Len(s) : Is(s, i, CRLF \o CRLF)

LastChunk ==
  /\ At("chunked")
  /\ ChunkSize(remaining) = 0
  /\ remaining' = Behind(remaining)
  /\ Complete(TrailerEnds(remaining'))
  /\ UNCHANGED decoded

(* Slip: what is decoded already is forgotten. *)
TakeOfChunk(n, s) == Least(Least(n, Len(s)), limit)

Take(n, s) == Least(Least(n, Len(s)), limit - Len(decoded))

Chunk ==
  LET n == ChunkSize(remaining)
      s == Behind(remaining)
      take == Take(n, s)
  IN
  /\ At("chunked")
  /\ n > 0
  /\ decoded' = decoded \o First(s, take)
  /\ IF CutShort(take, n, s) \/ ~Is(s, n + 1, CRLF)
       THEN Conclude("truncated") /\ remaining' = s
       ELSE remaining' = From(s, n + 3) /\ UNCHANGED verdict

-----------------------------------------------------------------------------
(* What a peer means by its reply, as HTTP/1.1 has it; the loop above sees *)
(* only the capture, and has to find it out.                               *)

Begins(a, b) == Len(a) <= Len(b) /\ \A i \in 1 .. Len(a) : a[i] = b[i]

NewLine(w, j) == j \in 1 .. Len(w) - 1 /\ w[j] = "CR" /\ w[j + 1] = "LF"
Line(w, p, e) == p <= e /\ NewLine(w, e) /\ \A j \in p .. e - 1 : ~NewLine(w, j)
SizeAt(w, p, e) == SizeIn(SubSeq(w, p, e - 1))
EmptyLine(w, p, t) == NewLine(w, t) /\ (t = p \/ (t - 2 >= p /\ NewLine(w, t - 2)))

(* A line with the size, so many bytes of the body, and a line end. *)
HasChunk(r, i) ==
  LET c == r.cuts[i]
      d == r.cuts[i + 1]
      n == d.body - c.body
  IN
  /\ n > 0 /\ d.body <= Len(r.entity)
  /\ \E e \in c.at .. Len(r.wire) :
       /\ Line(r.wire, c.at, e) /\ SizeAt(r.wire, c.at, e) = n
       /\ \A j \in 1 .. n : r.wire[e + 1 + j] = r.entity[c.body + j]
       /\ NewLine(r.wire, e + 2 + n) /\ d.at = e + 4 + n

(* The size 0 and trailers up to an empty line, or nothing one can read.   *)
EndsAt(r, p) ==
  /\ \A e \in p .. Len(r.wire) : Line(r.wire, p, e) => SizeAt(r.wire, p, e) \in {-1, 0}
  /\ r.whole <=> \E e \in p .. Len(r.wire) :
                 /\ Line(r.wire, p, e) /\ SizeAt(r.wire, p, e) = 0
                 /\ \E t \in e + 2 .. Len(r.captured) - 1 : EmptyLine(r.wire, e + 2, t)

InChunks(r) ==
  LET last == Len(r.cuts) IN
  /\ last > 0
  /\ r.cuts[1] = [at |-> 1, body |-> 0] /\ r.cuts[last].body = Len(r.entity)
  /\ \A i \in 1 .. last - 1 : HasChunk(r, i)
  /\ EndsAt(r, r.cuts[last].at)

Meant(r) ==
  /\ Begins(r.captured, r.wire)
  /\ r.framing = "bodiless" => r.entity = <<>> /\ r.whole
  /\ r.framing = "none" => r.entity = r.wire
  /\ r.framing = "length" =>
       /\ Begins(r.entity, r.wire) /\ Len(r.entity) = r.expected
       /\ r.whole = (Len(r.captured) >= r.expected)
  /\ r.framing = "chunked" => InChunks(r)

ASSUME MeaningAssumption == \A r \in Replies : Meant(r)

-----------------------------------------------------------------------------
(* write: offset grows until the frame that ends the message is sent. *)

(* Slip: a message that fills its frames has an empty one behind them. *)
EndsMessageLate(end) == end = length /\ end - offset < size

EndsMessage(end) == end = length

Sent == frames # <<>> /\ frames[Len(frames)].fin

SendFrame ==
  LET end == Least(offset + size, length) IN
  /\ verdict = "none" /\ ~Sent
  /\ frames' = Append(frames, [from |-> offset, to |-> end, fin |-> EndsMessage(end),
                               opcode |-> IF offset > 0 THEN "continue" ELSE "first"])
  /\ offset' = end
  /\ UNCHANGED <<replyVars, length, size>>

Next == NoBody \/ Plain \/ NoChunk \/ LastChunk \/ Chunk \/ SendFrame

Spec == Init /\ [][Next]_vars

-----------------------------------------------------------------------------
(* Wherever the captured bytes break off, whatever follows them and however*)
(* small the limit: the body is the beginning of what was meant, and is    *)
(* called complete exactly if it is all of it and the reply was read to    *)
(* its end, trailers included; a reply that announces neither length nor   *)
(* chunks is never complete.                                               *)
JudgedRight ==
  /\ Len(decoded) <= Len(reply.entity) /\ decoded = First(reply.entity, Len(decoded))
  /\ verdict \in {"complete", "truncated"} =>
       (verdict = "complete") =
         (reply.whole /\ reply.framing # "none" /\ Len(reply.entity) <= limit)

(* No body is longer than the limit, so limit - decoded.len(), on unsigned *)
(* numbers, does not wrap.                                                 *)
Bounded == Len(decoded) <= limit

(* The frames of a message are its bytes without gap or overlap, each as   *)
(* long as the frame size allows; the first has the opcode, the last the   *)
(* end; an empty message is one frame, and nothing else has an empty one.  *)
FramesTile ==
  /\ \A i \in DOMAIN frames :
       LET f == frames[i] IN
       /\ f.from = IF i = 1 THEN 0 ELSE frames[i - 1].to
       /\ f.opcode = IF i = 1 THEN "first" ELSE "continue"
       /\ f.fin = (f.to = length)
       /\ f.to - f.from <= size
       /\ f.to = f.from => length = 0
       /\ f.fin \/ f.to - f.from = size
       /\ f.fin => i = Len(frames)
  /\ offset = IF frames = <<>> THEN 0 ELSE frames[Len(frames)].to
=============================================================================
