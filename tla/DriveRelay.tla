----------------------------- MODULE DriveRelay -----------------------------
(***************************************************************************)
(* One connection through drive-hardware-relay-v3-frameaware.py: unifi-    *)
(* core answers the upgrade request and then sends WebSocket frames; the   *)
(* relay reads them in chunks that end anywhere, reassembles messages,     *)
(* rewrites the binary ones and sends them on; a second pump carries the   *)
(* other direction, and either side may go at any time.                    *)
(*                                                                         *)
(* A byte is a number, and the sizes of the formats are scaled down:       *)
(*   end of the HTTP header   two bytes instead of four                    *)
(*   frame header             two bytes, a third for a length above        *)
(*                            SmallMax (instead of two or eight above 125) *)
(*   sub-message header       type and length, one byte each (1 + 1 + 6)   *)
(*   SUBSTITUTIONS            one pair, one byte that becomes two          *)
(* Masked frames, which a server never sends, are left out.                *)
(***************************************************************************)
EXTENDS Naturals, Sequences, SequencesExt

CONSTANTS
  SmallMax,   \* longest payload whose length is in the second header byte
  Old,        \* the identity that is replaced in a body, a byte
  New,        \* and what replaces it, a sequence of bytes
  MaxChunk,   \* most bytes a read returns (65536)
  Streams     \* the frame sequences the server may send

ASSUME RelayAssumption ==
  /\ {SmallMax, MaxChunk} \subseteq Nat \ {0}
  /\ Old \in Nat /\ New \in Seq(Nat)

Fin == 128
Control == {8, 9, 10}             \* close, ping, pong
Binary == 2
DataOps == {1, Binary}
NoOp == 16                        \* _msg_opcode is None

VARIABLES
  wire,        \* the bytes the server sends
  meant,       \* the messages it means by them, as the client should get them
  pos,         \* bytes of wire the relay has read
  hsBuf,       \* handshake_buf
  hsOut,       \* what the client got before the first frame
  buf,         \* WSFrameParser.buf
  msgOp,       \* WSFrameParser._msg_opcode
  msgPayload,  \* WSFrameParser._msg_payload
  out,         \* what the client got from the first frame on
  s2c,         \* where pump_rewrite_s2c is
  c2s,         \* where pump_passthrough is
  clientGone,  \* the client has closed or reset the connection
  serverGone   \* the server has

parserVars == <<buf, msgOp, msgPayload>>
peerVars == <<wire, meant, clientGone, serverGone>>
vars == <<wire, meant, pos, hsBuf, hsOut, buf, msgOp, msgPayload, out, s2c, c2s,
          clientGone, serverGone>>

(* The definitions whose names end in _<Slip> are mutated forms of the one
   that follows them: slips the properties below are there to catch.       *)
-----------------------------------------------------------------------------
(* encode_ws_frame, and how the server encodes. *)
Encode(first, payload) ==
  LET size == Len(payload) IN
  <<first>>
    \o (IF size <= SmallMax THEN <<size>> ELSE <<SmallMax + 1, size>>)
    \o payload

Response == <<72, 13, 10>>        \* the answer to the upgrade request
Terminator == <<13, 10>>

Wire(frames) ==
  Response \o FlattenSeq([i \in 1 .. Len(frames) |->
    Encode(IF frames[i].fin THEN Fin + frames[i].op ELSE frames[i].op,
           frames[i].payload)])

(* rewrite_body *)
RewriteBody(body) ==
  FlattenSeq([i \in 1 .. Len(body) |->
                IF body[i] = Old THEN New ELSE <<body[i]>>])

(* rewrite_submessages: header by header from i on; a payload that does not
   parse to its end is returned as it came.                                *)
RewriteSubmessages(payload) ==
  LET size == Len(payload)
      Unclean == <<FALSE, <<>>>>
      From[i \in 1 .. size + 1] ==
        IF i > size THEN <<TRUE, <<>>>>
        ELSE IF i + 1 > size THEN Unclean
        ELSE IF i + 1 + payload[i + 1] > size THEN Unclean
        ELSE LET end == i + 1 + payload[i + 1]
                 body == RewriteBody(SubSeq(payload, i + 2, end))
                 rest == From[end + 1]
             IN <<rest[1], <<payload[i], Len(body)>> \o body \o rest[2]>>
  IN IF From[1][1] THEN From[1][2] ELSE payload

-----------------------------------------------------------------------------
(***************************************************************************)
(* What the client should get, said without a parser: a control frame is a *)
(* message; a final data frame ends the message of the data frames since   *)
(* the final one before it.                                                *)
(***************************************************************************)
IsData(frames, i) == frames[i].op \notin Control

PartsOf(frames, i) ==
  {j \in 1 .. i : IsData(frames, j) /\ \A l \in j .. i - 1 : ~(IsData(frames, l) /\ frames[l].fin)}

Concat(frames, parts) ==
  FlattenSeq([l \in 1 .. Len(frames) |->
                IF l \in parts THEN frames[l].payload ELSE <<>>])

(* The sub-messages of a payload: the header positions, which chain from
   its start to its end, if there are such.                                *)
Chains(p) ==
  {heads \in SUBSET (1 .. Len(p)) :
     LET ends == {h + 2 + p[h + 1] : h \in {g \in heads : g < Len(p)}} IN
     /\ Len(p) \notin heads
     /\ heads \cup {Len(p) + 1} = ends \cup {1}}

Identified(p) ==
  LET Symbol(heads, i) ==
        IF i \in heads THEN <<p[i]>>
        ELSE IF i - 1 \in heads
          THEN <<Len(RewriteBody(SubSeq(p, i + 1, i + p[i])))>>
        ELSE RewriteBody(<<p[i]>>)
  IN IF Chains(p) = {} THEN p
     ELSE LET heads == CHOOSE c \in Chains(p) : TRUE
          IN FlattenSeq([i \in 1 .. Len(p) |-> Symbol(heads, i)])

MessageAt(frames, i) ==
  LET parts == PartsOf(frames, i)
      op == frames[CHOOSE j \in parts : \A l \in parts : j <= l].op
  IN IF ~IsData(frames, i)
     THEN <<<<Fin + frames[i].op>> \o frames[i].payload>>
     ELSE IF ~frames[i].fin THEN <<>>
     ELSE <<<<Fin + op>> \o (IF op = Binary THEN Identified(Concat(frames, parts))
                             ELSE Concat(frames, parts))>>

Expected(frames) == FlattenSeq([i \in 1 .. Len(frames) |-> MessageAt(frames, i)])

-----------------------------------------------------------------------------
Init ==
  /\ \E frames \in Streams : wire = Wire(frames) /\ meant = Expected(frames)
  /\ pos = 0
  /\ hsBuf = <<>> /\ hsOut = <<>> /\ out = <<>>
  /\ buf = <<>> /\ msgOp = NoOp /\ msgPayload = <<>>
  /\ s2c = "connect" /\ c2s = "connect"
  /\ clientGone = FALSE /\ serverGone = FALSE

(* The two peers. *)
ClientGoes ==
  /\ ~clientGone
  /\ clientGone' = TRUE
  /\ UNCHANGED <<wire, meant, pos, hsBuf, hsOut, parserVars, out, s2c, c2s, serverGone>>

ServerGoes ==
  /\ ~serverGone
  /\ serverGone' = TRUE
  /\ UNCHANGED <<wire, meant, pos, hsBuf, hsOut, parserVars, out, s2c, c2s, clientGone>>

(* handle_client: both pumps start, or the client is turned away. *)
Connect ==
  /\ s2c = "connect"
  /\ \/ s2c' = "handshake" /\ c2s' = "read"
     \/ s2c' = "closed" /\ c2s' = "closed"
  /\ UNCHANGED <<peerVars, pos, hsBuf, hsOut, parserVars, out>>

-----------------------------------------------------------------------------
(***************************************************************************)
(* pump_rewrite_s2c.  Read(k) is reader.read giving k bytes.               *)
(***************************************************************************)
Read(k) ==
  /\ pos + k <= Len(wire)
  /\ pos' = pos + k

Chunk(k) == SubSeq(wire, pos + 1, pos + k)

(* The ends of the terminators in s: find takes the first of them. *)
HeaderEnds(s) ==
  {e \in Len(Terminator) .. Len(s) :
     SubSeq(s, e - Len(Terminator) + 1, e) = Terminator}

ForwardPiece(k) ==
  /\ s2c = "handshake" /\ Read(k)
  /\ HeaderEnds(hsBuf \o Chunk(k)) = {}
  /\ hsBuf' = hsBuf \o Chunk(k)
  /\ hsOut' = hsOut \o Chunk(k)
  /\ UNCHANGED <<peerVars, parserVars, out, s2c, c2s>>

FinishHandshake_DropsRest(k) ==
  /\ s2c = "handshake" /\ Read(k)
  /\ LET got == hsBuf \o Chunk(k) IN
     \E e \in HeaderEnds(got) :
       /\ \A d \in HeaderEnds(got) : e <= d
       /\ hsOut' = hsOut \o SubSeq(got, 1, e)
  /\ hsBuf' = <<>>
  /\ s2c' = "parse"
  /\ UNCHANGED <<peerVars, parserVars, out, c2s>>

FinishHandshake(k) ==
  /\ s2c = "handshake" /\ Read(k)
  /\ LET got == hsBuf \o Chunk(k) IN
     \E e \in HeaderEnds(got) :
       /\ \A d \in HeaderEnds(got) : e <= d
       /\ hsOut' = hsOut \o SubSeq(got, 1, e)
       /\ buf' = buf \o SubSeq(got, e + 1, Len(got))
  /\ hsBuf' = <<>>
  /\ s2c' = "parse"
  /\ UNCHANGED <<peerVars, msgOp, msgPayload, out, c2s>>

Feed(k) ==
  /\ s2c = "read" /\ Read(k)
  /\ buf' = buf \o Chunk(k)
  /\ s2c' = "parse"
  /\ UNCHANGED <<peerVars, hsBuf, hsOut, msgOp, msgPayload, out, c2s>>

(* _try_parse_one_frame: the header's size, the payload's, and whether all
   of the frame is there.                                                  *)
HeaderSize == IF buf[2] > SmallMax THEN 3 ELSE 2
PayloadSize == buf[HeaderSize]

WholeFrame ==
  /\ Len(buf) >= 2
  /\ Len(buf) >= HeaderSize
  /\ Len(buf) >= HeaderSize + PayloadSize

Opcode == buf[1] % 16
IsFin == buf[1] >= Fin
Payload == SubSeq(buf, HeaderSize + 1, HeaderSize + PayloadSize)

TakeFrame ==
  /\ s2c = "parse" /\ WholeFrame
  /\ buf' = SubSeq(buf, HeaderSize + PayloadSize + 1, Len(buf))
  /\ UNCHANGED <<peerVars, pos, hsBuf, hsOut, s2c, c2s>>

(* What the pump writes for a complete message. *)
Forward(op, payload) ==
  out' = out \o Encode(Fin + op,
           IF op = Binary THEN RewriteSubmessages(payload) ELSE payload)

IsControl_CloseOnly == Opcode = 8

IsControl == Opcode \in Control

TakeControl ==
  /\ TakeFrame /\ IsControl
  /\ Forward(Opcode, Payload)
  /\ UNCHANGED <<msgOp, msgPayload>>

(* The message a data frame belongs to, this frame included: a continuation
   adds to the one under way, any other opcode starts a new one.           *)
Starts == Opcode # 0

MessageOp == IF Starts THEN Opcode ELSE msgOp
MessagePayload == IF Starts THEN Payload ELSE msgPayload \o Payload

TakeFragment ==
  /\ TakeFrame /\ ~IsControl /\ ~IsFin
  /\ msgOp' = MessageOp
  /\ msgPayload' = MessagePayload
  /\ UNCHANGED out

TakeLast ==
  /\ TakeFrame /\ ~IsControl /\ IsFin
  /\ Forward(MessageOp, MessagePayload)
  /\ msgOp' = NoOp
  /\ msgPayload' = <<>>

NeedMore ==
  /\ s2c = "parse" /\ ~WholeFrame
  /\ s2c' = "read"
  /\ UNCHANGED <<peerVars, pos, hsBuf, hsOut, parserVars, out, c2s>>

-----------------------------------------------------------------------------
(***************************************************************************)
(* The ends of the pumps.  Each closes the connection it writes to, which  *)
(* ends the reading of the other pump.                                     *)
(***************************************************************************)
End(s, c) ==
  /\ s2c' = s /\ c2s' = c
  /\ UNCHANGED <<peerVars, pos, hsBuf, hsOut, parserVars, out>>

UpstreamEnded == serverGone \/ c2s = "closed"

DownstreamEnded_NotByRelay == clientGone

DownstreamEnded == clientGone \/ s2c = "closed"

S2cEof == s2c \in {"handshake", "read"} /\ UpstreamEnded /\ End("closed", c2s)

C2sEof == c2s = "read" /\ DownstreamEnded /\ End(s2c, "closed")

(* write or drain meets a connection that is gone. *)
S2cReset == s2c \in {"handshake", "parse"} /\ clientGone /\ End("closed", c2s)

C2sReset == c2s = "read" /\ serverGone /\ End(s2c, "closed")

S2c ==
  \/ \E k \in 1 .. MaxChunk : ForwardPiece(k) \/ FinishHandshake(k) \/ Feed(k)
  \/ TakeControl \/ TakeFragment \/ TakeLast \/ NeedMore
  \/ S2cEof

Next ==
  \/ ClientGoes \/ ServerGoes
  \/ Connect
  \/ S2c \/ C2sEof
  \/ S2cReset \/ C2sReset

(* The event loop runs whoever has data or an end of file; what the peers
   do, and whether a write meets a reset, is left open.                    *)
Fairness == WF_vars(Connect) /\ WF_vars(S2c) /\ WF_vars(C2sEof)

Spec == Init /\ [][Next]_vars /\ Fairness

-----------------------------------------------------------------------------
(* What the client reads from what it was sent. *)
ReceivedFrom[s \in Seq(Nat)] ==
  IF s = <<>> THEN <<>>
  ELSE LET head == IF s[2] > SmallMax THEN 3 ELSE 2
           end == head + s[head]
       IN <<<<s[1]>> \o SubSeq(s, head + 1, end)>>
            \o ReceivedFrom[SubSeq(s, end + 1, Len(s))]

Received == ReceivedFrom[out]

(* Every message the server sends reaches the client whole, once and in
   order, with its identity rewritten, however the chunks and fragments
   fall and whichever side goes.                                           *)
Promise == INSTANCE Courier WITH
  coming <- SubSeq(meant, Len(Received) + 1, Len(meant)),
  got <- Received

InOrderOnce == Promise!Spec

(* Nothing stays behind in the relay's buffers while both sides stay. *)
DeliversAll ==
  (s2c = "handshake" ~> Received = meant \/ clientGone \/ serverGone)

(* When one side goes, the relay lets go of the other side too. *)
BothEnd ==
  clientGone \/ serverGone ~> s2c = "closed" /\ c2s = "closed"

-----------------------------------------------------------------------------
(* The comment over pump_rewrite_s2c: "forward the HTTP Upgrade response
   untouched until the header terminator"
   (drive-hardware-relay-v3-frameaware.py:163).                            *)
ResponseUntouched == IsPrefix(hsOut, Response)
=============================================================================
