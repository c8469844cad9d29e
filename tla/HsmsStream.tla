---------------------------- MODULE HsmsStream -----------------------------
(***************************************************************************)
(* One direction of an HSMS connection (hsms.rs): frames are written as    *)
(* bytes, the reader gets them in pieces of any size, and the connection   *)
(* may break with part of what was written still under way.                *)
(*                                                                         *)
(* What the body of a frame says is SecsCodec's matter.                    *)
(***************************************************************************)
EXTENDS Integers, Sequences

CONSTANTS
  MaxFrames,  \* bound on the frames written
  Frames,     \* by position, the frames that may be written there
  Pieces      \* bound: how many of n bytes one read returns, or a break leaves

Byte       == {x \in Nat : x <= 255}
Unsigned16 == {x \in Nat : x <= 65535}
Unsigned32 == {x \in Nat : x \div 65536 <= 65535}

SecsHeader ==
  [device : Unsigned16, stream : Byte, function : Byte, w : BOOLEAN, stype : Byte,
   sys : Unsigned32]
HsmsFrame == [length : Unsigned32, header : SecsHeader, body : Seq(Byte)]

Header(device, stream, function, w, stype, sys) ==
  [device |-> device, stream |-> stream, function |-> function, w |-> w,
   stype |-> stype, sys |-> sys]
Control(stype, sys) == Header(65535, 0, 0, FALSE, stype, sys)

(* A frame with the length that `encode` gives it. *)
Frame(header, body) == [length |-> 10 + Len(body), header |-> header, body |-> body]

-----------------------------------------------------------------------------
(* Frames as bytes: to_be_bytes and from_be_bytes of u16 and u32 *)

Bytes2(x) == <<x \div 256, x % 256>>
Bytes4(x) == Bytes2(x \div 65536) \o Bytes2(x % 65536)

(* The number in the bytes of b from the i-th on. *)
Read2(b, i) == 256 * b[i] + b[i + 1]
Read4(b, i) == 65536 * Read2(b, i) + Read2(b, i + 2)

(* Mutant: the stream is not cut to seven bits. *)
EncodeHeaderWide(h) ==
  Bytes2(h.device) \o <<(IF h.w THEN 128 ELSE 0) + h.stream, h.function, 0, h.stype>>
    \o Bytes4(h.sys)

EncodeHeader(h) ==
  Bytes2(h.device) \o <<(IF h.w THEN 128 ELSE 0) + (h.stream % 128), h.function, 0, h.stype>>
    \o Bytes4(h.sys)

DecodeHeader(b) == Header(Read2(b, 1), b[3] % 128, b[4], b[3] >= 128, b[6], Read4(b, 7))

EncodeFrame(f) == Bytes4(f.length) \o EncodeHeader(f.header) \o f.body

(* HsmsFrame::decode of a buffer that holds the whole frame. *)
DecodeFrame(b) ==
  [length |-> Read4(b, 1), header |-> DecodeHeader(SubSeq(b, 5, 14)),
   body |-> SubSeq(b, 15, 4 + Read4(b, 1))]

(* The lengths recv accepts. *)
MaxLength  == 16 * 1024 * 1024
Reasonable == 10 .. MaxLength

(* Headers hold what their types hold.  A frame has the length `encode`     *)
(* gives it, or one that recv refuses, which only a foreign writer declares.*)
Framed(f) == f.length = 10 + Len(f.body) \/ f.length \notin Reasonable

ASSUME StreamAssumption ==
  /\ MaxFrames \in Nat
  /\ \A n \in 1 .. MaxFrames : \A f \in Frames[n] : f \in HsmsFrame /\ Framed(f)

-----------------------------------------------------------------------------
VARIABLES
  sent,      \* the frames written
  wire,      \* bytes under way
  broken,
  buf,       \* bytes of the frame that recv is reading
  received,  \* the frames recv returned
  failed     \* why recv returned an error: "no", "length", "end" or "timeout"

streamVars == <<sent, wire, broken, buf, received, failed>>

StreamInit ==
  /\ sent = <<>> /\ wire = <<>> /\ broken = FALSE
  /\ buf = <<>> /\ received = <<>> /\ failed = "no"

This == Len(sent) + 1

(* HsmsChannel::send. *)
Send ==
  /\ ~broken /\ This <= MaxFrames
  /\ \E f \in Frames[This] :
       wire' = wire \o EncodeFrame(f) /\ sent' = Append(sent, f)
  /\ UNCHANGED <<broken, buf, received, failed>>

From(bytes, n) == SubSeq(bytes, n + 1, Len(bytes))

(* The connection breaks: the last bytes written may never arrive. *)
BreakConnection ==
  /\ ~broken
  /\ broken' = TRUE
  /\ \E n \in ({0} \cup Pieces[Len(wire)]) \cap (0 .. Len(wire)) : wire' = SubSeq(wire, 1, n)
  /\ UNCHANGED <<sent, buf, received, failed>>

Declared == Read4(buf, 1)
Missing  == IF Len(buf) < 4 THEN 4 - Len(buf) ELSE 4 + Declared - Len(buf)

(* Mutant: a frame without a body is refused. *)
UnreasonableBare == Len(buf) = 4 /\ Declared \notin 11 .. MaxLength

Unreasonable == Len(buf) = 4 /\ Declared \notin Reasonable

(* read_exact: one read returns what is there, but no more than asked for.  *)
ReadSome ==
  /\ failed = "no" /\ ~Unreasonable /\ wire # <<>> /\ Missing > 0
  /\ LET most == IF Missing <= Len(wire) THEN Missing ELSE Len(wire)
     IN  \E n \in Pieces[most] \cap (1 .. most) :
           buf' = buf \o SubSeq(wire, 1, n) /\ wire' = From(wire, n)
  /\ UNCHANGED <<sent, broken, received, failed>>

(* Mutant: one more read before the frame is handed up. *)
HandUpLate ==
  /\ failed = "no" /\ Len(buf) >= 4 /\ ~Unreasonable /\ Missing = 0 /\ wire # <<>>
  /\ received' = Append(received, DecodeFrame(buf))
  /\ buf' = <<>>
  /\ UNCHANGED <<sent, wire, broken, failed>>

(* The frame is complete. *)
HandUp ==
  /\ failed = "no" /\ Len(buf) >= 4 /\ ~Unreasonable /\ Missing = 0
  /\ received' = Append(received, DecodeFrame(buf))
  /\ buf' = <<>>
  /\ UNCHANGED <<sent, wire, broken, failed>>

(* recv refuses the length, finds the end of the stream, or waits too long  *)
(* for the next byte of a frame it has begun to read: for the idle timeout  *)
(* inside the length, for T8 behind it.  What it has read of the frame, buf,*)
(* is lost in each case, and the reader stops.  A wait that runs out before *)
(* the first byte loses nothing: it is no step.                             *)
RecvFails ==
  /\ failed = "no"
  /\ \/ Unreasonable /\ failed' = "length"
     \/ ~Unreasonable /\ Missing > 0 /\ broken /\ wire = <<>> /\ failed' = "end"
     \/ ~Unreasonable /\ Missing > 0 /\ buf # <<>> /\ failed' = "timeout"
  /\ UNCHANGED <<sent, wire, broken, buf, received>>

Recv == ReadSome \/ HandUp \/ RecvFails

StreamNext == Send \/ BreakConnection \/ Recv

(* read_exact and recv loop until they return. *)
StreamSpec == StreamInit /\ [][StreamNext]_streamVars /\ WF_streamVars(Recv)

-----------------------------------------------------------------------------
(* Properties *)

(* Everything on the wire is a byte (secs.rs: encode and its `as u8`). *)
StreamTypeOK ==
  /\ wire \in Seq(Byte) /\ buf \in Seq(Byte)
  /\ broken \in BOOLEAN /\ failed \in {"no", "length", "end", "timeout"}
  /\ Len(received) <= Len(sent) /\ Len(sent) <= MaxFrames

(* What the reader makes of a frame: streams have seven bits on the wire.   *)
SevenBits(h) == [h EXCEPT !.stream = @ % 128]
Arrived(f)   == [f EXCEPT !.header = SevenBits(@)]

(* The reader has, in order, the frames that were written, with their       *)
(* headers and bodies, however the bytes were cut up on the way             *)
(* (hsms.rs: recv over several reads, encode and decode).                   *)
ReceivedIsSent ==
  \A i \in 1 .. Len(received) : received[i] = Arrived(sent[i])

(* recv fails for its reason only: at a length out of its bounds, at the    *)
(* end of a broken connection, or with a frame begun, of which the rest is  *)
(* still to come; it never takes bytes of one frame for the length of       *)
(* another (hsms.rs: recv).                                                 *)
FailsForItsReason ==
  /\ failed \in {"length", "timeout"} => Len(received) < Len(sent)
  /\ failed = "length" => sent[Len(received) + 1].length \notin Reasonable
  /\ failed = "timeout" => Len(buf) \in 1 .. 3 + sent[Len(received) + 1].length
  /\ failed = "end" => broken

(* Frames arrive whole and in order, whatever the pieces. *)
FramesArriveWhole == StreamTypeOK /\ ReceivedIsSent /\ FailsForItsReason

(* While the connection lasts, everything sent is received in the end,      *)
(* unless the reader gives up on a length out of bounds, or because part of *)
(* a frame kept it waiting too long (hsms.rs: recv).                        *)
AllIsReceived ==
  []<>(\/ Len(received) = Len(sent) \/ broken
       \/ failed = "length" /\ \E i \in 1 .. Len(sent) : sent[i].length \notin Reasonable
       \/ failed = "timeout")

-----------------------------------------------------------------------------
(* The inductive invariant: `stream` are all bytes ever written, cut where  *)
(* frames end; buf and wire are what follows the frames received, and are   *)
(* all that does as long as the connection lasts.                           *)
IsAt(bytes, stream, n) ==
  /\ n + Len(bytes) <= Len(stream)
  /\ \A k \in 1 .. Len(bytes) : bytes[k] = stream[n + k]

AreAt(frames, stream, cut) ==
  /\ cut[0] = 0 /\ cut[Len(frames)] = Len(stream)
  /\ \A i \in 1 .. Len(frames) :
       /\ IsAt(EncodeFrame(frames[i]), stream, cut[i - 1])
       /\ cut[i] = cut[i - 1] + Len(EncodeFrame(frames[i]))

Carries(stream, cut, start) ==
  /\ AreAt(sent, stream, cut)
  /\ IsAt(buf, stream, start) /\ IsAt(wire, stream, start + Len(buf))
  /\ ~broken => start + Len(buf) + Len(wire) = Len(stream)

(* Past the length, recv reads on only if it was reasonable, and not past   *)
(* the end of the frame.                                                    *)
ReadsOneFrame ==
  Len(buf) > 4 =>
    /\ Len(received) < Len(sent)
    /\ sent[Len(received) + 1].length \in Reasonable
    /\ Len(buf) <= 4 + sent[Len(received) + 1].length

StreamInv ==
  /\ FramesArriveWhole /\ ReadsOneFrame
  /\ received \in Seq(HsmsFrame)
  /\ sent \in Seq(HsmsFrame) /\ \A i \in 1 .. Len(sent) : Framed(sent[i])
  /\ \E stream \in Seq(Byte), cut \in [0 .. Len(sent) -> Nat] :
       Carries(stream, cut, cut[Len(received)])

=============================================================================
