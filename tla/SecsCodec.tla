----------------------------- MODULE SecsCodec -----------------------------
(***************************************************************************)
(* SECS-II items as bytes (secs.rs), and what the frames of an HsmsStream  *)
(* say with them.                                                          *)
(*                                                                         *)
(* A float is its bits, a text its bytes.  Bytes that are no UTF-8 are     *)
(* single ones from Stray: valid characters of several bytes do not occur. *)
(***************************************************************************)
EXTENDS HsmsStream, SequencesExt

CONSTANTS
  Items,      \* the items the writer may send in its n-th frame
  Bodies,     \* the bytes a foreign writer may send as the body of that frame
  Headers     \* the headers its data messages may have

Stray == {255}

-----------------------------------------------------------------------------
(* Items *)

FormatByte ==
  [L |-> 0, B |-> 32, Boolean |-> 36, A |-> 64,
   I8 |-> 96, I1 |-> 100, I2 |-> 104, I4 |-> 108, F8 |-> 128, F4 |-> 132,
   U8 |-> 160, U1 |-> 164, U2 |-> 168, U4 |-> 172]
Width ==
  [B |-> 1, Boolean |-> 1, A |-> 1,
   I8 |-> 8, I1 |-> 1, I2 |-> 2, I4 |-> 4, F8 |-> 8, F4 |-> 4,
   U8 |-> 8, U1 |-> 1, U2 |-> 2, U4 |-> 4]
Signed == {"I8", "I1", "I2", "I4"}

Item(format, values) == [format |-> format, values |-> values]

(* to_be_bytes: two's complement, most significant byte first. *)
RECURSIVE ToBytes(_, _)
ToBytes(n, x) == IF n = 0 THEN <<>> ELSE ToBytes(n - 1, x \div 256) \o <<x % 256>>

RECURSIVE FromBytes(_)
FromBytes(bytes) == IF bytes = <<>> THEN 0 ELSE 256 * FromBytes(Front(bytes)) + Last(bytes)

(* Mutant: the sign is not extended. *)
UnsignedValue(format, bytes) ==
  IF format = "Boolean" THEN bytes[1] # 0 ELSE FromBytes(bytes)

(* from_be_bytes. *)
Value(format, bytes) ==
  CASE format = "Boolean" -> bytes[1] # 0
    [] format \in Signed /\ bytes[1] >= 128 ->
         FromBytes(<<bytes[1] - 256>> \o Tail(bytes))
    [] OTHER -> FromBytes(bytes)

Bytes(format, x) ==
  IF format = "Boolean" THEN <<IF x THEN 1 ELSE 0>> ELSE ToBytes(Width[format], x)

(* The length bytes of encode_into: one up to 7F, then marked. *)
CountBytes(count) ==
  CASE count <= 127 -> <<count>>
    [] count \in 128 .. 255 -> <<129, count>>
    [] OTHER -> <<130>> \o ToBytes(2, count)

(* Mutant: a text is counted in characters. *)
CountOfCharacters(item) ==
  IF item.format = "A"
  THEN Len(SelectSeq(item.values, LAMBDA b : b \notin 128 .. 191))
  ELSE Len(item.values)

(* element_count: a text counts its bytes. *)
ElementCount(item) == Len(item.values)

(* The elements of a payload one after the other, each in `Width` bytes. *)
Payload(item) ==
  LET w == Width[item.format]
  IN  [k \in 1 .. w * Len(item.values) |->
         Bytes(item.format, item.values[((k - 1) \div w) + 1])[((k - 1) % w) + 1]]

RECURSIVE EncodeItem(_), EncodeList(_)
EncodeList(items) ==
  IF items = <<>> THEN <<>> ELSE EncodeItem(Head(items)) \o EncodeList(Tail(items))

EncodeItem(item) ==
  <<FormatByte[item.format]>> \o CountBytes(ElementCount(item)) \o
  IF item.format = "L" THEN EncodeList(item.values) ELSE Payload(item)

-----------------------------------------------------------------------------
(* Decoding.  A result is the value read and the rest of the bytes. *)

Refused == [ok |-> FALSE]
Read(value, rest) == [ok |-> TRUE, value |-> value, rest |-> rest]

(* Mutant: a short payload is taken for what is there. *)
TakeSome(bytes, n) ==
  LET m == IF n <= Len(bytes) THEN n ELSE Len(bytes)
  IN  Read(SubSeq(bytes, 1, m), From(bytes, m))

Take(bytes, n) ==
  IF n <= Len(bytes) THEN Read(SubSeq(bytes, 1, n), From(bytes, n)) ELSE Refused

(* Mutant: the marker is read as a length. *)
ReadLengthPlain(bytes) ==
  IF bytes = <<>> THEN Refused ELSE Read(Head(bytes) % 128, Tail(bytes))

ReadLength(bytes) ==
  IF bytes = <<>> THEN Refused
  ELSE LET extra == Head(bytes) - 128
       IN  CASE extra < 0 -> Read(Head(bytes), Tail(bytes))
             [] extra \in 1 .. 3 /\ extra < Len(bytes) ->
                  Read(FromBytes(SubSeq(bytes, 2, extra + 1)), From(bytes, extra + 1))
             [] OTHER -> Refused

(* from_utf8_lossy: U+FFFD for a byte that belongs to no character. *)
RECURSIVE Lossy(_)
Lossy(bytes) ==
  IF bytes = <<>> THEN <<>>
  ELSE (IF Head(bytes) \in Stray THEN <<239, 191, 189>> ELSE <<Head(bytes)>>)
         \o Lossy(Tail(bytes))

Elements(format, raw) ==
  LET w == Width[format]
  IN  IF format = "A" THEN Lossy(raw)
      ELSE [i \in 1 .. Len(raw) \div w |-> Value(format, SubSeq(raw, w * (i - 1) + 1, w * i))]

RECURSIVE DecodeItem(_), DecodeList(_, _, _)

DecodeItem(bytes) ==
  LET format == CHOOSE f \in DOMAIN FormatByte : FormatByte[f] = Head(bytes)
      count  == ReadLength(Tail(bytes))
      raw    == Take(count.rest, count.value * Width[format])
  IN  IF \/ bytes = <<>>
         \/ Head(bytes) \notin {FormatByte[f] : f \in DOMAIN FormatByte}
         \/ ~count.ok
      THEN Refused
      ELSE IF format = "L" THEN DecodeList(<<>>, count.value, count.rest)
      ELSE IF raw.ok THEN Read(Item(format, Elements(format, raw.value)), raw.rest)
      ELSE Refused

DecodeList(done, missing, bytes) ==
  IF missing = 0 THEN Read(Item("L", done), bytes)
  ELSE LET next == DecodeItem(bytes)
       IN  IF next.ok THEN DecodeList(Append(done, next.value), missing - 1, next.rest)
                      ELSE Refused

-----------------------------------------------------------------------------
(* Frames and what they say *)

SelectStatus == [accepted |-> 0, notReady |-> 1, unknown |-> 300]
SelectRsp(sys, status) == Frame(Control(2, sys), Bytes2(SelectStatus[status]))
Select == 1
Separate == 4
LinktestReq == 5
LinktestRsp == 6
Reject == 7

(* The frames of send_message: with an item or without a body. *)
DataFrames(n) ==
  {Frame(h, body) : h \in Headers[n],
                    body \in {<<>>} \cup {EncodeItem(item) : item \in Items[n]}}

ControlFrames ==
  {SelectRsp(7, status) : status \in DOMAIN SelectStatus}
  \cup {Frame(Control(stype, 7), <<>>) : stype \in {Select, Separate, LinktestReq, LinktestRsp}}
  \cup {Frame(Control(Reject, 7), <<0, 3>>)}

(* Frames this library would not write: any body, and a length below the    *)
(* header's.                                                                *)
ForeignFrames(n) ==
  LET h == Header(1, 1, 1, TRUE, 0, 1)
  IN  {Frame(h, body) : body \in Bodies[n]} \cup {[Frame(h, <<>>) EXCEPT !.length = 9]}

(* The frames of HsmsStream here. *)
CodecFrames ==
  [n \in 1 .. MaxFrames |-> DataFrames(n) \cup ControlFrames \cup ForeignFrames(n)]

(* Contents that are no item. *)
None(name) == Item(name, <<>>)
NoItem == None("no item")

(* What the receiver makes of a frame: from_parts for data, select_status   *)
(* for a select response; the body of other control frames is not used.     *)
Contents(f) ==
  LET raw == FromBytes(SubSeq(f.body, 1, 2))
  IN  CASE f.header.stype = 0 /\ f.body # <<>> -> DecodeItem(f.body)
        [] f.header.stype = 2 /\ Len(f.body) >= 2 ->
             Read(None(CASE raw = 0 -> "accepted" [] raw = 1 -> "notReady" [] OTHER -> "unknown"), <<>>)
        [] OTHER -> Read(NoItem, <<>>)

(* Bound: of n bytes half, or all, are read at once or arrive before a      *)
(* break (none may arrive, too).                                            *)
Halves == [n \in Nat |-> {(n + 1) \div 2, n}]

-----------------------------------------------------------------------------
(* Properties *)

(* A frame that carries an item, or a select status, is read as carrying    *)
(* the same one (secs.rs: encode, decode_item; hsms.rs: select_status).     *)
ItemsAreReadAsMeant ==
  buf = <<>> /\ received # <<>> =>
    LET f == Last(received) IN
    /\ f.header.stype = 0 =>
         \A item \in Items[Len(received)] :
           f.body = EncodeItem(item) => Contents(f) = Read(item, <<>>)
    /\ \A status \in DOMAIN SelectStatus :
         f = SelectRsp(7, status) => Contents(f) = Read(None(status), <<>>)

(* An item that lost its end is refused, wherever it was cut, and is never  *)
(* read as a shorter item (secs.rs: read_length, take).                     *)
CutItemsAreRefused ==
  buf = <<>> /\ ~broken /\ Len(received) < Len(sent) =>
    LET n    == Len(received) + 1
        body == sent[n].body
    IN  body \in {EncodeItem(item) : item \in Items[n]} =>
          \A k \in 0 .. Len(body) - 1 : ~DecodeItem(SubSeq(body, 1, k)).ok

(* Whatever item a foreign writer got across can be passed on: its own      *)
(* encoding is read as the same item (lengths in other forms, booleans      *)
(* other than 1, text that is no UTF-8).                                    *)
ReadItemsCanBeSent ==
  buf = <<>> /\ received # <<>> =>
    LET c == Contents(Last(received))
    IN  c.ok /\ c.value.format \in DOMAIN FormatByte =>
          DecodeItem(EncodeItem(c.value)) = Read(c.value, <<>>)

(* A body is read as what it says, whole, or not at all.                    *)
BodiesAreReadWhole == ItemsAreReadAsMeant /\ CutItemsAreRefused /\ ReadItemsCanBeSent

=============================================================================
