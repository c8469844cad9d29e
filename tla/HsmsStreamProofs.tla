-------------------------- MODULE HsmsStreamProofs --------------------------
(***************************************************************************)
(* Proofs about HsmsStream: frames arrive whole and in order, for any      *)
(* frames, any number of them, and any pieces the bytes arrive in.         *)
(***************************************************************************)
EXTENDS HsmsStream, SequenceTheorems, TLAPS

(* Two sequences one after the other, by position. *)
Joins(u, s, t) ==
  /\ Len(u) = Len(s) + Len(t)
  /\ \A k \in 1 .. Len(s) : u[k] = s[k]
  /\ \A k \in 1 .. Len(t) : u[Len(s) + k] = t[k]

LEMMA Joined ==
  ASSUME NEW S, NEW s \in Seq(S), NEW t \in Seq(S)
  PROVE  s \o t \in Seq(S) /\ Joins(s \o t, s, t)
<1>1. /\ s \o t \in Seq(S) /\ Len(s \o t) = Len(s) + Len(t)
      /\ \A i \in 1 .. Len(s) + Len(t) :
           (s \o t)[i] = IF i <= Len(s) THEN s[i] ELSE t[i - Len(s)]
  BY ConcatProperties
<1>2. Len(s) \in Nat /\ Len(t) \in Nat
  OBVIOUS
<1>3. ASSUME NEW k \in 1 .. Len(s) PROVE (s \o t)[k] = s[k]
  BY <1>1, <1>2
<1>4. ASSUME NEW k \in 1 .. Len(t) PROVE (s \o t)[Len(s) + k] = t[k]
  <2>1. Len(s) + k \in 1 .. Len(s) + Len(t) /\ ~(Len(s) + k <= Len(s)) /\ Len(s) + k - Len(s) = k
    BY <1>2
  <2> QED
    BY <1>1, <2>1
<1> QED
  BY <1>1, <1>3, <1>4 DEF Joins

(* n bytes of b, behind the first m. *)
LEMMA Sliced ==
  ASSUME NEW b \in Seq(Byte), NEW m \in Nat, NEW n \in Nat, m + n <= Len(b)
  PROVE  /\ SubSeq(b, m + 1, m + n) \in Seq(Byte) /\ Len(SubSeq(b, m + 1, m + n)) = n
         /\ IsAt(SubSeq(b, m + 1, m + n), b, m)
<1> DEFINE lo == m + 1
           hi == m + n
           u == SubSeq(b, lo, hi)
<1>1. lo \in Int /\ hi \in Int
  OBVIOUS
<1>2. \A k \in lo .. hi : b[k] \in Byte
  <2> SUFFICES ASSUME NEW k \in lo .. hi PROVE b[k] \in Byte
    OBVIOUS
  <2>1. k \in 1 .. Len(b)
    OBVIOUS
  <2> QED
    BY <2>1
<1> HIDE DEF lo, hi
<1>3. /\ u \in Seq(Byte) /\ Len(u) = IF lo <= hi THEN hi - lo + 1 ELSE 0
      /\ \A i \in 1 .. hi - lo + 1 : u[i] = b[lo + i - 1]
  BY <1>1, <1>2, SubSeqProperties
<1> HIDE DEF u
<1>4. Len(u) = n
  BY <1>3 DEF lo, hi
<1>5. ASSUME NEW k \in 1 .. n PROVE u[k] = b[m + k]
  <2>1. k \in 1 .. hi - lo + 1 /\ lo + k - 1 = m + k
    BY DEF lo, hi
  <2> QED
    BY <1>3, <2>1
<1>6. IsAt(u, b, m)
  BY <1>4, <1>5 DEF IsAt
<1> QED
  BY <1>3, <1>4, <1>6 DEF u, lo, hi

(* Where bytes are in a stream, their parts are, too. *)
LEMMA PartIsAt ==
  ASSUME NEW stream \in Seq(Byte), NEW n \in Nat, NEW t \in Seq(Byte), IsAt(t, stream, n),
         NEW m \in Nat, NEW s \in Seq(Byte), IsAt(s, t, m)
  PROVE  IsAt(s, stream, n + m)
<1>1. /\ Len(s) \in Nat /\ Len(t) \in Nat /\ Len(stream) \in Nat
      /\ m + Len(s) <= Len(t) /\ n + Len(t) <= Len(stream)
  BY DEF IsAt
<1>2. ASSUME NEW k \in 1 .. Len(s) PROVE s[k] = stream[(n + m) + k]
  <2>1. m + k \in 1 .. Len(t) /\ n + (m + k) = (n + m) + k
    BY <1>1
  <2>2. s[k] = t[m + k] /\ t[m + k] = stream[n + (m + k)]
    BY <2>1 DEF IsAt
  <2> QED
    BY <2>1, <2>2
<1> QED
  BY <1>1, <1>2 DEF IsAt

(* Two parts of a stream, one after the other, are one. *)
LEMMA JoinIsAt ==
  ASSUME NEW stream \in Seq(Byte), NEW n \in Nat, NEW s \in Seq(Byte), NEW t \in Seq(Byte),
         IsAt(s, stream, n), IsAt(t, stream, n + Len(s))
  PROVE  IsAt(s \o t, stream, n)
<1> DEFINE u == s \o t
<1>1. Joins(u, s, t)
  BY Joined
<1> HIDE DEF u
<1>2. /\ Len(s) \in Nat /\ Len(t) \in Nat /\ Len(u) = Len(s) + Len(t)
      /\ n + Len(s) + Len(t) <= Len(stream)
  BY <1>1 DEF Joins, IsAt
<1>3. ASSUME NEW k \in 1 .. Len(u) PROVE u[k] = stream[n + k]
  <2>1. CASE k <= Len(s)
    BY <1>1, <1>2, <2>1 DEF Joins, IsAt
  <2>2. CASE k > Len(s)
    <3> DEFINE m == k - Len(s)
    <3>1. m \in 1 .. Len(t) /\ Len(s) + m = k /\ n + Len(s) + m = n + k
      BY <1>2, <2>2
    <3> HIDE DEF m
    <3>2. u[Len(s) + m] = t[m] /\ t[m] = stream[n + Len(s) + m]
      BY <1>1, <3>1 DEF Joins, IsAt
    <3> QED
      BY <3>1, <3>2
  <2> QED
    BY <1>2, <2>1, <2>2
<1> QED
  BY <1>2, <1>3 DEF IsAt, u

(* Both parts of a concatenation are in it. *)
LEMMA PartsOfJoin ==
  ASSUME NEW s \in Seq(Byte), NEW t \in Seq(Byte)
  PROVE  /\ s \o t \in Seq(Byte) /\ Len(s \o t) = Len(s) + Len(t)
         /\ IsAt(s, s \o t, 0) /\ IsAt(t, s \o t, Len(s))
<1> DEFINE u == s \o t
<1>1. u \in Seq(Byte) /\ Joins(u, s, t)
  BY Joined
<1> HIDE DEF u
<1>2. Len(u) = Len(s) + Len(t)
  BY <1>1 DEF Joins
<1>3. IsAt(s, u, 0)
  BY <1>1, <1>2 DEF Joins, IsAt
<1>4. IsAt(t, u, Len(s))
  BY <1>1, <1>2 DEF Joins, IsAt
<1> QED
  BY <1>1, <1>2, <1>3, <1>4 DEF u

-----------------------------------------------------------------------------
(* What is read from the bytes of a number is the number. *)

(* Of two bytes. *)
LEMMA TwoBytes ==
  ASSUME NEW x \in Unsigned16
  PROVE  /\ Bytes2(x) \in Seq(Byte) /\ Len(Bytes2(x)) = 2
         /\ 256 * Bytes2(x)[1] + Bytes2(x)[2] = x
<1>1. /\ x \in Nat /\ x \div 256 <= 255
      /\ x \div 256 \in Nat /\ x % 256 \in Nat /\ x % 256 <= 255
      /\ 256 * (x \div 256) + (x % 256) = x
  BY DEF Unsigned16
<1>2. x \div 256 \in Byte /\ x % 256 \in Byte
  BY <1>1 DEF Byte
<1> QED
  BY <1>1, <1>2 DEF Bytes2

(* Of four bytes. *)
LEMMA FourBytes ==
  ASSUME NEW x \in Unsigned32
  PROVE  /\ Bytes4(x) \in Seq(Byte) /\ Len(Bytes4(x)) = 4
         /\ 65536 * (256 * Bytes4(x)[1] + Bytes4(x)[2]) + (256 * Bytes4(x)[3] + Bytes4(x)[4]) = x
<1> DEFINE hi == x \div 65536
           lo == x % 65536
<1>1. hi \in Unsigned16 /\ lo \in Unsigned16 /\ 65536 * hi + lo = x
  BY DEF Unsigned32, Unsigned16
<1> HIDE DEF hi, lo
<1>2. /\ Bytes2(hi) \in Seq(Byte) /\ Len(Bytes2(hi)) = 2
      /\ 256 * Bytes2(hi)[1] + Bytes2(hi)[2] = hi
  BY <1>1, TwoBytes
<1>3. /\ Bytes2(lo) \in Seq(Byte) /\ Len(Bytes2(lo)) = 2
      /\ 256 * Bytes2(lo)[1] + Bytes2(lo)[2] = lo
  BY <1>1, TwoBytes
<1>4. Bytes4(x) = Bytes2(hi) \o Bytes2(lo)
  BY DEF Bytes4, hi, lo
<1>5. /\ Bytes4(x) \in Seq(Byte) /\ Len(Bytes4(x)) = 2 + 2
      /\ \A k \in 1 .. 2 : Bytes4(x)[k] = Bytes2(hi)[k]
      /\ \A k \in 1 .. 2 : Bytes4(x)[2 + k] = Bytes2(lo)[k]
  <2> DEFINE s == Bytes2(hi)
             t == Bytes2(lo)
  <2>1. s \in Seq(Byte) /\ t \in Seq(Byte) /\ Len(s) = 2 /\ Len(t) = 2
    BY <1>2, <1>3
  <2> HIDE DEF s, t
  <2>2. s \o t \in Seq(Byte) /\ Joins(s \o t, s, t)
    BY <2>1, Joined
  <2> QED
    BY <1>4, <2>1, <2>2, Zenon DEF s, t, Joins
<1>6. /\ Len(Bytes4(x)) = 4
      /\ Bytes4(x)[1] = Bytes2(hi)[1] /\ Bytes4(x)[2] = Bytes2(hi)[2]
      /\ Bytes4(x)[3] = Bytes2(lo)[1] /\ Bytes4(x)[4] = Bytes2(lo)[2]
  BY <1>2, <1>3, <1>5
<1> QED
  BY <1>1, <1>2, <1>3, <1>5, <1>6

(* Of four bytes anywhere in b. *)
LEMMA Read4Reads ==
  ASSUME NEW x \in Unsigned32, NEW b, NEW i \in Nat,
         \A k \in 1 .. 4 : b[i + k] = Bytes4(x)[k]
  PROVE  Read4(b, i + 1) = x
<1>1. /\ b[i + 1] = Bytes4(x)[1] /\ b[i + 1 + 1] = Bytes4(x)[2]
      /\ b[i + 1 + 2] = Bytes4(x)[3] /\ b[i + 1 + 2 + 1] = Bytes4(x)[4]
  <2>1. b[i + 1] = Bytes4(x)[1] /\ b[i + 2] = Bytes4(x)[2] /\ b[i + 3] = Bytes4(x)[3]
        /\ b[i + 4] = Bytes4(x)[4]
    OBVIOUS
  <2>2. i + 1 + 1 = i + 2 /\ i + 1 + 2 = i + 3 /\ i + 1 + 2 + 1 = i + 4
    OBVIOUS
  <2> QED
    BY <2>1, <2>2
<1> QED
  BY <1>1, FourBytes DEF Read4, Read2

-----------------------------------------------------------------------------
(* What is decoded from the bytes of a header or a frame is the header or   *)
(* the frame, but for the highest bit of the stream.                        *)

LEMMA HeaderBytes ==
  ASSUME NEW h \in SecsHeader
  PROVE  /\ EncodeHeader(h) \in Seq(Byte) /\ Len(EncodeHeader(h)) = 10
         /\ 256 * EncodeHeader(h)[1] + EncodeHeader(h)[2] = h.device
         /\ EncodeHeader(h)[3] = (IF h.w THEN 128 ELSE 0) + (h.stream % 128)
         /\ EncodeHeader(h)[4] = h.function
         /\ EncodeHeader(h)[6] = h.stype
         /\ \A k \in 1 .. 4 : EncodeHeader(h)[6 + k] = Bytes4(h.sys)[k]
<1> DEFINE s == Bytes2(h.device)
           t == <<(IF h.w THEN 128 ELSE 0) + (h.stream % 128), h.function, 0, h.stype>>
           u == Bytes4(h.sys)
<1>1. s \in Seq(Byte) /\ Len(s) = 2 /\ 256 * s[1] + s[2] = h.device
  BY TwoBytes DEF SecsHeader
<1>2. t \in Seq(Byte) /\ Len(t) = 4
  <2>1. (IF h.w THEN 128 ELSE 0) + (h.stream % 128) \in Byte
    BY DEF SecsHeader, Byte
  <2> QED
    BY <2>1 DEF SecsHeader, Byte
<1>3. u \in Seq(Byte) /\ Len(u) = 4
  BY FourBytes DEF SecsHeader
<1>4. /\ t[1] = (IF h.w THEN 128 ELSE 0) + (h.stream % 128)
      /\ t[2] = h.function /\ t[4] = h.stype
  OBVIOUS
<1>5. EncodeHeader(h) = (s \o t) \o u
  BY DEF EncodeHeader
<1> DEFINE p == s \o t
           e == EncodeHeader(h)
<1> HIDE DEF s, t, u
<1>6. p \in Seq(Byte) /\ Joins(p, s, t)
  BY <1>1, <1>2, Joined
<1>7. e = p \o u
  BY <1>5
<1> HIDE DEF p, e
<1>8. /\ Len(p) = 6
      /\ p[1] = s[1] /\ p[2] = s[2] /\ p[3] = t[1] /\ p[4] = t[2] /\ p[6] = t[4]
  BY <1>1, <1>2, <1>6 DEF Joins
<1>9. e \in Seq(Byte) /\ Joins(e, p, u)
  BY <1>3, <1>6, <1>7, Joined
<1>10. /\ Len(e) = 10
       /\ e[1] = p[1] /\ e[2] = p[2] /\ e[3] = p[3] /\ e[4] = p[4] /\ e[6] = p[6]
       /\ \A k \in 1 .. 4 : e[6 + k] = u[k]
  BY <1>3, <1>8, <1>9 DEF Joins
<1>11. /\ e[3] = (IF h.w THEN 128 ELSE 0) + (h.stream % 128)
       /\ e[4] = h.function /\ e[6] = h.stype
       /\ 256 * e[1] + e[2] = h.device
  BY <1>1, <1>4, <1>8, <1>10
<1> QED
  BY <1>9, <1>10, <1>11 DEF u, e

LEMMA HeaderIsRead ==
  ASSUME NEW h \in SecsHeader, NEW b,
         \A k \in 1 .. 10 : b[k] = EncodeHeader(h)[k]
  PROVE  DecodeHeader(b) = SevenBits(h)
<1> DEFINE e == EncodeHeader(h)
<1>1. /\ b[1] = e[1] /\ b[2] = e[2] /\ b[3] = e[3] /\ b[4] = e[4] /\ b[6] = e[6]
  OBVIOUS
<1>2. Read2(b, 1) = h.device
  <2>1. Read2(b, 1) = 256 * b[1] + b[2]
    BY DEF Read2
  <2>2. 256 * EncodeHeader(h)[1] + EncodeHeader(h)[2] = h.device
    BY HeaderBytes, Zenon
  <2> QED
    BY <1>1, <2>1, <2>2, Zenon
<1>3. Read4(b, 7) = h.sys
  <2>1. h.sys \in Unsigned32
    BY DEF SecsHeader
  <2>2. \A k \in 1 .. 4 : b[6 + k] = Bytes4(h.sys)[k]
    <3>1. \A k \in 1 .. 4 : 6 + k \in 1 .. 10
      OBVIOUS
    <3>2. \A k \in 1 .. 4 : EncodeHeader(h)[6 + k] = Bytes4(h.sys)[k]
      BY HeaderBytes, Zenon
    <3> QED
      BY <3>1, <3>2, Zenon
  <2>3. 6 \in Nat
    OBVIOUS
  <2>4. Read4(b, 6 + 1) = h.sys
    BY <2>1, <2>2, <2>3, Read4Reads, Zenon
  <2> QED
    BY <2>4
<1>4. b[3] % 128 = h.stream % 128 /\ (b[3] >= 128) = h.w
  <2>1. b[3] = (IF h.w THEN 128 ELSE 0) + (h.stream % 128)
    BY <1>1, HeaderBytes
  <2>2. h.stream \in Byte /\ h.w \in BOOLEAN
    BY DEF SecsHeader
  <2>3. h.stream % 128 \in Nat /\ h.stream % 128 < 128
    BY <2>2 DEF Byte
  <2>4. b[3] = 128 + (h.stream % 128) \/ b[3] = 0 + (h.stream % 128)
    BY <2>1, Zenon
  <2>5. b[3] % 128 = h.stream % 128
    BY <2>3, <2>4
  <2>6. h.w => b[3] >= 128
    BY <2>1, <2>3
  <2>7. ~h.w => ~(b[3] >= 128)
    BY <2>1, <2>3
  <2> QED
    BY <2>2, <2>5, <2>6, <2>7
<1>5. b[4] = h.function /\ b[6] = h.stype
  BY <1>1, HeaderBytes
<1> QED
  BY <1>2, <1>3, <1>4, <1>5 DEF DecodeHeader, Header, SevenBits, SecsHeader

LEMMA FrameBytes ==
  ASSUME NEW f \in HsmsFrame
  PROVE  /\ EncodeFrame(f) \in Seq(Byte) /\ Len(EncodeFrame(f)) = 14 + Len(f.body)
         /\ \A k \in 1 .. 4 : EncodeFrame(f)[k] = Bytes4(f.length)[k]
         /\ \A k \in 1 .. 10 : EncodeFrame(f)[4 + k] = EncodeHeader(f.header)[k]
         /\ \A k \in 1 .. Len(f.body) : EncodeFrame(f)[14 + k] = f.body[k]
<1> DEFINE s == Bytes4(f.length)
           t == EncodeHeader(f.header)
           u == f.body
           p == s \o t
           e == EncodeFrame(f)
<1>1. s \in Seq(Byte) /\ Len(s) = 4
  BY FourBytes DEF HsmsFrame
<1>2. t \in Seq(Byte) /\ Len(t) = 10
  BY HeaderBytes DEF HsmsFrame
<1>3. u \in Seq(Byte)
  BY DEF HsmsFrame
<1>4. e = p \o u
  BY DEF EncodeFrame
<1> HIDE DEF s, t, u
<1>5. p \in Seq(Byte) /\ Joins(p, s, t)
  BY <1>1, <1>2, Joined
<1> HIDE DEF p, e
<1>6. e \in Seq(Byte) /\ Joins(e, p, u)
  BY <1>3, <1>4, <1>5, Joined
<1>7. Len(p) = 14 /\ Len(u) \in Nat
  BY <1>1, <1>2, <1>3, <1>5 DEF Joins
<1>8. Len(e) = 14 + Len(u)
  BY <1>6, <1>7 DEF Joins
<1>9. ASSUME NEW k \in 1 .. 4 PROVE e[k] = s[k]
  <2>1. k \in 1 .. Len(s) /\ k \in 1 .. Len(p)
    BY <1>1, <1>7
  <2> QED
    BY <1>5, <1>6, <2>1 DEF Joins
<1>10. ASSUME NEW k \in 1 .. 10 PROVE e[4 + k] = t[k]
  <2>1. k \in 1 .. Len(t) /\ Len(s) + k \in 1 .. Len(p) /\ Len(s) + k = 4 + k
    BY <1>1, <1>2, <1>7
  <2> QED
    BY <1>5, <1>6, <2>1 DEF Joins
<1>11. ASSUME NEW k \in 1 .. Len(u) PROVE e[14 + k] = u[k]
  BY <1>6, <1>7 DEF Joins
<1> QED
  BY <1>6, <1>8, <1>9, <1>10, <1>11 DEF s, t, u, e

(* The first four bytes of a frame are its length. *)
LEMMA LengthIsRead ==
  ASSUME NEW f \in HsmsFrame, NEW b, \A k \in 1 .. 4 : b[k] = EncodeFrame(f)[k]
  PROVE  Read4(b, 1) = f.length
<1>1. f.length \in Unsigned32
  BY DEF HsmsFrame
<1>2. \A k \in 1 .. 4 : b[0 + k] = Bytes4(f.length)[k]
  BY FrameBytes
<1>3. Read4(b, 0 + 1) = f.length
  BY <1>1, <1>2, Read4Reads
<1> QED
  BY <1>3

LEMMA FrameIsRead ==
  ASSUME NEW f \in HsmsFrame, f.length = 10 + Len(f.body),
         NEW b \in Seq(Byte), Len(b) = 4 + f.length,
         \A k \in 1 .. Len(b) : b[k] = EncodeFrame(f)[k]
  PROVE  DecodeFrame(b) = Arrived(f)
<1>1. f.header \in SecsHeader /\ f.body \in Seq(Byte) /\ Len(f.body) \in Nat
  BY DEF HsmsFrame
<1>2. Len(b) = 14 + Len(f.body)
  BY <1>1
<1>3. Read4(b, 1) = f.length
  <2>1. \A k \in 1 .. 4 : b[k] = EncodeFrame(f)[k]
    BY <1>1, <1>2
  <2> QED
    BY <2>1, LengthIsRead
<1>4. \A k \in 1 .. Len(b) : b[k] \in Byte
  OBVIOUS
<1>5. DecodeHeader(SubSeq(b, 5, 14)) = SevenBits(f.header)
  <2> DEFINE h == SubSeq(b, 5, 14)
  <2>0. 4 \in Nat /\ 10 \in Nat /\ 4 + 10 <= Len(b)
    BY <1>1, <1>2
  <2>1. Len(SubSeq(b, 4 + 1, 4 + 10)) = 10 /\ IsAt(SubSeq(b, 4 + 1, 4 + 10), b, 4)
    BY <2>0, Sliced, Zenon
  <2>2. Len(h) = 10 /\ IsAt(h, b, 4)
    BY <2>1
  <2> HIDE DEF h
  <2>3. ASSUME NEW k \in 1 .. 10 PROVE h[k] = EncodeHeader(f.header)[k]
    <3>1. h[k] = b[4 + k]
      BY <2>2 DEF IsAt
    <3>2. 4 + k \in 1 .. Len(b)
      BY <1>1, <1>2
    <3>3. b[4 + k] = EncodeFrame(f)[4 + k]
      BY <3>2
    <3> QED
      BY <3>1, <3>3, FrameBytes
  <2>4. DecodeHeader(h) = SevenBits(f.header)
    BY <1>1, <2>3, HeaderIsRead
  <2> QED
    BY <2>4 DEF h
<1>6. SubSeq(b, 15, 4 + f.length) = f.body
  <2> DEFINE d == SubSeq(b, 15, 4 + f.length)
  <2>1. 14 + 1 = 15 /\ 14 + Len(f.body) = 4 + f.length /\ 14 \in Nat
    BY <1>1
  <2>2. /\ SubSeq(b, 14 + 1, 14 + Len(f.body)) \in Seq(Byte)
        /\ Len(SubSeq(b, 14 + 1, 14 + Len(f.body))) = Len(f.body)
        /\ IsAt(SubSeq(b, 14 + 1, 14 + Len(f.body)), b, 14)
    BY <1>1, <1>2, Sliced
  <2>3. d \in Seq(Byte) /\ Len(d) = Len(f.body) /\ IsAt(d, b, 14)
    BY <2>1, <2>2
  <2> HIDE DEF d
  <2>4. Len(d) = Len(f.body)
    BY <2>3 DEF IsAt
  <2>5. ASSUME NEW k \in 1 .. Len(f.body) PROVE d[k] = f.body[k]
    <3>1. d[k] = b[14 + k] /\ 14 + k \in 1 .. Len(b)
      BY <1>1, <1>2, <2>3 DEF IsAt
    <3>2. b[14 + k] = EncodeFrame(f)[14 + k]
      BY <3>1
    <3> QED
      BY <3>1, <3>2, FrameBytes
  <2>6. d = f.body
    BY <1>1, <2>3, <2>4, <2>5, SeqEqual
  <2> QED
    BY <2>6 DEF d
<1>7. Arrived(f) = [length |-> f.length, header |-> SevenBits(f.header),
                    body |-> f.body]
  BY DEF Arrived, HsmsFrame
<1>8. DecodeFrame(b) = [length |-> f.length, header |-> DecodeHeader(SubSeq(b, 5, 14)),
                        body |-> SubSeq(b, 15, 4 + f.length)]
  BY <1>3, Zenon DEF DecodeFrame
<1> QED
  BY <1>5, <1>6, <1>7, <1>8, Zenon

-----------------------------------------------------------------------------
(* The invariant *)

NextFrame == sent[Len(received) + 1]

(* The numbers the proofs calculate with. *)
LEMMA Lengths ==
  ASSUME StreamInv
  PROVE  /\ Len(sent) \in Nat /\ Len(received) \in Nat /\ Len(received) <= Len(sent)
         /\ Len(buf) \in Nat /\ Len(wire) \in Nat
         /\ buf \in Seq(Byte) /\ wire \in Seq(Byte)
         /\ sent \in Seq(HsmsFrame) /\ received \in Seq(HsmsFrame)
BY DEF StreamInv, FramesArriveWhole, StreamTypeOK

(* What recv has read is the beginning of the next frame. *)
LEMMA BufIsOfNextFrame ==
  ASSUME StreamInv, buf # <<>>
  PROVE  /\ Len(received) < Len(sent)
         /\ NextFrame \in HsmsFrame /\ Framed(NextFrame)
         /\ \A k \in 1 .. Len(buf) : k <= 14 => buf[k] = EncodeFrame(NextFrame)[k]
         /\ Len(buf) <= 14 + Len(NextFrame.body) =>
              \A k \in 1 .. Len(buf) : buf[k] = EncodeFrame(NextFrame)[k]
<1> DEFINE r == Len(received)
<1>1. PICK stream \in Seq(Byte), cut \in [0 .. Len(sent) -> Nat] :
        Carries(stream, cut, cut[r])
  BY DEF StreamInv
<1>2. /\ Len(sent) \in Nat /\ r \in Nat /\ r <= Len(sent)
      /\ Len(buf) \in Nat /\ Len(buf) > 0 /\ Len(wire) \in Nat
  BY Lengths
<1>3. /\ cut[r] + Len(buf) <= cut[Len(sent)]
      /\ \A k \in 1 .. Len(buf) : buf[k] = stream[cut[r] + k]
  BY <1>1 DEF Carries, AreAt, IsAt
<1>4. r < Len(sent)
  <2>1. cut[r] \in Nat
    BY <1>2
  <2>2. r # Len(sent)
    BY <1>2, <1>3, <2>1
  <2> QED
    BY <1>2, <2>2
<1>5. r + 1 \in 1 .. Len(sent) /\ (r + 1) - 1 = r
  BY <1>2, <1>4
<1>6. NextFrame \in HsmsFrame /\ Framed(NextFrame)
  <2>1. sent \in Seq(HsmsFrame) /\ \A i \in 1 .. Len(sent) : Framed(sent[i])
    BY DEF StreamInv
  <2> QED
    BY <1>5, <2>1 DEF NextFrame
<1>7. \A k \in 1 .. Len(EncodeFrame(NextFrame)) : stream[cut[r] + k] = EncodeFrame(NextFrame)[k]
  BY <1>1, <1>5 DEF Carries, AreAt, IsAt, NextFrame
<1>8. Len(EncodeFrame(NextFrame)) = 14 + Len(NextFrame.body) /\ Len(NextFrame.body) \in Nat
  BY <1>6, FrameBytes DEF HsmsFrame
<1>9. ASSUME NEW k \in 1 .. Len(buf), k <= 14 + Len(NextFrame.body)
      PROVE  buf[k] = EncodeFrame(NextFrame)[k]
  <2>1. k \in 1 .. Len(EncodeFrame(NextFrame))
    BY <1>2, <1>8, <1>9
  <2> QED
    BY <1>3, <1>7, <2>1
<1> QED
  BY <1>2, <1>4, <1>6, <1>8, <1>9

(* The length recv has read is that of the next frame. *)
LEMMA DeclaredIsLength ==
  ASSUME StreamInv, Len(buf) >= 4
  PROVE  Len(received) < Len(sent) /\ Declared = NextFrame.length
<1>1. buf # <<>> /\ Len(buf) \in Nat
  BY Lengths
<1>2. /\ Len(received) < Len(sent) /\ NextFrame \in HsmsFrame
      /\ \A k \in 1 .. 4 : buf[k] = EncodeFrame(NextFrame)[k]
  BY <1>1, BufIsOfNextFrame
<1> QED
  BY <1>2, LengthIsRead DEF Declared

LEMMA FourOrMore ==
  ASSUME NEW n \in Nat, n >= 4
  PROVE  n = 4 \/ n > 4
OBVIOUS

(* Past the length, the next frame is one that recv reads to its end. *)
LEMMA AcceptedIsReasonable ==
  ASSUME StreamInv, Len(buf) >= 4, ~Unreasonable
  PROVE  /\ NextFrame.length \in Reasonable
         /\ NextFrame.length = 10 + Len(NextFrame.body)
         /\ NextFrame.length \in Nat /\ Len(NextFrame.body) \in Nat
<1>1. buf # <<>> /\ Len(buf) \in Nat
  BY Lengths
<1>2. NextFrame \in HsmsFrame /\ Framed(NextFrame)
  BY <1>1, BufIsOfNextFrame
<1>3. NextFrame.length \in Reasonable
  <2>1. CASE Len(buf) = 4
    <3>1. Declared \in Reasonable
      BY <2>1 DEF Unreasonable
    <3>2. Declared = NextFrame.length
      BY <2>1, DeclaredIsLength
    <3> QED
      BY <3>1, <3>2, Zenon
  <2>2. CASE Len(buf) > 4
    BY <2>2, Zenon DEF StreamInv, ReadsOneFrame, NextFrame
  <2>3. Len(buf) \in Nat
    BY Lengths
  <2>4. Len(buf) = 4 \/ Len(buf) > 4
    BY <2>3, FourOrMore
  <2> QED
    BY <2>1, <2>2, <2>4
<1> QED
  BY <1>2, <1>3 DEF Framed, HsmsFrame, Unsigned32

LEMMA InitStreamInv == StreamInit => StreamInv
<1> SUFFICES ASSUME StreamInit PROVE StreamInv
  OBVIOUS
<1> DEFINE cut == [n \in 0 .. 0 |-> 0]
<1>1. /\ Len(sent) = 0 /\ Len(received) = 0 /\ Len(buf) = 0 /\ Len(wire) = 0
      /\ <<>> \in Seq(Byte) /\ Len(<<>>) = 0 /\ <<>> \in Seq(HsmsFrame)
  BY DEF StreamInit
<1>2. cut \in [0 .. Len(sent) -> Nat] /\ cut[0] = 0
  BY <1>1
<1> HIDE DEF cut
<1>3. Carries(<<>>, cut, cut[Len(received)])
  BY <1>1, <1>2 DEF Carries, AreAt, IsAt
<1>4. \E stream \in Seq(Byte), c \in [0 .. Len(sent) -> Nat] :
        Carries(stream, c, c[Len(received)])
  BY <1>1, <1>2, <1>3
<1>5. FramesArriveWhole
  <2>1. StreamTypeOK
    <3>1. MaxFrames \in Nat
      BY StreamAssumption
    <3>2. Len(received) <= Len(sent) /\ Len(sent) <= MaxFrames
      BY <1>1, <3>1
    <3> QED
      BY <1>1, <3>2 DEF StreamInit, StreamTypeOK
  <2>2. ReceivedIsSent
    BY <1>1 DEF ReceivedIsSent
  <2>3. FailsForItsReason
    BY DEF StreamInit, FailsForItsReason
  <2> QED
    BY <2>1, <2>2, <2>3 DEF FramesArriveWhole
<1> QED
  BY <1>1, <1>4, <1>5 DEF StreamInit, StreamInv, ReadsOneFrame

(* Another frame is added at the end of the stream. *)
LEMMA FramesGrow ==
  ASSUME NEW frames \in Seq(HsmsFrame), NEW f \in HsmsFrame,
         NEW stream \in Seq(Byte), NEW cut \in [0 .. Len(frames) -> Nat],
         AreAt(frames, stream, cut)
  PROVE  \E further \in [0 .. Len(frames) + 1 -> Nat] :
           /\ AreAt(Append(frames, f), stream \o EncodeFrame(f), further)
           /\ \A i \in 0 .. Len(frames) : further[i] = cut[i]
<1> DEFINE n == Len(frames)
           e == EncodeFrame(f)
           longer == stream \o e
           last == Len(stream) + Len(e)
           further == [i \in 0 .. n + 1 |-> IF i <= n THEN cut[i] ELSE last]
           more == Append(frames, f)
<1>1. n \in Nat /\ Len(stream) \in Nat /\ e \in Seq(Byte) /\ Len(e) \in Nat
  BY FrameBytes
<1>2. Len(more) = n + 1 /\ more[n + 1] = f /\ \A i \in 1 .. n : more[i] = frames[i]
  BY AppendProperties
<1> HIDE DEF n, e, more
<1>3. /\ longer \in Seq(Byte) /\ Len(longer) = last
      /\ IsAt(stream, longer, 0) /\ IsAt(e, longer, Len(stream))
  BY <1>1, PartsOfJoin
<1> HIDE DEF longer
<1>4. /\ further \in [0 .. n + 1 -> Nat]
      /\ further[n + 1] = last /\ \A i \in 0 .. n : further[i] = cut[i]
  BY <1>1 DEF n
<1> HIDE DEF further, last
<1>5. /\ cut[0] = 0 /\ cut[n] = Len(stream)
      /\ \A i \in 1 .. n :
           /\ IsAt(EncodeFrame(frames[i]), stream, cut[i - 1])
           /\ cut[i] = cut[i - 1] + Len(EncodeFrame(frames[i]))
  BY DEF AreAt, n
<1>6. ASSUME NEW i \in 1 .. n + 1
      PROVE  /\ IsAt(EncodeFrame(more[i]), longer, further[i - 1])
             /\ further[i] = further[i - 1] + Len(EncodeFrame(more[i]))
  <2>1. CASE i \in 1 .. n
    <3>1. i \in 0 .. n /\ i - 1 \in 0 .. n /\ more[i] = frames[i]
      BY <1>1, <1>2, <2>1
    <3>2. further[i] = cut[i] /\ further[i - 1] = cut[i - 1] /\ cut[i - 1] \in Nat
      BY <1>4, <3>1 DEF n
    <3>3. EncodeFrame(frames[i]) \in Seq(Byte)
      <4>1. frames[i] \in HsmsFrame
        BY <2>1 DEF n
      <4> QED
        BY <4>1, FrameBytes
    <3>4. /\ IsAt(EncodeFrame(frames[i]), stream, cut[i - 1])
          /\ cut[i] = cut[i - 1] + Len(EncodeFrame(frames[i]))
      BY <1>5, <2>1
    <3>5. IsAt(EncodeFrame(frames[i]), longer, 0 + cut[i - 1])
      BY <1>3, <3>2, <3>3, <3>4, PartIsAt
    <3> QED
      BY <3>1, <3>2, <3>4, <3>5
  <2>2. CASE i = n + 1
    <3>1. i - 1 = n /\ n \in 0 .. n
      BY <1>1, <2>2
    <3>2. further[i - 1] = Len(stream) /\ further[i] = last /\ more[i] = f
      BY <1>2, <1>4, <1>5, <2>2, <3>1
    <3> QED
      BY <1>3, <3>2 DEF last, e
  <2>3. i \in 1 .. n \/ i = n + 1
    BY <1>1
  <2> QED
    BY <2>1, <2>2, <2>3
<1>7. further[0] = 0 /\ further[n + 1] = Len(longer)
  BY <1>1, <1>3, <1>4, <1>5
<1>8. AreAt(more, longer, further)
  BY <1>2, <1>6, <1>7 DEF AreAt
<1> QED
  BY <1>4, <1>8 DEF n, more, longer, e

(* What is written further goes to the end of the stream and of the wire. *)
LEMMA WrittenFurther ==
  ASSUME NEW stream \in Seq(Byte), NEW e \in Seq(Byte), NEW b \in Seq(Byte), NEW w \in Seq(Byte),
         NEW start \in Nat,
         IsAt(b, stream, start), IsAt(w, stream, start + Len(b)),
         start + Len(b) + Len(w) = Len(stream)
  PROVE  /\ stream \o e \in Seq(Byte) /\ w \o e \in Seq(Byte)
         /\ IsAt(b, stream \o e, start) /\ IsAt(w \o e, stream \o e, start + Len(b))
         /\ start + Len(b) + Len(w \o e) = Len(stream \o e)
<1> DEFINE longer == stream \o e
           further == w \o e
           next == start + Len(b)
<1>1. /\ Len(stream) \in Nat /\ Len(e) \in Nat /\ Len(b) \in Nat /\ Len(w) \in Nat
      /\ next \in Nat /\ 0 \in Nat
  OBVIOUS
<1>2. /\ longer \in Seq(Byte) /\ Len(longer) = Len(stream) + Len(e)
      /\ IsAt(stream, longer, 0) /\ IsAt(e, longer, Len(stream))
  BY PartsOfJoin
<1>3. further \in Seq(Byte) /\ Len(further) = Len(w) + Len(e)
  BY PartsOfJoin
<1>4. next + Len(w) = Len(stream) /\ IsAt(w, stream, next)
  OBVIOUS
<1> HIDE DEF longer, further, next
<1>5. IsAt(b, longer, 0 + start)
  BY <1>1, <1>2, PartIsAt
<1>6. IsAt(w, longer, 0 + next)
  BY <1>1, <1>2, <1>4, PartIsAt
<1>7. IsAt(b, longer, start) /\ IsAt(w, longer, next)
  <2>1. 0 + start = start /\ 0 + next = next
    BY <1>1
  <2> QED
    BY <1>5, <1>6, <2>1
<1>8. IsAt(w \o e, longer, next)
  <2>1. IsAt(e, longer, next + Len(w))
    BY <1>2, <1>4
  <2> QED
    BY <1>1, <1>2, <1>7, <2>1, JoinIsAt
<1>9. next + Len(further) = Len(longer)
  <2>1. next + (Len(w) + Len(e)) = (next + Len(w)) + Len(e)
    BY <1>1
  <2> QED
    BY <1>2, <1>3, <1>4, <2>1, Zenon
<1> QED
  BY <1>2, <1>3, <1>7, <1>8, <1>9 DEF longer, further, next

(* A frame is written. *)
LEMMA SendKeeps ==
  ASSUME StreamInv, Send
  PROVE  StreamInv'
<1> DEFINE n == Len(sent)
           r == Len(received)
<1>1. PICK f \in Frames[n + 1] :
        /\ ~broken /\ n + 1 <= MaxFrames
        /\ wire' = wire \o EncodeFrame(f) /\ sent' = Append(sent, f)
        /\ UNCHANGED <<broken, buf, received, failed>>
  BY DEF Send, This
<1>2. PICK stream \in Seq(Byte), cut \in [0 .. n -> Nat] : Carries(stream, cut, cut[r])
  BY DEF StreamInv
<1>3. /\ n \in Nat /\ r \in Nat /\ r <= n /\ Len(buf) \in Nat /\ Len(wire) \in Nat
      /\ buf \in Seq(Byte) /\ wire \in Seq(Byte) /\ sent \in Seq(HsmsFrame)
  BY Lengths
<1>4. f \in HsmsFrame /\ Framed(f)
  <2>1. n + 1 \in 1 .. MaxFrames
    BY <1>1, <1>3, StreamAssumption
  <2> QED
    BY <2>1, StreamAssumption
<1> DEFINE e == EncodeFrame(f)
<1>5. e \in Seq(Byte) /\ Len(e) \in Nat /\ Len(stream) \in Nat
  BY <1>4, FrameBytes
<1> PICK longer \in Seq(Byte) : longer = stream \o e
  BY <1>5, PartsOfJoin
<1>6. PICK further \in [0 .. n + 1 -> Nat] :
        AreAt(Append(sent, f), longer, further) /\ \A i \in 0 .. n : further[i] = cut[i]
  BY <1>2, <1>3, <1>4, FramesGrow DEF Carries
<1>7. sent' \in Seq(HsmsFrame) /\ Len(sent') = n + 1 /\ sent'[n + 1] = f
      /\ \A i \in 1 .. n : sent'[i] = sent[i]
  BY <1>1, <1>3, <1>4, AppendProperties
<1>8. wire' = wire \o e
  BY <1>1
<1>9. AreAt(sent', longer, further)
  BY <1>1, <1>6
<1> HIDE DEF e
<1>10. r \in 0 .. n /\ further[r] = cut[r] /\ cut[r] \in Nat
  BY <1>3, <1>6
<1>11. /\ IsAt(buf, stream, cut[r]) /\ IsAt(wire, stream, cut[r] + Len(buf))
       /\ cut[r] + Len(buf) + Len(wire) = Len(stream)
  BY <1>1, <1>2 DEF Carries
<1>12. /\ wire \o e \in Seq(Byte)
       /\ IsAt(buf, longer, cut[r]) /\ IsAt(wire \o e, longer, cut[r] + Len(buf))
       /\ cut[r] + Len(buf) + Len(wire \o e) = Len(longer)
  <2> DEFINE start == cut[r]
  <2>1. /\ buf \in Seq(Byte) /\ wire \in Seq(Byte) /\ e \in Seq(Byte) /\ start \in Nat
        /\ IsAt(buf, stream, start) /\ IsAt(wire, stream, start + Len(buf))
        /\ start + Len(buf) + Len(wire) = Len(stream)
    BY <1>3, <1>5, <1>10, <1>11
  <2> HIDE DEF start
  <2>2. /\ wire \o e \in Seq(Byte)
        /\ IsAt(buf, stream \o e, start) /\ IsAt(wire \o e, stream \o e, start + Len(buf))
        /\ start + Len(buf) + Len(wire \o e) = Len(stream \o e)
    BY <2>1, WrittenFurther
  <2> QED
    BY <2>2 DEF start
<1>13. wire' \in Seq(Byte)
  BY <1>8, <1>12
<1>14. /\ AreAt(sent', longer, further)
       /\ IsAt(buf', longer, further[r]) /\ IsAt(wire', longer, further[r] + Len(buf'))
       /\ further[r] + Len(buf') + Len(wire') = Len(longer)
  BY <1>1, <1>8, <1>9, <1>10, <1>12
<1>15. \E s \in Seq(Byte), c \in [0 .. Len(sent') -> Nat] : Carries(s, c, c[Len(received)])'
  <2>1. Carries(longer, further, further[Len(received)])'
    BY <1>1, <1>14 DEF Carries
  <2> QED
    BY <1>6, <1>7, <2>1
<1>16. FramesArriveWhole'
  <2>1. StreamTypeOK'
    <3>1. Len(received) <= n /\ n + 1 <= MaxFrames /\ broken \in BOOLEAN
          /\ failed \in {"no", "length", "end", "timeout"}
      BY <1>1 DEF StreamInv, FramesArriveWhole, StreamTypeOK
    <3>2. Len(received) <= n + 1
      BY <1>3, <3>1
    <3> QED
      BY <1>1, <1>3, <1>7, <1>13, <3>1, <3>2 DEF StreamTypeOK
  <2>2. ReceivedIsSent'
    <3>1. \A i \in 1 .. r : received[i] = Arrived(sent[i]) /\ sent'[i] = sent[i]
      BY <1>3, <1>7 DEF StreamInv, FramesArriveWhole, ReceivedIsSent
    <3> QED
      BY <1>1, <3>1 DEF ReceivedIsSent
  <2>3. FailsForItsReason'
    <3>1. /\ failed \in {"length", "timeout"} => r < n
          /\ failed = "length" => sent[r + 1].length \notin Reasonable
          /\ failed = "timeout" => Len(buf) \in 1 .. 3 + sent[r + 1].length
          /\ failed # "end"
      BY <1>1 DEF StreamInv, FramesArriveWhole, FailsForItsReason
    <3>2. r < n => r + 1 \in 1 .. n /\ r < n + 1
      BY <1>3
    <3> QED
      BY <1>1, <1>7, <3>1, <3>2 DEF FailsForItsReason
  <2> QED
    BY <2>1, <2>2, <2>3 DEF FramesArriveWhole
<1>17. ReadsOneFrame'
  <2>1. Len(buf) > 4 => /\ r < n /\ sent[r + 1].length \in Reasonable
                        /\ Len(buf) <= 4 + sent[r + 1].length
    BY DEF StreamInv, ReadsOneFrame
  <2>2. r < n => r + 1 \in 1 .. n /\ r < n + 1
    BY <1>3
  <2> QED
    BY <1>1, <1>7, <2>1, <2>2 DEF ReadsOneFrame
<1>18. \A i \in 1 .. Len(sent') : Framed(sent'[i])
  <2>1. \A i \in 1 .. n : Framed(sent[i]) /\ sent'[i] = sent[i]
    BY <1>7 DEF StreamInv
  <2>2. \A i \in 1 .. n + 1 : i \in 1 .. n \/ i = n + 1
    BY <1>3
  <2>3. \A i \in 1 .. n + 1 : Framed(sent'[i])
    BY <1>4, <1>7, <2>1, <2>2
  <2> QED
    BY <1>7, <2>3
<1>19. received' \in Seq(HsmsFrame)
  BY <1>1, Lengths
<1> QED
  BY <1>7, <1>15, <1>16, <1>17, <1>18, <1>19 DEF StreamInv, Framed

(* Bytes cut in two after the first n. *)
LEMMA CutInTwo ==
  ASSUME NEW w \in Seq(Byte), NEW n \in 0 .. Len(w)
  PROVE  /\ SubSeq(w, 1, n) \in Seq(Byte) /\ Len(SubSeq(w, 1, n)) = n
         /\ IsAt(SubSeq(w, 1, n), w, 0)
         /\ From(w, n) \in Seq(Byte) /\ Len(From(w, n)) = Len(w) - n
         /\ IsAt(From(w, n), w, n)
<1>1. /\ n \in Nat /\ 0 \in Nat /\ Len(w) - n \in Nat /\ 0 + n <= Len(w)
      /\ n + (Len(w) - n) <= Len(w)
  OBVIOUS
<1>2. 0 + 1 = 1 /\ 0 + n = n /\ n + (Len(w) - n) = Len(w)
  OBVIOUS
<1>3. /\ SubSeq(w, 0 + 1, 0 + n) \in Seq(Byte) /\ Len(SubSeq(w, 0 + 1, 0 + n)) = n
      /\ IsAt(SubSeq(w, 0 + 1, 0 + n), w, 0)
  BY <1>1, Sliced, Zenon
<1>4. /\ SubSeq(w, n + 1, n + (Len(w) - n)) \in Seq(Byte)
      /\ Len(SubSeq(w, n + 1, n + (Len(w) - n))) = Len(w) - n
      /\ IsAt(SubSeq(w, n + 1, n + (Len(w) - n)), w, n)
  BY <1>1, Sliced, Zenon
<1> QED
  BY <1>2, <1>3, <1>4 DEF From

(* What is read goes from the beginning of the wire to the end of the buffer. *)
LEMMA ReadOn ==
  ASSUME NEW stream \in Seq(Byte), NEW b \in Seq(Byte), NEW w \in Seq(Byte), NEW start \in Nat,
         IsAt(b, stream, start), IsAt(w, stream, start + Len(b)), NEW n \in 0 .. Len(w)
  PROVE  /\ IsAt(SubSeq(w, 1, n), stream, start + Len(b))
         /\ b \o SubSeq(w, 1, n) \in Seq(Byte) /\ Len(b \o SubSeq(w, 1, n)) = Len(b) + n
         /\ IsAt(b \o SubSeq(w, 1, n), stream, start)
         /\ IsAt(From(w, n), stream, start + Len(b \o SubSeq(w, 1, n)))
         /\ start + Len(b \o SubSeq(w, 1, n)) + Len(From(w, n)) = start + Len(b) + Len(w)
<1> DEFINE s == SubSeq(w, 1, n)
           rest == From(w, n)
           next == start + Len(b)
           more == b \o s
<1>1. /\ n \in Nat /\ 0 \in Nat /\ next \in Nat /\ Len(b) \in Nat /\ Len(w) \in Nat
      /\ IsAt(w, stream, next)
  OBVIOUS
<1>2. /\ s \in Seq(Byte) /\ Len(s) = n /\ IsAt(s, w, 0)
      /\ rest \in Seq(Byte) /\ Len(rest) = Len(w) - n /\ IsAt(rest, w, n)
  BY CutInTwo
<1>3. next = start + Len(b)
  OBVIOUS
<1> HIDE DEF s, rest, next
<1>4. IsAt(s, stream, next)
  <2>1. IsAt(s, stream, next + 0)
    BY <1>1, <1>2, PartIsAt
  <2>2. next + 0 = next
    BY <1>1
  <2> QED
    BY <2>1, <2>2
<1>5. IsAt(rest, stream, next + n)
  BY <1>1, <1>2, PartIsAt
<1>6. IsAt(more, stream, start)
  BY <1>2, <1>3, <1>4, JoinIsAt
<1>7. more \in Seq(Byte) /\ Len(more) = Len(b) + n
  BY <1>2, PartsOfJoin
<1> HIDE DEF more
<1>8. start + Len(more) = next + n /\ start + Len(more) + Len(rest) = next + Len(w)
  BY <1>1, <1>2, <1>3, <1>7
<1>9. IsAt(rest, stream, start + Len(more))
  BY <1>5, <1>8
<1> QED
  BY <1>3, <1>4, <1>6, <1>7, <1>8, <1>9 DEF s, rest, more

(* The connection breaks: what is left under way is still next. *)
LEMMA BreakKeeps ==
  ASSUME StreamInv, BreakConnection
  PROVE  StreamInv'
<1> DEFINE r == Len(received)
<1>1. PICK n \in 0 .. Len(wire) :
        /\ broken' = TRUE /\ wire' = SubSeq(wire, 1, n)
        /\ UNCHANGED <<sent, buf, received, failed>>
  BY DEF BreakConnection
<1>2. PICK stream \in Seq(Byte), cut \in [0 .. Len(sent) -> Nat] : Carries(stream, cut, cut[r])
  BY DEF StreamInv
<1>3. /\ Len(sent) \in Nat /\ r \in 0 .. Len(sent) /\ cut[r] \in Nat
      /\ buf \in Seq(Byte) /\ wire \in Seq(Byte)
  BY Lengths
<1>4. /\ AreAt(sent, stream, cut)
      /\ IsAt(buf, stream, cut[r]) /\ IsAt(wire, stream, cut[r] + Len(buf))
  BY <1>2 DEF Carries
<1>5. SubSeq(wire, 1, n) \in Seq(Byte) /\ IsAt(SubSeq(wire, 1, n), stream, cut[r] + Len(buf))
  BY <1>3, <1>4, CutInTwo, ReadOn
<1>6. Carries(stream, cut, cut[Len(received)])'
  BY <1>1, <1>4, <1>5 DEF Carries
<1>7. \E s \in Seq(Byte), c \in [0 .. Len(sent') -> Nat] : Carries(s, c, c[Len(received)])'
  BY <1>1, <1>6
<1>8. FramesArriveWhole'
  BY <1>1, <1>5 DEF StreamInv, FramesArriveWhole, StreamTypeOK, ReceivedIsSent, FailsForItsReason
<1>9. ReadsOneFrame'
  BY <1>1 DEF StreamInv, ReadsOneFrame
<1> QED
  BY <1>1, <1>7, <1>8, <1>9 DEF StreamInv, Framed

(* Bytes go from the wire to the buffer, no more than the frame has. *)
LEMMA ReadKeeps ==
  ASSUME StreamInv, ReadSome
  PROVE  StreamInv'
<1> DEFINE r == Len(received)
<1>1. /\ failed = "no" /\ ~Unreasonable /\ wire # <<>> /\ Missing > 0
      /\ UNCHANGED <<sent, broken, received, failed>>
  BY DEF ReadSome
<1>2. PICK n \in 1 .. Len(wire) :
        /\ n <= Missing
        /\ buf' = buf \o SubSeq(wire, 1, n) /\ wire' = From(wire, n)
  <2> DEFINE most == IF Missing <= Len(wire) THEN Missing ELSE Len(wire)
  <2>1. PICK n \in 1 .. most : buf' = buf \o SubSeq(wire, 1, n) /\ wire' = From(wire, n)
    BY DEF ReadSome
  <2>2. Missing \in Int /\ Len(wire) \in Nat
    <3>1. CASE Len(buf) >= 4
      BY <1>1, <3>1, Lengths, DeclaredIsLength, AcceptedIsReasonable DEF Missing
    <3>2. CASE ~(Len(buf) >= 4)
      BY <3>2, Lengths DEF Missing
    <3> QED
      BY <3>1, <3>2, Lengths
  <2> QED
    BY <2>1, <2>2
<1>3. PICK stream \in Seq(Byte), cut \in [0 .. Len(sent) -> Nat] : Carries(stream, cut, cut[r])
  BY DEF StreamInv
<1>4. /\ Len(sent) \in Nat /\ r \in 0 .. Len(sent) /\ cut[r] \in Nat
      /\ buf \in Seq(Byte) /\ wire \in Seq(Byte) /\ n \in 0 .. Len(wire)
  BY Lengths
<1>5. /\ AreAt(sent, stream, cut)
      /\ IsAt(buf, stream, cut[r]) /\ IsAt(wire, stream, cut[r] + Len(buf))
      /\ ~broken => cut[r] + Len(buf) + Len(wire) = Len(stream)
  BY <1>3 DEF Carries
<1>6. /\ buf' \in Seq(Byte) /\ Len(buf') = Len(buf) + n
      /\ IsAt(buf', stream, cut[r]) /\ IsAt(wire', stream, cut[r] + Len(buf'))
      /\ cut[r] + Len(buf') + Len(wire') = cut[r] + Len(buf) + Len(wire)
  <2> DEFINE more == buf \o SubSeq(wire, 1, n)
             rest == From(wire, n)
  <2>1. /\ more \in Seq(Byte) /\ Len(more) = Len(buf) + n
        /\ IsAt(more, stream, cut[r]) /\ IsAt(rest, stream, cut[r] + Len(more))
        /\ cut[r] + Len(more) + Len(rest) = cut[r] + Len(buf) + Len(wire)
    BY <1>4, <1>5, ReadOn
  <2>2. buf' = more /\ wire' = rest
    BY <1>2
  <2> HIDE DEF more, rest
  <2> QED
    BY <2>1, <2>2, Zenon
<1>7. wire' \in Seq(Byte)
  BY <1>2, <1>4, CutInTwo
<1>8. Carries(stream, cut, cut[Len(received)])'
  BY <1>1, <1>5, <1>6 DEF Carries
<1>9. \E s \in Seq(Byte), c \in [0 .. Len(sent') -> Nat] : Carries(s, c, c[Len(received)])'
  BY <1>1, <1>8
<1>10. FramesArriveWhole'
  BY <1>1, <1>6, <1>7
  DEF StreamInv, FramesArriveWhole, StreamTypeOK, ReceivedIsSent, FailsForItsReason
<1>11. ReadsOneFrame'
  <2>1. CASE Len(buf) < 4
    <3>1. Len(buf') <= 4
      BY <1>2, <1>4, <1>6, <2>1 DEF Missing
    <3>2. ~(Len(buf') > 4)
      BY <1>6, <3>1
    <3> QED
      BY <3>2 DEF ReadsOneFrame
  <2>2. CASE Len(buf) >= 4
    <3>1. /\ r < Len(sent) /\ Declared = NextFrame.length
          /\ NextFrame.length \in Reasonable /\ NextFrame.length \in Nat
      BY <1>1, <2>2, DeclaredIsLength, AcceptedIsReasonable
    <3>2. Missing = 4 + NextFrame.length - Len(buf)
      BY <1>4, <2>2, <3>1 DEF Missing
    <3>3. Len(buf') <= 4 + NextFrame.length
      <4>1. /\ n \in Nat /\ Len(buf) \in Nat /\ NextFrame.length \in Nat
            /\ n <= 4 + NextFrame.length - Len(buf)
        BY <1>2, <1>4, <3>1, <3>2
      <4>2. Len(buf) + n <= 4 + NextFrame.length
        BY <4>1
      <4> QED
        BY <1>6, <4>2
    <3> QED
      BY <1>1, <3>1, <3>3 DEF ReadsOneFrame, NextFrame
  <2> QED
    BY <1>4, <2>1, <2>2
<1> QED
  BY <1>1, <1>9, <1>10, <1>11 DEF StreamInv, Framed

(* What arrives is a frame. *)
LEMMA ArrivedIsFrame ==
  ASSUME NEW f \in HsmsFrame
  PROVE  Arrived(f) \in HsmsFrame
<1>1. f.header \in SecsHeader /\ f.header.stream \in Byte
  BY DEF HsmsFrame, SecsHeader
<1>2. f.header.stream % 128 \in Byte
  BY <1>1 DEF Byte
<1>3. SevenBits(f.header) \in SecsHeader
  BY <1>1, <1>2 DEF SevenBits, SecsHeader
<1> QED
  BY <1>3 DEF Arrived, HsmsFrame

(* A frame handed up is the next one, whole: the reader is at its end. *)
LEMMA HandUpKeeps ==
  ASSUME StreamInv, HandUp
  PROVE  StreamInv'
<1> DEFINE r == Len(received)
<1>1. /\ Len(buf) >= 4 /\ ~Unreasonable /\ Missing = 0 /\ failed = "no"
      /\ received' = Append(received, DecodeFrame(buf)) /\ buf' = <<>>
      /\ UNCHANGED <<sent, wire, broken, failed>>
  BY DEF HandUp
<1>2. PICK stream \in Seq(Byte), cut \in [0 .. Len(sent) -> Nat] : Carries(stream, cut, cut[r])
  BY DEF StreamInv
<1>3. /\ Len(sent) \in Nat /\ r \in Nat /\ r < Len(sent) /\ cut[r] \in Nat
      /\ buf \in Seq(Byte) /\ Len(buf) \in Nat /\ received \in Seq(HsmsFrame)
  BY <1>1, Lengths, DeclaredIsLength
<1>4. /\ NextFrame.length = 10 + Len(NextFrame.body) /\ Declared = NextFrame.length
      /\ NextFrame.length \in Nat /\ Len(NextFrame.body) \in Nat
  BY <1>1, DeclaredIsLength, AcceptedIsReasonable
<1>5. Len(buf) = 4 + NextFrame.length /\ Len(buf) = 14 + Len(NextFrame.body)
  BY <1>1, <1>3, <1>4 DEF Missing
<1>6. /\ NextFrame \in HsmsFrame
      /\ \A k \in 1 .. Len(buf) : buf[k] = EncodeFrame(NextFrame)[k]
  <2>1. Len(buf) <= 14 + Len(NextFrame.body) /\ buf # <<>>
    BY <1>1, <1>3, <1>5
  <2> QED
    BY <2>1, BufIsOfNextFrame
<1>7. DecodeFrame(buf) = Arrived(NextFrame)
  BY <1>3, <1>4, <1>5, <1>6, FrameIsRead
<1>8. Arrived(NextFrame) \in HsmsFrame
  BY <1>6, ArrivedIsFrame
<1>9. /\ received' \in Seq(HsmsFrame) /\ Len(received') = r + 1
      /\ received'[r + 1] = Arrived(NextFrame)
      /\ \A i \in 1 .. r : received'[i] = received[i]
  BY <1>1, <1>3, <1>7, <1>8, AppendProperties
<1>10. /\ AreAt(sent, stream, cut) /\ IsAt(wire, stream, cut[r] + Len(buf))
       /\ ~broken => cut[r] + Len(buf) + Len(wire) = Len(stream)
  BY <1>2 DEF Carries
<1>11. cut[r + 1] = cut[r] + Len(buf) /\ cut[r + 1] \in Nat
  <2>1. r + 1 \in 1 .. Len(sent) /\ (r + 1) - 1 = r
    BY <1>3
  <2>2. cut[r + 1] = cut[r] + Len(EncodeFrame(NextFrame))
    BY <1>10, <2>1 DEF AreAt, NextFrame
  <2>3. Len(EncodeFrame(NextFrame)) = Len(buf)
    BY <1>5, <1>6, FrameBytes
  <2> QED
    BY <1>3, <2>1, <2>2, <2>3
<1>12. Carries(stream, cut, cut[Len(received)])'
  <2>1. IsAt(<<>>, stream, cut[r + 1]) /\ Len(<<>>) = 0
    <3>1. cut[r + 1] <= Len(stream)
      BY <1>10, <1>11 DEF IsAt
    <3> QED
      BY <1>11, <3>1 DEF IsAt
  <2>2. cut[r + 1] + 0 = cut[r] + Len(buf)
    BY <1>3, <1>11
  <2>3. /\ IsAt(wire, stream, cut[r + 1] + Len(<<>>))
        /\ ~broken => cut[r + 1] + Len(<<>>) + Len(wire) = Len(stream)
    BY <1>10, <2>1, <2>2
  <2> QED
    BY <1>1, <1>9, <1>10, <2>1, <2>3 DEF Carries
<1>13. \E s \in Seq(Byte), c \in [0 .. Len(sent') -> Nat] : Carries(s, c, c[Len(received)])'
  BY <1>1, <1>12
<1>14. FramesArriveWhole'
  <2>1. StreamTypeOK'
    <3>1. buf' \in Seq(Byte) /\ Len(received') <= Len(sent')
      BY <1>1, <1>3, <1>9
    <3> QED
      BY <1>1, <3>1 DEF StreamInv, FramesArriveWhole, StreamTypeOK
  <2>2. ReceivedIsSent'
    <3>1. ASSUME NEW i \in 1 .. r + 1 PROVE received'[i] = Arrived(sent[i])
      <4>1. CASE i \in 1 .. r
        BY <1>9, <4>1 DEF StreamInv, FramesArriveWhole, ReceivedIsSent
      <4>2. CASE i = r + 1
        BY <1>9, <4>2 DEF NextFrame
      <4> QED
        BY <1>3, <4>1, <4>2
    <3> QED
      BY <1>1, <1>9, <3>1 DEF ReceivedIsSent
  <2>3. FailsForItsReason'
    BY <1>1 DEF FailsForItsReason
  <2> QED
    BY <2>1, <2>2, <2>3 DEF FramesArriveWhole
<1>15. ReadsOneFrame'
  <2>1. ~(Len(buf') > 4)
    <3>1. Len(<<>>) = 0
      OBVIOUS
    <3> QED
      BY <1>1, <3>1
  <2> QED
    BY <2>1 DEF ReadsOneFrame
<1> QED
  BY <1>1, <1>9, <1>13, <1>14, <1>15 DEF StreamInv, Framed

(* With a frame begun, of which recv waits for the rest, that frame was     *)
(* written and recv is inside of it.                                        *)
LEMMA InsideAFrame ==
  ASSUME StreamInv, ~Unreasonable, Missing > 0, buf # <<>>
  PROVE  /\ Len(received) < Len(sent)
         /\ Len(buf) \in 1 .. 3 + sent[Len(received) + 1].length
<1>1. Len(buf) \in Nat \ {0} /\ Len(received) \in Nat /\ Len(sent) \in Nat
  BY Lengths
<1>2. Len(received) < Len(sent) /\ NextFrame \in HsmsFrame
  BY BufIsOfNextFrame
<1>3. NextFrame.length \in Nat
  BY <1>2 DEF HsmsFrame, Unsigned32
<1>4. CASE Len(buf) < 4
  BY <1>1, <1>2, <1>3, <1>4 DEF NextFrame
<1>5. CASE Len(buf) >= 4
  <2>1. Declared = NextFrame.length
    BY <1>5, DeclaredIsLength
  <2>2. Missing = 4 + NextFrame.length - Len(buf)
    BY <1>1, <1>5, <2>1 DEF Missing
  <2> QED
    BY <1>1, <1>2, <1>3, <2>2 DEF NextFrame
<1> QED
  BY <1>1, <1>4, <1>5

(* recv gives up: on the length of the next frame, on a broken connection,  *)
(* or inside a frame.                                                       *)
LEMMA FailKeeps ==
  ASSUME StreamInv, RecvFails
  PROVE  StreamInv'
<1>1. UNCHANGED <<sent, wire, broken, buf, received>>
  BY DEF RecvFails
<1>2. \/ Unreasonable /\ failed' = "length"
      \/ broken /\ failed' = "end"
      \/ ~Unreasonable /\ Missing > 0 /\ buf # <<>> /\ failed' = "timeout"
  BY DEF RecvFails
<1>3. FailsForItsReason' /\ failed' \in {"no", "length", "end", "timeout"}
  <2>1. CASE Unreasonable /\ failed' = "length"
    <3>1. Len(buf) = 4 /\ Declared \notin Reasonable
      BY <2>1 DEF Unreasonable
    <3>2. Len(received) < Len(sent) /\ NextFrame.length \notin Reasonable
      BY <3>1, DeclaredIsLength
    <3> QED
      BY <1>1, <2>1, <3>2 DEF FailsForItsReason, NextFrame
  <2>2. CASE broken /\ failed' = "end"
    BY <1>1, <2>2 DEF FailsForItsReason
  <2>3. CASE ~Unreasonable /\ Missing > 0 /\ buf # <<>> /\ failed' = "timeout"
    <3>1. /\ Len(received) < Len(sent)
          /\ Len(buf) \in 1 .. 3 + sent[Len(received) + 1].length
      BY <2>3, InsideAFrame
    <3> QED
      BY <1>1, <2>3, <3>1 DEF FailsForItsReason
  <2> QED
    BY <1>2, <2>1, <2>2, <2>3
<1>4. FramesArriveWhole'
  BY <1>1, <1>3 DEF StreamInv, FramesArriveWhole, StreamTypeOK, ReceivedIsSent
<1>5. ReadsOneFrame'
  BY <1>1 DEF StreamInv, ReadsOneFrame
<1>6. \E s \in Seq(Byte), c \in [0 .. Len(sent') -> Nat] : Carries(s, c, c[Len(received)])'
  BY <1>1 DEF StreamInv, Carries
<1> QED
  BY <1>1, <1>4, <1>5, <1>6 DEF StreamInv, Framed

LEMMA StepStreamInv == StreamInv /\ [StreamNext]_streamVars => StreamInv'
<1> SUFFICES ASSUME StreamInv, [StreamNext]_streamVars PROVE StreamInv'
  OBVIOUS
<1>1. CASE Send
  BY <1>1, SendKeeps
<1>2. CASE BreakConnection
  BY <1>2, BreakKeeps
<1>3. CASE ReadSome
  BY <1>3, ReadKeeps
<1>4. CASE HandUp
  BY <1>4, HandUpKeeps
<1>5. CASE RecvFails
  BY <1>5, FailKeeps
<1>6. CASE UNCHANGED streamVars
  <2>1. UNCHANGED <<sent, wire, broken, buf, received, failed>>
    BY <1>6 DEF streamVars
  <2>2. FramesArriveWhole' /\ ReadsOneFrame'
    BY <2>1 DEF StreamInv, FramesArriveWhole, StreamTypeOK, ReceivedIsSent,
                FailsForItsReason, ReadsOneFrame
  <2>3. \E s \in Seq(Byte), c \in [0 .. Len(sent') -> Nat] : Carries(s, c, c[Len(received)])'
    BY <2>1 DEF StreamInv, Carries
  <2> QED
    BY <2>1, <2>2, <2>3 DEF StreamInv, Framed
<1> QED
  BY <1>1, <1>2, <1>3, <1>4, <1>5, <1>6 DEF StreamNext, Recv

(* The inductive invariant of a connection: buffer and wire are the bytes   *)
(* behind the frames received, in the stream of all bytes written.          *)
THEOREM StreamInvariant == StreamSpec => []StreamInv
<1>1. StreamInit => StreamInv
  BY InitStreamInv
<1>2. StreamInv /\ [StreamNext]_streamVars => StreamInv'
  BY StepStreamInv
<1> QED
  BY <1>1, <1>2, PTL DEF StreamSpec

(* However the bytes are cut up on the way and wherever the connection      *)
(* breaks, recv returns the frames that were written, in order, until it    *)
(* fails: at a length out of its bounds, at the end of the connection, or   *)
(* inside a frame it waited for too long (hsms.rs: encode, decode, recv).   *)
THEOREM FramesAlwaysArriveWhole == StreamSpec => []FramesArriveWhole
<1>1. StreamInv => FramesArriveWhole
  BY DEF StreamInv
<1> QED
  BY <1>1, StreamInvariant, PTL

=============================================================================
