------------------------- MODULE HostSessionProofs -------------------------
(***************************************************************************)
(* One host's connections, for any timers, any number of requests, events  *)
(* and reconnections: a request returns its own answer or none             *)
(* (RequestsGetTheirAnswers), and the events of a connection reach the     *)
(* user in the order they were made (EventsStayInOrder).                   *)
(***************************************************************************)
EXTENDS HostSession, SequenceTheorems, TLAPS

-----------------------------------------------------------------------------
(* Sequences of messages *)

(* Appending to a sequence, by its elements. *)
LEMMA AppendIs ==
  ASSUME NEW S, NEW s \in Seq(S), NEW e \in S
  PROVE  /\ Append(s, e) \in Seq(S)
         /\ Len(Append(s, e)) = Len(s) + 1 /\ Len(s) \in Nat
         /\ DOMAIN s = 1 .. Len(s) /\ DOMAIN Append(s, e) = 1 .. Len(s) + 1
         /\ \A i \in 1 .. Len(s) : Append(s, e)[i] = s[i] /\ s[i] \in S
         /\ Append(s, e)[Len(s) + 1] = e
BY AppendProperties, LenProperties, ElementOfSeq

(* Taking the head off, by the elements. *)
LEMMA TailIs ==
  ASSUME NEW S, NEW s \in Seq(S), s # <<>>
  PROVE  /\ Head(s) \in S /\ Tail(s) \in Seq(S) /\ Head(s) = s[1]
         /\ Len(s) \in Nat \ {0} /\ Len(Tail(s)) = Len(s) - 1
         /\ DOMAIN s = 1 .. Len(s) /\ DOMAIN Tail(s) = 1 .. Len(s) - 1
         /\ \A i \in 1 .. Len(s) - 1 : Tail(s)[i] = s[i + 1]
<1>1. /\ Head(s) \in S /\ Tail(s) \in Seq(S) /\ Head(s) = s[1]
      /\ Len(s) \in Nat /\ Len(s) # 0 /\ Len(Tail(s)) = Len(s) - 1
      /\ \A i \in 1 .. Len(Tail(s)) : Tail(s)[i] = s[i + 1]
  BY HeadTailProperties, EmptySeq, LenProperties
<1> QED
  BY <1>1, LenProperties

(* The events of a sequence up to a position are those up to an earlier one *)
(* and those from there.                                                    *)
Continues(u, k, t, n) == \A j \in 1 .. n : u[k + j] = t[j]

LEMMA NumbersSplit ==
  ASSUME NEW v, NEW w, NEW k, NEW n, NEW m,
         k \in Nat, n \in Nat, m = k + n, Continues(v, k, w, n)
  PROVE  EventNumbers(v, m) = EventNumbers(v, k) \cup EventNumbers(w, n)
<1>1. ASSUME NEW x \in EventNumbers(v, m)
      PROVE  x \in EventNumbers(v, k) \cup EventNumbers(w, n)
  <2>1. PICK j \in 1 .. k + n : v[j].type = "event" /\ x = v[j].about
    BY <1>1 DEF EventNumbers
  <2>2. CASE j <= k
    BY <2>1, <2>2 DEF EventNumbers
  <2>3. CASE j > k
    <3>1. j - k \in 1 .. n /\ v[j] = w[j - k]
      BY <2>3 DEF Continues
    <3> QED
      BY <2>1, <3>1 DEF EventNumbers
  <2> QED
    BY <2>2, <2>3
<1>2. ASSUME NEW x \in EventNumbers(v, k) PROVE x \in EventNumbers(v, m)
  BY <1>2 DEF EventNumbers
<1>3. ASSUME NEW x \in EventNumbers(w, n) PROVE x \in EventNumbers(v, m)
  <2>1. PICK j \in 1 .. n : w[j].type = "event" /\ x = w[j].about
    BY <1>3 DEF EventNumbers
  <2>2. k + j \in 1 .. k + n /\ v[k + j] = w[j]
    BY DEF Continues
  <2> QED
    BY <2>1, <2>2 DEF EventNumbers
<1> QED
  BY <1>1, <1>2, <1>3

LEMMA NumbersOfNone == ASSUME NEW s PROVE EventNumbers(s, 0) = {}
BY DEF EventNumbers

LEMMA NumbersOfSame ==
  ASSUME NEW u, NEW t, NEW n \in Nat, \A j \in 1 .. n : u[j] = t[j]
  PROVE  EventNumbers(u, n) = EventNumbers(t, n)
BY DEF EventNumbers

LEMMA NoEvents == ASSUME NEW n \in Int PROVE EventsAre(<<>>, n + 1, n)
<1>1. Len(<<>>) = 0 /\ DOMAIN <<>> = {} /\ n + 1 .. n = {}
  OBVIOUS
<1> QED
  BY <1>1, NumbersOfNone DEF EventsAre

(* Two sequences that follow one another: first by their elements.          *)
Joined(u, s, k, t, l) ==
  /\ Len(s) = k /\ Len(t) = l /\ Len(u) = k + l
  /\ DOMAIN s = 1 .. k /\ DOMAIN t = 1 .. l /\ DOMAIN u = 1 .. k + l
  /\ \A i \in 1 .. k : u[i] = s[i]
  /\ \A i \in 1 .. l : u[k + i] = t[i] /\ t[i].about \in Nat

LEMMA EventsJoin ==
  ASSUME NEW s, NEW t, NEW u, NEW k \in Nat, NEW l \in Nat, Joined(u, s, k, t, l),
         NEW a \in Int, NEW b \in Int, NEW c \in Int, a <= b + 1, b <= c,
         EventsAre(s, a, b), EventsAre(t, b + 1, c)
  PROVE  EventsAre(u, a, c)
<1>1. /\ Len(s) = k /\ Len(t) = l /\ Len(u) = k + l
      /\ DOMAIN s = 1 .. k /\ DOMAIN t = 1 .. l /\ DOMAIN u = 1 .. k + l
  BY DEF Joined
<1>2. EventNumbers(u, k) = a .. b
  <2>1. EventNumbers(u, k) = EventNumbers(s, k)
    BY NumbersOfSame DEF Joined
  <2> QED
    BY <1>1, <2>1 DEF EventsAre
<1>3. \A i \in 0 .. l : EventNumbers(u, k + i) = (a .. b) \cup EventNumbers(t, i)
  <2> SUFFICES ASSUME NEW i \in 0 .. l
               PROVE  EventNumbers(u, k + i) = (a .. b) \cup EventNumbers(t, i)
    OBVIOUS
  <2>1. i \in Nat /\ Continues(u, k, t, i)
    BY DEF Continues, Joined
  <2>2. EventNumbers(u, k + i) = EventNumbers(u, k) \cup EventNumbers(t, i)
    BY <2>1, NumbersSplit
  <2> QED
    BY <1>2, <2>2
<1>4. EventNumbers(u, Len(u)) = a .. c
  <2>1. EventNumbers(u, k + l) = (a .. b) \cup EventNumbers(t, l)
    BY <1>3
  <2>2. EventNumbers(t, l) = b + 1 .. c
    BY <1>1 DEF EventsAre
  <2>3. (a .. b) \cup (b + 1 .. c) = a .. c
    OBVIOUS
  <2> QED
    BY <1>1, <2>1, <2>2, <2>3
<1>5. ASSUME NEW i \in DOMAIN u, u[i].type = "event"
      PROVE  EventNumbers(u, i - 1) = a .. u[i].about - 1
  <2>0. i \in 1 .. k + l
    BY <1>1
  <2>1. CASE i <= k
    <3>1. i \in 1 .. k /\ i - 1 \in Nat /\ s[i] = u[i]
      BY <2>0, <2>1 DEF Joined
    <3>2. EventNumbers(u, i - 1) = EventNumbers(s, i - 1)
      <4>1. \A j \in 1 .. i - 1 : u[j] = s[j]
        BY <3>1 DEF Joined
      <4> QED
        BY <3>1, <4>1, NumbersOfSame
    <3> QED
      BY <1>1, <1>5, <3>1, <3>2 DEF EventsAre
  <2>2. CASE i > k
    <3> SUFFICES ASSUME NEW j \in 1 .. l, i = k + j
                 PROVE  EventNumbers(u, i - 1) = a .. u[i].about - 1
      <4>1. i - k \in 1 .. l /\ i = k + (i - k)
        BY <2>0, <2>2
      <4> QED
        BY <4>1
    <3>1. u[i] = t[j] /\ t[j].about \in Nat
      BY DEF Joined
    <3>2. EventNumbers(t, j - 1) = b + 1 .. t[j].about - 1
      BY <1>1, <1>5, <3>1 DEF EventsAre
    <3>3. t[j].about \in b + 1 .. c
      <4>1. t[j].about \in EventNumbers(t, Len(t))
        BY <1>1, <1>5, <3>1 DEF EventNumbers
      <4> QED
        BY <4>1 DEF EventsAre
    <3>4. EventNumbers(u, i - 1) = (a .. b) \cup EventNumbers(t, j - 1)
      <4>1. j - 1 \in 0 .. l /\ k + (j - 1) = i - 1
        OBVIOUS
      <4>2. EventNumbers(u, k + (j - 1)) = (a .. b) \cup EventNumbers(t, j - 1)
        BY <1>3, <4>1
      <4> QED
        BY <4>1, <4>2
    <3>5. (a .. b) \cup (b + 1 .. t[j].about - 1) = a .. t[j].about - 1
      BY <3>3
    <3> QED
      BY <3>1, <3>2, <3>4, <3>5
  <2> QED
    BY <2>0, <2>1, <2>2
<1> QED
  BY <1>4, <1>5 DEF EventsAre

LEMMA EventsFollow ==
  ASSUME NEW s \in Seq(Messages), NEW t \in Seq(Messages),
         NEW a \in Int, NEW b \in Int, NEW c \in Int, a <= b + 1, b <= c,
         EventsAre(s, a, b), EventsAre(t, b + 1, c)
  PROVE  EventsAre(s \o t, a, c)
<1>1. /\ Len(s) \in Nat /\ Len(t) \in Nat /\ Len(s \o t) = Len(s) + Len(t)
      /\ DOMAIN s = 1 .. Len(s) /\ DOMAIN t = 1 .. Len(t)
      /\ DOMAIN (s \o t) = 1 .. Len(s) + Len(t)
      /\ \A i \in 1 .. Len(s) : (s \o t)[i] = s[i]
  BY LenProperties, ConcatProperties
<1>2. \A i \in 1 .. Len(t) : (s \o t)[Len(s) + i] = t[i] /\ t[i].about \in Nat
  <2> SUFFICES ASSUME NEW i \in 1 .. Len(t)
               PROVE  (s \o t)[Len(s) + i] = t[i] /\ t[i].about \in Nat
    OBVIOUS
  <2>1. t[i] \in Messages
    BY ElementOfSeq
  <2>2. (s \o t)[Len(s) + i] = t[i]
    BY <1>1, ConcatProperties
  <2> QED
    BY <2>1, <2>2 DEF Messages
<1>3. Joined(s \o t, s, Len(s), t, Len(t))
  BY <1>1, <1>2 DEF Joined
<1> QED
  BY <1>1, <1>3, EventsJoin

(* A message that is no event changes nothing at the end of a sequence.     *)
LEMMA OtherFollows ==
  ASSUME NEW s \in Seq(Messages), NEW m \in Messages, m.type # "event",
         NEW a \in Int, NEW b \in Int, EventsAre(s, a, b)
  PROVE  EventsAre(Append(s, m), a, b)
<1> DEFINE u == Append(s, m)
<1>1. /\ Len(u) = Len(s) + 1 /\ Len(s) \in Nat
      /\ DOMAIN s = 1 .. Len(s) /\ DOMAIN u = 1 .. Len(s) + 1
      /\ \A i \in 1 .. Len(s) : u[i] = s[i]
      /\ u[Len(s) + 1] = m
  BY AppendIs
<1> HIDE DEF u
<1>2. \A i \in 0 .. Len(s) : EventNumbers(u, i) = EventNumbers(s, i)
  BY <1>1, NumbersOfSame
<1>3. EventNumbers(u, Len(u)) = EventNumbers(s, Len(s))
  BY <1>1 DEF EventNumbers
<1>4. ASSUME NEW i \in DOMAIN u, u[i].type = "event"
      PROVE  EventNumbers(u, i - 1) = a .. u[i].about - 1
  <2>1. i \in 1 .. Len(s) /\ i - 1 \in 0 .. Len(s) /\ u[i] = s[i]
    BY <1>1, <1>4
  <2> QED
    BY <1>1, <1>2, <1>4, <2>1 DEF EventsAre
<1> QED
  BY <1>3, <1>4 DEF EventsAre, u

(* The next event at the end of a sequence.                                 *)
LEMMA EventFollows ==
  ASSUME NEW s \in Seq(Messages), NEW m \in Messages, m.type = "event",
         NEW a \in Int, NEW b \in Int, a <= b + 1, EventsAre(s, a, b), m.about = b + 1
  PROVE  EventsAre(Append(s, m), a, b + 1)
<1> DEFINE u == Append(s, m)
<1>1. /\ Len(u) = Len(s) + 1 /\ Len(s) \in Nat
      /\ DOMAIN s = 1 .. Len(s) /\ DOMAIN u = 1 .. Len(s) + 1
      /\ \A i \in 1 .. Len(s) : u[i] = s[i]
      /\ u[Len(s) + 1] = m
  BY AppendIs
<1> HIDE DEF u
<1>2. \A i \in 0 .. Len(s) : EventNumbers(u, i) = EventNumbers(s, i)
  BY <1>1, NumbersOfSame
<1>3. EventNumbers(u, Len(s)) = a .. b
  BY <1>1, <1>2 DEF EventsAre
<1>4. EventNumbers(u, Len(u)) = (a .. b) \cup {b + 1}
  <2>1. EventNumbers(u, Len(u)) = EventNumbers(u, Len(s)) \cup {m.about}
    BY <1>1 DEF EventNumbers
  <2> QED
    BY <1>3, <2>1
<1>5. EventNumbers(u, Len(u)) = a .. b + 1
  BY <1>4
<1>6. ASSUME NEW i \in DOMAIN u, u[i].type = "event"
      PROVE  EventNumbers(u, i - 1) = a .. u[i].about - 1
  <2>1. CASE i \in 1 .. Len(s)
    <3>1. i - 1 \in 0 .. Len(s) /\ u[i] = s[i]
      BY <1>1, <2>1
    <3> QED
      BY <1>1, <1>2, <1>6, <2>1, <3>1 DEF EventsAre
  <2>2. CASE i = Len(s) + 1
    BY <1>1, <1>3, <2>2
  <2> QED
    BY <1>1, <2>1, <2>2
<1> QED
  BY <1>5, <1>6 DEF EventsAre, u

(* A head that is no event can be taken away; one that is has the first     *)
(* number of the sequence.                                                  *)
LEMMA HeadLeaves ==
  ASSUME NEW s \in Seq(Messages), s # <<>>, NEW a \in Int, NEW b \in Int, EventsAre(s, a, b)
  PROVE  /\ Head(s).type # "event" => EventsAre(Tail(s), a, b)
         /\ Head(s).type = "event" => /\ Head(s).about = a /\ a <= b
                                      /\ EventsAre(Tail(s), a + 1, b)
<1> SUFFICES ASSUME NEW t, t = Tail(s)
             PROVE  /\ s[1].type # "event" => EventsAre(t, a, b)
                    /\ s[1].type = "event" => /\ s[1].about = a /\ a <= b
                                              /\ EventsAre(t, a + 1, b)
  BY TailIs
<1>1. /\ Head(s) \in Messages /\ Head(s) = s[1]
      /\ Len(s) \in Nat \ {0} /\ Len(t) = Len(s) - 1
      /\ DOMAIN s = 1 .. Len(s) /\ DOMAIN t = 1 .. Len(s) - 1
      /\ \A i \in 1 .. Len(s) - 1 : t[i] = s[i + 1]
  BY TailIs
<1>2. \A n \in 0 .. Len(t) : EventNumbers(s, n + 1) = EventNumbers(s, 1) \cup EventNumbers(t, n)
  <2> SUFFICES ASSUME NEW n \in 0 .. Len(t)
               PROVE  EventNumbers(s, n + 1) = EventNumbers(s, 1) \cup EventNumbers(t, n)
    OBVIOUS
  <2>1. n \in Nat /\ 1 \in Nat /\ Continues(s, 1, t, n)
    BY <1>1 DEF Continues
  <2>3. EventNumbers(s, 1 + n) = EventNumbers(s, 1) \cup EventNumbers(t, n)
    BY <2>1, NumbersSplit
  <2> QED
    BY <2>1, <2>3
<1>3. CASE s[1].type # "event"
  <2>1. EventNumbers(s, 1) = {}
    BY <1>3 DEF EventNumbers
  <2>2. EventNumbers(t, Len(t)) = a .. b
    <3>1. Len(t) \in 0 .. Len(t) /\ Len(t) + 1 = Len(s)
      BY <1>1
    <3>2. EventNumbers(s, Len(s)) = EventNumbers(t, Len(t))
      BY <1>2, <2>1, <3>1
    <3> QED
      BY <3>2 DEF EventsAre
  <2>3. ASSUME NEW i \in DOMAIN t, t[i].type = "event"
        PROVE  EventNumbers(t, i - 1) = a .. t[i].about - 1
    <3>1. /\ i + 1 \in DOMAIN s /\ s[i + 1] = t[i] /\ i - 1 \in 0 .. Len(t)
          /\ (i - 1) + 1 = i /\ (i + 1) - 1 = i
      BY <1>1
    <3>2. EventNumbers(s, i) = a .. t[i].about - 1
      BY <2>3, <3>1 DEF EventsAre
    <3>3. EventNumbers(s, i) = EventNumbers(t, i - 1)
      BY <1>2, <2>1, <3>1
    <3> QED
      BY <3>2, <3>3
  <2> QED
    BY <1>1, <1>3, <2>2, <2>3 DEF EventsAre
<1>4. CASE s[1].type = "event"
  <2>1. EventNumbers(s, 1) = {s[1].about}
    BY <1>4 DEF EventNumbers
  <2>2. s[1].about = a /\ a <= b
    <3>1. s[1].about \in a .. b
      <4>1. s[1].about \in EventNumbers(s, Len(s))
        BY <1>1, <1>4 DEF EventNumbers
      <4> QED
        BY <4>1 DEF EventsAre
    <3>2. s[1].about - 1 < a
      <4>1. 1 \in DOMAIN s /\ 1 - 1 = 0
        BY <1>1
      <4>2. EventNumbers(s, 0) = a .. s[1].about - 1
        BY <1>4, <4>1 DEF EventsAre
      <4>3. a .. s[1].about - 1 = {}
        BY <4>2, NumbersOfNone
      <4>4. s[1].about \in Nat
        BY <1>1 DEF Messages
      <4>5. ASSUME a <= s[1].about - 1 PROVE FALSE
        BY <4>3, <4>4, <4>5
      <4> QED
        BY <4>4, <4>5
    <3> QED
      BY <3>1, <3>2
  <2>3. \A i \in 1 .. Len(t) : t[i].type = "event" =>
           t[i].about \in a + 1 .. b /\ EventNumbers(s, i) = a .. t[i].about - 1
    <3> SUFFICES ASSUME NEW i \in 1 .. Len(t), t[i].type = "event"
                 PROVE  t[i].about \in a + 1 .. b /\ EventNumbers(s, i) = a .. t[i].about - 1
      OBVIOUS
    <3>1. i + 1 \in DOMAIN s /\ s[i + 1] = t[i]
      BY <1>1
    <3>2. EventNumbers(s, i) = a .. t[i].about - 1
      BY <3>1, <1>1 DEF EventsAre
    <3>3. a \in EventNumbers(s, i)
      BY <1>1, <1>2, <2>1, <2>2, <1>4 DEF EventNumbers
    <3>4. t[i].about \in EventNumbers(s, Len(s))
      BY <1>1, <3>1 DEF EventNumbers
    <3> QED
      BY <3>2, <3>3, <3>4 DEF EventsAre
  <2>4. \A n \in 0 .. Len(t) : a \notin EventNumbers(t, n)
    BY <2>3, <1>1 DEF EventNumbers
  <2>5. \A n \in 0 .. Len(t) : EventNumbers(t, n) = EventNumbers(s, n + 1) \ {a}
    BY <1>2, <2>1, <2>2, <2>4
  <2>6. EventNumbers(t, Len(t)) = a + 1 .. b
    <3>1. EventNumbers(t, Len(t)) = (a .. b) \ {a}
      BY <1>1, <2>5 DEF EventsAre
    <3>2. (a .. b) \ {a} = a + 1 .. b
      BY <2>2
    <3> QED
      BY <3>1, <3>2
  <2>7. ASSUME NEW i \in DOMAIN t, t[i].type = "event"
        PROVE  EventNumbers(t, i - 1) = a + 1 .. t[i].about - 1
    <3>1. i \in 1 .. Len(t) /\ i - 1 \in 0 .. Len(t) /\ (i - 1) + 1 = i
      BY <1>1
    <3>2. EventNumbers(t, i - 1) = EventNumbers(s, i) \ {a}
      BY <2>5, <3>1
    <3>3. t[i].about \in a + 1 .. b /\ EventNumbers(s, i) = a .. t[i].about - 1
      BY <2>3, <2>7, <3>1
    <3>4. (a .. t[i].about - 1) \ {a} = a + 1 .. t[i].about - 1
      BY <3>3
    <3> QED
      BY <3>2, <3>3, <3>4
  <2> QED
    BY <1>1, <1>4, <2>2, <2>6, <2>7 DEF EventsAre
<1> QED
  BY <1>3, <1>4

-----------------------------------------------------------------------------
(* Types *)

(* The frame that was read is the first on its way to the host, of a stream *)
(* that no timeout has cut.                                                 *)
LEMMA FrameRead ==
  ASSUME HostInv, NEW m, ReadFrame(m)
  PROVE  /\ m \in Messages /\ m = Head(toHost) /\ m = toHost[1] /\ 1 \in DOMAIN toHost
         /\ toHost # <<>> /\ toHost \in Seq(Messages)
         /\ toHost' = Tail(toHost) /\ toHost' \in Seq(Messages)
         /\ \A i \in DOMAIN toHost' : i + 1 \in DOMAIN toHost /\ toHost'[i] = toHost[i + 1]
         /\ got' = "nothing" /\ timer' = 0
         /\ StreamIsWhole /\ hpc \in {"selecting", "request", "event"}
<1>1. /\ m = Head(toHost) /\ toHost # <<>> /\ toHost' = Tail(toHost)
      /\ got' = "nothing" /\ timer' = 0 /\ got = "body" /\ Receiving
  BY DEF ReadFrame
<1>2. toHost \in Seq(Messages) /\ desync \in {"no", "idle", "t8"} /\ ConnectionPhases
  BY DEF HostInv, RequestsAreAnswered, HostTypeOK
<1>3. StreamIsWhole /\ hpc \in {"selecting", "request", "event"}
  BY <1>1, <1>2 DEF ConnectionPhases, StreamIsWhole, Receiving
<1>4. /\ m \in Messages /\ m = toHost[1] /\ Tail(toHost) \in Seq(Messages)
      /\ Len(toHost) \in Nat \ {0}
      /\ DOMAIN toHost = 1 .. Len(toHost) /\ DOMAIN Tail(toHost) = 1 .. Len(toHost) - 1
      /\ \A i \in 1 .. Len(toHost) - 1 : Tail(toHost)[i] = toHost[i + 1]
  BY <1>1, <1>2, TailIs
<1> QED
  BY <1>1, <1>2, <1>3, <1>4

(* An event the host reads is one the equipment made.                       *)
LEMMA EventReadWasMade ==
  ASSUME HostInv, NEW m, ReadFrame(m), m.type = "event"
  PROVE  m.about \in 1 .. made
<1>1. PICK a \in 0 .. made, b \in 0 .. made :
        StreamIsWhole => \E c \in b .. made : EventsAre(toHost, b + 1, c)
  BY DEF HostInv, EventsMoveInOrder
<1>2. PICK c \in b .. made : EventsAre(toHost, b + 1, c)
  BY <1>1, FrameRead
<1>3. made \in Nat
  BY DEF HostInv, RequestsAreAnswered, HostTypeOK
<1>4. m.about = b + 1 /\ b + 1 <= c
  BY <1>2, <1>3, FrameRead, HeadLeaves
<1> QED
  BY <1>3, <1>4

LEMMA EmptyIsSeq == ASSUME NEW S PROVE <<>> \in Seq(S) /\ DOMAIN <<>> = {}
OBVIOUS

LEMMA MessageIs ==
  ASSUME NEW sys \in Nat, NEW about \in Nat,
         NEW type \in {"select.req", "select.rsp", "plain", "start", "reply", "event", "ack", "linktest", "separate"}
  PROVE  /\ Message(type, sys, about) \in Messages
         /\ Message(type, sys, about).type = type
         /\ Message(type, sys, about).sys = sys
         /\ Message(type, sys, about).about = about
BY DEF Message, Messages

LEMMA SingleIs ==
  ASSUME NEW S, NEW e \in S
  PROVE  /\ <<e>> \in Seq(S) /\ Len(<<e>>) = 1 /\ DOMAIN <<e>> = {1} /\ <<e>>[1] = e
         /\ <<e>> = Append(<<>>, e)
OBVIOUS

LEMMA ConstantsAreNumbers ==
  /\ T3 \in Nat \ {0} /\ T6 \in Nat \ {0} /\ T8 \in Nat \ {0} /\ EventWait \in Nat \ {0}
  /\ JobEvents \in Nat /\ FirstSys \in Nat /\ MaxRequests \in Nat /\ MaxSessions \in Nat
BY HostSessionAssumption

(* What the equipment writes for a message: a reply, then the events of a   *)
(* job, numbered on from those it made before.                              *)
JobEventsFrom(n) == [i \in 1 .. n |-> Message("event", esys + i, made + i)]

LEMMA ServedMessages ==
  ASSUME HostTypeOK, NEW type \in {"plain", "start"}, ServeData(type)
  PROVE  \E n \in Nat : LET m == Head(toEquip) IN
         /\ toEquip # <<>> /\ toEquip' = Tail(toEquip)
         /\ m \in Messages /\ m.type = type
         /\ n \in {0, JobEvents}
         /\ eout = <<>> /\ epc = "selected" /\ epc' = epc
         /\ eout' = <<Message("reply", m.sys, m.about)>> \o JobEventsFrom(n)
         /\ <<Message("reply", m.sys, m.about)>> \in Seq(Messages)
         /\ JobEventsFrom(n) \in Seq(Messages) /\ eout' \in Seq(Messages)
         /\ esys' = esys + n /\ made' = made + n
<1> DEFINE n == IF type = "start" THEN JobEvents ELSE 0
<1> DEFINE m == Head(toEquip)
<1>1. n \in Nat /\ n \in {0, JobEvents}
  BY ConstantsAreNumbers
<1>2. /\ toEquip # <<>> /\ toEquip' = Tail(toEquip) /\ m.type = type
      /\ eout = <<>> /\ epc = "selected" /\ epc' = epc
      /\ eout' = <<Message("reply", m.sys, m.about)>> \o JobEventsFrom(n)
      /\ esys' = esys + n /\ made' = made + n
  BY DEF ServeData, Serves, JobEventsFrom
<1> HIDE DEF n
<1>3. m \in Messages /\ esys \in Nat /\ made \in Nat
  BY <1>2, TailIs DEF HostTypeOK
<1> HIDE DEF m
<1>4. m.sys \in Nat /\ m.about \in Nat
  BY <1>3 DEF Messages
<1>5. <<Message("reply", m.sys, m.about)>> \in Seq(Messages)
  BY <1>4, MessageIs, SingleIs
<1>6. JobEventsFrom(n) \in Seq(Messages)
  <2>1. \A i \in 1 .. n : Message("event", esys + i, made + i) \in Messages
    <3> SUFFICES ASSUME NEW i \in 1 .. n PROVE Message("event", esys + i, made + i) \in Messages
      OBVIOUS
    <3>1. esys + i \in Nat /\ made + i \in Nat
      BY <1>1, <1>3
    <3> QED
      BY <3>1, MessageIs
  <2>2. JobEventsFrom(n) \in [1 .. n -> Messages]
    BY <2>1 DEF JobEventsFrom
  <2> QED
    BY <1>1, <2>2, SeqDef
<1>7. eout' \in Seq(Messages)
  BY <1>2, <1>5, <1>6, ConcatProperties
<1> QED
  BY <1>1, <1>2, <1>3, <1>5, <1>6, <1>7 DEF m


(* Every step is one of these. *)
LEMMA HostSteps ==
  ASSUME [HostNext]_sessionVars
  PROVE  \/ ConnectHost \/ Drop \/ NextFromInbox \/ NextFromSocket
         \/ \E type \in {"plain", "start"} : RequestReply(type)
         \/ \E type \in {"plain", "start", "separate"} : SendOnly(type)
         \/ Tick \/ ReadPrefix
         \/ SelectDone \/ RequestDone \/ RequestQueues \/ EventDone
         \/ RequestIgnores \/ EventIgnores \/ EventAckFails \/ SendFails \/ Linktest
         \/ TimedOut \/ Misread \/ Disconnected
         \/ (ServeSelect /\ UNCHANGED <<toHost, hostVars, userVars>>)
         \/ (ServeAck /\ UNCHANGED <<toHost, hostVars, userVars>>)
         \/ (ServeSeparate /\ UNCHANGED <<toHost, hostVars, userVars>>)
         \/ (\E type \in {"plain", "start"} : ServeData(type)) /\ UNCHANGED <<toHost, hostVars, userVars>>
         \/ Write \/ Break \/ UNCHANGED sessionVars
BY DEF HostNext, UserStep, ReceiveStep, Serve

LEMMA SentMessage ==
  ASSUME HostTypeOK, NEW type \in {"plain", "start", "separate"}, SendRequest(type)
  PROVE  LET m == Message(type, hsys + 1, sent + 1) IN
         /\ hsys' = hsys + 1 /\ sent' = sent + 1 /\ sent < MaxRequests
         /\ toEquip' = Append(toEquip, m) /\ toEquip' \in Seq(Messages)
         /\ m \in Messages /\ m.type = type /\ m.sys = hsys + 1 /\ m.about = sent + 1
         /\ \A i \in DOMAIN toEquip' :
              \/ i \in DOMAIN toEquip /\ toEquip'[i] = toEquip[i]
              \/ toEquip'[i] = m
<1> DEFINE m == Message(type, hsys + 1, sent + 1)
<1>1. hsys \in Nat /\ sent \in Nat /\ toEquip \in Seq(Messages)
  BY ConstantsAreNumbers DEF HostTypeOK
<1>2. m \in Messages /\ m.type = type /\ m.sys = hsys + 1 /\ m.about = sent + 1
  BY <1>1, MessageIs
<1>3. hsys' = hsys + 1 /\ sent' = sent + 1 /\ sent < MaxRequests /\ toEquip' = Append(toEquip, m)
  BY DEF SendRequest
<1> HIDE DEF m
<1>4. /\ toEquip' \in Seq(Messages) /\ Len(toEquip) \in Nat
      /\ DOMAIN toEquip = 1 .. Len(toEquip) /\ DOMAIN toEquip' = 1 .. Len(toEquip) + 1
      /\ \A i \in 1 .. Len(toEquip) : toEquip'[i] = toEquip[i]
      /\ toEquip'[Len(toEquip) + 1] = m
  BY <1>1, <1>2, <1>3, AppendIs
<1>5. \A i \in DOMAIN toEquip' :
        \/ i \in DOMAIN toEquip /\ toEquip'[i] = toEquip[i]
        \/ toEquip'[i] = m
  BY <1>4
<1> QED
  BY <1>2, <1>3, <1>4, <1>5 DEF m

LEMMA WaitedIs ==
  ASSUME HostTypeOK,
         waited' = IF hpc = "request" /\ waited <= T3 THEN waited + 1 ELSE waited
  PROVE  waited' \in 0 .. T3 + 1
BY ConstantsAreNumbers DEF HostTypeOK

LEMMA DesyncIs ==
  ASSUME HostTypeOK,
         desync' = IF desync # "no" THEN desync
                   ELSE [nothing |-> "no", prefix |-> "idle", body |-> "t8"][got]
  PROVE  desync' \in {"no", "idle", "t8"}
BY DEF HostTypeOK

LEMMA StepTypes ==
  ASSUME HostInv, [HostNext]_sessionVars
  PROVE  HostTypeOK'
<1>0. HostTypeOK
  BY DEF HostInv, RequestsAreAnswered
<1>1. CASE ConnectHost
  <2>1. /\ Message("select.req", 1, 0) \in Messages
        /\ <<Message("select.req", 1, 0)>> \in Seq(Messages) /\ <<>> \in Seq(Messages)
    <3>1. Message("select.req", 1, 0) \in Messages
      BY MessageIs
    <3> QED
      BY <3>1, SingleIs, EmptyIsSeq
  <2> QED
    BY <1>0, <1>1, <2>1, ConstantsAreNumbers DEF ConnectHost, HostTypeOK
<1>2. CASE Drop \/ Disconnected
  <2>1. /\ hpc' = "closed" /\ epc' = "closed" /\ toEquip' = <<>> /\ toHost' = <<>>
        /\ inbox' = <<>> /\ eout' = <<>> /\ got' = "nothing" /\ timer' = 0
        /\ UNCHANGED <<hsys, desync, esys, made, userVars>>
    BY <1>2 DEF Drop, Disconnected, Forget
  <2> QED
    BY <1>0, <2>1, EmptyIsSeq DEF userVars, HostTypeOK
<1>3. CASE NextFromInbox
  <2>1. Append(taken, Head(inbox)) \in Seq(Messages) /\ Tail(inbox) \in Seq(Messages)
    BY <1>0, <1>3, TailIs, AppendIs DEF NextFromInbox, HostTypeOK
  <2> QED
    BY <1>0, <1>3, <2>1 DEF NextFromInbox, HostTypeOK, equipVars
<1>4. CASE NextFromSocket
  BY <1>0, <1>4 DEF NextFromSocket, HostTypeOK, equipVars, userVars
<1>5. ASSUME NEW type \in {"plain", "start"}, RequestReply(type) PROVE HostTypeOK'
  <2>1. SendRequest(type) /\ type \in {"plain", "start", "separate"}
    BY <1>5 DEF RequestReply
  <2>2. /\ hsys' = hsys + 1 /\ sent' = sent + 1 /\ sent < MaxRequests /\ toEquip' \in Seq(Messages)
    BY <1>0, <2>1, SentMessage
  <2>3. NoMessage \in Messages
    BY MessageIs DEF NoMessage
  <2> QED
    BY <1>0, <1>5, <2>2, <2>3, ConstantsAreNumbers DEF RequestReply, HostTypeOK, equipVars
<1>6. ASSUME NEW type \in {"plain", "start", "separate"}, SendOnly(type) PROVE HostTypeOK'
  <2>1. SendRequest(type)
    BY <1>6 DEF SendOnly
  <2>2. /\ hsys' = hsys + 1 /\ sent' = sent + 1 /\ sent < MaxRequests /\ toEquip' \in Seq(Messages)
    BY <1>0, <2>1, SentMessage
  <2> QED
    BY <1>0, <1>6, <2>2, ConstantsAreNumbers DEF SendOnly, HostTypeOK, equipVars
<1>7. CASE Tick
  <2>1. waited' \in 0 .. T3 + 1
    BY <1>0, <1>7, WaitedIs DEF Tick
  <2> QED
    BY <1>0, <1>7, <2>1 DEF Tick, HostTypeOK, equipVars
<1>8. CASE ReadPrefix
  BY <1>0, <1>8 DEF ReadPrefix, HostTypeOK, equipVars, userVars
<1>9. CASE \/ SelectDone \/ RequestDone \/ RequestQueues \/ EventDone
           \/ RequestIgnores \/ EventIgnores \/ EventAckFails
  <2>1. PICK m : ReadFrame(m)
    BY <1>9 DEF SelectDone, RequestDone, RequestQueues, EventDone, EventIgnores,
               RequestIgnores, EventAckFails
  <2>2. /\ m \in Messages /\ m = Head(toHost) /\ toHost' \in Seq(Messages)
        /\ got' = "nothing" /\ timer' = 0
    BY <2>1, FrameRead
  <2>3. \A n : ReadFrame(n) => n = m
    BY <2>1 DEF ReadFrame
  <2>4. CASE SelectDone
    BY <1>0, <2>2, <2>4 DEF SelectDone, HostTypeOK, equipVars, userVars
  <2>5. CASE RequestDone
    BY <1>0, <2>2, <2>3, <2>5 DEF RequestDone, HostTypeOK, equipVars
  <2>6. CASE RequestQueues
    <3>1. inbox' = Append(inbox, m)
      BY <2>3, <2>6 DEF RequestQueues
    <3>2. inbox' \in Seq(Messages)
      BY <1>0, <2>2, <3>1, AppendIs DEF HostTypeOK
    <3> QED
      BY <1>0, <2>2, <2>6, <3>2 DEF RequestQueues, HostTypeOK, equipVars, userVars
  <2>7. CASE EventDone
    <3>1. /\ m.type = "event" /\ taken' = Append(taken, m) /\ acked' = acked \cup {m.about}
          /\ toEquip' = Append(toEquip, Message("ack", m.sys, m.about))
      BY <2>3, <2>7 DEF EventDone
    <3>2. m.about \in 1 .. made
      BY <2>1, <3>1, EventReadWasMade
    <3>3. Message("ack", m.sys, m.about) \in Messages
      <4>1. m.sys \in Nat /\ m.about \in Nat
        BY <2>2 DEF Messages
      <4> QED
        BY <4>1 DEF Message, Messages
    <3>4. taken' \in Seq(Messages) /\ toEquip' \in Seq(Messages)
      BY <1>0, <2>2, <3>1, <3>3, AppendIs DEF HostTypeOK
    <3> QED
      <4>1. /\ UNCHANGED <<equipVars, sent, awaited, answer, waited, lost, sessions>>
            /\ UNCHANGED <<hsys, inbox, desync>>
            /\ hpc' = "ready"
        BY <2>7 DEF EventDone
      <4>2. acked' \subseteq 1 .. made'
        BY <1>0, <3>1, <3>2, <4>1 DEF HostTypeOK, equipVars
      <4> QED
        BY <1>0, <2>2, <3>4, <4>1, <4>2 DEF HostTypeOK, equipVars
  <2>8. CASE RequestIgnores \/ EventIgnores
    BY <1>0, <2>2, <2>8 DEF RequestIgnores, EventIgnores, HostTypeOK, equipVars, userVars
  <2>9. CASE EventAckFails
    <3>1. m.type = "event" /\ taken' = Append(taken, m) /\ lost' = lost \cup {m.about}
      BY <2>3, <2>9 DEF EventAckFails
    <3>2. m.about \in 1 .. made
      BY <2>1, <3>1, EventReadWasMade
    <3>3. taken' \in Seq(Messages)
      BY <1>0, <2>2, <3>1, AppendIs DEF HostTypeOK
    <3>4. /\ UNCHANGED <<equipVars, toEquip, sent, awaited, answer, waited, acked, sessions>>
          /\ UNCHANGED <<hsys, inbox, desync>> /\ hpc' = "ready"
      BY <2>9 DEF EventAckFails
    <3>5. lost' \subseteq 1 .. made'
      BY <1>0, <3>1, <3>2, <3>4 DEF HostTypeOK, equipVars
    <3> QED
      BY <1>0, <2>2, <3>3, <3>4, <3>5 DEF HostTypeOK, equipVars
  <2> QED
    BY <1>9, <2>4, <2>5, <2>6, <2>7, <2>8, <2>9
<1>10. CASE TimedOut
  <2>1. CASE hpc = "selecting"
    <3>1. /\ hpc' = "closed" /\ epc' = "closed" /\ toEquip' = <<>> /\ toHost' = <<>>
          /\ inbox' = <<>> /\ eout' = <<>> /\ got' = "nothing" /\ timer' = 0
          /\ UNCHANGED <<hsys, desync, esys, made, userVars>>
      BY <1>10, <2>1 DEF TimedOut, Forget
    <3> QED
      BY <1>0, <3>1, EmptyIsSeq DEF userVars, HostTypeOK
  <2>2. CASE hpc # "selecting"
    <3>1. /\ hpc' = "ready" /\ got' = "nothing" /\ timer' = 0
          /\ UNCHANGED <<inbox, epc, eout, toEquip, toHost, hsys, esys, made, userVars>>
          /\ desync' = IF desync # "no" THEN desync
                       ELSE [nothing |-> "no", prefix |-> "idle", body |-> "t8"][got]
      BY <1>10, <2>2 DEF TimedOut
    <3>2. desync' \in {"no", "idle", "t8"}
      BY <1>0, <3>1, DesyncIs
    <3> QED
      BY <1>0, <3>1, <3>2 DEF userVars, HostTypeOK
  <2> QED
    BY <2>1, <2>2
<1>11. CASE Misread
  BY <1>0, <1>11 DEF Misread, HostTypeOK, equipVars, userVars
<1>12. CASE ServeSelect /\ UNCHANGED <<toHost, hostVars, userVars>>
  <2>1. /\ eout' = <<Message("select.rsp", Head(toEquip).sys, 0)>> /\ toEquip # <<>>
        /\ toEquip' = Tail(toEquip) /\ epc' = "selected" /\ UNCHANGED <<esys, made>>
    BY <1>12 DEF ServeSelect, Serves
  <2>2. Head(toEquip).sys \in Nat /\ toEquip' \in Seq(Messages)
    <3>1. Head(toEquip) \in Messages /\ Tail(toEquip) \in Seq(Messages)
      BY <1>0, <2>1, TailIs DEF HostTypeOK
    <3> QED
      BY <2>1, <3>1 DEF Messages
  <2>3. eout' \in Seq(Messages)
    BY <2>1, <2>2, MessageIs, SingleIs
  <2> QED
    BY <1>0, <1>12, <2>1, <2>2, <2>3 DEF HostTypeOK, hostVars, userVars
<1>13. CASE (ServeAck \/ ServeSeparate) /\ UNCHANGED <<toHost, hostVars, userVars>>
  <2>1. /\ toEquip # <<>> /\ toEquip' = Tail(toEquip) /\ epc' \in {epc, "closed"}
        /\ UNCHANGED <<eout, esys, made>>
    BY <1>13 DEF ServeAck, ServeSeparate, Serves, equipVars
  <2>2. toEquip' \in Seq(Messages)
    BY <1>0, <2>1, TailIs DEF HostTypeOK
  <2> QED
    BY <1>0, <1>13, <2>1, <2>2 DEF HostTypeOK, hostVars, userVars
<1>14. ASSUME NEW type \in {"plain", "start"}, ServeData(type), UNCHANGED <<toHost, hostVars, userVars>>
       PROVE  HostTypeOK'
  <2>1. PICK n \in Nat : /\ toEquip # <<>> /\ toEquip' = Tail(toEquip) /\ epc' = epc
                         /\ eout' \in Seq(Messages) /\ esys' = esys + n /\ made' = made + n
    BY <1>0, <1>14, ServedMessages
  <2>2. toEquip' \in Seq(Messages)
    BY <1>0, <2>1, TailIs DEF HostTypeOK
  <2> QED
    BY <1>0, <1>14, <2>1, <2>2 DEF HostTypeOK, hostVars, userVars
<1>15. CASE Write
  <2>1. Append(toHost, Head(eout)) \in Seq(Messages) /\ Tail(eout) \in Seq(Messages)
    BY <1>0, <1>15, TailIs, AppendIs DEF Write, HostTypeOK
  <2> QED
    BY <1>0, <1>15, <2>1 DEF Write, HostTypeOK, hostVars, userVars
<1>16. CASE Break
  BY <1>0, <1>16 DEF Break, HostTypeOK, hostVars, userVars
<1>17. CASE UNCHANGED sessionVars
  BY <1>0, <1>17 DEF sessionVars, HostTypeOK, hostVars, userVars, equipVars
<1>18. CASE SendFails
  <2>1. sent' \in 0 .. MaxRequests /\ awaited' \in 0 .. sent' /\ hsys' \in Nat
    BY <1>0, <1>18, ConstantsAreNumbers DEF SendFails, HostTypeOK
  <2>2. answer' \in Messages
    BY <1>18, MessageIs DEF SendFails, NoMessage
  <2> QED
    BY <1>0, <1>18, <2>1, <2>2 DEF SendFails, HostTypeOK, equipVars
<1>19. CASE Linktest
  <2>1. toHost' \in Seq(Messages)
    BY <1>19, MessageIs, SingleIs DEF Linktest
  <2> QED
    BY <1>0, <1>19, <2>1 DEF Linktest, HostTypeOK, hostVars, equipVars, userVars
<1> QED
  BY <1>1, <1>2, <1>3, <1>4, <1>5, <1>6, <1>7, <1>8, <1>9, <1>10, <1>11, <1>12, <1>13, <1>14,
     <1>15, <1>16, <1>17, <1>18, <1>19, HostSteps


-----------------------------------------------------------------------------
(* Phases of a connection *)

LEMMA StepPhases ==
  ASSUME HostInv, [HostNext]_sessionVars
  PROVE  ConnectionPhases' /\ SelectedTogether'
<1>0. HostTypeOK /\ ConnectionPhases /\ SelectedTogether
  BY DEF HostInv, RequestsAreAnswered
<1> USE DEF ConnectionPhases, SelectedTogether
<1>1. CASE ConnectHost
  BY <1>1 DEF ConnectHost
<1>2. CASE Drop \/ Disconnected
  <2>1. /\ hpc' = "closed" /\ epc' = "closed" /\ toEquip' = <<>> /\ toHost' = <<>>
        /\ inbox' = <<>> /\ eout' = <<>> /\ got' = "nothing"
    BY <1>2 DEF Drop, Disconnected, Forget
  <2> QED
    BY <2>1
<1>3. CASE NextFromInbox
  BY <1>0, <1>3 DEF NextFromInbox, equipVars
<1>4. CASE NextFromSocket
  BY <1>0, <1>4 DEF NextFromSocket, equipVars, userVars
<1>5. ASSUME NEW type \in {"plain", "start"}, RequestReply(type)
      PROVE  ConnectionPhases' /\ SelectedTogether'
  BY <1>0, <1>5 DEF RequestReply, equipVars
<1>6. ASSUME NEW type \in {"plain", "start", "separate"}, SendOnly(type)
      PROVE  ConnectionPhases' /\ SelectedTogether'
  BY <1>0, <1>6 DEF SendOnly, equipVars
<1>7. CASE Tick
  BY <1>0, <1>7 DEF Tick, equipVars, Receiving
<1>8. CASE ReadPrefix
  BY <1>0, <1>8 DEF ReadPrefix, equipVars, userVars, Receiving
<1>9. CASE \/ SelectDone \/ RequestDone \/ RequestQueues \/ EventDone
           \/ RequestIgnores \/ EventIgnores \/ EventAckFails
  <2>1. PICK m : ReadFrame(m)
    BY <1>9 DEF SelectDone, RequestDone, RequestQueues, EventDone, EventIgnores,
               RequestIgnores, EventAckFails
  <2>2. toHost # <<>> /\ got' = "nothing" /\ hpc # "closed" /\ epc # "connected"
    BY <1>0, <2>1, FrameRead
  <2>3. /\ UNCHANGED <<epc, desync>>
        /\ hpc' = "ready" \/ (hpc' = hpc /\ hpc = "request") \/ (hpc' = hpc /\ inbox' = inbox)
    BY <1>9 DEF SelectDone, RequestDone, RequestQueues, EventDone, EventIgnores,
               RequestIgnores, EventAckFails, equipVars
  <2>4. epc # "closed" => lost' = lost
    BY <1>9 DEF SelectDone, RequestDone, RequestQueues, EventDone, EventIgnores,
               RequestIgnores, EventAckFails, userVars
  <2> QED
    BY <1>0, <2>2, <2>3, <2>4
<1>10. CASE TimedOut
  <2>1. CASE hpc = "selecting"
    BY <1>10, <2>1 DEF TimedOut, Forget
  <2>2. CASE hpc # "selecting"
    BY <1>0, <1>10, <2>2 DEF TimedOut, Receiving, userVars
  <2> QED
    BY <2>1, <2>2
<1>11. CASE Misread
  BY <1>0, <1>11 DEF Misread, equipVars, userVars, Receiving
<1>12. CASE ServeSelect /\ UNCHANGED <<toHost, hostVars, userVars>>
  BY <1>0, <1>12 DEF ServeSelect, Serves, hostVars, userVars
<1>13. CASE (ServeAck \/ ServeSeparate) /\ UNCHANGED <<toHost, hostVars, userVars>>
  BY <1>0, <1>13 DEF ServeAck, ServeSeparate, Serves, hostVars, userVars, equipVars
<1>14. ASSUME NEW type \in {"plain", "start"}, ServeData(type), UNCHANGED <<toHost, hostVars, userVars>>
       PROVE  ConnectionPhases' /\ SelectedTogether'
  BY <1>0, <1>14 DEF ServeData, Serves, hostVars, userVars
<1>15. CASE Write
  BY <1>0, <1>15 DEF Write, hostVars, userVars
<1>16. CASE Break
  BY <1>0, <1>16 DEF Break, hostVars, userVars
<1>17. CASE UNCHANGED sessionVars
  BY <1>0, <1>17 DEF sessionVars, hostVars, userVars, equipVars
<1>18. CASE SendFails
  BY <1>0, <1>18 DEF SendFails, equipVars
<1>19. CASE Linktest
  BY <1>0, <1>19 DEF Linktest, hostVars, equipVars, userVars
<1> QED
  BY <1>1, <1>2, <1>3, <1>4, <1>5, <1>6, <1>7, <1>8, <1>9, <1>10, <1>11, <1>12, <1>13, <1>14,
     <1>15, <1>16, <1>17, <1>18, <1>19, HostSteps

-----------------------------------------------------------------------------
(* Requests and their answers *)

SameDistanceNext(m) == m.sys + sent' = m.about + hsys'

LEMMA DistanceKept ==
  ASSUME HostTypeOK, NEW m \in Messages, SameDistance(m),
         \/ UNCHANGED <<sent, hsys>>
         \/ sent' = sent + 1 /\ hsys' = hsys + 1
  PROVE  SameDistanceNext(m)
<1>1. m.sys \in Nat /\ m.about \in Nat /\ sent \in Nat /\ hsys \in Nat
  BY ConstantsAreNumbers DEF Messages, HostTypeOK
<1> QED
  BY <1>1 DEF SameDistance, SameDistanceNext

LEMMA ElementsAre ==
  ASSUME HostTypeOK
  PROVE  /\ \A i \in DOMAIN toEquip : toEquip[i] \in Messages
         /\ \A i \in DOMAIN toHost : toHost[i] \in Messages
         /\ \A i \in DOMAIN eout : eout[i] \in Messages
BY ElementOfSeq, LenProperties DEF HostTypeOK

(* What is on the way keeps its distance.                                   *)
LEMMA TransactionsKept ==
  ASSUME HostTypeOK, TransactionsAreMessages,
         \/ UNCHANGED <<sent, hsys>>
         \/ sent' = sent + 1 /\ hsys' = hsys + 1
  PROVE  /\ \A i \in DOMAIN toEquip : toEquip[i].type \in {"plain", "start"}
                                       => SameDistanceNext(toEquip[i])
         /\ \A i \in DOMAIN toHost : toHost[i].type = "reply" => SameDistanceNext(toHost[i])
         /\ \A i \in DOMAIN eout : eout[i].type = "reply" => SameDistanceNext(eout[i])
BY ElementsAre, DistanceKept DEF TransactionsAreMessages

LEMMA TransactionsNext ==
  ASSUME \A i \in DOMAIN toEquip' : toEquip'[i].type \in {"plain", "start"}
                                    => SameDistanceNext(toEquip'[i]),
         \A i \in DOMAIN toHost' : toHost'[i].type = "reply" => SameDistanceNext(toHost'[i]),
         \A i \in DOMAIN eout' : eout'[i].type = "reply" => SameDistanceNext(eout'[i]),
         hpc' = "request" => awaited' = sent'
  PROVE  TransactionsAreMessages'
BY DEF TransactionsAreMessages, SameDistance, SameDistanceNext

(* A step that reads a frame takes it away and leaves the transactions.     *)
LEMMA StepTransactions ==
  ASSUME HostInv, [HostNext]_sessionVars
  PROVE  TransactionsAreMessages' /\ AnswersAreForTheRequest'
<1>0. HostTypeOK /\ TransactionsAreMessages /\ AnswersAreForTheRequest
  BY DEF HostInv, RequestsAreAnswered
<1>1. CASE ConnectHost
  <2>1. Message("select.req", 1, 0).type = "select.req"
    BY MessageIs
  <2>2. <<Message("select.req", 1, 0)>>[1] = Message("select.req", 1, 0) /\ DOMAIN <<>> = {}
        /\ DOMAIN <<Message("select.req", 1, 0)>> = {1}
    OBVIOUS
  <2>3. TransactionsAreMessages'
    BY <1>1, <2>1, <2>2 DEF ConnectHost, TransactionsAreMessages
  <2> QED
    BY <1>0, <1>1, <2>3 DEF ConnectHost, AnswersAreForTheRequest
<1>2. CASE Drop \/ Disconnected
  <2>1. /\ hpc' = "closed" /\ toEquip' = <<>> /\ toHost' = <<>> /\ eout' = <<>>
        /\ UNCHANGED <<awaited, answer>>
    BY <1>2 DEF Drop, Disconnected, Forget, userVars
  <2> QED
    BY <1>0, <2>1 DEF TransactionsAreMessages, AnswersAreForTheRequest
<1>3. CASE NextFromInbox \/ NextFromSocket \/ Tick \/ ReadPrefix \/ Misread
  <2>1. /\ UNCHANGED <<toEquip, toHost, eout, sent, hsys, awaited, answer>>
        /\ hpc' = hpc \/ hpc' # "request"
    BY <1>3 DEF NextFromInbox, NextFromSocket, Tick, ReadPrefix, Misread, equipVars, userVars
  <2> QED
    BY <1>0, <2>1 DEF TransactionsAreMessages, AnswersAreForTheRequest, SameDistance
<1>4. ASSUME NEW type \in {"plain", "start"}, RequestReply(type)
      PROVE  TransactionsAreMessages' /\ AnswersAreForTheRequest'
  <2>1. SendRequest(type) /\ type \in {"plain", "start", "separate"}
    BY <1>4 DEF RequestReply
  <2>2. PICK m : /\ hsys' = hsys + 1 /\ sent' = sent + 1
                 /\ m.sys = hsys + 1 /\ m.about = sent + 1
                 /\ \A i \in DOMAIN toEquip' :
                      \/ i \in DOMAIN toEquip /\ toEquip'[i] = toEquip[i]
                      \/ toEquip'[i] = m
    BY <1>0, <2>1, SentMessage
  <2>3. /\ UNCHANGED <<toHost, eout>> /\ awaited' = sent' /\ answer' = NoMessage
    BY <1>4, <2>2 DEF RequestReply, equipVars
  <2>4. SameDistanceNext(m)
    BY <1>0, <2>2, ConstantsAreNumbers DEF SameDistanceNext, HostTypeOK
  <2>5. TransactionsAreMessages'
    BY <1>0, <2>2, <2>3, <2>4, TransactionsKept, TransactionsNext
  <2> QED
    BY <2>3, <2>5 DEF AnswersAreForTheRequest
<1>5. ASSUME NEW type \in {"plain", "start", "separate"}, SendOnly(type)
      PROVE  TransactionsAreMessages' /\ AnswersAreForTheRequest'
  <2>1. SendRequest(type)
    BY <1>5 DEF SendOnly
  <2>2. PICK m : /\ hsys' = hsys + 1 /\ sent' = sent + 1
                 /\ m.sys = hsys + 1 /\ m.about = sent + 1
                 /\ \A i \in DOMAIN toEquip' :
                      \/ i \in DOMAIN toEquip /\ toEquip'[i] = toEquip[i]
                      \/ toEquip'[i] = m
    BY <1>0, <2>1, SentMessage
  <2>3. /\ UNCHANGED <<toHost, eout, awaited, answer>> /\ hpc' = "ready"
    BY <1>5 DEF SendOnly, equipVars
  <2>4. SameDistanceNext(m)
    BY <1>0, <2>2, ConstantsAreNumbers DEF SameDistanceNext, HostTypeOK
  <2>5. TransactionsAreMessages'
    BY <1>0, <2>2, <2>3, <2>4, TransactionsKept, TransactionsNext
  <2> QED
    BY <1>0, <2>3, <2>5 DEF AnswersAreForTheRequest
<1>6. CASE \/ SelectDone \/ RequestDone \/ RequestQueues \/ EventDone
           \/ RequestIgnores \/ EventIgnores \/ EventAckFails
  <2>1. PICK m : ReadFrame(m)
    BY <1>6 DEF SelectDone, RequestDone, RequestQueues, EventDone, EventIgnores,
               RequestIgnores, EventAckFails
  <2>2. /\ m \in Messages /\ m = toHost[1] /\ 1 \in DOMAIN toHost
        /\ \A i \in DOMAIN toHost' : i + 1 \in DOMAIN toHost /\ toHost'[i] = toHost[i + 1]
    BY <2>1, FrameRead
  <2>3. \A n : ReadFrame(n) => n = m
    BY <2>1 DEF ReadFrame
  <2>4. UNCHANGED <<eout, sent, hsys, awaited>> /\ (hpc' = "request" => hpc = "request")
    BY <1>6 DEF SelectDone, RequestDone, RequestQueues, EventDone, EventIgnores,
               RequestIgnores, EventAckFails, equipVars, userVars
  <2>5. \A i \in DOMAIN toHost' : toHost'[i].type = "reply" => SameDistanceNext(toHost'[i])
    BY <1>0, <2>2, <2>4, TransactionsKept
  <2>6. \A i \in DOMAIN toEquip' : toEquip'[i].type \in {"plain", "start"}
                                   => SameDistanceNext(toEquip'[i])
    <3>1. CASE EventDone
      <4>1. toEquip' = Append(toEquip, Message("ack", m.sys, m.about))
        BY <2>3, <3>1 DEF EventDone
      <4>2. m.sys \in Nat /\ m.about \in Nat
        BY <2>2 DEF Messages
      <4>3. Message("ack", m.sys, m.about) \in Messages /\ Message("ack", m.sys, m.about).type = "ack"
        BY <4>2, MessageIs
      <4>4. toEquip \in Seq(Messages)
        BY <1>0 DEF HostTypeOK
      <4>5. \A i \in DOMAIN toEquip' :
              \/ i \in DOMAIN toEquip /\ toEquip'[i] = toEquip[i]
              \/ toEquip'[i] = Message("ack", m.sys, m.about)
        BY <4>1, <4>3, <4>4, AppendIs
      <4> QED
        BY <1>0, <2>4, <4>3, <4>5, TransactionsKept
    <3>2. CASE ~EventDone
      <4>1. toEquip' = toEquip
        BY <1>6, <3>2 DEF SelectDone, RequestDone, RequestQueues, EventIgnores,
                          RequestIgnores, EventAckFails
      <4> QED
        BY <1>0, <2>4, <4>1, TransactionsKept
    <3> QED
      BY <3>1, <3>2
  <2>7. AnswersAreForTheRequest'
    <3>1. CASE RequestDone
      <4>1. answer' = m /\ m.type = "reply" /\ m.sys = hsys /\ hpc = "request"
        BY <2>3, <3>1 DEF RequestDone, IsReplyTo
      <4>2. m.about \in Nat /\ sent \in Nat /\ hsys \in Nat
        BY <1>0, <2>2, ConstantsAreNumbers DEF HostTypeOK, Messages
      <4>3. m.about = sent
        BY <1>0, <2>2, <4>1, <4>2 DEF TransactionsAreMessages, SameDistance
      <4> QED
        BY <1>0, <2>4, <4>1, <4>3 DEF AnswersAreForTheRequest, TransactionsAreMessages
    <3>2. CASE ~RequestDone
      <4>1. answer' = answer
        BY <1>6, <3>2 DEF SelectDone, EventDone, RequestQueues, EventIgnores,
                          RequestIgnores, EventAckFails, userVars
      <4> QED
        BY <1>0, <2>4, <4>1 DEF AnswersAreForTheRequest
    <3> QED
      BY <3>1, <3>2
  <2>8. \A i \in DOMAIN eout' : eout'[i].type = "reply" => SameDistanceNext(eout'[i])
    BY <1>0, <2>4, TransactionsKept
  <2>9. hpc' = "request" => awaited' = sent'
    BY <1>0, <2>4 DEF TransactionsAreMessages
  <2> QED
    BY <2>5, <2>6, <2>7, <2>8, <2>9, TransactionsNext
<1>7. CASE TimedOut
  <2>1. CASE hpc = "selecting"
    <3>1. /\ hpc' = "closed" /\ toEquip' = <<>> /\ toHost' = <<>> /\ eout' = <<>>
          /\ UNCHANGED <<awaited, answer>>
      BY <1>7, <2>1 DEF TimedOut, Forget, userVars
    <3> QED
      BY <1>0, <3>1 DEF TransactionsAreMessages, AnswersAreForTheRequest
  <2>2. CASE hpc # "selecting"
    <3>1. /\ hpc' = "ready" /\ UNCHANGED <<toEquip, toHost, eout, sent, hsys, awaited, answer>>
      BY <1>7, <2>2 DEF TimedOut, userVars
    <3> QED
      BY <1>0, <3>1 DEF TransactionsAreMessages, AnswersAreForTheRequest, SameDistance
  <2> QED
    BY <2>1, <2>2
<1>8. CASE (ServeSelect \/ ServeAck \/ ServeSeparate) /\ UNCHANGED <<toHost, hostVars, userVars>>
  <2>1. /\ toEquip # <<>> /\ toEquip' = Tail(toEquip)
        /\ UNCHANGED <<toHost, hpc, sent, hsys, awaited, answer>>
    BY <1>8 DEF ServeSelect, ServeAck, ServeSeparate, Serves, hostVars, userVars
  <2>2. /\ toEquip \in Seq(Messages) /\ Head(toEquip) \in Messages
        /\ \A i \in DOMAIN toEquip' : i + 1 \in DOMAIN toEquip /\ toEquip'[i] = toEquip[i + 1]
    BY <1>0, <2>1, TailIs DEF HostTypeOK
  <2>3. \A i \in DOMAIN eout' : eout'[i].type = "reply" => i \in DOMAIN eout /\ eout'[i] = eout[i]
    <3>1. CASE ServeSelect
      <4>1. Head(toEquip).sys \in Nat
        BY <2>2 DEF Messages
      <4>2. eout' = <<Message("select.rsp", Head(toEquip).sys, 0)>>
        BY <3>1 DEF ServeSelect
      <4>3. Message("select.rsp", Head(toEquip).sys, 0).type = "select.rsp"
        BY <4>1, MessageIs
      <4> QED
        BY <4>2, <4>3
    <3>2. CASE ServeAck \/ ServeSeparate
      BY <3>2 DEF ServeAck, ServeSeparate, equipVars
    <3> QED
      BY <1>8, <3>1, <3>2
  <2>4. TransactionsAreMessages'
    BY <1>0, <2>1, <2>2, <2>3, TransactionsKept, TransactionsNext DEF TransactionsAreMessages
  <2> QED
    BY <1>0, <2>1, <2>4 DEF AnswersAreForTheRequest
<1>9. ASSUME NEW type \in {"plain", "start"}, ServeData(type), UNCHANGED <<toHost, hostVars, userVars>>
      PROVE  TransactionsAreMessages' /\ AnswersAreForTheRequest'
  <2> DEFINE m == Head(toEquip)
             r == Message("reply", m.sys, m.about)
  <2>1. PICK n \in Nat : /\ toEquip # <<>> /\ toEquip' = Tail(toEquip)
                         /\ m \in Messages /\ m.type = type
                         /\ eout' = <<r>> \o JobEventsFrom(n)
                         /\ <<r>> \in Seq(Messages) /\ JobEventsFrom(n) \in Seq(Messages)
    BY <1>0, <1>9, ServedMessages
  <2>2. /\ m = toEquip[1] /\ 1 \in DOMAIN toEquip
        /\ \A i \in DOMAIN toEquip' : i + 1 \in DOMAIN toEquip /\ toEquip'[i] = toEquip[i + 1]
    BY <1>0, <2>1, TailIs DEF HostTypeOK
  <2>3. r.sys = m.sys /\ r.about = m.about
    <3>1. m.sys \in Nat /\ m.about \in Nat
      BY <2>1 DEF Messages
    <3> QED
      BY <3>1, MessageIs
  <2>4. m.sys + sent = m.about + hsys
    <3>1. toEquip[1].type \in {"plain", "start"}
      BY <2>1, <2>2
    <3>2. SameDistance(toEquip[1])
      BY <1>0, <2>2, <3>1, Zenon DEF TransactionsAreMessages
    <3> QED
      BY <2>2, <3>2 DEF SameDistance
  <2> HIDE DEF m, r
  <2>5. \A i \in DOMAIN eout' : eout'[i] = r \/ eout'[i].type = "event"
    <3>1. /\ Len(<<r>>) = 1 /\ <<r>>[1] = r
          /\ Len(JobEventsFrom(n)) = n
          /\ \A i \in 1 .. n : JobEventsFrom(n)[i].type = "event"
      BY <2>1 DEF JobEventsFrom, Message
    <3>2. /\ Len(eout') = 1 + n
          /\ \A i \in 1 .. 1 + n : eout'[i] = IF i <= 1 THEN <<r>>[i] ELSE JobEventsFrom(n)[i - 1]
      BY <2>1, <3>1, ConcatProperties
    <3>3. DOMAIN eout' = 1 .. 1 + n
      BY <2>1, <3>2, ConcatProperties, LenProperties
    <3> SUFFICES ASSUME NEW i \in 1 .. 1 + n PROVE eout'[i] = r \/ eout'[i].type = "event"
      BY <3>3
    <3>4. CASE i = 1
      BY <3>1, <3>2, <3>4
    <3>5. CASE i > 1
      <4>1. i - 1 \in 1 .. n /\ eout'[i] = JobEventsFrom(n)[i - 1]
        BY <3>2, <3>5
      <4> QED
        BY <3>1, <4>1
    <3> QED
      BY <3>4, <3>5
  <2>6. UNCHANGED <<toHost, hpc, sent, hsys, awaited, answer>>
    BY <1>9 DEF hostVars, userVars
  <2>7. \A i \in DOMAIN eout' : eout'[i].type = "reply" => SameDistanceNext(eout'[i])
    BY <2>3, <2>4, <2>5, <2>6 DEF SameDistanceNext
  <2>8. TransactionsAreMessages'
    BY <1>0, <2>1, <2>2, <2>6, <2>7, TransactionsKept, TransactionsNext DEF TransactionsAreMessages
  <2> QED
    BY <1>0, <2>6, <2>8 DEF AnswersAreForTheRequest
<1>10. CASE Write
  <2>1. /\ eout # <<>> /\ toHost' = Append(toHost, Head(eout)) /\ eout' = Tail(eout)
        /\ UNCHANGED <<toEquip, hpc, sent, hsys, awaited, answer>>
    BY <1>10 DEF Write, hostVars, userVars
  <2>2. /\ Head(eout) = eout[1] /\ 1 \in DOMAIN eout /\ Head(eout) \in Messages
        /\ \A i \in DOMAIN eout' : i + 1 \in DOMAIN eout /\ eout'[i] = eout[i + 1]
    BY <1>0, <2>1, TailIs DEF HostTypeOK
  <2>3. \A i \in DOMAIN toHost' :
          \/ i \in DOMAIN toHost /\ toHost'[i] = toHost[i]
          \/ toHost'[i] = Head(eout)
    <3> DEFINE e   == Head(eout)
               all == Append(toHost, e)
    <3>1. toHost \in Seq(Messages)
      BY <1>0 DEF HostTypeOK
    <3>2. e \in Messages /\ toHost' = all
      BY <2>1, <2>2
    <3>3. \A i \in DOMAIN all : (i \in DOMAIN toHost /\ all[i] = toHost[i]) \/ all[i] = e
      <4> HIDE DEF e
      <4>1. QED
        BY <3>1, <3>2, AppendIs
    <3>4. QED
      BY <3>2, <3>3
  <2>4. TransactionsAreMessages'
    BY <1>0, <2>1, <2>2, <2>3, TransactionsKept, TransactionsNext DEF TransactionsAreMessages
  <2> QED
    BY <1>0, <2>1, <2>4 DEF AnswersAreForTheRequest
<1>11. CASE Break \/ UNCHANGED sessionVars
  BY <1>0, <1>11 DEF Break, sessionVars, hostVars, userVars, equipVars,
                     TransactionsAreMessages, AnswersAreForTheRequest, SameDistance
<1>12. CASE SendFails
  <2>1. /\ hsys' = hsys + 1 /\ sent' = sent + 1 /\ hpc' # "request" /\ answer' = NoMessage
        /\ UNCHANGED <<toEquip, toHost, eout>>
    BY <1>12 DEF SendFails, equipVars
  <2>2. TransactionsAreMessages'
    BY <1>0, <2>1, TransactionsKept, TransactionsNext
  <2> QED
    BY <2>1, <2>2 DEF AnswersAreForTheRequest
<1>13. CASE Linktest
  <2>1. Message("linktest", 0, 0).type = "linktest"
    BY MessageIs
  <2>2. /\ toHost' = <<Message("linktest", 0, 0)>>
        /\ UNCHANGED <<toEquip, eout, hpc, sent, hsys, awaited, answer>>
    BY <1>13 DEF Linktest, hostVars, equipVars, userVars
  <2>3. \A i \in DOMAIN toHost' : toHost'[i].type = "reply" => SameDistanceNext(toHost'[i])
    BY <2>1, <2>2
  <2>4. TransactionsAreMessages'
    BY <1>0, <2>2, <2>3, TransactionsKept, TransactionsNext DEF TransactionsAreMessages
  <2> QED
    BY <1>0, <2>2, <2>4 DEF AnswersAreForTheRequest
<1> QED
  BY <1>1, <1>2, <1>3, <1>4, <1>5, <1>6, <1>7, <1>8, <1>9, <1>10, <1>11, <1>12, <1>13, HostSteps


-----------------------------------------------------------------------------
(* Events on their way *)

(* The state of EventsMoveInOrder, with its stages named. *)
Stages(h, i, a, b) == a <= b /\ EventsAre(h, 1, a) /\ EventsAre(i, a + 1, b)
Coming(t, e, b, c, n) == EventsAre(t, b + 1, c) /\ EventsAre(e, c + 1, n)

LEMMA StagesNow ==
  ASSUME HostInv
  PROVE  /\ made \in Nat
         /\ \E a \in 0 .. made : \E b \in 0 .. made :
              /\ Stages(taken, inbox, a, b)
              /\ StreamIsWhole => \E c \in b .. made : Coming(toHost, eout, b, c, made)
BY DEF HostInv, RequestsAreAnswered, HostTypeOK, EventsMoveInOrder, Stages, Coming

LEMMA StagesNext ==
  ASSUME NEW a \in 0 .. made', NEW b \in 0 .. made', Stages(taken', inbox', a, b),
         StreamIsWhole' => \E c \in b .. made' : Coming(toHost', eout', b, c, made')
  PROVE  EventsMoveInOrder'
BY DEF EventsMoveInOrder, Stages, Coming

(* The steps that leave the events where they are. *)
LEMMA EventsStay ==
  ASSUME HostInv, UNCHANGED <<taken, inbox, toHost, eout, made>>, StreamIsWhole' => StreamIsWhole
  PROVE  EventsMoveInOrder'
<1>1. PICK a \in 0 .. made : \E b \in 0 .. made :
         /\ Stages(taken, inbox, a, b)
         /\ StreamIsWhole => \E c \in b .. made : Coming(toHost, eout, b, c, made)
  BY StagesNow
<1>2. PICK b \in 0 .. made :
         /\ Stages(taken, inbox, a, b)
         /\ StreamIsWhole => \E c \in b .. made : Coming(toHost, eout, b, c, made)
  BY <1>1
<1> QED
  BY <1>2, StagesNext

(* A connection that is dropped takes with it what was not handed out yet.  *)
LEMMA EventsDropped ==
  ASSUME HostInv, UNCHANGED <<taken, made>>, inbox' = <<>>, hpc' = "closed"
  PROVE  EventsMoveInOrder'
<1>1. PICK a \in 0 .. made : EventsAre(taken, 1, a)
  BY StagesNow DEF Stages
<1>2. a \in Int
  BY StagesNow
<1>3. Stages(taken', inbox', a, a)
  BY <1>1, <1>2, NoEvents DEF Stages
<1> QED
  BY <1>1, <1>3, StagesNext DEF StreamIsWhole

(* The first message on its way to the host is read: if it is an event, it  *)
(* is queued or handed out; if it is not, it may be dropped.                *)
LEMMA EventsRead ==
  ASSUME HostInv, NEW m, ReadFrame(m), UNCHANGED <<eout, made>>, HostTypeOK',
         \/ m.type # "event" /\ UNCHANGED <<taken, inbox>>
         \/ inbox' = Append(inbox, m) /\ UNCHANGED taken
         \/ inbox = <<>> /\ inbox' = <<>> /\ taken' = Append(taken, m)
  PROVE  EventsMoveInOrder'
<1>0. /\ m \in Messages /\ toHost # <<>> /\ toHost \in Seq(Messages) /\ m = Head(toHost)
      /\ toHost' = Tail(toHost) /\ StreamIsWhole /\ made \in Nat
      /\ taken \in Seq(Messages) /\ inbox \in Seq(Messages)
  BY FrameRead, StagesNow DEF HostInv, RequestsAreAnswered, HostTypeOK
<1>1. PICK a \in 0 .. made : \E b \in 0 .. made :
         Stages(taken, inbox, a, b) /\ \E c \in b .. made : Coming(toHost, eout, b, c, made)
  BY <1>0, StagesNow
<1>2. PICK b \in 0 .. made :
         Stages(taken, inbox, a, b) /\ \E c \in b .. made : Coming(toHost, eout, b, c, made)
  BY <1>1
<1>3. PICK c \in b .. made : Coming(toHost, eout, b, c, made)
  BY <1>2
<1>4. a \in Int /\ b \in Int /\ c \in Int /\ a <= b /\ b <= c
  BY <1>0, <1>2 DEF Stages
<1>5. CASE m.type # "event"
  <2>1. Coming(toHost', eout', b, c, made')
    BY <1>0, <1>3, <1>4, <1>5, HeadLeaves DEF Coming
  <2>2. CASE UNCHANGED <<taken, inbox>>
    BY <1>2, <2>1, <2>2, StagesNext
  <2>3. CASE inbox' = Append(inbox, m) /\ UNCHANGED taken
    <3>1. Stages(taken', inbox', a, b)
      BY <1>0, <1>2, <1>4, <1>5, <2>3, OtherFollows DEF Stages
    <3> QED
      BY <2>1, <3>1, StagesNext
  <2>4. CASE inbox = <<>> /\ inbox' = <<>> /\ taken' = Append(taken, m)
    <3>1. Stages(taken', inbox', a, b)
      BY <1>0, <1>2, <1>4, <1>5, <2>4, OtherFollows DEF Stages
    <3> QED
      BY <2>1, <3>1, StagesNext
  <2> QED
    BY <2>2, <2>3, <2>4
<1>6. CASE m.type = "event"
  <2>1. m.about = b + 1 /\ b + 1 <= c /\ EventsAre(toHost', (b + 1) + 1, c)
    BY <1>0, <1>3, <1>4, <1>6, HeadLeaves DEF Coming
  <2>2. b + 1 \in 0 .. made' /\ c \in b + 1 .. made' /\ Coming(toHost', eout', b + 1, c, made')
    BY <1>0, <1>3, <1>4, <2>1 DEF Coming
  <2>3. CASE inbox' = Append(inbox, m) /\ UNCHANGED taken
    <3>1. Stages(taken', inbox', a, b + 1)
      <4>1. EventsAre(Append(inbox, m), a + 1, b + 1)
        <5>1. EventsAre(inbox, a + 1, b) /\ a + 1 \in Int /\ a + 1 <= b + 1
          BY <1>2, <1>4 DEF Stages
        <5> QED
          BY <1>0, <1>4, <1>6, <2>1, <5>1, EventFollows
      <4> QED
        BY <1>2, <1>4, <2>3, <4>1 DEF Stages
    <3> QED
      BY <2>2, <3>1, StagesNext
  <2>4. CASE inbox = <<>> /\ inbox' = <<>> /\ taken' = Append(taken, m)
    <3>1. b = a
      <4>1. EventNumbers(inbox, Len(inbox)) = a + 1 .. b /\ Len(inbox) = 0
        BY <1>2, <2>4 DEF Stages, EventsAre
      <4>2. a + 1 .. b = {}
        BY <4>1, NumbersOfNone
      <4> QED
        BY <1>4, <4>2
    <3>2. EventsAre(Append(taken, m), 1, b + 1)
      <4>1. EventsAre(taken, 1, b) /\ 1 \in Int /\ 1 <= b + 1
        BY <1>0, <1>2, <3>1 DEF Stages
      <4> QED
        BY <1>0, <1>4, <1>6, <2>1, <4>1, EventFollows
    <3>3. EventsAre(inbox', (b + 1) + 1, b + 1)
      <4>1. b + 1 \in Int
        BY <1>4
      <4> QED
        BY <2>4, <4>1, NoEvents
    <3>4. Stages(taken', inbox', b + 1, b + 1)
      BY <1>4, <2>4, <3>2, <3>3 DEF Stages
    <3> QED
      BY <2>2, <3>4, StagesNext
  <2> QED
    BY <1>6, <2>3, <2>4
<1> QED
  BY <1>5, <1>6

LEMMA EventsFromInbox ==
  ASSUME HostInv, NextFromInbox
  PROVE  EventsMoveInOrder'
<1>0. /\ inbox # <<>> /\ taken' = Append(taken, Head(inbox)) /\ inbox' = Tail(inbox)
      /\ UNCHANGED <<toHost, eout, made>> /\ (StreamIsWhole' => StreamIsWhole)
      /\ Head(inbox) \in Messages /\ inbox \in Seq(Messages) /\ taken \in Seq(Messages)
      /\ made \in Nat
  BY TailIs DEF NextFromInbox, equipVars, StreamIsWhole, HostInv, RequestsAreAnswered, HostTypeOK
<1>1. PICK a \in 0 .. made : \E b \in 0 .. made :
         /\ Stages(taken, inbox, a, b)
         /\ StreamIsWhole => \E c \in b .. made : Coming(toHost, eout, b, c, made)
  BY StagesNow
<1>2. PICK b \in 0 .. made :
         /\ Stages(taken, inbox, a, b)
         /\ StreamIsWhole => \E c \in b .. made : Coming(toHost, eout, b, c, made)
  BY <1>1
<1>3. a \in Int /\ b \in Int /\ a <= b
  BY <1>0, <1>2 DEF Stages
<1>4. CASE Head(inbox).type # "event"
  <2>1. Stages(taken', inbox', a, b)
    BY <1>0, <1>2, <1>3, <1>4, HeadLeaves, OtherFollows DEF Stages
  <2> QED
    BY <1>0, <1>2, <2>1, StagesNext
<1>5. CASE Head(inbox).type = "event"
  <2>1. /\ Head(inbox).about = a + 1 /\ a + 1 <= b
        /\ EventsAre(Tail(inbox), (a + 1) + 1, b)
    BY <1>0, <1>2, <1>3, <1>5, HeadLeaves DEF Stages
  <2>2. EventsAre(Append(taken, Head(inbox)), 1, a + 1)
    BY <1>0, <1>2, <1>3, <1>5, <2>1, EventFollows DEF Stages
  <2>3. Stages(taken', inbox', a + 1, b) /\ a + 1 \in 0 .. made'
    BY <1>0, <1>3, <2>1, <2>2 DEF Stages
  <2> QED
    BY <1>0, <1>2, <2>3, StagesNext
<1> QED
  BY <1>4, <1>5

LEMMA EventsWritten ==
  ASSUME HostInv, Write
  PROVE  EventsMoveInOrder'
<1>0. /\ eout # <<>> /\ toHost' = Append(toHost, Head(eout)) /\ eout' = Tail(eout)
      /\ UNCHANGED <<taken, inbox, made>> /\ (StreamIsWhole' => StreamIsWhole)
      /\ Head(eout) \in Messages /\ eout \in Seq(Messages) /\ toHost \in Seq(Messages)
      /\ made \in Nat
  BY TailIs DEF Write, hostVars, userVars, StreamIsWhole, HostInv, RequestsAreAnswered, HostTypeOK
<1>1. PICK a \in 0 .. made : \E b \in 0 .. made :
         /\ Stages(taken, inbox, a, b)
         /\ StreamIsWhole => \E c \in b .. made : Coming(toHost, eout, b, c, made)
  BY StagesNow
<1>2. PICK b \in 0 .. made :
         /\ Stages(taken, inbox, a, b)
         /\ StreamIsWhole => \E c \in b .. made : Coming(toHost, eout, b, c, made)
  BY <1>1
<1>3. ASSUME NEW c \in b .. made, Coming(toHost, eout, b, c, made)
      PROVE  \E d \in b .. made' : Coming(toHost', eout', b, d, made')
  <2>0. b \in Int /\ c \in Int /\ b <= c /\ c <= made
    BY <1>0
  <2>1. CASE Head(eout).type # "event"
    <3>1. Coming(toHost', eout', b, c, made')
      BY <1>0, <1>3, <2>0, <2>1, HeadLeaves, OtherFollows DEF Coming
    <3> QED
      BY <1>0, <3>1
  <2>2. CASE Head(eout).type = "event"
    <3>1. /\ Head(eout).about = c + 1 /\ c + 1 <= made
          /\ EventsAre(Tail(eout), (c + 1) + 1, made)
      BY <1>0, <1>3, <2>0, <2>2, HeadLeaves DEF Coming
    <3>2. EventsAre(Append(toHost, Head(eout)), b + 1, c + 1)
      BY <1>0, <1>3, <2>0, <2>2, <3>1, EventFollows DEF Coming
    <3>3. Coming(toHost', eout', b, c + 1, made') /\ c + 1 \in b .. made'
      BY <1>0, <2>0, <3>1, <3>2 DEF Coming
    <3> QED
      BY <3>3
  <2> QED
    BY <2>1, <2>2
<1> QED
  BY <1>0, <1>2, <1>3, StagesNext

(* The events of a job are numbered on from those made before it.           *)
LEMMA JobEventsAreNext ==
  ASSUME NEW n \in Nat, made \in Nat, esys \in Nat
  PROVE  EventsAre(JobEventsFrom(n), made + 1, made + n)
<1> DEFINE s == JobEventsFrom(n)
<1>1. /\ Len(s) = n /\ DOMAIN s = 1 .. n
      /\ \A i \in 1 .. n : s[i].type = "event" /\ s[i].about = made + i
  BY DEF JobEventsFrom, Message
<1> HIDE DEF s
<1>2. \A i \in 0 .. n : EventNumbers(s, i) = made + 1 .. made + i
  <2> SUFFICES ASSUME NEW i \in 0 .. n PROVE EventNumbers(s, i) = made + 1 .. made + i
    OBVIOUS
  <2>1. ASSUME NEW x \in EventNumbers(s, i) PROVE x \in made + 1 .. made + i
    BY <1>1, <2>1 DEF EventNumbers
  <2>2. ASSUME NEW x \in made + 1 .. made + i PROVE x \in EventNumbers(s, i)
    <3>1. x - made \in 1 .. i /\ s[x - made].type = "event" /\ s[x - made].about = x
      BY <1>1
    <3> QED
      BY <3>1 DEF EventNumbers
  <2> QED
    BY <2>1, <2>2
<1>3. EventNumbers(s, Len(s)) = made + 1 .. made + n
  BY <1>1, <1>2
<1>4. ASSUME NEW i \in DOMAIN s PROVE EventNumbers(s, i - 1) = made + 1 .. s[i].about - 1
  <2>1. i \in 1 .. n /\ i - 1 \in 0 .. n /\ s[i].about - 1 = made + (i - 1)
    BY <1>1
  <2>2. EventNumbers(s, i - 1) = made + 1 .. made + (i - 1)
    BY <1>2, <2>1
  <2> QED
    BY <2>1, <2>2
<1> QED
  BY <1>3, <1>4 DEF EventsAre, s

LEMMA EventsMade ==
  ASSUME HostInv, NEW type \in {"plain", "start"}, ServeData(type),
         UNCHANGED <<toHost, hostVars, userVars>>
  PROVE  EventsMoveInOrder'
<1> DEFINE r == Message("reply", Head(toEquip).sys, Head(toEquip).about)
<1>0. HostTypeOK
  BY DEF HostInv, RequestsAreAnswered
<1>1. PICK n \in Nat : /\ eout = <<>> /\ eout' = <<r>> \o JobEventsFrom(n)
                       /\ <<r>> \in Seq(Messages) /\ JobEventsFrom(n) \in Seq(Messages)
                       /\ made' = made + n
  BY <1>0, ServedMessages
<1>2. made \in Nat /\ esys \in Nat /\ made + n \in Int /\ made <= made + n
  BY <1>0 DEF HostTypeOK
<1>3. <<r>>[1] = r /\ r.type = "event" => FALSE
  BY DEF Message
<1>4. EventsAre(<<r>>, made + 1, made)
  <2>1. /\ EventsAre(<<>>, made + 1, made) /\ <<>> \in Seq(Messages)
        /\ r \in Messages /\ <<r>> = Append(<<>>, r)
    <3>1. EventsAre(<<>>, made + 1, made) /\ <<>> \in Seq(Messages)
      BY <1>2, NoEvents, EmptyIsSeq
    <3>2. r \in Messages
      <4> HIDE DEF r
      <4>1. 1 \in 1 .. Len(<<r>>) /\ <<r>>[1] = r
        OBVIOUS
      <4> QED
        BY <1>1, <4>1, ElementOfSeq
    <3> HIDE DEF r
    <3>3. <<r>> = Append(<<>>, r)
      BY <3>2, SingleIs
    <3> QED
      BY <3>1, <3>2, <3>3
  <2>2. r.type # "event"
    BY DEF Message
  <2> HIDE DEF r
  <2>3. made + 1 \in Int /\ made \in Int
    BY <1>2
  <2> QED
    BY <2>1, <2>2, <2>3, OtherFollows
<1> HIDE DEF r
<1>5. EventsAre(JobEventsFrom(n), made + 1, made + n)
  BY <1>2, JobEventsAreNext
<1>6. EventsAre(eout', made + 1, made + n)
  <2>1. made + 1 \in Int /\ made \in Int /\ made + n \in Int /\ made + 1 <= made + 1 /\ made <= made + n
    BY <1>2
  <2> QED
    BY <1>1, <1>4, <1>5, <2>1, EventsFollow
<1>7. UNCHANGED <<taken, inbox, toHost>> /\ (StreamIsWhole' => StreamIsWhole)
  BY DEF hostVars, userVars, StreamIsWhole
<1>8. PICK a \in 0 .. made : \E b \in 0 .. made :
         /\ Stages(taken, inbox, a, b)
         /\ StreamIsWhole => \E c \in b .. made : Coming(toHost, eout, b, c, made)
  BY StagesNow
<1>9. PICK b \in 0 .. made :
         /\ Stages(taken, inbox, a, b)
         /\ StreamIsWhole => \E c \in b .. made : Coming(toHost, eout, b, c, made)
  BY <1>8
<1>10. ASSUME NEW c \in b .. made, Coming(toHost, eout, b, c, made)
       PROVE  \E d \in b .. made' : Coming(toHost', eout', b, d, made')
  <2>1. c = made
    <3>1. EventNumbers(eout, Len(eout)) = c + 1 .. made /\ Len(eout) = 0
      BY <1>1, <1>10 DEF Coming, EventsAre
    <3>2. c + 1 .. made = {}
      BY <3>1, NumbersOfNone
    <3> QED
      BY <1>2, <3>2
  <2>2. Coming(toHost', eout', b, made, made') /\ made \in b .. made'
    BY <1>1, <1>2, <1>6, <1>7, <1>10, <2>1 DEF Coming
  <2> QED
    BY <2>2
<1>11. a \in 0 .. made' /\ b \in 0 .. made'
  BY <1>1, <1>2
<1> QED
  BY <1>7, <1>9, <1>10, <1>11, StagesNext


LEMMA EventsSelected ==
  ASSUME HostInv, ServeSelect, UNCHANGED <<toHost, hostVars, userVars>>
  PROVE  EventsMoveInOrder'
<1> DEFINE r == Message("select.rsp", Head(toEquip).sys, 0)
<1>1. /\ eout = <<>> /\ eout' = <<r>> /\ toEquip # <<>> /\ made' = made
      /\ UNCHANGED <<taken, inbox, toHost>> /\ (StreamIsWhole' => StreamIsWhole)
  BY DEF ServeSelect, Serves, hostVars, userVars, StreamIsWhole
<1>2. toEquip \in Seq(Messages) /\ made \in Nat
  BY DEF HostInv, RequestsAreAnswered, HostTypeOK
<1>3. r \in Messages /\ r.type # "event"
  <2>1. Head(toEquip) \in Messages
    BY <1>1, <1>2, TailIs
  <2>2. Head(toEquip).sys \in Nat /\ 0 \in Nat
    BY <2>1 DEF Messages
  <2>3. \A sys \in Nat : /\ Message("select.rsp", sys, 0) \in Messages
                         /\ Message("select.rsp", sys, 0).type = "select.rsp"
    BY MessageIs
  <2>4. r \in Messages /\ r.type = "select.rsp"
    BY <2>2, <2>3
  <2> QED
    BY <2>4
<1> HIDE DEF r
<1>4. eout' = Append(<<>>, r) /\ <<>> \in Seq(Messages)
  BY <1>1, <1>3, SingleIs, EmptyIsSeq
<1>5. ASSUME NEW b \in 0 .. made, NEW c \in b .. made, Coming(toHost, eout, b, c, made)
      PROVE  Coming(toHost', eout', b, c, made')
  <2>1. c + 1 \in Int /\ made \in Int /\ EventsAre(<<>>, c + 1, made)
    BY <1>1, <1>2, <1>5 DEF Coming
  <2>2. EventsAre(Append(<<>>, r), c + 1, made)
    BY <1>3, <1>4, <2>1, OtherFollows
  <2> QED
    BY <1>1, <1>4, <1>5, <2>2 DEF Coming
<1>6. PICK a \in 0 .. made : \E b \in 0 .. made :
         /\ Stages(taken, inbox, a, b)
         /\ StreamIsWhole => \E c \in b .. made : Coming(toHost, eout, b, c, made)
  BY StagesNow
<1>7. PICK b \in 0 .. made :
         /\ Stages(taken, inbox, a, b)
         /\ StreamIsWhole => \E c \in b .. made : Coming(toHost, eout, b, c, made)
  BY <1>6
<1> QED
  BY <1>1, <1>5, <1>7, StagesNext

(* A frame that is no event changes nothing of them.                        *)
LEMMA EventsLinktest ==
  ASSUME HostInv, Linktest
  PROVE  EventsMoveInOrder'
<1> DEFINE r == Message("linktest", 0, 0)
<1>1. /\ toHost = <<>> /\ toHost' = <<r>> /\ UNCHANGED <<taken, inbox, eout, made>>
      /\ (StreamIsWhole' => StreamIsWhole) /\ made \in Nat
  BY DEF Linktest, equipVars, hostVars, userVars, StreamIsWhole, HostInv, RequestsAreAnswered,
         HostTypeOK
<1>2. r \in Messages /\ r.type # "event"
  BY MessageIs
<1> HIDE DEF r
<1>3. toHost' = Append(<<>>, r) /\ <<>> \in Seq(Messages)
  BY <1>1, <1>2, SingleIs, EmptyIsSeq
<1>4. PICK a \in 0 .. made : \E b \in 0 .. made :
         /\ Stages(taken, inbox, a, b)
         /\ StreamIsWhole => \E c \in b .. made : Coming(toHost, eout, b, c, made)
  BY StagesNow
<1>5. PICK b \in 0 .. made :
         /\ Stages(taken, inbox, a, b)
         /\ StreamIsWhole => \E c \in b .. made : Coming(toHost, eout, b, c, made)
  BY <1>4
<1>6. ASSUME NEW c \in b .. made, Coming(toHost, eout, b, c, made)
      PROVE  Coming(toHost', eout', b, c, made')
  <2>1. b + 1 \in Int /\ c \in Int /\ EventsAre(<<>>, b + 1, c)
    BY <1>1, <1>6 DEF Coming
  <2>2. EventsAre(Append(<<>>, r), b + 1, c)
    BY <1>2, <1>3, <2>1, OtherFollows
  <2> QED
    BY <1>1, <1>3, <1>6, <2>2 DEF Coming
<1> QED
  BY <1>1, <1>5, <1>6, StagesNext

LEMMA EventsAtConnection ==
  ASSUME taken' = <<>>, inbox' = <<>>, toHost' = <<>>, eout' = <<>>, made' = 0
  PROVE  EventsMoveInOrder'
<1>1. 0 \in 0 .. made' /\ EventsAre(<<>>, 0 + 1, 0) /\ 0 + 1 = 1 /\ 0 <= 0
  BY NoEvents
<1>2. Stages(taken', inbox', 0, 0) /\ Coming(toHost', eout', 0, 0, made')
  BY <1>1 DEF Stages, Coming
<1> QED
  BY <1>1, <1>2, StagesNext

LEMMA StepEvents ==
  ASSUME HostInv, [HostNext]_sessionVars
  PROVE  EventsMoveInOrder'
<1>0. HostTypeOK'
  BY StepTypes
<1>1. CASE ConnectHost
  BY <1>1, EventsAtConnection DEF ConnectHost
<1>2. CASE Drop \/ Disconnected
  BY <1>2, EventsDropped DEF Drop, Disconnected, Forget, userVars
<1>3. CASE NextFromInbox
  BY <1>3, EventsFromInbox
<1>4. CASE NextFromSocket \/ Tick \/ ReadPrefix \/ Misread
  BY <1>4, EventsStay
  DEF NextFromSocket, Tick, ReadPrefix, Misread, StreamIsWhole, Receiving, equipVars, userVars
<1>5. ASSUME NEW type \in {"plain", "start"}, RequestReply(type) PROVE EventsMoveInOrder'
  BY <1>5, EventsStay DEF RequestReply, StreamIsWhole, equipVars
<1>6. ASSUME NEW type \in {"plain", "start", "separate"}, SendOnly(type) PROVE EventsMoveInOrder'
  BY <1>6, EventsStay DEF SendOnly, StreamIsWhole, equipVars
<1>7. CASE SelectDone \/ RequestDone \/ RequestIgnores \/ EventIgnores
  <2>1. PICK m : ReadFrame(m) /\ m.type # "event"
    BY <1>7 DEF SelectDone, RequestDone, RequestIgnores, EventIgnores, IsReplyTo
  <2>2. UNCHANGED <<eout, made, taken, inbox>>
    BY <1>7 DEF SelectDone, RequestDone, RequestIgnores, EventIgnores, equipVars, userVars
  <2> QED
    BY <1>0, <2>1, <2>2, EventsRead
<1>8. CASE RequestQueues
  <2>1. PICK m : ReadFrame(m) /\ inbox' = Append(inbox, m)
    BY <1>8 DEF RequestQueues
  <2>2. UNCHANGED <<eout, made, taken>>
    BY <1>8 DEF RequestQueues, equipVars, userVars
  <2> QED
    BY <1>0, <2>1, <2>2, EventsRead
<1>9. CASE EventDone \/ EventAckFails
  <2>1. PICK m : ReadFrame(m) /\ taken' = Append(taken, m)
    BY <1>9 DEF EventDone, EventAckFails
  <2>2. UNCHANGED <<eout, made, inbox>> /\ inbox = <<>>
    BY <1>9 DEF EventDone, EventAckFails, equipVars, HostInv, ConnectionPhases
  <2> QED
    BY <1>0, <2>1, <2>2, EventsRead
<1>10. CASE TimedOut
  <2>1. CASE hpc = "selecting"
    BY <1>10, <2>1, EventsDropped DEF TimedOut, Forget, userVars
  <2>2. CASE hpc # "selecting"
    <3>1. /\ UNCHANGED <<taken, inbox, toHost, eout, made>> /\ hpc # "closed"
          /\ desync' = IF desync # "no" THEN desync
                       ELSE [nothing |-> "no", prefix |-> "idle", body |-> "t8"][got]
      BY <1>10, <2>2 DEF TimedOut, userVars, Receiving
    <3>2. StreamIsWhole' => StreamIsWhole
      BY <3>1 DEF StreamIsWhole
    <3> QED
      BY <3>1, <3>2, EventsStay
  <2> QED
    BY <2>1, <2>2
<1>11. CASE ServeSelect /\ UNCHANGED <<toHost, hostVars, userVars>>
  BY <1>11, EventsSelected
<1>12. CASE (ServeAck \/ ServeSeparate) /\ UNCHANGED <<toHost, hostVars, userVars>>
  BY <1>12, EventsStay DEF ServeAck, ServeSeparate, hostVars, userVars, equipVars, StreamIsWhole
<1>13. ASSUME NEW type \in {"plain", "start"}, ServeData(type), UNCHANGED <<toHost, hostVars, userVars>>
       PROVE  EventsMoveInOrder'
  BY <1>13, EventsMade
<1>14. CASE Write
  BY <1>14, EventsWritten
<1>15. CASE Break \/ UNCHANGED sessionVars
  BY <1>15, EventsStay DEF Break, sessionVars, hostVars, userVars, equipVars, StreamIsWhole
<1>16. CASE SendFails
  BY <1>16, EventsStay DEF SendFails, StreamIsWhole, equipVars
<1>17. CASE Linktest
  BY <1>17, EventsLinktest
<1> QED
  BY <1>1, <1>2, <1>3, <1>4, <1>5, <1>6, <1>7, <1>8, <1>9, <1>10, <1>11, <1>12, <1>13, <1>14,
     <1>15, <1>16, <1>17, HostSteps

-----------------------------------------------------------------------------
(* The theorems *)

LEMMA InitHost == HostInit => HostInv
<1> SUFFICES ASSUME HostInit PROVE HostInv
  OBVIOUS
<1>1. /\ <<>> \in Seq(Messages) /\ DOMAIN <<>> = {} /\ NoMessage \in Messages
      /\ EventsAre(<<>>, 0 + 1, 0) /\ 0 + 1 = 1 /\ 1 .. 0 = {}
  BY EmptyIsSeq, MessageIs, NoEvents DEF NoMessage
<1>2. HostTypeOK
  BY <1>1, ConstantsAreNumbers DEF HostInit, HostTypeOK
<1>3. EventsMoveInOrder
  BY <1>1 DEF HostInit, EventsMoveInOrder, StreamIsWhole
<1> QED
  BY <1>1, <1>2, <1>3
  DEF HostInit, HostInv, RequestsAreAnswered, SelectedTogether, AnswersAreForTheRequest,
      ConnectionPhases, TransactionsAreMessages

(* The invariant of every session. *)
THEOREM HostInvariant == HostSpec => []HostInv
<1>1. HostInv /\ [HostNext]_sessionVars => HostInv'
  BY StepTypes, StepPhases, StepTransactions, StepEvents DEF HostInv, RequestsAreAnswered
<1> QED
  BY <1>1, InitHost, PTL DEF HostSpec

(* RequestsAreAnswered (HostClient::request): whatever was asked and given  *)
(* up before, and whatever numbers the equipment's events carry, a request  *)
(* on a connection both ends selected returns its own answer.               *)
THEOREM RequestsGetTheirAnswers == HostSpec => []RequestsAreAnswered
<1>1. HostInv => RequestsAreAnswered
  BY DEF HostInv
<1> QED
  BY <1>1, HostInvariant, PTL

(* EventsInOrder (request, next_event, handle_data): next_event takes the   *)
(* events in the order they were made, each once; none is missing between   *)
(* the equipment and next_event while no timeout has cut a frame; and       *)
(* next_event keeps one from the user (a failed acknowledgement) only on a  *)
(* connection that has been closed.                                         *)
THEOREM EventsStayInOrder == HostSpec => []EventsInOrder
<1>1. ASSUME HostInv PROVE EventsInOrder
  <2>0. /\ taken \in Seq(Messages) /\ inbox \in Seq(Messages) /\ made \in Nat
        /\ toHost \in Seq(Messages) /\ eout \in Seq(Messages)
    BY <1>1 DEF HostInv, RequestsAreAnswered, HostTypeOK
  <2>1. PICK a \in 0 .. made : \E b \in 0 .. made :
           /\ Stages(taken, inbox, a, b)
           /\ StreamIsWhole => \E c \in b .. made : Coming(toHost, eout, b, c, made)
    BY <1>1, StagesNow
  <2>2. PICK b \in 0 .. made :
           /\ Stages(taken, inbox, a, b)
           /\ StreamIsWhole => \E c \in b .. made : Coming(toHost, eout, b, c, made)
    BY <2>1
  <2>3. a \in Int /\ b \in Int /\ 1 <= a + 1 /\ a <= b /\ 1 <= b + 1 /\ b <= made
    BY <2>0, <2>2 DEF Stages
  <2>4. EventsAre(taken \o inbox, 1, b) /\ taken \o inbox \in Seq(Messages)
    BY <2>0, <2>2, <2>3, EventsFollow, ConcatProperties DEF Stages
  <2>5. ASSUME NEW c \in b .. made, Coming(toHost, eout, b, c, made)
        PROVE  EventsAre(taken \o inbox \o toHost \o eout, 1, made)
    <3>1. c \in Int /\ b <= c /\ 1 <= c + 1 /\ c <= made /\ made \in Int
      BY <2>0, <2>3
    <3>2. /\ EventsAre(taken \o inbox \o toHost, 1, c)
          /\ taken \o inbox \o toHost \in Seq(Messages)
      <4>1. /\ EventsAre(toHost, b + 1, c) /\ b \in Int /\ 1 \in Int
            /\ taken \o inbox \in Seq(Messages)
        BY <2>3, <2>4, <2>5 DEF Coming
      <4> QED
        BY <2>0, <2>3, <2>4, <3>1, <4>1, EventsFollow, ConcatProperties
    <3>3. EventsAre(eout, c + 1, made) /\ 1 \in Int
      BY <2>5 DEF Coming
    <3> QED
      BY <2>0, <3>1, <3>2, <3>3, EventsFollow
  <2>6. epc # "closed" => lost = {}
    BY <1>1 DEF HostInv, ConnectionPhases
  <2> QED
    BY <2>2, <2>4, <2>5, <2>6 DEF EventsInOrder
<1> QED
  BY <1>1, HostInvariant, PTL

=============================================================================
